SPECIFICATION Spec
CONSTANTS
  None = None
  a = a
  b = b
  Procs = {a, b}
  MaxVersions = 3
  Retention = 2
  MaxCalls = 1
  MaxStartups = 1
  MaxFaults = 1
  MaxKills = 1
SYMMETRY Exchange
INVARIANTS KeptHaveFiles QuietAgreement
PROPERTIES NewestAttemptDecides RefreshNeverGoesBack StatusOnlyAdvances ImplementsPublishedPointer
CHECK_DEADLOCK FALSE
