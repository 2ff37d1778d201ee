SPECIFICATION Spec
CONSTANTS
  None = None
  a = a
  b = b
  Procs = {a, b}
  MaxVersions = 3
  Retention = 2
  MaxCalls = 1
  MaxStartups = 1
  MaxFaults = 0
  MaxKills = 0
SYMMETRY Exchange
PROPERTIES RepairKeepsHealthy
CHECK_DEADLOCK FALSE
