SPECIFICATION Spec
CONSTANTS
  None = None
  Rows = {1, 2, 6}
  StableRows = 2
  EarlyRows = 1
  GateRows = 2
  KeepTenths = 7
  MinAge = 2
  MaxTime = 7
  MaxPolicies = 2
  MaxKills = 1
INVARIANTS StableChannelIsNewest AnswersAreCurrent
PROPERTIES ShrinkIsConfirmed
CHECK_DEADLOCK FALSE
