SPECIFICATION Spec
CONSTANTS
  None = None
  s1 = s1
  s2 = s2
  q1 = q1
  q2 = q2
  r1 = r1
  Sources = {s1, s2}
  Requests = {q1}
  Recoveries = {}
  Selections <- AnySelection
  FetchResults <- SomeKinds
  MaxPending = 2
  MaxRecent = 4
  MaxRuns = 3
  MaxRestarts = 1
  MaxFaults = 1
INVARIANTS NoDeadlock OneFetcher ThreadMatchesRun TerminalComplete
PROPERTIES TerminalStays
CHECK_DEADLOCK FALSE
