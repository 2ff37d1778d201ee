SPECIFICATION FairSpec
CONSTANTS
  None = None
  s1 = s1
  s2 = s2
  q1 = q1
  q2 = q2
  r1 = r1
  Sources = {s1, s2}
  Requests = {q1}
  Recoveries = {r1}
  Selections <- AnySelection
  FetchResults = {}
  MaxPending = 2
  MaxRecent = 3
  MaxRuns = 5
  MaxRestarts = 1
  MaxFaults = 0
INVARIANTS NothingNeededIsDropped
PROPERTIES AcceptedRunsFinish ImplementsRunQueue
CHECK_DEADLOCK FALSE
