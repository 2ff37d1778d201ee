SPECIFICATION FairSpec
CONSTANTS
  None = None
  s1 = s1
  s2 = s2
  k1 = k1
  w1 = w1
  p1 = p1
  Chains <- ChainIds
  Sources = {s1, s2}
  Owners = {}
  Planners = {p1}
  Windows = {w1}
  RunWindows = {w1}
  Slots <- LateSlot
  DelaysOf <- Delays
  CohortOf <- CohortSources
  CohortId <- OneCohort
  SpanOf <- Span2
  RunResults <- ThreeResults
  BatchLimit = 1
  Lookback = 1
  MaxEvents = 2
  MaxTime = 3
  MaxLag = 1
  MaxCrashes = 1
INVARIANTS CursorCovers
PROPERTIES FailuresArePlanned SlotsAreSettled
