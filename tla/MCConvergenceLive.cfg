SPECIFICATION FairSpec
CONSTANTS
  None = None
  c1 = c1
  c2 = c2
  s1 = s1
  s2 = s2
  w1 = w1
  w2 = w2
  o1 = o1
  o2 = o2
  Chains = {c1, c2}
  Sources = {s1}
  Owners = {o1, o2}
  Workers = {w1}
  DelaysOf <- Delays
  CohortOf <- OneCohort
  OwnerOf <- SharedPid
  LeaseOf <- Lease1
  EligibleFor <- AllEligible
  SpanOf <- Span3
  PlannedActions = {"retry_transport", "retry_local"}
  SourceResults <- TwoResults
  MaxTime = 5
  PlanUntil = 1
  MaxLag = 0
  MaxSpend = 0
  MaxCrashes = 1
PROPERTIES EventuallySettled PrimaryCloses
