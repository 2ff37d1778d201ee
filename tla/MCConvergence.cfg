SPECIFICATION Spec
CONSTANTS
  None = None
  c1 = c1
  c2 = c2
  s1 = s1
  s2 = s2
  w1 = w1
  w2 = w2
  o1 = o1
  o2 = o2
  Chains = {c1}
  Sources = {s1}
  Owners = {o1, o2}
  Workers = {w1, w2}
  DelaysOf <- Delays
  CohortOf <- OneCohort
  OwnerOf <- SharedPid
  LeaseOf <- Lease1
  EligibleFor <- AllEligible
  SpanOf <- Span4
  PlannedActions = {"retry_transport"}
  SourceResults <- ThreeResults
  MaxTime = 6
  PlanUntil = 2
  MaxLag = 0
  MaxSpend = 1
  MaxCrashes = 1
INVARIANTS TypeOK RunningAttempt RefusedOnlyPastDeadline PaidAccounts
PROPERTIES CurrentWorkerDecides SettledStays ImplementsFencedRecovery
