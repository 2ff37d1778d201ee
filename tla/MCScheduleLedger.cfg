SPECIFICATION Spec
CONSTANTS
  None = None
  s1 = s1
  s2 = s2
  p1 = p1
  p2 = p2
  Sources = {s1, s2}
  Specs <- TwoSpecs
  Procs = {p1, p2}
  Horizon = 3
  Grace = 1
  MaxWait = 2
  MaxTime = 5
  MaxChanges = 2
SYMMETRY Exchange
INVARIANTS TypeOK CoverageComplete ClaimsKeepRows
PROPERTIES OldRowsStay
CHECK_DEADLOCK FALSE
