SPECIFICATION Spec
CONSTANTS
  r1 = r1
  r2 = r2
  r3 = r3
  Requests = {r1, r2, r3}
  Limit = 2
  Threshold = 2
  Cooldown = 1
  Ttl = 2
  PeriodLength = 3
  Baseline = 0
  MaxTime = 4
  MaxKills = 1
SYMMETRY Exchange
INVARIANTS ReservationsCapped LedgerCovers OnlyExpiryTakesAway NoBurst
CHECK_DEADLOCK FALSE
