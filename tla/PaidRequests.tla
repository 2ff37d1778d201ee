---------------------------- MODULE PaidRequests ----------------------------
(***************************************************************************)
(* The ledger of paid Bright Data requests (app/brightdata_state.py) and   *)
(* the requests that go through it (scrape_html in                         *)
(* app/brightdata_backend.py).  The ledger is one file, read and replaced  *)
(* under a file lock, so each call is one step; the moment that a call     *)
(* works with is taken before it waits for the lock.  Limit, threshold and *)
(* cooldown do not change while requests are open.                         *)
(***************************************************************************)
EXTENDS Naturals, FiniteSets

CONSTANTS Requests,        \* bound: requests ever made
          Limit,           \* monthly_limit
          Threshold,       \* circuit_failure_threshold
          Cooldown,        \* circuit_cooldown_seconds
          Ttl,             \* _STALE_RESERVATION_SECONDS
          PeriodLength,    \* ticks of a month
          Baseline,        \* billed before the ledger existed
          MaxTime,         \* bound: the clock
          MaxKills         \* bound: processes killed

VARIABLES ledger, req, now, kills

vars == <<ledger, req, now, kills>>

PeriodOf(t) == t \div PeriodLength

Ledger == [period   : Nat,
           billed   : Nat,                  \* billed_requests
           failures : Nat,                  \* consecutive_failures
           open     : Nat,                  \* circuit_open_until, 0: None
           res      : SUBSET Requests]      \* reservations

Outcomes == {"billed", "unbilled", "unknown"}
Request == [pc      : {"new", "reserving", "refused", "reserved", "sent",
                       "finishing", "done", "dead"},
            moment  : Nat,                  \* the moment of the call under way
            at      : Nat,                  \* reserved_at
            known   : Outcomes,             \* what the response says
            ok      : BOOLEAN,              \* succeeded
            cost    : BOOLEAN]              \* whether the provider charged it

Init == /\ ledger = [period |-> 0, billed |-> Baseline, failures |-> 0,
                     open |-> 0, res |-> {}]
        /\ req = [r \in Requests |->
                    [pc |-> "new", moment |-> 0, at |-> 0, known |-> "unbilled",
                     ok |-> FALSE, cost |-> FALSE]]
        /\ now = 0
        /\ kills = 0

-----------------------------------------------------------------------------
(* _load_state with rollover: a new month starts with the reservations of  *)
(* the old one.                                                            *)
RolledOver_Forgets(l, m) ==                                       \* mutant
  IF l.period < PeriodOf(m)
  THEN [l EXCEPT !.period = PeriodOf(m), !.billed = 0, !.res = {}] ELSE l
RolledOver(l, m) ==
  IF l.period < PeriodOf(m)
  THEN [l EXCEPT !.period = PeriodOf(m), !.billed = 0] ELSE l

Expired(l, m) == {r \in l.res : req[r].at + Ttl <= m}

Tripped(failures, m, open) ==
  IF failures >= Threshold THEN m + Cooldown ELSE open

(* _expire_stale_reservations: what a process has left open is charged.    *)
Swept_Free(l, m) == [l EXCEPT !.res = l.res \ Expired(l, m)]      \* mutant
Swept(l, m) ==
  LET n == Cardinality(Expired(l, m)) IN
  IF n = 0 THEN l ELSE
  [l EXCEPT !.res = l.res \ Expired(l, m),
            !.billed = l.billed + n,
            !.failures = l.failures + n,
            !.open = Tripped(l.failures + n, m, l.open)]

(* An open circuit whose cooldown is over lets one probe through.          *)
Closing(l) == IF l.failures < Threshold THEN [l EXCEPT !.open = 0] ELSE l

Capacity_Full(l) == Threshold                                     \* mutant
Capacity(l) == IF l.failures >= Threshold THEN 1 ELSE Threshold - l.failures

Open(l, m) == l.open # 0 /\ m < l.open
Exhausted_Billed(l) == l.billed >= Limit                          \* mutant
Exhausted(l) == l.billed + Cardinality(l.res) >= Limit

-----------------------------------------------------------------------------
Ended(r, pc) == req' = [req EXCEPT ![r].pc = pc, ![r].moment = 0,
                                   ![r].known = "unbilled", ![r].ok = FALSE]

(* A process asks for a request, and later gets the lock.                  *)
Ask(r) ==
  /\ req[r].pc = "new"
  /\ req' = [req EXCEPT ![r].pc = "reserving", ![r].moment = now]
  /\ UNCHANGED <<ledger, now, kills>>

(* reserve_request: the ledger is swept and written also when it refuses.  *)
Reserve(r) ==
  LET m == req[r].moment
      l == Swept(RolledOver(ledger, m), m)
      c == Closing(l)
  IN
  /\ req[r].pc = "reserving"
  /\ ledger.period <= PeriodOf(m)
  /\ \/ /\ Open(l, m)
        /\ ledger' = l
        /\ Ended(r, "refused")
     \/ /\ ~Open(l, m)
        /\ Exhausted(l) \/ Cardinality(l.res) >= Capacity(l)
        /\ ledger' = c
        /\ Ended(r, "refused")
     \/ /\ ~Open(l, m) /\ ~Exhausted(l) /\ Cardinality(l.res) < Capacity(l)
        /\ ledger' = [c EXCEPT !.res = c.res \cup {r}]
        /\ req' = [req EXCEPT ![r].pc = "reserved", ![r].at = m,
                              ![r].moment = 0]
  /\ UNCHANGED <<now, kills>>

(* The request is sent; the provider charges it or not, and the response,  *)
(* if there is one, may say which.  A success is accepted content.         *)
Send(r) ==
  /\ req[r].pc = "reserved"
  /\ \E known \in Outcomes, ok \in BOOLEAN, cost \in BOOLEAN :
        /\ known = "billed" => cost
        /\ known = "unbilled" => ~cost
        /\ req' = [req EXCEPT ![r].pc = "sent", ![r].known = known,
                              ![r].ok = ok, ![r].cost = cost]
  /\ UNCHANGED <<ledger, now, kills>>

Report(r) ==
  /\ req[r].pc = "sent"
  /\ req' = [req EXCEPT ![r].pc = "finishing", ![r].moment = now]
  /\ UNCHANGED <<ledger, now, kills>>

(* finish_request, without a rollover: an unknown outcome is charged, to   *)
(* whatever month the ledger is of.                                        *)
Charge(known) == IF known = "unbilled" THEN 0 ELSE 1

Finish(r) ==
  LET m == req[r].moment IN
  /\ req[r].pc = "finishing"
  /\ ledger.period <= PeriodOf(m)
  /\ r \in ledger.res
  /\ ledger' = [ledger EXCEPT
        !.res = ledger.res \ {r},
        !.billed = ledger.billed + Charge(req[r].known),
        !.failures = IF req[r].ok THEN 0 ELSE ledger.failures + 1,
        !.open = IF req[r].ok THEN 0
                 ELSE Tripped(ledger.failures + 1, m, ledger.open)]
  /\ Ended(r, "done")
  /\ UNCHANGED <<now, kills>>

(* The ledger is of a later month than the call, or the reservation has    *)
(* expired: the call fails and changes nothing.                            *)
Unavailable(r) ==
  /\ \/ req[r].pc \in {"reserving", "finishing"}
        /\ ledger.period > PeriodOf(req[r].moment)
     \/ req[r].pc = "finishing" /\ r \notin ledger.res
  /\ Ended(r, "done")
  /\ UNCHANGED <<ledger, now, kills>>

(* A process dies, before or after the provider has charged its request.   *)
Kill(r) ==
  /\ req[r].pc \in {"reserving", "reserved", "sent", "finishing"}
  /\ kills < MaxKills
  /\ kills' = kills + 1
  /\ Ended(r, "dead")
  /\ UNCHANGED <<ledger, now>>

Tick == now < MaxTime /\ now' = now + 1 /\ UNCHANGED <<ledger, req, kills>>

Next == \/ \E r \in Requests : \/ Ask(r) \/ Reserve(r) \/ Send(r) \/ Report(r)
                               \/ Finish(r) \/ Unavailable(r) \/ Kill(r)
        \/ Tick

Spec == Init /\ [][Next]_vars

ASSUME PaidRequestsAssumption ==
  /\ IsFiniteSet(Requests)
  /\ Limit \in Nat \ {0} /\ Threshold \in Nat \ {0}
  /\ Cooldown \in Nat \ {0} /\ Ttl \in Nat \ {0} /\ PeriodLength \in Nat \ {0}
  /\ Baseline \in 0..Limit
  /\ MaxTime \in Nat /\ MaxKills \in Nat

TypeOK == /\ ledger \in Ledger
          /\ req \in [Requests -> Request]
          /\ now \in Nat /\ kills \in Nat

-----------------------------------------------------------------------------
(* What the provider has charged for the requests that were reserved in a  *)
(* month, whenever the charge itself was made.                             *)
SpentOnReserved(p) == {r \in Requests : req[r].cost /\ PeriodOf(req[r].at) = p}

(* The cap by the month of the reservation: whatever is killed, expires,   *)
(* or is reported after the turn of the month, the requests reserved in a  *)
(* month cost no more than its limit.  The charges made within a month may *)
(* exceed it, by late ones for the month before (README, section 6).       *)
ReservationsCapped ==
  \A p \in 0..PeriodOf(now) : Cardinality(SpentOnReserved(p)) <= Limit

(* In all the provider has charged no more than the limit for each month   *)
(* that has begun: what a month's charges exceed the limit by was left     *)
(* unspent before.                                                         *)
TotalCap ==
  Cardinality({r \in Requests : req[r].cost}) <= Limit * (PeriodOf(now) + 1)

(* The ledger never has less than was charged for the requests reserved in *)
(* its month: what was paid for them is billed or still reserved.          *)
LedgerCovers ==
  Cardinality(SpentOnReserved(ledger.period) \ ledger.res) <= ledger.billed

(* A month's turn takes no reservation from a request that is under way:   *)
(* until it expires it is in the ledger.  (Its answer may fail all the     *)
(* same, with a moment of the month before: Unavailable.)                  *)
OnlyExpiryTakesAway ==
  \A r \in Requests :
    req[r].pc \in {"reserved", "sent", "finishing"} /\ r \notin ledger.res
      => req[r].at + Ttl <= now

(* Against a failing provider no more requests are open than may fail      *)
(* before the circuit opens, and once it has opened, one probe.            *)
NoBurst == LET open == Cardinality(ledger.res) IN
           IF ledger.failures >= Threshold THEN open <= 1
           ELSE ledger.failures + open <= Threshold
=============================================================================
