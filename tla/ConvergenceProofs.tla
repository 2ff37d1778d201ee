------------------------- MODULE ConvergenceProofs -------------------------
(***************************************************************************)
(* Theorems about Convergence, for any number of chains, sources, workers  *)
(* and attempts.  IInv is inductive: typing needs the claim rows (a report *)
(* reads the row of its claim) and the finiteness of the attempts (their   *)
(* number indexes the delays); the lease columns and the running attempt   *)
(* need the attempt numbers, which make a claim's row unique.              *)
(***************************************************************************)
EXTENDS Convergence, FiniteSetTheorems, TLAPS

(* InitialState never yields a state outside the table's.                  *)
LEMMA InitialStateType ==
  \A action \in RecoveryActions :
    InitialState(action) \in IF action \in RetryActions THEN Pending ELSE Parked
BY DEF InitialState, RecoveryActions, RetryActions, ParkActions, Pending, Parked

(* Every outcome gets a decision.                                          *)
LEMMA DecideType ==
  ASSUME NEW o, NEW r, NEW p
  PROVE  Decide(o, r, p) \in RecoveryActions \cup {"complete"}
BY DEF Decide, RecoveryActions, RetryActions, ParkActions

LEMMA VerdictType ==
  ASSUME NEW class
  PROVE  VerdictOf(class) \in RecoveryActions \cup {"complete"}
BY DecideType DEF VerdictOf

(* Unleased changes four columns and keeps the row's type.                 *)
LEMMA UnleasedFacts ==
  ASSUME NEW row \in ChainRow, NEW st \in ChainStates, NEW nx \in Nat \cup {None},
         NEW r, r = Unleased(row, st, nx)
  PROVE  /\ r \in ChainRow
         /\ r.state = st /\ r.next = nx /\ r.owner = None /\ r.until = None
         /\ r.index = row.index /\ r.action = row.action
         /\ r.deadline = row.deadline /\ r.sources = row.sources
         /\ r.created = row.created /\ r.paid = row.paid
BY DEF Unleased, ChainRow

(* What the sweep of claim_due does to one chain.                          *)
LEMMA SweptRowFacts ==
  ASSUME NEW c \in Chains, chain \in [Chains -> ChainRow], NEW t \in Nat,
         NEW r, r = SweptRow(c, t)
  PROVE  /\ r \in ChainRow
         /\ r.index = chain[c].index /\ r.action = chain[c].action
         /\ r.deadline = chain[c].deadline
         /\ \/ r = chain[c]
            \/ /\ r.state = "exhausted" /\ r.next = None
               /\ r.owner = None /\ r.until = None /\ chain[c].deadline <= t
               /\ chain[c].state \in Pending \cup {"running"}
            \/ /\ r.state = "waiting" /\ r.next = t /\ r.owner = None
               /\ r.until = None /\ chain[c].deadline > t /\ LeaseExpired(c, t)
         /\ LeaseExpired(c, t) => r.state \in {"waiting", "exhausted"}
<1>1. chain[c] \in ChainRow /\ {"waiting", "exhausted"} \subseteq ChainStates
  BY DEF ChainStates, Pending
<1>2. PICK row : row = IF LeaseExpired(c, t)
                       THEN Unleased(chain[c], "waiting", t) ELSE chain[c]
  OBVIOUS
<1>3. r = IF row.state \in Pending \cup {"running"} /\ row.deadline <= t
          THEN Unleased(row, "exhausted", None) ELSE row
  BY <1>2 DEF SweptRow
<1>4. /\ row \in ChainRow /\ row.index = chain[c].index
      /\ row.action = chain[c].action /\ row.deadline = chain[c].deadline
      /\ IF LeaseExpired(c, t)
         THEN /\ row.state = "waiting" /\ row.next = t
              /\ row.owner = None /\ row.until = None
              /\ chain[c].state = "running"
         ELSE row = chain[c]
  BY <1>1, <1>2, UnleasedFacts DEF LeaseExpired
<1>5. CASE row.state \in Pending \cup {"running"} /\ row.deadline <= t
  <2>1. r = Unleased(row, "exhausted", None)
    BY <1>3, <1>5
  <2>2. chain[c].state \in Pending \cup {"running"}
    BY <1>4, <1>5
  <2>3. /\ r \in ChainRow
        /\ r.state = "exhausted" /\ r.next = None
        /\ r.owner = None /\ r.until = None
        /\ r.index = row.index /\ r.action = row.action
        /\ r.deadline = row.deadline
    <3>1. row \in ChainRow /\ "exhausted" \in ChainStates /\ None \in Nat \cup {None}
      BY <1>1, <1>4
    <3>2. ASSUME NEW st \in ChainStates, NEW nx \in Nat \cup {None},
                 r = Unleased(row, st, nx)
          PROVE  /\ r \in ChainRow
                 /\ r.state = st /\ r.next = nx
                 /\ r.owner = None /\ r.until = None
                 /\ r.index = row.index /\ r.action = row.action
                 /\ r.deadline = row.deadline
      BY <3>1, <3>2, UnleasedFacts
    <3> QED BY <2>1, <3>1, <3>2
  <2> QED BY <1>4, <1>5, <2>2, <2>3
<1>6. CASE ~(row.state \in Pending \cup {"running"} /\ row.deadline <= t)
  <2>1. r = row /\ row.deadline \in Nat
    BY <1>3, <1>4, <1>6 DEF ChainRow
  <2>2. CASE LeaseExpired(c, t)
    BY <1>4, <1>6, <2>1, <2>2 DEF Pending
  <2>3. CASE ~LeaseExpired(c, t)
    BY <1>4, <2>1, <2>3
  <2> QED BY <2>2, <2>3
<1> QED BY <1>5, <1>6

-----------------------------------------------------------------------------
(* IInv's statement about the ledger, for any tables and any time, so that *)
(* a transaction of two statements can be followed one at a time.          *)
RowOK(r) ==
  /\ r \in ChainRow
  /\ r.action = "complete" => r.state = "fresh"
  /\ r.state = "absent" => r.index = 0
  /\ (r.state = "running") <=> (r.owner # None)
  /\ (r.owner # None) <=> (r.until # None)
  /\ (r.state \in Pending) <=> (r.next # None)
  /\ r.state \in Pending => r.next < r.deadline

AttemptOK(a, r, t) ==
  /\ a \in AttemptRow
  /\ a.number \in 1..r.index
  /\ a.state = "running" =>
       /\ a.number = r.index
       /\ \/ r.state = "running" /\ r.owner = a.worker
          \/ r.state \in {"exhausted", "fresh"} /\ r.deadline <= t

SameKey(a, b) == a.chain = b.chain /\ a.number = b.number

LedgerOK(rows, atts, t) ==
  /\ DOMAIN rows = Chains /\ rows = [c \in Chains |-> rows[c]]
  /\ \A c \in Chains : RowOK(rows[c])
  /\ IsFiniteSet(atts)
  /\ \A a \in atts : AttemptOK(a, rows[a.chain], t)
  /\ \A a, b \in atts : SameKey(a, b) => a = b

KeysKept(old, new) ==
  \A a \in old : \E b \in new : SameKey(a, b) /\ b.worker = a.worker

WorldTypeOK ==
  /\ now \in Nat
  /\ worker \in [Workers -> Run]
  /\ primary \in [Sources -> Nat]
  /\ freshAt \in [Sources -> Nat]
  /\ spent \in [Chains -> Nat]
  /\ crashes \in Nat

WorkersOK ==
  /\ WorldTypeOK
  /\ \A w \in Workers : Held(w) =>
       \E a \in attempts : /\ a.chain = worker[w].chain
                           /\ a.number = worker[w].number
                           /\ a.worker = OwnerOf[w]

LEMMA IInvParts == IInv <=> LedgerOK(chain, attempts, now) /\ WorkersOK
<1>1. ASSUME IInv PROVE LedgerOK(chain, attempts, now) /\ WorkersOK
  <2>1. chain \in [Chains -> ChainRow] /\ attempts \subseteq AttemptRow
    BY <1>1 DEF IInv, TypeOK, StoreTypeOK
  <2>2. \A c \in Chains : RowOK(chain[c])
    BY <1>1, <2>1 DEF IInv, ClaimsRecorded, LeaseColumns, RowOK
  <2>3. \A a \in attempts : AttemptOK(a, chain[a.chain], now)
    BY <1>1, <2>1 DEF IInv, AttemptNumbers, RunningAttempt, AttemptOK
  <2>4. \A a, b \in attempts : SameKey(a, b) => a = b
    BY <1>1 DEF IInv, AttemptNumbers, SameKey
  <2>5. WorkersOK
    BY <1>1 DEF IInv, TypeOK, ClaimsRecorded, WorkersOK, WorldTypeOK
  <2> QED BY <1>1, <2>1, <2>2, <2>3, <2>4, <2>5 DEF LedgerOK, IInv
<1>2. ASSUME LedgerOK(chain, attempts, now), WorkersOK PROVE IInv
  <2>1. chain \in [Chains -> ChainRow] /\ attempts \subseteq AttemptRow
    BY <1>2 DEF LedgerOK, RowOK, AttemptOK
  <2>2. TypeOK
    BY <1>2, <2>1 DEF TypeOK, StoreTypeOK, WorkersOK, WorldTypeOK
  <2>3. ClaimsRecorded /\ LeaseColumns
    BY <1>2 DEF LedgerOK, RowOK, WorkersOK, ClaimsRecorded, LeaseColumns
  <2>4. AttemptNumbers
    BY <1>2 DEF LedgerOK, AttemptOK, SameKey, AttemptNumbers
  <2>5. RunningAttempt
    BY <1>2, <2>1 DEF LedgerOK, AttemptOK, SameKey, RunningAttempt, AttemptRow
  <2> QED BY <1>2, <2>2, <2>3, <2>4, <2>5 DEF IInv, LedgerOK
<1> QED BY <1>1, <1>2

(* Workers keep their claims over a step that only adds attempts or        *)
(* rewrites their outcome.                                                 *)
LEMMA WorkersKept ==
  ASSUME WorkersOK, KeysKept(attempts, attempts'), WorldTypeOK',
         \A w \in Workers : Held(w)' => /\ Held(w)
                                        /\ worker[w]'.chain = worker[w].chain
                                        /\ worker[w]'.number = worker[w].number
  PROVE  WorkersOK'
BY DEF WorkersOK, KeysKept, SameKey, WorldTypeOK, Held

-----------------------------------------------------------------------------
(* The sweep of claim_due keeps the ledger's invariant and every claim.    *)
LEMMA SweepOK ==
  ASSUME LedgerOK(chain, attempts, now), now \in Nat, None \notin Nat
  PROVE  /\ LedgerOK(SweptChains(now), SweptAttempts(now), now)
         /\ KeysKept(attempts, SweptAttempts(now))
<1>1. chain \in [Chains -> ChainRow]
  BY DEF LedgerOK, RowOK
<1>2. ASSUME NEW c \in Chains PROVE RowOK(SweptChains(now)[c])
  <2>1. RowOK(chain[c])
    BY DEF LedgerOK
  <2>2. SweptChains(now)[c] = SweptRow(c, now)
    BY DEF SweptChains
  <2>3. PICK r : r = SweptChains(now)[c]
    OBVIOUS
  <2>4. /\ r \in ChainRow /\ r.action = chain[c].action
        /\ r.deadline = chain[c].deadline
        /\ \/ r = chain[c]
           \/ /\ r.state = "exhausted" /\ r.next = None
              /\ r.owner = None /\ r.until = None
              /\ chain[c].state \in Pending \cup {"running"}
           \/ /\ r.state = "waiting" /\ r.next = now /\ r.owner = None
              /\ r.until = None /\ chain[c].deadline > now
              /\ LeaseExpired(c, now)
    BY <1>1, <2>2, <2>3, SweptRowFacts
  <2>5. chain[c].deadline \in Nat
    BY <1>1 DEF ChainRow
  <2>6. CASE r = chain[c]
    BY <2>1, <2>3, <2>6
  <2>7. CASE r # chain[c]
    <3>1. RowOK(r)
      BY <2>1, <2>4, <2>5, <2>7 DEF RowOK, Pending, LeaseExpired
    <3> QED BY <3>1, <2>3
  <2> QED BY <2>6, <2>7
<1>3. ASSUME NEW a \in attempts
      PROVE  /\ AttemptOK(SweptAttempt(a, now), SweptChains(now)[a.chain], now)
             /\ SameKey(a, SweptAttempt(a, now))
             /\ SweptAttempt(a, now).worker = a.worker
             /\ SweptAttempt(a, now).chain = a.chain
  <2>1. a \in AttemptRow /\ AttemptOK(a, chain[a.chain], now)
    BY DEF LedgerOK, AttemptOK
  <2>2. a.chain \in Chains
    BY <2>1 DEF AttemptRow
  <2>3. PICK r : r = SweptChains(now)[a.chain]
    OBVIOUS
  <2>4. r = SweptRow(a.chain, now)
    BY <2>2, <2>3 DEF SweptChains
  <2>5. /\ r.index = chain[a.chain].index
        /\ r.deadline = chain[a.chain].deadline
        /\ \/ r = chain[a.chain]
           \/ r.state = "exhausted" /\ chain[a.chain].deadline <= now
           \/ LeaseExpired(a.chain, now)
        /\ LeaseExpired(a.chain, now) => r.state \in {"waiting", "exhausted"}
    BY <1>1, <2>2, <2>4, SweptRowFacts
  <2>6. CASE a.state = "running" /\ LeaseExpired(a.chain, now)
    <3>1. SweptAttempt(a, now) =
            [a EXCEPT !.state = "failed", !.reason = "lease_expired"]
      BY <2>6 DEF SweptAttempt
    <3>2. /\ SweptAttempt(a, now) \in AttemptRow
          /\ SweptAttempt(a, now).state = "failed"
          /\ SweptAttempt(a, now).chain = a.chain
          /\ SweptAttempt(a, now).number = a.number
          /\ SweptAttempt(a, now).worker = a.worker
      BY <2>1, <3>1 DEF AttemptRow
    <3>3. AttemptOK(SweptAttempt(a, now), r, now)
      BY <2>1, <2>5, <3>2 DEF AttemptOK
    <3> QED BY <2>3, <3>2, <3>3 DEF SameKey
  <2>7. CASE ~(a.state = "running" /\ LeaseExpired(a.chain, now))
    <3>1. SweptAttempt(a, now) = a
      BY <2>7 DEF SweptAttempt
    <3>2. AttemptOK(a, r, now)
      BY <2>1, <2>5, <2>7 DEF AttemptOK
    <3> QED BY <2>3, <3>1, <3>2 DEF SameKey
  <2> QED BY <2>6, <2>7
<1>4. IsFiniteSet(SweptAttempts(now))
  <2> DEFINE f == [a \in attempts |-> SweptAttempt(a, now)]
  <2>1. f \in Surjection(attempts, SweptAttempts(now))
    BY DEF Surjection, SweptAttempts
  <2> QED BY <2>1, FS_Surjection DEF LedgerOK
<1>5. \A a \in SweptAttempts(now) :
        AttemptOK(a, SweptChains(now)[a.chain], now)
  BY <1>3 DEF SweptAttempts
<1>6. \A a, b \in SweptAttempts(now) : SameKey(a, b) => a = b
  BY <1>3 DEF SweptAttempts, SameKey, LedgerOK
<1>7. KeysKept(attempts, SweptAttempts(now))
  BY <1>3 DEF KeysKept, SweptAttempts
<1> HIDE DEF LedgerOK
<1>8. /\ DOMAIN SweptChains(now) = Chains
      /\ SweptChains(now) = [c \in Chains |-> SweptChains(now)[c]]
  BY DEF SweptChains
<1> QED BY <1>2, <1>4, <1>5, <1>6, <1>7, <1>8 DEF LedgerOK

-----------------------------------------------------------------------------
(* One statement of a transaction at a time.                               *)
LEMMA ReplaceRow ==
  ASSUME NEW rows, NEW atts, NEW t, LedgerOK(rows, atts, t),
         NEW c \in Chains, NEW r, RowOK(r),
         \A a \in atts : a.chain = c => AttemptOK(a, r, t)
  PROVE  LedgerOK([rows EXCEPT ![c] = r], atts, t)
BY DEF LedgerOK

LEMMA AddAttempt ==
  ASSUME NEW rows, NEW atts, NEW t, LedgerOK(rows, atts, t),
         NEW a, AttemptOK(a, rows[a.chain], t),
         \A b \in atts : ~SameKey(b, a)
  PROVE  LedgerOK(rows, atts \cup {a}, t)
<1>1. IsFiniteSet(atts \cup {a})
  BY FS_AddElement DEF LedgerOK
<1>2. \A b, d \in atts \cup {a} : SameKey(b, d) => b = d
  BY DEF LedgerOK, SameKey
<1> QED BY <1>1, <1>2 DEF LedgerOK

LEMMA ReplaceAttempt ==
  ASSUME NEW rows, NEW atts, NEW t, LedgerOK(rows, atts, t),
         NEW a \in atts, NEW b, SameKey(a, b), AttemptOK(b, rows[b.chain], t)
  PROVE  LedgerOK(rows, (atts \ {a}) \cup {b}, t)
<1>1. IsFiniteSet((atts \ {a}) \cup {b})
  <2>1. IsFiniteSet(atts \ {a})
    BY FS_RemoveElement DEF LedgerOK
  <2> QED BY <2>1, FS_AddElement
<1>2. \A d, e \in (atts \ {a}) \cup {b} : SameKey(d, e) => d = e
  BY DEF LedgerOK, SameKey
<1> QED BY <1>1, <1>2 DEF LedgerOK

LEMMA TimePasses ==
  ASSUME NEW rows, NEW atts, NEW t \in Nat, NEW u \in Nat, t <= u,
         LedgerOK(rows, atts, t)
  PROVE  LedgerOK(rows, atts, u)
<1>1. ASSUME NEW a \in atts PROVE AttemptOK(a, rows[a.chain], u)
  <2>1. AttemptOK(a, rows[a.chain], t) /\ rows[a.chain].deadline \in Nat
    BY DEF LedgerOK, AttemptOK, AttemptRow, RowOK, ChainRow
  <2> QED BY <2>1 DEF AttemptOK
<1> QED BY <1>1 DEF LedgerOK

-----------------------------------------------------------------------------
(* claim_due that claims: sweep, then the lease, then the attempt row.     *)
LEMMA ClaimOK ==
  ASSUME LedgerOK(chain, attempts, now), now \in Nat, None \notin Nat,
         None \notin Owners,
         NEW c \in Chains, NEW owner \in Owners, NEW lease \in Nat,
         NEW acts, NEW eligible, ClaimDue(c, owner, now, lease, acts, eligible)
  PROVE  /\ LedgerOK(chain', attempts', now)
         /\ KeysKept(attempts, attempts')
         /\ \E a \in attempts' : /\ a.chain = c /\ a.number = chain[c].index + 1
                                 /\ a.worker = owner
<1>1. chain \in [Chains -> ChainRow]
  BY DEF LedgerOK, RowOK
<1>2. PICK row : row = SweptRow(c, now)
  OBVIOUS
<1>3. row \in ChainRow /\ row.index = chain[c].index /\ row.state \in Pending
  BY <1>1, <1>2, SweptRowFacts DEF ClaimDue, EarliestDue, Due, Claimable
<1>4. /\ LedgerOK(SweptChains(now), SweptAttempts(now), now)
      /\ KeysKept(attempts, SweptAttempts(now))
  BY SweepOK
<1>5. SweptChains(now)[c] = row
  BY <1>2 DEF SweptChains
<1>6. row.action # "complete" /\ RowOK(row)
  BY <1>3, <1>4, <1>5 DEF LedgerOK, RowOK, Pending
<1>7. PICK nr : nr = [row EXCEPT !.state = "running", !.index = @ + 1,
                        !.next = None, !.owner = owner, !.until = now + lease]
  OBVIOUS
<1>8. PICK na : na = [chain |-> c, number |-> row.index + 1,
                      action |-> row.action, state |-> "running",
                      worker |-> owner, reason |-> "none", paid |-> 0]
  OBVIOUS
<1>9. /\ nr \in ChainRow /\ nr.state = "running" /\ nr.index = row.index + 1
      /\ nr.next = None /\ nr.owner = owner /\ nr.until = now + lease
      /\ nr.action = row.action
  <2>1. /\ row.index + 1 \in Nat /\ now + lease \in Nat \cup {None}
        /\ "running" \in ChainStates /\ owner \in Owners \cup {None}
        /\ None \in Nat \cup {None}
    BY <1>3 DEF ChainRow, ChainStates
  <2>2. nr = [row EXCEPT !.state = "running", !.index = row.index + 1,
                !.next = None, !.owner = owner, !.until = now + lease]
    BY <1>3, <1>7 DEF ChainRow
  <2> DEFINE i == row.index + 1
             u == now + lease
  <2> HIDE DEF i, u
  <2>3. i \in Nat /\ u \in Nat \cup {None}
    BY <2>1 DEF i, u
  <2>4. nr = [row EXCEPT !.state = "running", !.index = i,
                !.next = None, !.owner = owner, !.until = u]
    BY <2>2 DEF i, u
  <2>5. /\ nr \in ChainRow /\ nr.state = "running" /\ nr.index = i
        /\ nr.next = None /\ nr.owner = owner /\ nr.until = u
        /\ nr.action = row.action
    BY <1>3, <2>1, <2>3, <2>4 DEF ChainRow
  <2> QED BY <2>5 DEF i, u
<1>10. RowOK(nr)
  BY <1>6, <1>9 DEF RowOK, Pending
<1>11. na \in AttemptRow /\ na.chain = c /\ na.number = row.index + 1
       /\ na.worker = owner /\ na.state = "running"
  BY <1>3, <1>6, <1>8 DEF AttemptRow, ChainRow
<1>12. ASSUME NEW a \in SweptAttempts(now), a.chain = c
       PROVE  AttemptOK(a, nr, now) /\ a.number # row.index + 1
  <2>1. AttemptOK(a, row, now)
    BY <1>4, <1>5, <1>12 DEF LedgerOK
  <2>2. row.index \in Nat /\ a.number \in Nat
    BY <1>3, <2>1 DEF ChainRow, AttemptOK, AttemptRow
  <2> QED BY <1>3, <1>9, <2>1, <2>2 DEF AttemptOK, Pending
<1>13. LedgerOK([SweptChains(now) EXCEPT ![c] = nr], SweptAttempts(now), now)
  BY <1>4, <1>10, <1>12, ReplaceRow
<1>14. AttemptOK(na, nr, now)
  <2>1. row.index \in Nat
    BY <1>3 DEF ChainRow
  <2> QED BY <1>9, <1>11, <2>1 DEF AttemptOK
<1>15. chain' = [SweptChains(now) EXCEPT ![c] = nr]
       /\ attempts' = SweptAttempts(now) \cup {na}
  BY <1>2, <1>7, <1>8 DEF ClaimDue
<1>16. [SweptChains(now) EXCEPT ![c] = nr][na.chain] = nr
  BY <1>11 DEF SweptChains
<1>17. \A b \in SweptAttempts(now) : ~SameKey(b, na)
  BY <1>11, <1>12 DEF SameKey
<1>18. LedgerOK(chain', attempts', now)
  BY <1>13, <1>14, <1>15, <1>16, <1>17, AddAttempt
<1>19. KeysKept(attempts, attempts')
  BY <1>4, <1>15 DEF KeysKept
<1> QED BY <1>3, <1>11, <1>15, <1>18, <1>19

-----------------------------------------------------------------------------
(* The state and time that follow a report are those of a well-formed row. *)
LEMMA DispositionFacts ==
  ASSUME LedgerOK(chain, attempts, now), NEW a \in attempts, a.chain \in Chains,
         NEW action \in RecoveryActions \cup {"complete"}, NEW at \in Nat,
         None \notin Nat, DelaysAssumption
  PROVE  LET d == Disposition(a, action, at) IN
         /\ d.state \in ChainStates \ {"running", "absent"}
         /\ d.next \in Nat \cup {None}
         /\ (d.state \in Pending) <=> (d.next # None)
         /\ d.state \in Pending => d.next < chain[a.chain].deadline
         /\ action = "complete" => d.state = "fresh"
<1> DEFINE tried == CountOf(attempts, a.chain, action)
           retry == at + DelaysOf[action][tried + 1]
           d == Disposition(a, action, at)
<1>1. CASE action = "complete"
  BY <1>1 DEF Disposition, ChainStates, Pending
<1>2. CASE action \in ParkActions
  <2>1. d = [state |-> InitialState(action), next |-> None]
    BY <1>2 DEF Disposition, ParkActions
  <2>2. InitialState(action) \in Parked /\ action # "complete"
    BY <1>2 DEF InitialState, ParkActions, Parked
  <2> QED BY <2>1, <2>2 DEF Parked, Pending, ChainStates
<1>3. CASE action \in RetryActions
  <2>1. action # "complete" /\ action \notin ParkActions /\ action \in RecoveryActions
    BY <1>3 DEF RetryActions, ParkActions, RecoveryActions
  <2>2. tried \in Nat
    <3>1. {b \in AttemptsOf(attempts, a.chain) : b.action = action}
             \in SUBSET attempts
      BY DEF AttemptsOf
    <3> QED BY <3>1, FS_Subset, FS_CardinalityType DEF LedgerOK, CountOf
  <2>3. CASE tried >= MaxAttempts(action) \/ retry >= chain[a.chain].deadline
    <3>1. d = [state |-> "exhausted", next |-> None]
      BY <2>1, <2>3 DEF Disposition
    <3> QED BY <2>1, <3>1 DEF Pending, ChainStates
  <2>4. CASE ~(tried >= MaxAttempts(action) \/ retry >= chain[a.chain].deadline)
    <3>1. d = [state |-> InitialState(action), next |-> retry]
      BY <2>1, <2>4 DEF Disposition
    <3>2. InitialState(action) \in Pending
      BY <1>3 DEF InitialState, RetryActions, Pending
    <3>3. DelaysOf[action] \in Seq(Nat) /\ MaxAttempts(action) \in Nat
      BY <2>1 DEF DelaysAssumption, MaxAttempts
    <3>4. tried + 1 \in 1..Len(DelaysOf[action])
      BY <2>2, <2>4, <3>3 DEF MaxAttempts
    <3>5. DelaysOf[action][tried + 1] \in Nat
      BY <3>3, <3>4
    <3>6. retry \in Nat
      BY <3>5
    <3>7. chain[a.chain].deadline \in Nat
      BY DEF LedgerOK, RowOK, ChainRow
    <3>8. retry < chain[a.chain].deadline /\ retry # None
      BY <2>4, <3>6, <3>7
    <3>9. d.state = InitialState(action) /\ d.next = retry
      BY <3>1
    <3> HIDE DEF d, retry
    <3> QED BY <2>1, <3>2, <3>6, <3>8, <3>9 DEF Pending, ChainStates, d
  <2> QED BY <2>3, <2>4
<1> QED BY <1>1, <1>2, <1>3 DEF RecoveryActions

(* finish_attempt of a running attempt that is not refused.                *)
LEMMA FinishOK ==
  ASSUME LedgerOK(chain, attempts, now), NEW a \in attempts, NEW owner \in Owners,
         NEW action \in RecoveryActions \cup {"complete"}, NEW ok \in BOOLEAN,
         NEW paid \in Nat, NEW at \in Nat, None \notin Nat, None \notin Owners,
         DelaysAssumption,
         ~FinishIgnored(a, owner), ~FinishRefused(a, owner, action, ok, paid, at),
         FinishAttempt(a, action, ok, paid, at)
  PROVE  LedgerOK(chain', attempts', now) /\ KeysKept(attempts, attempts')
<1>1. AttemptOK(a, chain[a.chain], now) /\ a \in AttemptRow /\ a.chain \in Chains
  BY DEF LedgerOK, AttemptOK, AttemptRow
<1>2. PICK row : row = chain[a.chain]
  OBVIOUS
<1>3. row \in ChainRow /\ RowOK(row)
  BY <1>1, <1>2 DEF LedgerOK, RowOK
<1>4. a.state = "running" /\ row.owner = owner /\ row.state = "running"
  BY <1>2, <1>3 DEF FinishIgnored, FinishRefused, RowOK
<1>5. PICK d : d = Disposition(a, action, at)
  OBVIOUS
<1>6. /\ d.state \in ChainStates \ {"running", "absent"}
      /\ d.next \in Nat \cup {None}
      /\ (d.state \in Pending) <=> (d.next # None)
      /\ d.state \in Pending => d.next < row.deadline
      /\ action = "complete" => d.state = "fresh"
  BY <1>1, <1>2, <1>5, DispositionFacts
<1>7. PICK nr : nr = ReportedRow(row, d, action, paid)
  OBVIOUS
<1>8. PICK na : na = [a EXCEPT !.state = IF ok THEN "succeeded" ELSE "failed",
                               !.reason = "reported", !.paid = paid]
  OBVIOUS
<1>9. /\ na \in AttemptRow /\ na.chain = a.chain /\ na.number = a.number
      /\ na.state # "running" /\ na.worker = a.worker
  BY <1>1, <1>8 DEF AttemptRow
<1>10. /\ nr \in ChainRow /\ nr.state = d.state /\ nr.next = d.next
       /\ nr.owner = None /\ nr.until = None /\ nr.index = row.index
       /\ nr.deadline = row.deadline /\ nr.action = action
  <2>1. row.paid + paid \in Nat /\ PaidAllowed(action) \in BOOLEAN
    BY <1>3 DEF ChainRow, PaidAllowed
  <2>2. PICK p : p = row.paid + paid
    OBVIOUS
  <2>3. PICK q : q = PaidAllowed(action)
    OBVIOUS
  <2>4. nr = [row EXCEPT !.state = d.state, !.next = d.next, !.owner = None,
                !.until = None, !.action = action, !.paidOk = q, !.paid = p]
    BY <1>3, <1>7, <2>2, <2>3 DEF ReportedRow, Unleased, ChainRow
  <2> QED BY <1>3, <1>6, <2>1, <2>2, <2>3, <2>4 DEF ChainRow
<1>11. RowOK(nr)
  BY <1>6, <1>10 DEF RowOK
<1>12. AttemptOK(na, row, now)
  BY <1>1, <1>2, <1>9 DEF AttemptOK
<1>13. LedgerOK(chain, (attempts \ {a}) \cup {na}, now)
  BY <1>2, <1>9, <1>12, ReplaceAttempt DEF SameKey
<1>14. ASSUME NEW b \in (attempts \ {a}) \cup {na}, b.chain = a.chain
       PROVE  AttemptOK(b, nr, now)
  <2>1. AttemptOK(b, row, now)
    BY <1>2, <1>13, <1>14 DEF LedgerOK
  <2>2. b.state # "running"
    <3>1. CASE b = na
      BY <1>9, <3>1
    <3>2. CASE b # na /\ b.state = "running"
      <4>1. b.number = row.index /\ a.number = row.index /\ b \in attempts /\ b # a
        BY <1>1, <1>2, <1>4, <1>14, <2>1, <3>2 DEF AttemptOK
      <4> QED BY <1>14, <4>1 DEF LedgerOK, SameKey
    <3> QED BY <3>1, <3>2
  <2> QED BY <1>10, <2>1, <2>2 DEF AttemptOK
<1>15. attempts' = (attempts \ {a}) \cup {na} /\ chain' = [chain EXCEPT ![a.chain] = nr]
  BY <1>2, <1>5, <1>7, <1>8 DEF FinishAttempt
<1>16. LedgerOK(chain', attempts', now)
  BY <1>1, <1>11, <1>13, <1>14, <1>15, ReplaceRow
<1>17. KeysKept(attempts, attempts')
  BY <1>9, <1>15 DEF KeysKept, SameKey
<1> QED BY <1>16, <1>17

-----------------------------------------------------------------------------
(* The planner's two operations.                                           *)
LEMMA CreateOK ==
  ASSUME LedgerOK(chain, attempts, now), None \notin Nat, DelaysAssumption,
         NEW c \in Chains, NEW srcs \in SUBSET Sources,
         NEW action \in RecoveryActions, NEW observed \in Nat, NEW deadline \in Nat,
         action \in RetryActions => observed + DelaysOf[action][1] < deadline,
         CreateOrGetChain(c, srcs, action, observed, deadline)
  PROVE  LedgerOK(chain', attempts', now)
<1>1. chain[c] \in ChainRow /\ RowOK(chain[c])
  BY DEF LedgerOK, RowOK
<1>2. CASE chain[c].state = "absent"
  <2>1. PICK r : r = NewChain(srcs, action, observed, deadline)
    OBVIOUS
  <2>2. chain' = [chain EXCEPT ![c] = r] /\ attempts' = attempts
    BY <1>2, <2>1 DEF CreateOrGetChain
  <2>3. PICK nx : nx = IF DelaysOf[action] = <<>> THEN None
                       ELSE observed + DelaysOf[action][1]
    OBVIOUS
  <2>4. IF action \in RetryActions
        THEN nx \in Nat /\ nx # None /\ nx < deadline ELSE nx = None
    <3>1. CASE action \in RetryActions
      <4>1. DelaysOf[action] \in Seq(Nat) /\ Len(DelaysOf[action]) > 0
        BY <3>1 DEF DelaysAssumption
      <4>2. DelaysOf[action][1] \in Nat /\ DelaysOf[action] # <<>>
        BY <4>1
      <4> QED BY <2>3, <3>1, <4>2
    <3>2. CASE action \notin RetryActions
      <4>1. DelaysOf[action] = <<>>
        BY <3>2 DEF DelaysAssumption, RecoveryActions
      <4> QED BY <2>3, <3>2, <4>1
    <3> QED BY <3>1, <3>2
  <2>5. IF action \in RetryActions
        THEN InitialState(action) \in Pending ELSE InitialState(action) \in Parked
    BY InitialStateType
  <2>6. PICK st : st = InitialState(action)
    OBVIOUS
  <2>7. PICK q : q = PaidAllowed(action)
    OBVIOUS
  <2>8. st \in ChainStates /\ q \in BOOLEAN /\ action # "complete"
    BY <2>5, <2>6, <2>7
       DEF ChainStates, PaidAllowed, RecoveryActions, RetryActions, ParkActions
  <2>9. r = [state |-> st, action |-> action, paidOk |-> q, sources |-> srcs,
             index |-> 0, next |-> nx, created |-> observed,
             deadline |-> deadline, owner |-> None, until |-> None, paid |-> 0]
    BY <2>1, <2>3, <2>6, <2>7 DEF NewChain, Absent
  <2>10. r \in ChainRow
    BY <2>4, <2>8, <2>9 DEF ChainRow
  <2>11. RowOK(r)
    BY <2>4, <2>5, <2>6, <2>8, <2>9, <2>10 DEF RowOK, Pending, Parked
  <2>12. ASSUME NEW a \in attempts, a.chain = c PROVE AttemptOK(a, r, now)
    <3>1. AttemptOK(a, chain[c], now)
      BY <2>12 DEF LedgerOK
    <3>2. chain[c].index = 0 /\ a.number \in 1..chain[c].index
      BY <1>1, <1>2, <3>1 DEF RowOK, AttemptOK
    <3> QED BY <3>2
  <2> QED BY <2>2, <2>11, <2>12, ReplaceRow
<1>3. CASE chain[c].state # "absent"
  <2>1. PICK r : r = [chain[c] EXCEPT !.sources = chain[c].sources \cup srcs]
    OBVIOUS
  <2>2. chain' = [chain EXCEPT ![c] = r] /\ attempts' = attempts
    BY <1>3, <2>1 DEF CreateOrGetChain
  <2>3. RowOK(r) /\ r.index = chain[c].index /\ r.state = chain[c].state
        /\ r.owner = chain[c].owner /\ r.deadline = chain[c].deadline
    BY <1>1, <2>1 DEF RowOK, ChainRow
  <2>4. ASSUME NEW a \in attempts, a.chain = c PROVE AttemptOK(a, r, now)
    BY <2>3, <2>4 DEF LedgerOK, AttemptOK
  <2> QED BY <2>2, <2>3, <2>4, ReplaceRow
<1> QED BY <1>2, <1>3

LEMMA ReconcileOK ==
  ASSUME LedgerOK(chain, attempts, now),
         ReconcileFreshPrimaryOutcomes(primary)
  PROVE  LedgerOK(chain', attempts', now)
<1>1. ASSUME NEW c \in Chains
      PROVE  /\ RowOK(chain'[c])
             /\ chain'[c].index = chain[c].index
             /\ chain'[c].deadline = chain[c].deadline
             /\ \/ chain'[c] = chain[c]
                \/ /\ chain[c].state \in Pending \cup Parked \cup {"exhausted"}
                   /\ chain'[c].state = "fresh"
  <2>1. chain[c] \in ChainRow /\ RowOK(chain[c])
    BY DEF LedgerOK, RowOK
  <2>2. CASE ~Superseded(c, primary)
    <3>1. chain'[c] = chain[c]
      BY <2>2 DEF ReconcileFreshPrimaryOutcomes
    <3> QED BY <2>1, <3>1
  <2>3. CASE Superseded(c, primary)
    <3>1. PICK r : r = chain'[c]
      OBVIOUS
    <3>2. r = [Unleased(chain[c], "fresh", None)
                 EXCEPT !.action = "complete", !.paidOk = FALSE]
      BY <2>3, <3>1 DEF ReconcileFreshPrimaryOutcomes
    <3>3. /\ r \in ChainRow /\ r.state = "fresh" /\ r.next = None
          /\ r.owner = None /\ r.until = None /\ r.index = chain[c].index
          /\ r.deadline = chain[c].deadline
      BY <2>1, <3>2 DEF Unleased, ChainRow, ChainStates
    <3>4. RowOK(r)
      BY <3>3 DEF RowOK, Pending
    <3> QED BY <2>3, <3>1, <3>3, <3>4 DEF Superseded
  <2> QED BY <2>2, <2>3
<1>2. ASSUME NEW a \in attempts PROVE AttemptOK(a, chain'[a.chain], now)
  <2>1. AttemptOK(a, chain[a.chain], now) /\ a.chain \in Chains
    BY DEF LedgerOK, AttemptOK, AttemptRow
  <2>2. CASE a.state # "running"
    BY <1>1, <2>1, <2>2 DEF AttemptOK
  <2>3. CASE a.state = "running"
    BY <1>1, <2>1, <2>3 DEF AttemptOK, Pending, Parked
  <2> QED BY <2>2, <2>3
<1>3. attempts' = attempts /\ DOMAIN chain' = Chains
      /\ chain' = [c \in Chains |-> chain'[c]]
  BY DEF ReconcileFreshPrimaryOutcomes
<1> QED BY <1>1, <1>2, <1>3 DEF LedgerOK

-----------------------------------------------------------------------------
(* The claimed row of a run that holds a claim exists.                     *)
LEMMA ClaimedAttemptFacts ==
  ASSUME WorkersOK, NEW w \in Workers, Held(w)
  PROVE  /\ ClaimedAttempt(w) \in attempts
         /\ ClaimedAttempt(w).chain = worker[w].chain
         /\ ClaimedAttempt(w).number = worker[w].number
BY DEF WorkersOK, ClaimedAttempt

LEMMA InitInv == ConvergenceAssumption /\ Init => IInv
<1> SUFFICES ASSUME ConvergenceAssumption, Init PROVE IInv
  OBVIOUS
<1>1. Absent \in ChainRow /\ RowOK(Absent)
  BY DEF Absent, ChainRow, ChainStates, RecoveryActions, ParkActions, RowOK, Pending
<1>2. LedgerOK(chain, attempts, now)
  BY <1>1, FS_EmptySet DEF Init, StoreInit, LedgerOK
<1>3. Idle \in Run
  BY DEF Idle, Run, WorkerPcs, RecoveryActions, ParkActions
<1>4. WorldTypeOK
  BY <1>3 DEF Init, WorldTypeOK
<1>5. \A w \in Workers : ~Held(w)
  BY DEF Init, Held, Idle
<1> QED BY <1>2, <1>4, <1>5, IInvParts DEF WorkersOK

(* Steps of time, telemetry, and workers that leave the ledger alone.      *)
LEMMA LedgerUntouched ==
  ASSUME IInv, UNCHANGED ledger, now' \in Nat, now <= now', WorldTypeOK',
         \A w \in Workers : Held(w)' => /\ Held(w)
                                        /\ worker[w]'.chain = worker[w].chain
                                        /\ worker[w]'.number = worker[w].number
  PROVE  IInv'
<1>1. LedgerOK(chain, attempts, now) /\ WorkersOK
  BY IInvParts
<1>2. LedgerOK(chain, attempts, now')
  BY <1>1, TimePasses DEF WorkersOK, WorldTypeOK
<1>3. KeysKept(attempts, attempts')
  BY DEF KeysKept, SameKey, ledger
<1>4. WorkersOK'
  BY <1>1, <1>3, WorkersKept
<1>5. LedgerOK(chain, attempts, now)'
  BY <1>2 DEF ledger, LedgerOK
<1> QED BY <1>4, <1>5, IInvParts, PTL

-----------------------------------------------------------------------------
(* The steps of the environment.                                           *)
LEMMA EnvironmentInv ==
  ASSUME ConvergenceAssumption, IInv,
         \/ Tick \/ Reconcile
         \/ \E s \in Sources : Publish(s)
         \/ \E c \in Chains, s \in Sources, action \in PlannedActions :
               Plan(c, s, action)
  PROVE  IInv'
<1>1. LedgerOK(chain, attempts, now) /\ WorkersOK /\ WorldTypeOK
  BY IInvParts DEF WorkersOK
<1>2. None \notin Nat
  BY DEF ConvergenceAssumption
<1>3. CASE Tick
  <2>1. /\ UNCHANGED <<ledger, worker, primary, freshAt, spent, crashes>>
        /\ now' = now + 1
    BY <1>3 DEF Tick, world
  <2>2. now' \in Nat /\ now <= now' /\ WorldTypeOK'
    BY <1>1, <2>1 DEF WorldTypeOK
  <2> QED BY <2>1, <2>2, LedgerUntouched DEF Held
<1>4. ASSUME NEW s \in Sources, Publish(s) PROVE IInv'
  <2>1. /\ UNCHANGED <<ledger, now, worker, spent, crashes>>
        /\ primary' = [primary EXCEPT ![s] = now]
        /\ freshAt' = [freshAt EXCEPT ![s] = now]
    BY <1>4 DEF Publish
  <2>2. now' \in Nat /\ now <= now' /\ WorldTypeOK'
    BY <1>1, <2>1 DEF WorldTypeOK
  <2> QED BY <2>1, <2>2, LedgerUntouched DEF Held
<1>5. ASSUME LedgerOK(chain', attempts', now), attempts' = attempts,
             UNCHANGED <<now, worker, world, crashes>>
      PROVE  IInv'
  <2>1. WorldTypeOK'
    BY <1>1, <1>5 DEF WorldTypeOK, world
  <2>2. KeysKept(attempts, attempts')
    BY <1>5 DEF KeysKept, SameKey
  <2>3. WorkersOK'
    BY <1>1, <1>5, <2>1, <2>2, WorkersKept DEF Held
  <2>4. LedgerOK(chain, attempts, now)'
    BY <1>5 DEF LedgerOK
  <2> QED BY <2>3, <2>4, IInvParts, PTL
<1>6. CASE Reconcile
  <2>1. LedgerOK(chain', attempts', now)
    BY <1>1, <1>6, ReconcileOK DEF Reconcile
  <2> QED BY <1>5, <1>6, <2>1 DEF Reconcile, ReconcileFreshPrimaryOutcomes
<1>7. ASSUME NEW c \in Chains, NEW s \in Sources, NEW action \in PlannedActions,
             Plan(c, s, action)
      PROVE  IInv'
  <2>1. PICK observed \in {t \in 1..now : t + MaxLag >= now} :
          CreateOrGetChain(c, {s}, action, observed, observed + SpanOf[action])
    BY <1>7 DEF Plan
  <2>2. action \in RecoveryActions /\ SpanOf[action] \in Nat /\ observed \in Nat
    BY <1>1 DEF ConvergenceAssumption, WorldTypeOK
  <2>3. PICK deadline : deadline = observed + SpanOf[action]
    OBVIOUS
  <2>4. deadline \in Nat
    BY <2>2, <2>3
  <2>5. action \in RetryActions => observed + DelaysOf[action][1] < deadline
    <3>1. SUFFICES ASSUME action \in RetryActions
                   PROVE  observed + DelaysOf[action][1] < deadline
      OBVIOUS
    <3>2. DelaysOf[action][1] < SpanOf[action]
      BY <3>1 DEF ConvergenceAssumption
    <3>3. DelaysOf[action] \in Seq(Nat) /\ Len(DelaysOf[action]) > 0
      BY <2>2, <3>1, DelaysAssumption
    <3>4. DelaysOf[action][1] \in Nat
      BY <3>3
    <3> QED BY <2>2, <2>3, <3>2, <3>4
  <2>6. LedgerOK(chain', attempts', now)
    BY <1>1, <1>2, <2>1, <2>2, <2>3, <2>4, <2>5, CreateOK, DelaysAssumption
  <2> QED BY <1>5, <1>7, <2>1, <2>6 DEF Plan, CreateOrGetChain
<1> QED BY <1>3, <1>4, <1>6, <1>7

(* The steps of a worker that leave the ledger alone.                      *)
LEMMA WorkerIdleInv ==
  ASSUME ConvergenceAssumption, IInv, NEW w \in Workers,
         Start(w) \/ TransportDue(w) \/ TransportSkipped(w) \/ Crash(w)
           \/ Execute(w) \/ ExecuteRaises(w)
  PROVE  IInv'
<1>1. WorkersOK /\ WorldTypeOK
  BY IInvParts DEF WorkersOK
<1>2. Idle \in Run
  BY DEF Idle, Run, WorkerPcs, RecoveryActions, ParkActions
<1>3. worker[w] \in Run
  BY <1>1 DEF WorldTypeOK
<1>4. PaidBy(w) \subseteq Nat
  BY DEF PaidBy, ConvergenceAssumption
<1>5. ASSUME NEW p \in PaidBy(w), Spend(w, p), worker[w].chain \in Chains
      PROVE  spent' \in [Chains -> Nat]
  <2>1. p \in Nat /\ spent[worker[w].chain] \in Nat
    BY <1>1, <1>4, <1>5 DEF WorldTypeOK
  <2>2. PICK total : total = spent[worker[w].chain] + p
    OBVIOUS
  <2>3. total \in Nat /\ spent' = [spent EXCEPT ![worker[w].chain] = total]
    BY <1>1, <1>5, <2>1, <2>2 DEF Spend, WorldTypeOK
  <2> QED BY <1>1, <2>3 DEF WorldTypeOK
<1>6. Held(w) => worker[w].chain \in Chains
  BY <1>1, IInvParts DEF WorkersOK, LedgerOK, AttemptOK, AttemptRow
<1>7. now' = now /\ UNCHANGED ledger /\ primary' = primary
  BY DEF Start, TransportDue, TransportSkipped, Crash, Execute, ExecuteRaises, world
<1>8. spent' \in [Chains -> Nat]
  <2>1. CASE UNCHANGED spent
    BY <1>1, <2>1 DEF WorldTypeOK
  <2>2. CASE At(w, "executing") /\ \E p \in PaidBy(w) : Spend(w, p)
    BY <1>5, <1>6, <2>2 DEF Held, At
  <2> QED
    BY <2>1, <2>2
       DEF Start, TransportDue, TransportSkipped, Crash, Execute, ExecuteRaises, world
<1>9. freshAt' \in [Sources -> Nat]
  BY <1>1 DEF Start, TransportDue, TransportSkipped, Crash, Execute,
              ExecuteRaises, world, WorldTypeOK
<1>10. crashes' \in Nat
  <2>1. crashes' = crashes \/ crashes' = crashes + 1
    BY DEF Start, TransportDue, TransportSkipped, Crash, Execute, ExecuteRaises
  <2>2. crashes \in Nat
    BY <1>1 DEF WorldTypeOK
  <2> QED BY <2>1, <2>2
<1>11. \E r \in Run :
         /\ worker' = [worker EXCEPT ![w] = r]
         /\ r.pc \in {"executing", "reporting"} =>
              Held(w) /\ r.chain = worker[w].chain /\ r.number = worker[w].number
  <2>1. CASE Start(w) \/ TransportDue(w)
    <3>1. PICK pc \in {"retry_candidate", "retry_transport"} :
            worker' = [worker EXCEPT ![w].pc = pc]
      BY <2>1 DEF Start, TransportDue, Goto
    <3>2. PICK r : r = [worker[w] EXCEPT !.pc = pc]
      OBVIOUS
    <3>3. r \in Run /\ r.pc = pc
      BY <1>3, <3>2 DEF Run, WorkerPcs, Lanes
    <3> QED BY <3>1, <3>2, <3>3
  <2>2. CASE TransportSkipped(w) \/ Crash(w)
    <3>1. worker' = [worker EXCEPT ![w] = Idle]
      BY <2>2 DEF TransportSkipped, Crash
    <3> QED BY <1>2, <3>1 DEF Idle
  <2>3. CASE Execute(w)
    <3>1. PICK p \in PaidBy(w), v \in RecoveryActions \cup {"complete"} :
            worker' = [worker EXCEPT ![w].pc = "reporting", ![w].ok = TRUE,
                          ![w].verdict = v, ![w].paid = p]
      BY <2>3, VerdictType DEF Execute
    <3>2. PICK r : r = [worker[w] EXCEPT !.pc = "reporting", !.ok = TRUE,
                                         !.verdict = v, !.paid = p]
      OBVIOUS
    <3>3. /\ r \in Run /\ r.chain = worker[w].chain /\ r.number = worker[w].number
      BY <1>3, <1>4, <3>1, <3>2 DEF Run, WorkerPcs
    <3>4. worker' = [worker EXCEPT ![w] = r]
      BY <1>1, <3>1, <3>2 DEF WorldTypeOK
    <3> QED BY <2>3, <3>3, <3>4 DEF Execute, Held, At
  <2>4. CASE ExecuteRaises(w)
    <3>1. PICK v \in RecoveryActions \cup {"complete"} :
            worker' = [worker EXCEPT ![w].pc = "reporting", ![w].ok = FALSE,
                          ![w].verdict = v]
      BY <2>4, DecideType DEF ExecuteRaises
    <3>2. PICK r : r = [worker[w] EXCEPT !.pc = "reporting", !.ok = FALSE,
                                         !.verdict = v]
      OBVIOUS
    <3>3. /\ r \in Run /\ r.chain = worker[w].chain /\ r.number = worker[w].number
      BY <1>3, <3>1, <3>2 DEF Run, WorkerPcs
    <3>4. worker' = [worker EXCEPT ![w] = r]
      BY <1>1, <3>1, <3>2 DEF WorldTypeOK
    <3> QED BY <2>4, <3>3, <3>4 DEF ExecuteRaises, Held, At
  <2> QED BY <2>1, <2>2, <2>3, <2>4
<1>12. WorldTypeOK'
  <2>1. worker' \in [Workers -> Run]
    BY <1>1, <1>11 DEF WorldTypeOK
  <2> QED BY <1>1, <1>7, <1>8, <1>9, <1>10, <2>1 DEF WorldTypeOK
<1>13. \A v \in Workers : Held(v)' => /\ Held(v)
                                      /\ worker[v]'.chain = worker[v].chain
                                      /\ worker[v]'.number = worker[v].number
  BY <1>1, <1>11 DEF Held, WorldTypeOK
<1>14. now' \in Nat /\ now <= now'
  BY <1>1, <1>7 DEF WorldTypeOK
<1> QED BY <1>7, <1>12, <1>13, <1>14, LedgerUntouched

(* The steps of a worker over the ledger: a claim, a miss and a report.    *)
LEMMA WorkerLedgerInv ==
  ASSUME ConvergenceAssumption, IInv, NEW w \in Workers,
         \/ \E lane \in Lanes : Miss(w, lane)
         \/ \E lane \in Lanes, c \in Chains : Claim(w, lane, c)
         \/ Report(w)
  PROVE  IInv'
<1>1. LedgerOK(chain, attempts, now) /\ WorkersOK /\ WorldTypeOK
  BY IInvParts DEF WorkersOK
<1>2. now \in Nat /\ None \notin Nat /\ None \notin Owners
      /\ OwnerOf[w] \in Owners
  BY <1>1 DEF WorldTypeOK, ConvergenceAssumption
<1>3. Idle \in Run
  BY DEF Idle, Run, WorkerPcs, RecoveryActions, ParkActions
<1>4. worker[w] \in Run
  BY <1>1 DEF WorldTypeOK
<1>5. UNCHANGED <<now, world, crashes>>
  BY DEF Miss, Claim, Report
<1>6. ASSUME LedgerOK(chain', attempts', now), KeysKept(attempts, attempts'),
             NEW r \in Run, worker' = [worker EXCEPT ![w] = r],
             r.pc \in {"executing", "reporting"} =>
               \E a \in attempts' : /\ a.chain = r.chain /\ a.number = r.number
                                    /\ a.worker = OwnerOf[w]
      PROVE  IInv'
  <2>1. WorldTypeOK'
    BY <1>1, <1>5, <1>6 DEF WorldTypeOK, world
  <2>2. ASSUME NEW v \in Workers, Held(v)'
        PROVE  \E a \in attempts' : /\ a.chain = worker'[v].chain
                                    /\ a.number = worker'[v].number
                                    /\ a.worker = OwnerOf[v]
    <3>1. CASE v = w
      BY <1>1, <1>6, <2>2, <3>1 DEF Held, WorldTypeOK
    <3>2. CASE v # w
      <4>1. worker'[v] = worker[v] /\ Held(v)
        BY <1>1, <1>6, <2>2, <3>2 DEF Held, WorldTypeOK
      <4> QED BY <1>1, <1>6, <4>1 DEF WorkersOK, KeysKept, SameKey
    <3> QED BY <3>1, <3>2
  <2>3. WorkersOK'
    BY <2>1, <2>2 DEF WorkersOK
  <2>4. LedgerOK(chain, attempts, now)'
    BY <1>5, <1>6 DEF LedgerOK
  <2> QED BY <2>3, <2>4, IInvParts, PTL
<1>7. ASSUME NEW lane \in Lanes, Miss(w, lane) PROVE IInv'
  <2>1. chain' = SweptChains(now) /\ attempts' = SweptAttempts(now)
    BY <1>7 DEF Miss, ClaimNothing
  <2>2. LedgerOK(chain', attempts', now) /\ KeysKept(attempts, attempts')
    BY <1>1, <1>2, <2>1, SweepOK
  <2>3. PICK r : /\ worker' = [worker EXCEPT ![w] = r]
                 /\ \/ r = Idle
                    \/ \E pc \in {"probe_upstream", "transport_gate"} :
                          r = [worker[w] EXCEPT !.pc = pc]
    <3>1. PICK r : r =
            CASE lane = "retry_candidate" -> [worker[w] EXCEPT !.pc = "probe_upstream"]
              [] lane = "probe_upstream"  -> [worker[w] EXCEPT !.pc = "transport_gate"]
              [] lane = "retry_transport" -> Idle
      OBVIOUS
    <3>2. worker' = [worker EXCEPT ![w] = r]
      BY <1>1, <1>7, <3>1 DEF Miss, WorldTypeOK
    <3> QED BY <3>1, <3>2 DEF Lanes
  <2>4. r \in Run /\ r.pc \notin {"executing", "reporting"}
    <3>1. CASE r = Idle
      BY <1>3, <3>1 DEF Idle
    <3>2. ASSUME NEW pc \in {"probe_upstream", "transport_gate"},
                 r = [worker[w] EXCEPT !.pc = pc]
          PROVE  r \in Run /\ r.pc \notin {"executing", "reporting"}
      BY <1>4, <3>2 DEF Run, WorkerPcs, Lanes
    <3> QED BY <2>3, <3>1, <3>2
  <2> QED BY <1>6, <2>2, <2>3, <2>4
<1>8. ASSUME NEW lane \in Lanes, NEW c \in Chains, Claim(w, lane, c) PROVE IInv'
  <2>1. PICK lease : lease = LeaseOf[lane]
    OBVIOUS
  <2>2. lease \in Nat
    BY <2>1 DEF ConvergenceAssumption
  <2>3. ClaimDue(c, OwnerOf[w], now, lease, {lane}, EligibleFor[lane])
    BY <1>8, <2>1 DEF Claim
  <2>4. /\ LedgerOK(chain', attempts', now)
        /\ KeysKept(attempts, attempts')
        /\ \E a \in attempts' : /\ a.chain = c /\ a.number = chain[c].index + 1
                                /\ a.worker = OwnerOf[w]
    BY <1>1, <1>2, <2>2, <2>3, ClaimOK
  <2>5. PICK n : n = chain[c].index + 1
    OBVIOUS
  <2>6. chain[c].index \in Nat /\ chain[c].sources \in SUBSET Sources
    BY <1>1 DEF LedgerOK, RowOK, ChainRow
  <2>7. PICK r : r = [Idle EXCEPT !.pc = "executing", !.chain = c, !.number = n,
                        !.sources = chain[c].sources, !.moment = now]
    OBVIOUS
  <2>8. r \in Run /\ r.chain = c /\ r.number = n
    <3>1. n \in Nat
      BY <2>5, <2>6
    <3> QED BY <1>2, <1>3, <2>6, <2>7, <3>1 DEF Run, WorkerPcs, Idle
  <2>9. worker' = [worker EXCEPT ![w] = r]
    BY <1>8, <2>5, <2>7 DEF Claim
  <2> QED BY <1>6, <2>4, <2>5, <2>8, <2>9
<1>9. CASE Report(w)
  <2>1. Held(w) /\ ClaimedAttempt(w) \in attempts
    BY <1>1, <1>9, ClaimedAttemptFacts DEF Report, At, Held
  <2>2. worker' = [worker EXCEPT ![w] = Idle]
    BY <1>9 DEF Report
  <2>3. LedgerOK(chain', attempts', now) /\ KeysKept(attempts, attempts')
    <3>1. CASE UNCHANGED ledger
      <4>1. chain' = chain /\ attempts' = attempts
        BY <3>1 DEF ledger
      <4>2. LedgerOK(chain', attempts', now)
        BY <1>1, <4>1 DEF LedgerOK
      <4>3. KeysKept(attempts, attempts')
        BY <4>1 DEF KeysKept, SameKey
      <4> QED BY <4>2, <4>3
    <3>2. CASE ~UNCHANGED ledger
      <4>1. PICK r : r = worker[w]
        OBVIOUS
      <4>2. PICK a : a = ClaimedAttempt(w)
        OBVIOUS
      <4>3. /\ ~FinishIgnored(a, OwnerOf[w])
            /\ ~FinishRefused(a, OwnerOf[w], r.verdict, r.ok, r.paid, r.moment)
            /\ FinishAttempt(a, r.verdict, r.ok, r.paid, r.moment)
        BY <1>9, <3>2, <4>1, <4>2 DEF Report
      <4>4. /\ r.verdict \in RecoveryActions \cup {"complete"} /\ r.ok \in BOOLEAN
            /\ r.paid \in Nat /\ r.moment \in Nat /\ a \in attempts
        BY <1>4, <2>1, <4>1, <4>2 DEF Run
      <4>5. PICK verdict \in RecoveryActions \cup {"complete"}, ok \in BOOLEAN,
                 paid \in Nat, at \in Nat :
              /\ ~FinishIgnored(a, OwnerOf[w])
              /\ ~FinishRefused(a, OwnerOf[w], verdict, ok, paid, at)
              /\ FinishAttempt(a, verdict, ok, paid, at)
        BY <4>3, <4>4, Zenon
      <4>6. /\ LedgerOK(chain, attempts, now) /\ OwnerOf[w] \in Owners
            /\ None \notin Nat /\ None \notin Owners /\ DelaysAssumption
        BY <1>1, <1>2, DelaysAssumption
      <4>7. PICK owner \in Owners :
              /\ ~FinishIgnored(a, owner)
              /\ ~FinishRefused(a, owner, verdict, ok, paid, at)
              /\ FinishAttempt(a, verdict, ok, paid, at)
        BY <4>5, <4>6, Zenon
      <4> HIDE DEF DelaysAssumption
      <4> QED BY <4>4, <4>5, <4>6, <4>7, FinishOK
    <3> QED BY <3>1, <3>2
  <2> QED BY <1>3, <1>6, <2>2, <2>3 DEF Idle
<1> QED BY <1>7, <1>8, <1>9

-----------------------------------------------------------------------------
(* IInv is inductive.                                                      *)
LEMMA NextInv == ConvergenceAssumption /\ IInv /\ [Next]_vars => IInv'
<1> SUFFICES ASSUME ConvergenceAssumption, IInv, [Next]_vars PROVE IInv'
  OBVIOUS
<1>1. CASE UNCHANGED vars
  <2>1. WorldTypeOK
    BY IInvParts DEF WorkersOK
  <2>2. /\ UNCHANGED <<ledger, now, worker>> /\ WorldTypeOK'
        /\ now' \in Nat /\ now <= now'
    BY <1>1, <2>1 DEF vars, world, WorldTypeOK
  <2> QED BY <2>2, LedgerUntouched DEF Held
<1>2. CASE Next
  <2>1. ASSUME NEW w \in Workers, WorkerStep(w) \/ Crash(w) PROVE IInv'
    BY <2>1, WorkerIdleInv, WorkerLedgerInv DEF WorkerStep
  <2> QED BY <1>2, <2>1, EnvironmentInv DEF Next
<1> QED BY <1>1, <1>2

(* In every reachable state of the recovery ledger and its workers, for    *)
(* any set of chains, sources, workers and owners, IInv holds.             *)
THEOREM Invariance == Spec => []IInv
<1>1. Init => IInv
  BY InitInv, ConvergenceAssumption
<1>2. IInv /\ [Next]_vars => IInv'
  BY NextInv, ConvergenceAssumption
<1> QED BY <1>1, <1>2, PTL DEF Spec

(* Every row of the two tables and every run keeps its type.               *)
THEOREM TypeCorrect == Spec => []TypeOK
<1>1. IInv => TypeOK
  BY DEF IInv
<1> QED BY <1>1, Invariance, PTL

(* The lease columns and the state column of a chain always agree: no      *)
(* statement of claim_due, finish_attempt, create_or_get_chain or          *)
(* reconcile leaves a chain leased but not running, or queued without a    *)
(* time before its deadline.                                               *)
THEOREM LeaseColumnsAgree == Spec => []LeaseColumns
<1>1. IInv => LeaseColumns
  BY DEF IInv
<1> QED BY <1>1, Invariance, PTL

(* A chain has at most one running attempt, its latest, held by the lease  *)
(* owner unless the deadline took the chain away under a live lease.       *)
THEOREM OneRunningAttempt == Spec => []RunningAttempt
<1>1. IInv => RunningAttempt
  BY DEF IInv
<1> QED BY <1>1, Invariance, PTL
=============================================================================
