----------------------- MODULE ConvergenceSafetyProofs -----------------------
(***************************************************************************)
(* What the steps of Convergence may do to a chain, from the invariant of  *)
(* ConvergenceProofs: who moves a running chain, what a settled chain      *)
(* stays, that both queries for due work agree, and that the ledger with   *)
(* its workers implements FencedRecovery.  A second invariant, RInv, says  *)
(* what a report rests on from its claim to finish_attempt: the evidence   *)
(* of a chain that turns fresh, and the only ground of a refusal; a third  *)
(* one counts the attempts of each action, a fourth, PInv, their usage.    *)
(***************************************************************************)
EXTENDS ConvergenceProofs

(* The sweep: a row stays, or its lease or its deadline has passed.        *)
SweptTo(c, r) ==
  /\ r.index = chain[c].index
  /\ r.state \in ChainStates
  /\ \/ r = chain[c]
     \/ /\ chain[c].state \in Pending \cup {"running"}
        /\ LeaseExpired(c, now) \/ chain[c].deadline <= now
        /\ r.state \in {"waiting", "exhausted"}

LEMMA SweepMoves ==
  ASSUME LedgerOK(chain, attempts, now), now \in Nat, NEW c \in Chains
  PROVE  SweptTo(c, SweptChains(now)[c])
<1>1. chain \in [Chains -> ChainRow]
  BY DEF LedgerOK, RowOK
<1>2. PICK r : r = SweptRow(c, now)
  OBVIOUS
<1>3. r = SweptChains(now)[c]
  BY <1>2 DEF SweptChains
<1>4. /\ r \in ChainRow /\ r.index = chain[c].index
      /\ \/ r = chain[c]
         \/ /\ r.state = "exhausted" /\ chain[c].deadline <= now
            /\ chain[c].state \in Pending \cup {"running"}
         \/ r.state = "waiting" /\ LeaseExpired(c, now)
  BY <1>1, <1>2, SweptRowFacts
<1>5. r.state \in ChainStates
  BY <1>4 DEF ChainRow
<1> QED BY <1>3, <1>4, <1>5 DEF SweptTo, LeaseExpired

(* A claim is a sweep, after which one queued chain starts to run.         *)
LEMMA ClaimMoves ==
  ASSUME LedgerOK(chain, attempts, now), now \in Nat, NEW c \in Chains,
         NEW owner, NEW lease, NEW acts, NEW eligible,
         ClaimDue(c, owner, now, lease, acts, eligible)
  PROVE  /\ SweptChains(now)[c].state \in Pending
         /\ \A d \in Chains \ {c} : chain'[d] = SweptChains(now)[d]
         /\ chain'[c].state = "running" /\ chain'[c].index = chain[c].index + 1
         /\ \A a \in SweptAttempts(now) : a \in attempts'
<1>1. chain \in [Chains -> ChainRow]
  BY DEF LedgerOK, RowOK
<1>2. PICK row : row = SweptRow(c, now)
  OBVIOUS
<1>3. row \in ChainRow /\ row.index = chain[c].index /\ row.state \in Pending
  BY <1>1, <1>2, SweptRowFacts DEF ClaimDue, EarliestDue, Due, Claimable
<1>4. PICK nr : nr = [row EXCEPT !.state = "running", !.index = @ + 1,
                        !.next = None, !.owner = owner, !.until = now + lease]
  OBVIOUS
<1>5. nr.state = "running" /\ nr.index = chain[c].index + 1
  BY <1>3, <1>4 DEF ChainRow
<1>6. chain' = [SweptChains(now) EXCEPT ![c] = nr]
  BY <1>2, <1>4 DEF ClaimDue
<1>7. SweptChains(now)[c] = row /\ DOMAIN SweptChains(now) = Chains
  BY <1>2 DEF SweptChains
<1> QED BY <1>3, <1>5, <1>6, <1>7 DEF ClaimDue

(* A report that is heard is that of the current claim of a running chain. *)
LEMMA ReportMoves ==
  ASSUME ConvergenceAssumption, IInv, NEW w \in Workers, Report(w), ~UNCHANGED ledger
  PROVE  \E c \in Chains, a \in attempts :
           /\ Current(w, c) /\ chain[c].state = "running"
           /\ a = ClaimedAttempt(w) /\ a.state = "running"
           /\ \E r : /\ chain' = [chain EXCEPT ![c] = r]
                     /\ r.state \in ChainStates \ {"running", "absent"}
                     /\ r.index = chain[c].index
                     /\ r.state = "fresh" => worker[w].verdict = "complete"
           /\ \E b : attempts' = (attempts \ {a}) \cup {b}
<1>1. LedgerOK(chain, attempts, now) /\ WorkersOK /\ WorldTypeOK
  BY IInvParts DEF WorkersOK
<1>2. worker[w] \in Run /\ Held(w)
  BY <1>1 DEF WorldTypeOK, Report, At, Held
<1>3. PICK a : a = ClaimedAttempt(w)
  OBVIOUS
<1>4. a \in attempts /\ a.chain = worker[w].chain /\ a.number = worker[w].number
  BY <1>1, <1>2, <1>3, ClaimedAttemptFacts
<1>5. PICK verdict, at : verdict = worker[w].verdict /\ at = worker[w].moment
  OBVIOUS
<1>6. verdict \in RecoveryActions \cup {"complete"} /\ at \in Nat
  BY <1>2, <1>5 DEF Run
<1>7. /\ ~FinishIgnored(a, OwnerOf[w])
      /\ ~FinishRefused(a, OwnerOf[w], verdict, worker[w].ok, worker[w].paid, at)
      /\ FinishAttempt(a, verdict, worker[w].ok, worker[w].paid, at)
  BY <1>3, <1>5 DEF Report
<1>8. PICK c : c = a.chain
  OBVIOUS
<1>9. /\ c \in Chains /\ AttemptOK(a, chain[c], now)
      /\ chain[c] \in ChainRow /\ RowOK(chain[c])
  BY <1>1, <1>4, <1>8 DEF LedgerOK, AttemptOK, AttemptRow, RowOK
<1>10. a.state = "running" /\ chain[c].owner = OwnerOf[w]
  BY <1>7, <1>8 DEF FinishIgnored, FinishRefused
<1>11. chain[c].state = "running"
  BY <1>9, <1>10 DEF RowOK, ConvergenceAssumption
<1>12. Current(w, c)
  BY <1>2, <1>4, <1>8, <1>9, <1>10 DEF Current, AttemptOK
<1>13. PICK d : d = Disposition(a, verdict, at)
  OBVIOUS
<1>14. d.state \in ChainStates \ {"running", "absent"} /\ d.next \in Nat \cup {None}
  BY <1>1, <1>4, <1>6, <1>8, <1>9, <1>13, DispositionFacts, DelaysAssumption
     DEF ConvergenceAssumption
<1>15. d.state = "fresh" => verdict = "complete"
  <2>1. \A act : InitialState(act) # "fresh"
    BY DEF InitialState
  <2> QED BY <1>13, <2>1 DEF Disposition
<1>16. PICK r : r = ReportedRow(chain[c], d, verdict, worker[w].paid)
  OBVIOUS
<1>17. r.state = d.state /\ r.index = chain[c].index
  BY <1>9, <1>16 DEF ReportedRow, Unleased, ChainRow
<1>18. chain' = [chain EXCEPT ![c] = r]
  BY <1>7, <1>8, <1>13, <1>16 DEF FinishAttempt
<1>19. \E b : attempts' = (attempts \ {a}) \cup {b}
  BY <1>7 DEF FinishAttempt
<1>20. r.state = "fresh" => worker[w].verdict = "complete"
  BY <1>5, <1>15, <1>17
<1>21. r.state \in ChainStates \ {"running", "absent"}
  BY <1>14, <1>17
<1>22. /\ chain' = [chain EXCEPT ![c] = r]
       /\ r.state \in ChainStates \ {"running", "absent"}
       /\ r.index = chain[c].index
       /\ r.state = "fresh" => worker[w].verdict = "complete"
  BY <1>17, <1>18, <1>20, <1>21
<1> QED BY <1>3, <1>4, <1>9, <1>10, <1>11, <1>12, <1>19, <1>22

(* The planner opens a chain as queued or parked, or leaves its state.     *)
LEMMA PlanMoves ==
  ASSUME LedgerOK(chain, attempts, now), ConvergenceAssumption,
         NEW c \in Chains, NEW s \in Sources, NEW action \in PlannedActions,
         Plan(c, s, action)
  PROVE  /\ attempts' = attempts /\ worker' = worker
         /\ \E r : /\ chain' = [chain EXCEPT ![c] = r]
                   /\ r.index = chain[c].index
                   /\ \/ r.state = chain[c].state
                      \/ chain[c].state = "absent" /\ r.state \in Pending \cup Parked
<1>1. chain[c] \in ChainRow /\ RowOK(chain[c])
  BY DEF LedgerOK, RowOK
<1>2. PICK observed : CreateOrGetChain(c, {s}, action, observed, observed + SpanOf[action])
  BY DEF Plan
<1>3. action \in RecoveryActions
  BY DEF ConvergenceAssumption
<1>4. PICK deadline : deadline = observed + SpanOf[action]
  OBVIOUS
<1>5. CASE chain[c].state = "absent"
  <2>1. PICK r : r = NewChain({s}, action, observed, deadline)
    OBVIOUS
  <2>2. chain' = [chain EXCEPT ![c] = r] /\ attempts' = attempts
    BY <1>2, <1>4, <1>5, <2>1 DEF CreateOrGetChain
  <2>3. r.state = InitialState(action) /\ r.index = 0
    BY <2>1 DEF NewChain, Absent
  <2>4. InitialState(action) \in Pending \cup Parked
    BY <1>3, InitialStateType
  <2> QED BY <1>1, <1>5, <2>2, <2>3, <2>4 DEF RowOK, Plan
<1>6. CASE chain[c].state # "absent"
  <2>1. PICK r : r = [chain[c] EXCEPT !.sources = chain[c].sources \cup {s}]
    OBVIOUS
  <2>2. chain' = [chain EXCEPT ![c] = r] /\ attempts' = attempts
    BY <1>2, <1>6, <2>1 DEF CreateOrGetChain
  <2>3. r.index = chain[c].index /\ r.state = chain[c].state
    BY <1>1, <2>1 DEF ChainRow
  <2> QED BY <2>2, <2>3 DEF Plan
<1> QED BY <1>5, <1>6

(* A reconciliation closes superseded chains and touches no other.         *)
LEMMA ReconcileMoves ==
  ASSUME LedgerOK(chain, attempts, now), Reconcile, NEW c \in Chains
  PROVE  /\ chain'[c].index = chain[c].index
         /\ \/ chain'[c] = chain[c]
            \/ Superseded(c, primary) /\ chain'[c].state = "fresh"
<1>1. chain[c] \in ChainRow
  BY DEF LedgerOK, RowOK
<1>2. CASE ~Superseded(c, primary)
  BY <1>2 DEF Reconcile, ReconcileFreshPrimaryOutcomes
<1>3. CASE Superseded(c, primary)
  <2>1. PICK r : r = chain'[c]
    OBVIOUS
  <2>2. r = [Unleased(chain[c], "fresh", None)
               EXCEPT !.action = "complete", !.paidOk = FALSE]
    BY <1>3, <2>1 DEF Reconcile, ReconcileFreshPrimaryOutcomes
  <2>3. r.state = "fresh" /\ r.index = chain[c].index
    BY <1>1, <2>2 DEF Unleased, ChainRow
  <2> QED BY <1>3, <2>1, <2>3
<1> QED BY <1>2, <1>3

-----------------------------------------------------------------------------
(* What one step of the system does to one chain.                          *)
Swept(c) ==
  /\ chain[c].state \in Pending \cup {"running"}
  /\ LeaseExpired(c, now) \/ chain[c].deadline <= now
  /\ chain'[c].state \in {"waiting", "exhausted"}

Claimed(c) ==
  /\ chain[c].state \in Pending \/ LeaseExpired(c, now)
  /\ chain'[c].state = "running"

Closed(c) == Superseded(c, primary) /\ chain'[c].state = "fresh"

Decided(c) ==
  \E w \in Workers : /\ Report(w) /\ Current(w, c) /\ worker'[w] = Idle
                     /\ chain[c].state = "running"
                     /\ chain'[c].state = "fresh" => worker[w].verdict = "complete"

ChainStep(c) ==
  \/ chain'[c].state = chain[c].state
  \/ chain[c].state = "absent" /\ chain'[c].state \in Pending \cup Parked
  \/ Swept(c) \/ Claimed(c) \/ Closed(c) \/ Decided(c)

LEMMA StepMoves ==
  ASSUME ConvergenceAssumption, IInv, [Next]_vars
  PROVE  /\ \A c \in Chains : ChainStep(c)
         /\ \A a \in attempts : a.state # "running" => a \in attempts'
<1> DEFINE Goal == /\ \A c \in Chains : ChainStep(c)
                   /\ \A a \in attempts : a.state # "running" => a \in attempts'
<1>1. LedgerOK(chain, attempts, now) /\ WorkersOK /\ now \in Nat
      /\ DOMAIN chain = Chains
  BY IInvParts DEF WorkersOK, WorldTypeOK, LedgerOK
<1>2. ASSUME UNCHANGED ledger PROVE Goal
  BY <1>2 DEF ledger, ChainStep
<1>3. \A a \in attempts : a.state # "running" => a \in SweptAttempts(now)
  BY DEF SweptAttempts, SweptAttempt
<1>4. ASSUME NEW w \in Workers, NEW lane \in Lanes, Miss(w, lane) PROVE Goal
  <2>1. chain' = SweptChains(now) /\ attempts' = SweptAttempts(now)
    BY <1>4 DEF Miss, ClaimNothing
  <2>2. ASSUME NEW c \in Chains PROVE ChainStep(c)
    BY <1>1, <2>1, SweepMoves DEF SweptTo, ChainStep, Swept
  <2> QED BY <1>3, <2>1, <2>2
<1>5. ASSUME NEW w \in Workers, NEW lane \in Lanes, NEW c \in Chains,
             Claim(w, lane, c)
      PROVE Goal
  <2>1. ClaimDue(c, OwnerOf[w], now, LeaseOf[lane], {lane}, EligibleFor[lane])
    BY <1>5 DEF Claim
  <2>2. /\ SweptChains(now)[c].state \in Pending
        /\ \A d \in Chains \ {c} : chain'[d] = SweptChains(now)[d]
        /\ chain'[c].state = "running"
        /\ \A a \in SweptAttempts(now) : a \in attempts'
    BY <1>1, <2>1, ClaimMoves
  <2>3. ChainStep(c)
    <3>1. chain[c].state \in Pending \/ LeaseExpired(c, now) \/ chain[c].deadline <= now
      BY <1>1, <2>2, SweepMoves DEF SweptTo
    <3>2. SweptChains(now)[c] = SweptRow(c, now)
      BY DEF SweptChains
    <3>3. \/ SweptRow(c, now) = chain[c] \/ LeaseExpired(c, now)
          \/ SweptRow(c, now).state = "exhausted"
      BY <1>1, SweptRowFacts DEF LedgerOK, RowOK
    <3>4. chain[c].state \in Pending \/ LeaseExpired(c, now)
      BY <2>2, <3>2, <3>3 DEF Pending
    <3> QED BY <2>2, <3>4 DEF ChainStep, Claimed
  <2>4. ASSUME NEW d \in Chains, d # c PROVE ChainStep(d)
    BY <1>1, <2>2, <2>4, SweepMoves DEF SweptTo, ChainStep, Swept
  <2> QED BY <1>3, <2>2, <2>3, <2>4
<1>6. ASSUME NEW w \in Workers, Report(w) PROVE Goal
  <2>1. CASE UNCHANGED ledger
    BY <1>2, <2>1
  <2>2. CASE ~UNCHANGED ledger
    <3>0. PICK c \in Chains, a \in attempts :
            /\ Current(w, c) /\ chain[c].state = "running"
            /\ a = ClaimedAttempt(w) /\ a.state = "running"
            /\ \E r : /\ chain' = [chain EXCEPT ![c] = r]
                      /\ r.state \in ChainStates \ {"running", "absent"}
                      /\ r.index = chain[c].index
                      /\ r.state = "fresh" => worker[w].verdict = "complete"
            /\ \E b : attempts' = (attempts \ {a}) \cup {b}
      BY <1>6, <2>2, ReportMoves, Zenon
    <3>1. PICK r, b : /\ chain' = [chain EXCEPT ![c] = r]
                      /\ r.state = "fresh" => worker[w].verdict = "complete"
                      /\ attempts' = (attempts \ {a}) \cup {b}
      BY <3>0
    <3>2. worker'[w] = Idle
      BY <1>1, <1>6 DEF Report, WorkersOK, WorldTypeOK
    <3>3. chain'[c] = r /\ \A d \in Chains \ {c} : chain'[d] = chain[d]
      BY <1>1, <3>1
    <3>4. ChainStep(c)
      BY <1>6, <3>0, <3>1, <3>2, <3>3 DEF ChainStep, Decided
    <3>5. \A d \in Chains \ {c} : ChainStep(d)
      BY <3>3 DEF ChainStep
    <3> QED BY <3>0, <3>1, <3>4, <3>5
  <2> QED BY <2>1, <2>2
<1>7. ASSUME NEW c \in Chains, NEW s \in Sources, NEW action \in PlannedActions,
             Plan(c, s, action)
      PROVE Goal
  <2>1. PICK r : /\ attempts' = attempts /\ chain' = [chain EXCEPT ![c] = r]
                 /\ \/ r.state = chain[c].state
                    \/ chain[c].state = "absent" /\ r.state \in Pending \cup Parked
    BY <1>1, <1>7, PlanMoves
  <2>2. chain'[c] = r /\ \A d \in Chains \ {c} : chain'[d] = chain[d]
    BY <1>1, <2>1
  <2> QED BY <2>1, <2>2 DEF ChainStep
<1>8. CASE Reconcile
  <2>1. attempts' = attempts
    BY <1>8 DEF Reconcile, ReconcileFreshPrimaryOutcomes
  <2>2. ASSUME NEW c \in Chains PROVE ChainStep(c)
    BY <1>1, <1>8, ReconcileMoves DEF ChainStep, Closed
  <2> QED BY <2>1, <2>2
<1>9. ASSUME NEW w \in Workers, WorkerStep(w) PROVE Goal
  <2>1. UNCHANGED ledger \/ Report(w) \/ (\E lane \in Lanes : Miss(w, lane))
        \/ \E lane \in Lanes, c \in Chains : Claim(w, lane, c)
    BY <1>9 DEF WorkerStep, Start, TransportDue, TransportSkipped, Execute,
                ExecuteRaises
  <2> QED BY <1>2, <1>4, <1>5, <1>6, <2>1
<1>10. \/ UNCHANGED ledger \/ Reconcile
       \/ \E c \in Chains, s \in Sources, action \in PlannedActions : Plan(c, s, action)
       \/ \E w \in Workers : WorkerStep(w)
  BY DEF Next, vars, Tick, Publish, Crash
<1> QED BY <1>2, <1>7, <1>8, <1>9, <1>10

(* Whatever happens between a claim and its report, only the deadline, an  *)
(* expired lease or the report of the current claim ends a running chain.  *)
THEOREM CurrentDecides == Spec => CurrentWorkerDecides
<1>1. ConvergenceAssumption /\ IInv /\ [Next]_vars =>
        \A c \in Chains :
          chain[c].state = "running" /\ chain'[c].state # "running" =>
            \/ LeaseExpired(c, now) \/ chain[c].deadline <= now
            \/ \E w \in Workers : Current(w, c) /\ worker'[w] = Idle
  <2> SUFFICES ASSUME ConvergenceAssumption, IInv, [Next]_vars, NEW c \in Chains,
                      chain[c].state = "running", chain'[c].state # "running"
               PROVE  \/ LeaseExpired(c, now) \/ chain[c].deadline <= now
                      \/ \E w \in Workers : Current(w, c) /\ worker'[w] = Idle
    OBVIOUS
  <2>1. ChainStep(c)
    BY StepMoves
  <2> QED BY <2>1 DEF ChainStep, Swept, Claimed, Closed, Decided, Superseded,
                      Pending, Parked
<1> QED BY <1>1, Invariance, ConvergenceAssumption, PTL
           DEF Spec, CurrentWorkerDecides

(* Nothing reopens a settled chain, and a recorded attempt keeps what was  *)
(* recorded, whatever stale reports, sweeps and plans come later.          *)
THEOREM SettledRemain == Spec => SettledStays
<1>1. ConvergenceAssumption /\ IInv /\ [Next]_vars =>
        /\ \A c \in Chains : Settled(c) =>
             \/ chain'[c].state = chain[c].state
             \/ /\ chain'[c].state = "fresh"
                /\ \A s \in chain[c].sources : primary[s] > chain[c].created
        /\ \A a \in attempts : a.state # "running" => a \in attempts'
  <2> SUFFICES ASSUME ConvergenceAssumption, IInv, [Next]_vars
               PROVE  /\ \A c \in Chains : Settled(c) =>
                           \/ chain'[c].state = chain[c].state
                           \/ /\ chain'[c].state = "fresh"
                              /\ \A s \in chain[c].sources :
                                   primary[s] > chain[c].created
                      /\ \A a \in attempts : a.state # "running" => a \in attempts'
    OBVIOUS
  <2>1. /\ \A c \in Chains : ChainStep(c)
        /\ \A a \in attempts : a.state # "running" => a \in attempts'
    BY StepMoves
  <2>2. ASSUME NEW c \in Chains, Settled(c)
        PROVE  \/ chain'[c].state = chain[c].state
               \/ /\ chain'[c].state = "fresh"
                  /\ \A s \in chain[c].sources : primary[s] > chain[c].created
    BY <2>1, <2>2 DEF ChainStep, Swept, Claimed, Closed, Decided, Superseded,
                      Settled, LeaseExpired, Pending, Parked
  <2> QED BY <2>1, <2>2
<1> QED BY <1>1, Invariance, ConvergenceAssumption, PTL DEF Spec, SettledStays

-----------------------------------------------------------------------------
(* One chain is found by has_due iff claim_due would find it: after its    *)
(* sweep the chain is queued, and either it was or its lease had expired.  *)
LEMMA FoundByBoth ==
  ASSUME chain \in [Chains -> ChainRow], now \in Nat, None \notin Nat,
         NEW c \in Chains, NEW acts, NEW eligible
  PROVE  Claimable(SweptRow(c, now), now, acts, eligible) <=>
           /\ chain[c].deadline > now
           /\ \/ /\ chain[c].state \in Pending
                 /\ chain[c].next # None
                 /\ chain[c].next <= now
                 /\ chain[c].until # None => chain[c].until <= now
              \/ LeaseExpired(c, now)
           /\ chain[c].action \in acts
           /\ eligible # {} /\ chain[c].sources \subseteq eligible
<1>1. chain[c] \in ChainRow /\ chain[c].deadline \in Nat
  BY DEF ChainRow
<1>2. PICK r : r = SweptRow(c, now)
  OBVIOUS
<1>3. /\ r.action = chain[c].action /\ r.deadline = chain[c].deadline
      /\ \/ r = chain[c]
         \/ r.state = "exhausted" /\ chain[c].deadline <= now
         \/ /\ r.state = "waiting" /\ r.next = now /\ r.until = None
            /\ LeaseExpired(c, now)
      /\ LeaseExpired(c, now) => r.state \in {"waiting", "exhausted"}
  BY <1>1, <1>2, SweptRowFacts
<1>4. r.sources = chain[c].sources
  BY <1>1, <1>2 DEF SweptRow, Unleased, ChainRow
<1> QED BY <1>1, <1>2, <1>3, <1>4 DEF Claimable, LeaseExpired, Pending

(* Before the paid lane the worker asks has_due, a query of its own: it    *)
(* never skips the lane when a chain is due, nor opens it for nothing.     *)
THEOREM HasDueClaims == Spec => []HasDueIsClaimable
<1>1. IInv /\ ConvergenceAssumption => HasDueIsClaimable
  <2> SUFFICES ASSUME IInv, ConvergenceAssumption, NEW lane \in Lanes
               PROVE  HasDue(now, {lane}, EligibleFor[lane])
                        <=> Due(now, {lane}, EligibleFor[lane]) # {}
    BY DEF HasDueIsClaimable
  <2>1. chain \in [Chains -> ChainRow] /\ now \in Nat /\ None \notin Nat
    BY DEF IInv, TypeOK, StoreTypeOK, ConvergenceAssumption
  <2>2. PICK acts, eligible : acts = {lane} /\ eligible = EligibleFor[lane]
    OBVIOUS
  <2>3. HasDue(now, acts, eligible) <=> Due(now, acts, eligible) # {}
    BY <2>1, FoundByBoth DEF HasDue, Due
  <2> QED BY <2>2, <2>3
<1> QED BY <1>1, Invariance, ConvergenceAssumption, PTL

-----------------------------------------------------------------------------
(* The refinement of FencedRecovery.  Its variables, as they are mapped.   *)
Holding(w) == IF Held(w) THEN <<worker[w].chain, worker[w].number>> ELSE None

Phase   == [c \in Chains |-> PhaseOf(chain[c])]
Fence   == [c \in Chains |-> chain[c].index]
Holders == [w \in Workers |-> Holding(w)]

LEMMA PhaseFacts ==
  ASSUME NEW row, row.state \in ChainStates
  PROVE  /\ PhaseOf(row) \in Abstract!Phases
         /\ (PhaseOf(row) = "absent")   <=> (row.state = "absent")
         /\ (PhaseOf(row) = "queued")   <=> (row.state \in Pending)
         /\ (PhaseOf(row) = "granted")  <=> (row.state = "running")
         /\ (PhaseOf(row) = "parked")   <=> (row.state \in Parked)
         /\ (PhaseOf(row) = "given_up") <=> (row.state = "exhausted")
         /\ (PhaseOf(row) = "fresh")    <=> (row.state = "fresh")
BY DEF PhaseOf, Abstract!Phases, ChainStates, Pending, Parked

(* The state column decides the phase.                                     *)
LEMMA SamePhase ==
  ASSUME NEW row, NEW other, row.state = other.state
  PROVE  PhaseOf(row) = PhaseOf(other)
BY DEF PhaseOf

(* Who holds what changes only where a worker's row does.                  *)
LEMMA HoldersOf ==
  ASSUME NEW w \in Workers, worker \in [Workers -> Run], NEW r,
         worker' = [worker EXCEPT ![w] = r]
  PROVE  /\ r.pc \notin {"executing", "reporting"} =>
              Holders' = [Holders EXCEPT ![w] = None]
         /\ r.pc \in {"executing", "reporting"} =>
              Holders' = [Holders EXCEPT ![w] = <<r.chain, r.number>>]
<1>1. \A v \in Workers \ {w} : worker'[v] = worker[v]
  OBVIOUS
<1>2. worker'[w] = r
  OBVIOUS
<1>3. \A v \in Workers \ {w} : Holding(v)' = Holding(v)
  BY <1>1 DEF Holding, Held
<1>4. /\ r.pc \notin {"executing", "reporting"} => Holding(w)' = None
      /\ r.pc \in {"executing", "reporting"} => Holding(w)' = <<r.chain, r.number>>
  BY <1>2 DEF Holding, Held
<1> QED BY <1>3, <1>4 DEF Holders

LEMMA AbstractSweep ==
  ASSUME LedgerOK(chain, attempts, now), now \in Nat,
         chain' = SweptChains(now), Holders' = Holders
  PROVE  Abstract!Sweep
<1>1. \A c \in Chains : chain[c].state \in ChainStates
  BY DEF LedgerOK, RowOK, ChainRow
<1>2. ASSUME NEW c \in Chains
      PROVE  /\ chain'[c].index = chain[c].index
             /\ PhaseOf(chain'[c]) \in Abstract!Phases
             /\ \/ PhaseOf(chain'[c]) = PhaseOf(chain[c])
                \/ /\ PhaseOf(chain[c]) \in {"queued", "granted"}
                   /\ PhaseOf(chain'[c]) \in {"queued", "given_up"}
  <2>1. SweptTo(c, chain'[c])
    BY SweepMoves
  <2> QED BY <1>1, <2>1, PhaseFacts DEF SweptTo, Pending
<1>3. Fence' = Fence
  BY <1>2 DEF Fence
<1>4. Phase' \in Abstract!Withdrawn /\ Abstract!Withdraw(Phase')
  BY <1>2 DEF Phase, Abstract!Withdrawn, Abstract!Withdraw
<1> QED BY <1>3, <1>4 DEF Abstract!Sweep, Phase, Fence, Holders, Holding

(* A step that keeps the phases and the fences at most drops a grant.      *)
LEMMA AbstractDrop ==
  ASSUME Phase' = Phase, Fence' = Fence,
         \/ Holders' = Holders
         \/ \E w \in Workers : Holders' = [Holders EXCEPT ![w] = None]
  PROVE  [Abstract!ANext]_(Abstract!avars)
<1>1. CASE Holders' = Holders
  BY <1>1 DEF Abstract!avars, Phase, Fence, Holders, Holding
<1>2. ASSUME NEW w \in Workers, Holders' = [Holders EXCEPT ![w] = None]
      PROVE  [Abstract!ANext]_(Abstract!avars)
  <2>1. CASE Holders[w] = None
    <3>1. Holders' = Holders
      BY <1>2, <2>1 DEF Holders
    <3> QED BY <1>1, <3>1
  <2>2. CASE Holders[w] # None
    <3>1. Abstract!Drop(w)
      BY <1>2, <2>2 DEF Abstract!Drop, Phase, Fence, Holders, Holding
    <3> QED BY <3>1 DEF Abstract!ANext
  <2> QED BY <2>1, <2>2
<1> QED BY <1>1, <1>2

LEMMA AbstractGrant ==
  ASSUME LedgerOK(chain, attempts, now), WorldTypeOK, NEW w \in Workers,
         NEW lane \in Lanes, NEW c \in Chains, Claim(w, lane, c)
  PROVE  Abstract!Grant(w, c)
<1>1. now \in Nat /\ worker \in [Workers -> Run]
  BY DEF WorldTypeOK
<1>2. \A d \in Chains : chain[d].state \in ChainStates
  BY DEF LedgerOK, RowOK, ChainRow
<1>3. ClaimDue(c, OwnerOf[w], now, LeaseOf[lane], {lane}, EligibleFor[lane])
  BY DEF Claim
<1>4. /\ SweptChains(now)[c].state \in Pending
      /\ \A d \in Chains \ {c} : chain'[d] = SweptChains(now)[d]
      /\ chain'[c].state = "running" /\ chain'[c].index = chain[c].index + 1
  BY <1>1, <1>3, ClaimMoves
<1>5. PICK p : p = [d \in Chains |-> PhaseOf(SweptChains(now)[d])]
  OBVIOUS
<1>6. ASSUME NEW d \in Chains
      PROVE  /\ SweptTo(d, SweptChains(now)[d])
             /\ p[d] \in Abstract!Phases
             /\ \/ p[d] = PhaseOf(chain[d])
                \/ /\ PhaseOf(chain[d]) \in {"queued", "granted"}
                   /\ p[d] \in {"queued", "given_up"}
  <2>1. SweptTo(d, SweptChains(now)[d])
    BY <1>1, SweepMoves
  <2> QED BY <1>2, <1>5, <2>1, PhaseFacts DEF SweptTo, Pending
<1>7. p \in Abstract!Withdrawn /\ Abstract!Withdraw(p)
  BY <1>5, <1>6 DEF Abstract!Withdrawn, Abstract!Withdraw
<1>8. p[c] = "queued"
  <2>1. SweptChains(now)[c].state \in ChainStates
    BY <1>6 DEF SweptTo
  <2> QED BY <1>4, <1>5, <2>1, PhaseFacts
<1>9. Phase' = [p EXCEPT ![c] = "granted"]
  <2>1. PhaseOf(chain'[c]) = "granted"
    BY <1>4, PhaseFacts DEF ChainStates
  <2> QED BY <1>4, <1>5, <2>1 DEF Phase
<1>10. Fence' = [Fence EXCEPT ![c] = @ + 1]
  <2>1. \A d \in Chains \ {c} : chain'[d].index = chain[d].index
    BY <1>4, <1>6 DEF SweptTo
  <2> QED BY <1>4, <2>1 DEF Fence
<1>11. Holders[w] = None /\ Holders' = [Holders EXCEPT ![w] = <<c, Fence[c] + 1>>]
  <2>1. PICK r : r = [Idle EXCEPT !.pc = "executing", !.chain = c,
                        !.number = chain[c].index + 1,
                        !.sources = chain[c].sources, !.moment = now]
    OBVIOUS
  <2>2. worker' = [worker EXCEPT ![w] = r]
    BY <2>1 DEF Claim
  <2>3. r.pc = "executing" /\ r.chain = c /\ r.number = chain[c].index + 1
    BY <2>1 DEF Idle
  <2>4. Holders' = [Holders EXCEPT ![w] = <<r.chain, r.number>>]
    BY <1>1, <2>2, <2>3, HoldersOf
  <2>5. ~Held(w)
    BY DEF Claim, At, Held, Lanes
  <2> QED BY <2>3, <2>4, <2>5 DEF Holders, Holding, Fence
<1> QED BY <1>7, <1>8, <1>9, <1>10, <1>11
        DEF Abstract!Grant, Phase, Fence, Holders, Holding

LEMMA AbstractReport ==
  ASSUME ConvergenceAssumption, IInv, NEW w \in Workers, Report(w)
  PROVE  [Abstract!ANext]_(Abstract!avars)
<1>1. /\ DOMAIN chain = Chains /\ worker \in [Workers -> Run]
      /\ \A c \in Chains : chain[c].state \in ChainStates
  BY IInvParts DEF LedgerOK, RowOK, ChainRow, WorkersOK, WorldTypeOK
<1>2. Holders' = [Holders EXCEPT ![w] = None]
  <2>1. worker' = [worker EXCEPT ![w] = Idle] /\ Idle.pc = "idle"
    BY DEF Report, Idle
  <2>2. PICK r : r = Idle
    OBVIOUS
  <2> QED BY <1>1, <2>1, <2>2, HoldersOf
<1>3. CASE UNCHANGED ledger
  <2>1. Phase' = Phase /\ Fence' = Fence
    BY <1>3 DEF ledger, Phase, Fence
  <2> QED BY <1>2, <2>1, AbstractDrop
<1>4. CASE ~UNCHANGED ledger
  <2>1. PICK c \in Chains, a \in attempts :
          /\ Current(w, c) /\ chain[c].state = "running"
          /\ a = ClaimedAttempt(w) /\ a.state = "running"
          /\ \E r : /\ chain' = [chain EXCEPT ![c] = r]
                    /\ r.state \in ChainStates \ {"running", "absent"}
                    /\ r.index = chain[c].index
                    /\ r.state = "fresh" => worker[w].verdict = "complete"
          /\ \E b : attempts' = (attempts \ {a}) \cup {b}
    BY <1>4, ReportMoves, Zenon
  <2>2. PICK r : /\ chain' = [chain EXCEPT ![c] = r]
                 /\ r.state \in ChainStates \ {"running", "absent"}
                 /\ r.index = chain[c].index
    BY <2>1
  <2>3. PhaseOf(r) \in {"queued", "parked", "given_up", "fresh"}
    BY <2>2, PhaseFacts DEF ChainStates
  <2>4. Phase' = [Phase EXCEPT ![c] = PhaseOf(r)] /\ Fence' = Fence
    BY <1>1, <2>2 DEF Phase, Fence
  <2>5. Holders[w] = <<c, Fence[c]>>
    BY <2>1 DEF Current, Holders, Holding, Fence
  <2>6. Phase[c] = "granted"
    BY <1>1, <2>1, PhaseFacts DEF Phase
  <2>7. Abstract!Decide(w, c)
    BY <1>2, <2>3, <2>4, <2>5, <2>6
       DEF Abstract!Decide, Phase, Fence, Holders, Holding
  <2> QED BY <2>7 DEF Abstract!ANext
<1> QED BY <1>3, <1>4

LEMMA AbstractPlan ==
  ASSUME ConvergenceAssumption, LedgerOK(chain, attempts, now),
         NEW c \in Chains, NEW s \in Sources, NEW action \in PlannedActions,
         Plan(c, s, action)
  PROVE  [Abstract!ANext]_(Abstract!avars)
<1>1. /\ DOMAIN chain = Chains
      /\ \A d \in Chains : chain[d].state \in ChainStates
  BY DEF LedgerOK, RowOK, ChainRow
<1>2. PICK r : /\ chain' = [chain EXCEPT ![c] = r]
               /\ r.index = chain[c].index
               /\ \/ r.state = chain[c].state
                  \/ chain[c].state = "absent" /\ r.state \in Pending \cup Parked
  BY PlanMoves
<1>3. Holders' = Holders
  BY PlanMoves DEF Holders, Holding, Held
<1>4. Phase' = [Phase EXCEPT ![c] = PhaseOf(r)] /\ Fence' = Fence
  BY <1>1, <1>2 DEF Phase, Fence
<1>5. CASE r.state = chain[c].state
  <2>1. Phase' = Phase
    <3>1. PhaseOf(r) = PhaseOf(chain[c])
      BY <1>5, SamePhase
    <3>2. Phase = [d \in Chains |-> PhaseOf(chain[d])]
      BY DEF Phase
    <3> QED BY ONLY <1>4, <3>1, <3>2
  <2> QED BY <1>3, <1>4, <2>1, AbstractDrop
<1>6. CASE chain[c].state = "absent" /\ r.state \in Pending \cup Parked
  <2>1. Phase[c] = "absent" /\ PhaseOf(r) \in {"queued", "parked"}
    BY <1>1, <1>6, PhaseFacts DEF Phase, ChainStates
  <2>2. Abstract!Open(c)
    BY <1>3, <1>4, <2>1 DEF Abstract!Open, Phase, Fence, Holders, Holding
  <2> QED BY <2>2 DEF Abstract!ANext
<1> QED BY <1>2, <1>5, <1>6

LEMMA AbstractReconcile ==
  ASSUME LedgerOK(chain, attempts, now), Reconcile
  PROVE  Abstract!Improve
<1>1. \A c \in Chains : chain[c].state \in ChainStates
  BY DEF LedgerOK, RowOK, ChainRow
<1>2. ASSUME NEW c \in Chains
      PROVE  /\ chain'[c].index = chain[c].index
             /\ PhaseOf(chain'[c]) \in Abstract!Phases
             /\ \/ PhaseOf(chain'[c]) = PhaseOf(chain[c])
                \/ /\ PhaseOf(chain[c]) \in {"queued", "parked", "given_up"}
                   /\ PhaseOf(chain'[c]) = "fresh"
  <2>1. /\ chain'[c].index = chain[c].index
        /\ \/ chain'[c] = chain[c]
           \/ Superseded(c, primary) /\ chain'[c].state = "fresh"
    BY ReconcileMoves
  <2>2. chain'[c].state \in ChainStates
    BY <1>1, <2>1 DEF ChainStates
  <2> QED BY <1>1, <2>1, <2>2, PhaseFacts DEF Superseded
<1>3. Fence' = Fence /\ Holders' = Holders
  BY <1>2 DEF Fence, Holders, Holding, Held, Reconcile
<1>4. Phase' \in Abstract!Withdrawn
  BY <1>2 DEF Phase, Abstract!Withdrawn
<1>5. \A c \in Chains : \/ Phase'[c] = Phase[c]
                        \/ Phase[c] \in {"queued", "parked", "given_up"}
                           /\ Phase'[c] = "fresh"
  BY <1>2 DEF Phase
<1> QED BY <1>3, <1>4, <1>5 DEF Abstract!Improve, Phase, Fence, Holders, Holding

(* The end of an execution keeps the claim and fills in the report.        *)
SameClaim(r, q) == /\ r.chain = q.chain /\ r.number = q.number
                   /\ r.sources = q.sources /\ r.moment = q.moment

LEMMA ExecuteRow ==
  ASSUME WorldTypeOK, NEW w \in Workers, Execute(w)
  PROVE  \E results \in [worker[w].sources -> SourceResults] :
           \E class \in Classify(results), p \in PaidBy(w) : \E r :
             /\ worker' = [worker EXCEPT ![w] = r] /\ SameClaim(r, worker[w])
             /\ r.pc = "reporting" /\ r.ok = TRUE /\ r.paid = p
             /\ r.verdict = VerdictOf(class)
             /\ freshAt' = [s \in Sources |->
                  IF s \in worker[w].sources
                       /\ results[s].outcome = "fresh_published"
                  THEN now ELSE freshAt[s]]
<1>1. worker[w] \in Run
  BY DEF WorldTypeOK
<1>2. PICK results \in [worker[w].sources -> SourceResults], p \in PaidBy(w) :
        \E class \in Classify(results) :
          /\ worker' = [worker EXCEPT ![w].pc = "reporting", ![w].ok = TRUE,
                          ![w].verdict = VerdictOf(class), ![w].paid = p]
          /\ freshAt' = [s \in Sources |->
               IF s \in worker[w].sources /\ results[s].outcome = "fresh_published"
               THEN now ELSE freshAt[s]]
  BY Zenon DEF Execute
<1>3. PICK class \in Classify(results) :
        /\ worker' = [worker EXCEPT ![w].pc = "reporting", ![w].ok = TRUE,
                        ![w].verdict = VerdictOf(class), ![w].paid = p]
        /\ freshAt' = [s \in Sources |->
             IF s \in worker[w].sources /\ results[s].outcome = "fresh_published"
             THEN now ELSE freshAt[s]]
  BY <1>2
<1>4. PICK v : v = VerdictOf(class)
  OBVIOUS
<1>5. PICK r : r = [worker[w] EXCEPT !.pc = "reporting", !.ok = TRUE,
                                     !.verdict = v, !.paid = p]
  OBVIOUS
<1>6. worker' = [worker EXCEPT ![w] = r]
  BY <1>3, <1>4, <1>5 DEF WorldTypeOK
<1>7. /\ SameClaim(r, worker[w])
      /\ r.pc = "reporting" /\ r.ok = TRUE /\ r.paid = p /\ r.verdict = v
  BY <1>1, <1>5 DEF Run, SameClaim
<1> HIDE <1>5
<1>8. /\ worker' = [worker EXCEPT ![w] = r] /\ SameClaim(r, worker[w])
      /\ r.pc = "reporting" /\ r.ok = TRUE /\ r.paid = p
      /\ r.verdict = VerdictOf(class)
  BY <1>4, <1>6, <1>7
<1> QED BY <1>3, <1>8

LEMMA RaiseRow ==
  ASSUME WorldTypeOK, NEW w \in Workers, ExecuteRaises(w)
  PROVE  \E r : /\ worker' = [worker EXCEPT ![w] = r] /\ SameClaim(r, worker[w])
                /\ r.pc = "reporting" /\ r.ok = FALSE
                /\ r.paid = worker[w].paid /\ r.verdict = "retry_local"
<1>1. worker[w] \in Run
  BY DEF WorldTypeOK
<1>2. Decide("failed", "dependency", FALSE) = "retry_local"
  BY DEF Decide, UpstreamReasons, PauseReasons, CandidateReasons, LocalReasons
<1>3. PICK r : r = [worker[w] EXCEPT !.pc = "reporting", !.ok = FALSE,
                                     !.verdict = "retry_local"]
  OBVIOUS
<1>4. worker' = [worker EXCEPT ![w] = r]
  BY <1>2, <1>3 DEF ExecuteRaises, WorldTypeOK
<1>5. /\ SameClaim(r, worker[w]) /\ r.pc = "reporting" /\ r.ok = FALSE
      /\ r.paid = worker[w].paid /\ r.verdict = "retry_local"
  BY <1>1, <1>3 DEF Run, SameClaim
<1> QED BY <1>4, <1>5

(* The ledger with its workers implements the abstract fenced recovery:    *)
(* grants have new numbers, only the holder of the current one decides, a  *)
(* settled item is never granted again.                                    *)
THEOREM Refinement == Spec => ImplementsFencedRecovery
<1>1. Init => Abstract!AInit
  <2> SUFFICES ASSUME Init PROVE Abstract!AInit
    OBVIOUS
  <2>1. \A c \in Chains : PhaseOf(chain[c]) = "absent" /\ chain[c].index = 0
    BY PhaseFacts DEF Init, StoreInit, Absent, ChainStates
  <2>2. \A w \in Workers : ~Held(w)
    BY DEF Init, Held, Idle
  <2> QED BY <2>1, <2>2 DEF Abstract!AInit
<1>2. IInv /\ [Next]_vars => [Abstract!ANext]_(Abstract!avars)
  <2> SUFFICES ASSUME IInv, [Next]_vars
               PROVE  [Abstract!ANext]_(Abstract!avars)
    OBVIOUS
  <2>1. LedgerOK(chain, attempts, now) /\ WorldTypeOK /\ ConvergenceAssumption
        /\ now \in Nat /\ worker \in [Workers -> Run]
    BY IInvParts, ConvergenceAssumption DEF WorkersOK, WorldTypeOK
  <2>2. ASSUME UNCHANGED ledger, UNCHANGED worker
        PROVE  [Abstract!ANext]_(Abstract!avars)
    BY <2>2, AbstractDrop DEF ledger, Phase, Fence, Holders, Holding, Held
  <2>3. ASSUME UNCHANGED ledger, NEW w \in Workers,
               \/ Start(w) \/ TransportDue(w) \/ TransportSkipped(w)
               \/ Execute(w) \/ ExecuteRaises(w) \/ Crash(w)
        PROVE  [Abstract!ANext]_(Abstract!avars)
    <3>1. Phase' = Phase /\ Fence' = Fence
      BY <2>3 DEF ledger, Phase, Fence
    <3>2. \/ Holders' = Holders
          \/ \E v \in Workers : Holders' = [Holders EXCEPT ![v] = None]
      <4>1. \A v \in Workers \ {w} : worker'[v] = worker[v]
        BY <2>1, <2>3 DEF Start, Goto, TransportDue, TransportSkipped, Execute,
                          ExecuteRaises, Crash
      <4>2. \/ worker'[w].pc \notin {"executing", "reporting"}
            \/ /\ Held(w) /\ worker'[w].pc \in {"executing", "reporting"}
               /\ worker'[w].chain = worker[w].chain
               /\ worker'[w].number = worker[w].number
        <5>1. worker[w] \in Run
          BY <2>1
        <5>2. CASE Start(w) \/ TransportDue(w) \/ TransportSkipped(w) \/ Crash(w)
          BY <2>1, <5>1, <5>2 DEF Start, Goto, TransportDue, TransportSkipped, Crash,
                                  Idle, Run
        <5>3. CASE Execute(w) \/ ExecuteRaises(w)
          <6>1. PICK r : worker' = [worker EXCEPT ![w] = r] /\ SameClaim(r, worker[w])
                         /\ r.pc = "reporting"
            BY <2>1, <5>3, ExecuteRow, RaiseRow
          <6> QED BY <2>1, <5>3, <6>1 DEF Execute, ExecuteRaises, At, Held, SameClaim
        <5> QED BY <2>3, <5>2, <5>3
      <4>3. \A v \in Workers \ {w} : Holding(v)' = Holding(v)
        BY <4>1 DEF Holding, Held
      <4>4. Holding(w)' = None \/ Holding(w)' = Holding(w)
        BY <4>2 DEF Holding, Held
      <4> QED BY <4>3, <4>4 DEF Holders
    <3> QED BY <3>1, <3>2, AbstractDrop
  <2>4. ASSUME NEW w \in Workers, NEW lane \in Lanes, Miss(w, lane)
        PROVE  [Abstract!ANext]_(Abstract!avars)
    <3>1. chain' = SweptChains(now)
      BY <2>4 DEF Miss, ClaimNothing
    <3>2. Holders' = Holders
      <4>1. PICK r : r =
              CASE lane = "retry_candidate" -> [worker[w] EXCEPT !.pc = "probe_upstream"]
                [] lane = "probe_upstream"  -> [worker[w] EXCEPT !.pc = "transport_gate"]
                [] lane = "retry_transport" -> Idle
        OBVIOUS
      <4>2. worker' = [worker EXCEPT ![w] = r] /\ worker[w] \in Run
        BY <2>1, <2>4, <4>1 DEF Miss
      <4>3. r.pc \in {"probe_upstream", "transport_gate", "idle"}
        BY <4>1, <4>2 DEF Lanes, Run, Idle
      <4>4. Holders' = [Holders EXCEPT ![w] = None]
        BY <2>1, <4>2, <4>3, HoldersOf
      <4>5. ~Held(w)
        BY <2>4 DEF Miss, At, Held, Lanes
      <4> QED BY <4>4, <4>5 DEF Holders, Holding
    <3> QED BY <2>1, <3>1, <3>2, AbstractSweep DEF Abstract!ANext
  <2>5. ASSUME NEW w \in Workers, WorkerStep(w)
        PROVE  [Abstract!ANext]_(Abstract!avars)
    <3>1. ASSUME NEW lane \in Lanes, NEW c \in Chains, Claim(w, lane, c)
          PROVE  [Abstract!ANext]_(Abstract!avars)
      BY <2>1, <3>1, AbstractGrant DEF Abstract!ANext
    <3>2. CASE Report(w)
      BY <2>1, <3>2, AbstractReport
    <3>3. CASE \/ Start(w) \/ TransportDue(w) \/ TransportSkipped(w)
               \/ Execute(w) \/ ExecuteRaises(w)
      <4>1. UNCHANGED ledger
        BY <3>3 DEF Start, TransportDue, TransportSkipped, Execute, ExecuteRaises
      <4> QED BY <2>3, <3>3, <4>1
    <3> QED BY <2>4, <2>5, <3>1, <3>2, <3>3 DEF WorkerStep
  <2>6. ASSUME NEW w \in Workers, Crash(w)
        PROVE  [Abstract!ANext]_(Abstract!avars)
    <3>1. UNCHANGED ledger
      BY <2>6 DEF Crash
    <3> QED BY <2>3, <2>6, <3>1
  <2>7. CASE Reconcile
    BY <2>1, <2>7, AbstractReconcile DEF Abstract!ANext
  <2>8. CASE Tick \/ (\E s \in Sources : Publish(s)) \/ UNCHANGED vars
    <3>1. UNCHANGED ledger /\ UNCHANGED worker
      BY <2>8 DEF Tick, Publish, vars
    <3> QED BY <2>2, <3>1
  <2> QED BY <2>1, <2>5, <2>6, <2>7, <2>8, AbstractPlan DEF Next
<1> QED BY <1>1, <1>2, Invariance, PTL
        DEF Spec, ImplementsFencedRecovery, Abstract!ASpec

-----------------------------------------------------------------------------
(* What a report rests on, until it is made: the ledger's columns that it  *)
(* is checked against, and what the execution has found.                   *)
PaidColumn(rows) ==
  \A c \in Chains : rows[c].paidOk <=> (rows[c].action = "retry_transport")

RunningActions(rows, atts) ==
  \A a \in atts : a.state = "running" /\ rows[a.chain].state = "running"
                    => rows[a.chain].action = a.action

LeaseAhead(w) ==
  LET row == chain[worker[w].chain] IN
  Held(w) /\ row.state = "running" /\ row.index = worker[w].number
    => row.until > worker[w].moment

PaidClaim(w) ==
  \E a \in attempts : /\ a.chain = worker[w].chain
                      /\ a.number = worker[w].number
                      /\ a.action = "retry_transport"

ReportOK(w) ==
  /\ worker[w].moment <= now
  /\ At(w, "reporting") /\ worker[w].verdict = "complete" =>
       /\ worker[w].ok
       /\ \A s \in worker[w].sources : freshAt[s] >= worker[w].moment
  /\ worker[w].paid > 0 => At(w, "reporting") /\ PaidClaim(w)

RInv == /\ PaidColumn(chain) /\ RunningActions(chain, attempts)
        /\ \A s \in Sources : freshAt[s] <= now
        /\ \A w \in Workers : LeaseAhead(w) /\ ReportOK(w)

ActionsKept(old, new) ==
  \A a \in old : \E b \in new : SameKey(a, b) /\ b.action = a.action

(* A verdict of "complete" needs a fresh result of every claimed source.   *)
LEMMA CompleteIsFresh ==
  ASSUME ConvergenceAssumption, NEW S, NEW results \in [S -> SourceResults],
         NEW class \in Classify(results), VerdictOf(class) = "complete"
  PROVE  \A s \in S : results[s].outcome = "fresh_published"
<1>1. class.outcome = "fresh_published"
  BY DEF VerdictOf, Decide
<1>2. \A s \in S : results[s].outcome \in DOMAIN Priority
  BY DEF ConvergenceAssumption
<1> DEFINE R == {results[s] : s \in DOMAIN results}
<1>3. CASE \A r \in R : r.outcome = "fresh_published"
  BY <1>3
<1>4. CASE ~(\A r \in R : r.outcome = "fresh_published")
  <2>1. CASE \E r \in R : r.pending
    <3>1. class = [outcome |-> "skipped", reason |-> "unavailable"]
      BY <1>4, <2>1 DEF Classify
    <3> QED BY <1>1, <3>1
  <2>2. CASE ~(\E r \in R : r.pending)
    <3>1. PICK r \in R : /\ class.outcome = r.outcome
                         /\ \A q \in R : Priority[r.outcome] >= Priority[q.outcome]
      BY <1>4, <2>2 DEF Classify
    <3>2. ASSUME NEW q \in R PROVE q.outcome = "fresh_published"
      <4>1. q.outcome \in DOMAIN Priority /\ Priority[r.outcome] >= Priority[q.outcome]
        BY <1>2, <3>1
      <4>2. Priority[r.outcome] = 0
        BY <1>1, <3>1 DEF Priority
      <4> QED BY <4>1, <4>2 DEF Priority
    <3> QED BY <1>4, <3>2
  <2> QED BY <2>1, <2>2
<1> QED BY <1>3, <1>4

(* The sweep.                                                              *)
LEMMA SweepColumns ==
  ASSUME LedgerOK(chain, attempts, now), now \in Nat, NEW c \in Chains, NEW r,
         r = SweptChains(now)[c]
  PROVE  /\ r.action = chain[c].action /\ r.paidOk = chain[c].paidOk
         /\ r.state = "running" => r = chain[c]
<1>1. chain \in [Chains -> ChainRow] /\ chain[c] \in ChainRow
  BY DEF LedgerOK, RowOK
<1>2. r = SweptRow(c, now)
  BY DEF SweptChains
<1>3. /\ r.action = chain[c].action
      /\ r = chain[c] \/ r.state \in {"exhausted", "waiting"}
  BY <1>1, <1>2, SweptRowFacts
<1>4. r.paidOk = chain[c].paidOk
  BY <1>1, <1>2 DEF SweptRow, Unleased, ChainRow
<1> QED BY <1>3, <1>4

LEMMA SweepAttempts ==
  ASSUME LedgerOK(chain, attempts, now), NEW a \in attempts
  PROVE  /\ SameKey(a, SweptAttempt(a, now))
         /\ SweptAttempt(a, now).action = a.action
         /\ SweptAttempt(a, now).state = "running" => SweptAttempt(a, now) = a
<1>1. a \in AttemptRow
  BY DEF LedgerOK, AttemptOK
<1> QED BY <1>1 DEF SweptAttempt, SameKey, AttemptRow

LEMMA SweepRInv ==
  ASSUME LedgerOK(chain, attempts, now), now \in Nat,
         PaidColumn(chain), RunningActions(chain, attempts)
  PROVE  /\ PaidColumn(SweptChains(now))
         /\ RunningActions(SweptChains(now), SweptAttempts(now))
         /\ ActionsKept(attempts, SweptAttempts(now))
<1>1. PaidColumn(SweptChains(now))
  BY SweepColumns DEF PaidColumn
<1>2. ActionsKept(attempts, SweptAttempts(now))
  BY SweepAttempts DEF ActionsKept, SweptAttempts
<1>3. ASSUME NEW a \in attempts, SweptAttempt(a, now).state = "running",
             SweptChains(now)[a.chain].state = "running"
      PROVE  SweptChains(now)[a.chain].action = a.action
  <2>1. SweptAttempt(a, now) = a /\ a.state = "running"
    BY <1>3, SweepAttempts
  <2>2. a.chain \in Chains
    BY DEF LedgerOK, AttemptOK, AttemptRow
  <2>3. SweptChains(now)[a.chain] = chain[a.chain]
    BY <1>3, <2>2, SweepColumns
  <2> QED BY <1>3, <2>1, <2>3 DEF RunningActions
<1>4. RunningActions(SweptChains(now), SweptAttempts(now))
  BY <1>3, SweepAttempts DEF RunningActions, SweptAttempts, SameKey
<1> QED BY <1>1, <1>2, <1>4

(* A claim: the new row has the action of its chain, and a lease ahead.    *)
LEMMA ClaimRInv ==
  ASSUME LedgerOK(chain, attempts, now), now \in Nat, LedgerOK(chain', attempts', now),
         PaidColumn(chain), RunningActions(chain, attempts),
         NEW c \in Chains, NEW owner, NEW lease \in Nat \ {0},
         NEW acts, NEW eligible, ClaimDue(c, owner, now, lease, acts, eligible)
  PROVE  /\ PaidColumn(chain') /\ RunningActions(chain', attempts')
         /\ ActionsKept(attempts, attempts')
         /\ chain'[c].until > now
<1>1. chain \in [Chains -> ChainRow]
  BY DEF LedgerOK, RowOK
<1>2. PICK row : row = SweptRow(c, now)
  OBVIOUS
<1>3. row \in ChainRow /\ row.index = chain[c].index /\ row.index \in Nat
  BY <1>1, <1>2, SweptRowFacts DEF ChainRow
<1>4. PICK nr : nr = [row EXCEPT !.state = "running", !.index = @ + 1,
                        !.next = None, !.owner = owner, !.until = now + lease]
  OBVIOUS
<1>5. /\ nr.state = "running" /\ nr.until = now + lease
      /\ nr.action = row.action /\ nr.paidOk = row.paidOk
      /\ nr.index = row.index + 1
  BY <1>3, <1>4 DEF ChainRow
<1>6. PICK na : na = [chain |-> c, number |-> row.index + 1,
                      action |-> row.action, state |-> "running",
                      worker |-> owner, reason |-> "none", paid |-> 0]
  OBVIOUS
<1>7. na.chain = c /\ na.number = nr.index /\ na.action = nr.action
  BY <1>5, <1>6
<1>8. /\ chain' = [SweptChains(now) EXCEPT ![c] = nr]
      /\ attempts' = SweptAttempts(now) \cup {na}
  BY <1>2, <1>4, <1>6 DEF ClaimDue
<1>9. SweptChains(now)[c] = row /\ DOMAIN SweptChains(now) = Chains
  BY <1>2 DEF SweptChains
<1>10. chain'[c] = nr /\ \A d \in Chains \ {c} : chain'[d] = SweptChains(now)[d]
  BY <1>8, <1>9
<1>11. /\ PaidColumn(SweptChains(now))
       /\ RunningActions(SweptChains(now), SweptAttempts(now))
       /\ ActionsKept(attempts, SweptAttempts(now))
  BY SweepRInv
<1>12. PaidColumn(chain')
  BY <1>5, <1>9, <1>10, <1>11 DEF PaidColumn
<1>13. ASSUME NEW a \in attempts', a.state = "running", chain'[a.chain].state = "running"
       PROVE  chain'[a.chain].action = a.action
  <2>1. a.chain \in Chains
    BY DEF LedgerOK, AttemptOK, AttemptRow
  <2>2. CASE a.chain = c
    <3>1. a.number = nr.index
      BY <1>10, <1>13, <2>2 DEF LedgerOK, AttemptOK
    <3>2. SameKey(a, na) /\ na \in attempts'
      BY <1>7, <1>8, <2>2, <3>1 DEF SameKey
    <3>3. a = na
      BY <3>2 DEF LedgerOK
    <3> QED BY <1>7, <1>10, <3>3
  <2>3. CASE a.chain # c
    <3>1. a \in SweptAttempts(now) /\ chain'[a.chain] = SweptChains(now)[a.chain]
      BY <1>7, <1>8, <1>10, <2>1, <2>3
    <3> QED BY <1>11, <1>13, <3>1 DEF RunningActions
  <2> QED BY <2>2, <2>3
<1>14. ActionsKept(attempts, attempts')
  BY <1>8, <1>11 DEF ActionsKept
<1>15. chain'[c].until > now
  BY <1>5, <1>10
<1> QED BY <1>12, <1>13, <1>14, <1>15 DEF RunningActions

(* A report: the row leaves the running state, the action is the verdict.  *)
LEMMA ReportRInv ==
  ASSUME ConvergenceAssumption, IInv, PaidColumn(chain), RunningActions(chain, attempts),
         NEW w \in Workers, Report(w)
  PROVE  /\ PaidColumn(chain') /\ RunningActions(chain', attempts')
         /\ ActionsKept(attempts, attempts')
         /\ \A c \in Chains : chain'[c].state = "running" => chain'[c] = chain[c]
<1>1. LedgerOK(chain, attempts, now) /\ WorkersOK /\ DOMAIN chain = Chains
  BY IInvParts DEF LedgerOK
<1>2. CASE UNCHANGED ledger
  BY <1>2 DEF ledger, PaidColumn, RunningActions, ActionsKept, SameKey
<1>3. CASE ~UNCHANGED ledger
  <2>1. PICK c \in Chains, a \in attempts :
          /\ Current(w, c) /\ chain[c].state = "running"
          /\ a = ClaimedAttempt(w) /\ a.state = "running"
          /\ \E r : /\ chain' = [chain EXCEPT ![c] = r]
                    /\ r.state \in ChainStates \ {"running", "absent"}
                    /\ r.index = chain[c].index
                    /\ r.state = "fresh" => worker[w].verdict = "complete"
          /\ \E b : attempts' = (attempts \ {a}) \cup {b}
    BY <1>3, ReportMoves, Zenon
  <2>2. PICK r : /\ chain' = [chain EXCEPT ![c] = r] /\ r.state # "running"
    BY <2>1
  <2>3. a.chain = c
    BY <1>1, <2>1, ClaimedAttemptFacts DEF Current
  <2>4. PICK verdict, ok, paid, at :
          FinishAttempt(a, verdict, ok, paid, at)
    BY <1>3, <2>1 DEF Report
  <2>5. a \in AttemptRow /\ chain[c] \in ChainRow
    BY <1>1, <2>1 DEF LedgerOK, AttemptOK, RowOK
  <2>6. PICK b : b = [a EXCEPT !.state = IF ok THEN "succeeded" ELSE "failed",
                               !.reason = "reported", !.paid = paid]
    OBVIOUS
  <2>7. attempts' = (attempts \ {a}) \cup {b}
    BY <2>4, <2>6 DEF FinishAttempt
  <2>8. SameKey(a, b) /\ b.action = a.action /\ b.state # "running"
    BY <2>5, <2>6 DEF SameKey, AttemptRow
  <2>9. PICK d : d = Disposition(a, verdict, at)
    OBVIOUS
  <2>10. PICK q : q = PaidAllowed(verdict)
    OBVIOUS
  <2>11. chain' = [chain EXCEPT ![c] = ReportedRow(chain[c], d, verdict, paid)]
    BY <2>3, <2>4, <2>9 DEF FinishAttempt
  <2>12. PICK p : p = chain[c].paid + paid
    OBVIOUS
  <2>13. PICK nr : nr = [Unleased(chain[c], d.state, d.next) EXCEPT
            !.action = verdict, !.paidOk = q, !.paid = p]
    OBVIOUS
  <2>14. chain'[c] = nr
    BY <1>1, <2>10, <2>11, <2>12, <2>13 DEF ReportedRow
  <2>15. nr.action = verdict /\ nr.paidOk = q
    BY <2>5, <2>13 DEF Unleased, ChainRow
  <2>16. nr.paidOk <=> (nr.action = "retry_transport")
    <3>1. q <=> (verdict = "retry_transport")
      BY <2>10 DEF PaidAllowed
    <3> QED BY <2>15, <3>1, Zenon
  <2>17. nr.state # "running" /\ \A e \in Chains \ {c} : chain'[e] = chain[e]
    BY <1>1, <2>2, <2>14
  <2>18. PaidColumn(chain')
    BY <2>14, <2>16, <2>17 DEF PaidColumn
  <2>19. RunningActions(chain', attempts')
    <3> SUFFICES ASSUME NEW e \in attempts', e.state = "running",
                        chain'[e.chain].state = "running"
                 PROVE  chain'[e.chain].action = e.action
      BY DEF RunningActions
    <3>1. e \in attempts
      BY <2>7, <2>8
    <3>2. e.chain \in Chains
      BY <1>1, <3>1 DEF LedgerOK, AttemptOK, AttemptRow
    <3>3. chain'[e.chain] = chain[e.chain]
      BY <2>14, <2>17, <3>2
    <3> QED BY <3>1, <3>3 DEF RunningActions
  <2>20. ActionsKept(attempts, attempts')
    BY <2>7, <2>8 DEF ActionsKept, SameKey
  <2> QED BY <2>14, <2>17, <2>18, <2>19, <2>20
<1> QED BY <1>2, <1>3

(* The planner's writes make no chain run.                                 *)
LEMMA PlannerRInv ==
  ASSUME ConvergenceAssumption, LedgerOK(chain, attempts, now),
         PaidColumn(chain), RunningActions(chain, attempts),
         Reconcile \/ \E c \in Chains, s \in Sources, action \in PlannedActions :
                        Plan(c, s, action)
  PROVE  /\ PaidColumn(chain') /\ RunningActions(chain', attempts')
         /\ attempts' = attempts
         /\ \A c \in Chains : chain'[c].state = "running" =>
              /\ chain[c].state = "running"
              /\ chain'[c].index = chain[c].index
              /\ chain'[c].until = chain[c].until
<1>1. /\ \A c \in Chains : chain[c] \in ChainRow
      /\ DOMAIN chain = Chains
      /\ \A a \in attempts : a.chain \in Chains
  BY DEF LedgerOK, RowOK, AttemptOK, AttemptRow
<1>2. ASSUME attempts' = attempts,
             \A c \in Chains :
               /\ chain'[c].paidOk <=> (chain'[c].action = "retry_transport")
               /\ chain'[c].state = "running" =>
                    /\ chain[c].state = "running"
                    /\ chain'[c].action = chain[c].action
                    /\ chain'[c].index = chain[c].index
                    /\ chain'[c].until = chain[c].until
      PROVE  /\ PaidColumn(chain') /\ RunningActions(chain', attempts')
             /\ attempts' = attempts
             /\ \A c \in Chains : chain'[c].state = "running" =>
                  /\ chain[c].state = "running"
                  /\ chain'[c].index = chain[c].index
                  /\ chain'[c].until = chain[c].until
  <2>1. PaidColumn(chain')
    BY <1>2 DEF PaidColumn
  <2>2. RunningActions(chain', attempts')
    BY <1>1, <1>2 DEF RunningActions
  <2> QED BY <1>2, <2>1, <2>2
<1>3. CASE Reconcile
  <2>1. attempts' = attempts
    BY <1>3 DEF Reconcile, ReconcileFreshPrimaryOutcomes
  <2>2. ASSUME NEW c \in Chains
        PROVE  \/ chain'[c] = chain[c]
               \/ /\ chain'[c].state = "fresh" /\ chain'[c].action = "complete"
                  /\ chain'[c].paidOk = FALSE
    <3>1. CASE ~Superseded(c, primary)
      BY <1>3, <3>1 DEF Reconcile, ReconcileFreshPrimaryOutcomes
    <3>2. CASE Superseded(c, primary)
      <4>1. PICK r : r = chain'[c]
        OBVIOUS
      <4>2. r = [Unleased(chain[c], "fresh", None)
                   EXCEPT !.action = "complete", !.paidOk = FALSE]
        BY <1>3, <3>2, <4>1 DEF Reconcile, ReconcileFreshPrimaryOutcomes
      <4>3. r.state = "fresh" /\ r.action = "complete" /\ r.paidOk = FALSE
        BY <1>1, <4>2 DEF Unleased, ChainRow
      <4> QED BY <4>1, <4>3
    <3> QED BY <3>1, <3>2
  <2> QED BY <1>2, <2>1, <2>2 DEF PaidColumn
<1>4. ASSUME NEW c \in Chains, NEW s \in Sources, NEW action \in PlannedActions,
             Plan(c, s, action)
      PROVE  /\ PaidColumn(chain') /\ RunningActions(chain', attempts')
             /\ attempts' = attempts
             /\ \A d \in Chains : chain'[d].state = "running" =>
                  /\ chain[d].state = "running"
                  /\ chain'[d].index = chain[d].index
                  /\ chain'[d].until = chain[d].until
  <2>1. PICK observed, deadline : CreateOrGetChain(c, {s}, action, observed, deadline)
    BY <1>4 DEF Plan
  <2>2. PICK r : /\ chain' = [chain EXCEPT ![c] = r] /\ attempts' = attempts
                 /\ r = IF chain[c].state = "absent"
                        THEN NewChain({s}, action, observed, deadline)
                        ELSE [chain[c] EXCEPT !.sources = chain[c].sources \cup {s}]
    BY <2>1 DEF CreateOrGetChain
  <2>3. chain'[c] = r /\ \A d \in Chains \ {c} : chain'[d] = chain[d]
    BY <1>1, <2>2
  <2>4. CASE chain[c].state = "absent"
    <3>1. PICK q : q = PaidAllowed(action)
      OBVIOUS
    <3>2. r.action = action /\ r.paidOk = q /\ r.state = InitialState(action)
      BY <2>2, <2>4, <3>1 DEF NewChain, Absent
    <3>3. r.state # "running"
      BY <3>2 DEF InitialState
    <3>4. r.paidOk <=> (r.action = "retry_transport")
      BY <3>1, <3>2 DEF PaidAllowed
    <3>5. \A d \in Chains : chain'[d].state = "running" =>
             d # c /\ chain'[d] = chain[d]
      BY <2>3, <3>3
    <3>6. \A d \in Chains :
             /\ chain'[d].paidOk <=> (chain'[d].action = "retry_transport")
             /\ chain'[d].state = "running" =>
                  /\ chain[d].state = "running"
                  /\ chain'[d].action = chain[d].action
                  /\ chain'[d].index = chain[d].index
                  /\ chain'[d].until = chain[d].until
      BY <2>3, <3>4, <3>5 DEF PaidColumn
    <3> QED BY ONLY <1>2, <2>2, <3>6
  <2>5. CASE chain[c].state # "absent"
    <3>1. r = [chain[c] EXCEPT !.sources = chain[c].sources \cup {s}]
      BY <2>2, <2>5
    <3>2. /\ r.action = chain[c].action /\ r.paidOk = chain[c].paidOk
          /\ r.state = chain[c].state /\ r.index = chain[c].index
          /\ r.until = chain[c].until
      BY <1>1, <3>1 DEF ChainRow
    <3>3. \A d \in Chains : /\ chain'[d].action = chain[d].action
                           /\ chain'[d].paidOk = chain[d].paidOk
                           /\ chain'[d].state = chain[d].state
                           /\ chain'[d].index = chain[d].index
                           /\ chain'[d].until = chain[d].until
      BY <2>3, <3>2
    <3>4. \A d \in Chains :
             /\ chain'[d].paidOk <=> (chain'[d].action = "retry_transport")
             /\ chain'[d].state = "running" =>
                  /\ chain[d].state = "running"
                  /\ chain'[d].action = chain[d].action
                  /\ chain'[d].index = chain[d].index
                  /\ chain'[d].until = chain[d].until
      BY <3>3 DEF PaidColumn
    <3> QED BY ONLY <1>2, <2>2, <3>4
  <2> QED BY <2>4, <2>5
<1> QED BY <1>3, <1>4

-----------------------------------------------------------------------------
(* RInv is inductive, relative to IInv: worker by worker.                  *)
RowStays(c) ==
  chain'[c].state = "running" =>
    /\ chain[c].state = "running"
    /\ chain'[c].index = chain[c].index /\ chain'[c].until = chain[c].until

TimeAndData ==
  /\ now' \in Nat /\ now <= now'
  /\ \A s \in Sources : freshAt[s] <= freshAt'[s] /\ freshAt'[s] <= now'

LEMMA IdleReport ==
  ASSUME NEW w \in Workers, worker'[w].pc \notin {"executing", "reporting"},
         worker'[w].moment <= now', worker'[w].paid = 0
  PROVE  LeaseAhead(w)' /\ ReportOK(w)'
BY DEF LeaseAhead, ReportOK, Held, At

LEMMA LeaseStays ==
  ASSUME NEW w \in Workers, SameClaim(worker'[w], worker[w]), Held(w)' => Held(w),
         RowStays(worker[w].chain), LeaseAhead(w)
  PROVE  LeaseAhead(w)'
BY DEF SameClaim, RowStays, LeaseAhead

LEMMA ReportStays ==
  ASSUME NEW w \in Workers, WorldTypeOK, WorldTypeOK', worker'[w] = worker[w],
         ActionsKept(attempts, attempts'), TimeAndData, ReportOK(w)
  PROVE  ReportOK(w)'
<1>1. worker[w].moment \in Nat /\ worker[w].sources \subseteq Sources /\ now \in Nat
  BY DEF WorldTypeOK, Run
<1>2. \A s \in Sources : freshAt[s] \in Nat /\ freshAt'[s] \in Nat
  BY DEF WorldTypeOK
<1>3. worker'[w].moment <= now'
  BY <1>1 DEF ReportOK, TimeAndData
<1>4. ASSUME At(w, "reporting")', worker'[w].verdict = "complete"
      PROVE  /\ worker'[w].ok
             /\ \A s \in worker'[w].sources : freshAt'[s] >= worker'[w].moment
  BY <1>1, <1>2, <1>4 DEF ReportOK, At, TimeAndData
<1>5. ASSUME worker'[w].paid > 0
      PROVE  At(w, "reporting")' /\ PaidClaim(w)'
  BY <1>5 DEF ReportOK, At, PaidClaim, ActionsKept, SameKey
<1> QED BY <1>3, <1>4, <1>5 DEF ReportOK

(* All workers but one keep their row, and the rows they rely on.          *)
LEMMA RStep ==
  ASSUME RInv, WorldTypeOK, WorldTypeOK', TimeAndData,
         PaidColumn(chain'), RunningActions(chain', attempts'),
         ActionsKept(attempts, attempts'),
         NEW w \in Workers, LeaseAhead(w)', ReportOK(w)',
         \A v \in Workers \ {w} : worker'[v] = worker[v],
         \A v \in Workers \ {w} : Held(v) => RowStays(worker[v].chain)
  PROVE  RInv'
<1>1. ASSUME NEW v \in Workers, v # w PROVE LeaseAhead(v)' /\ ReportOK(v)'
  <2>1. ReportOK(v)'
    BY <1>1, ReportStays DEF RInv
  <2>2. CASE Held(v)
    BY <1>1, <2>1, <2>2, LeaseStays DEF RInv, SameClaim, Held
  <2>3. CASE ~Held(v)
    BY <1>1, <2>1, <2>3 DEF LeaseAhead, Held
  <2> QED BY <2>1, <2>2, <2>3
<1> QED BY <1>1 DEF RInv, TimeAndData

LEMMA SameActions == ActionsKept(attempts, attempts)
BY DEF ActionsKept, SameKey

LEMMA RInit == ConvergenceAssumption /\ Init => RInv
<1> SUFFICES ASSUME ConvergenceAssumption, Init PROVE RInv
  OBVIOUS
<1>1. PaidColumn(chain)
  BY DEF PaidColumn, Init, StoreInit, Absent
<1>2. \A w \in Workers : LeaseAhead(w) /\ ReportOK(w)
  BY DEF Init, Idle, LeaseAhead, ReportOK, Held, At
<1> QED BY <1>1, <1>2 DEF RInv, Init, StoreInit, RunningActions

(* The chain of a claim is a chain.                                        *)
LEMMA HeldChain ==
  ASSUME IInv, NEW w \in Workers, Held(w)
  PROVE  worker[w].chain \in Chains /\ worker[w].number <= chain[worker[w].chain].index
<1>1. LedgerOK(chain, attempts, now) /\ WorkersOK
  BY IInvParts
<1>2. PICK a : a = ClaimedAttempt(w)
  OBVIOUS
<1>3. a \in attempts /\ a.chain = worker[w].chain /\ a.number = worker[w].number
  BY <1>1, <1>2, ClaimedAttemptFacts
<1>4. a \in AttemptRow /\ AttemptOK(a, chain[a.chain], now)
  BY <1>1, <1>3 DEF LedgerOK, AttemptOK
<1> QED BY <1>3, <1>4 DEF AttemptRow, AttemptOK

(* Steps of a run that leave the ledger alone.                             *)
LEMMA RIdleSteps ==
  ASSUME IInv, IInv', RInv, NEW w \in Workers,
         Start(w) \/ TransportDue(w) \/ TransportSkipped(w) \/ Crash(w)
  PROVE  RInv'
<1>1. WorldTypeOK /\ WorldTypeOK' /\ now \in Nat
  <2>1. (WorldTypeOK)'
    BY IInvParts, PTL DEF WorkersOK
  <2> QED BY <2>1, IInvParts DEF WorkersOK, WorldTypeOK
<1>2. /\ UNCHANGED <<chain, attempts, now, freshAt>>
  BY DEF Start, TransportDue, TransportSkipped, Crash, ledger, world
<1>3. worker[w] \in Run /\ worker[w].moment <= now
  BY <1>1 DEF WorldTypeOK, RInv, ReportOK
<1>4. \A v \in Workers \ {w} : worker'[v] = worker[v]
  BY <1>1 DEF Start, TransportDue, TransportSkipped, Crash, Goto, WorldTypeOK
<1>5. /\ worker'[w].pc \notin {"executing", "reporting"}
      /\ worker'[w].moment <= now' /\ worker'[w].paid = 0
  <2>1. CASE Start(w) \/ TransportDue(w)
    <3>1. PICK pc \in {"retry_candidate", "retry_transport"} :
            worker' = [worker EXCEPT ![w].pc = pc]
      BY <2>1 DEF Start, TransportDue, Goto
    <3>2. PICK r : r = [worker[w] EXCEPT !.pc = pc]
      OBVIOUS
    <3>3. worker'[w] = r
      BY <1>1, <3>1, <3>2 DEF WorldTypeOK
    <3>4. r.pc = pc /\ r.moment = worker[w].moment /\ r.paid = worker[w].paid
      BY <1>3, <3>2 DEF Run
    <3>5. ~At(w, "reporting")
      BY <2>1 DEF Start, TransportDue, At
    <3>6. worker[w].paid = 0
      BY <1>3, <3>5 DEF RInv, ReportOK, Run
    <3> QED BY <1>2, <1>3, <3>3, <3>4, <3>6
  <2>2. CASE TransportSkipped(w) \/ Crash(w)
    <3>1. worker'[w] = Idle
      BY <1>1, <2>2 DEF TransportSkipped, Crash, WorldTypeOK
    <3> QED BY <1>1, <1>2, <3>1 DEF Idle
  <2> QED BY <2>1, <2>2
<1>6. LeaseAhead(w)' /\ ReportOK(w)'
  BY <1>5, IdleReport
<1>7. TimeAndData
  BY <1>1, <1>2 DEF TimeAndData, RInv, WorldTypeOK
<1>8. \A c : RowStays(c)
  BY <1>2 DEF RowStays
<1>9. PaidColumn(chain') /\ RunningActions(chain', attempts')
      /\ ActionsKept(attempts, attempts')
  BY <1>2, SameActions DEF RInv
<1> QED BY <1>1, <1>4, <1>6, <1>7, <1>8, <1>9, RStep

(* The end of an execution: what a verdict of "complete" and paid usage    *)
(* rest on is established here.                                            *)
LEMMA RExecute ==
  ASSUME ConvergenceAssumption, IInv, IInv', RInv, NEW w \in Workers,
         Execute(w) \/ ExecuteRaises(w)
  PROVE  RInv'
<1>1. WorldTypeOK /\ WorldTypeOK' /\ now \in Nat /\ WorkersOK
  <2>1. (WorldTypeOK)'
    BY IInvParts, PTL DEF WorkersOK
  <2> QED BY <2>1, IInvParts DEF WorkersOK, WorldTypeOK
<1>2. UNCHANGED <<chain, attempts, now>> /\ At(w, "executing")
  BY DEF Execute, ExecuteRaises, ledger
<1>3. worker[w] \in Run /\ worker[w].moment <= now /\ worker[w].paid = 0
      /\ worker[w].sources \subseteq Sources /\ worker[w].moment \in Nat
  <2>1. worker[w] \in Run
    BY <1>1 DEF WorldTypeOK
  <2>2. worker[w].moment <= now /\ ~(worker[w].paid > 0)
    BY <1>2 DEF RInv, ReportOK, At
  <2> QED BY <2>1, <2>2 DEF Run
<1>4. \A s \in Sources : freshAt'[s] \in {freshAt[s], now}
  BY <1>1 DEF Execute, ExecuteRaises, WorldTypeOK
<1>5. TimeAndData
  BY <1>1, <1>2, <1>4 DEF TimeAndData, RInv, WorldTypeOK
<1>6. PICK r : /\ worker' = [worker EXCEPT ![w] = r] /\ SameClaim(r, worker[w])
               /\ r.pc = "reporting"
               /\ r.verdict = "complete" =>
                    r.ok /\ \A s \in r.sources : freshAt'[s] >= r.moment
               /\ r.paid > 0 => PaidClaim(w)
  <2>1. CASE Execute(w)
    <3>1. PICK results \in [worker[w].sources -> SourceResults] :
            \E class \in Classify(results), p \in PaidBy(w) : \E r :
              /\ worker' = [worker EXCEPT ![w] = r] /\ SameClaim(r, worker[w])
              /\ r.pc = "reporting" /\ r.ok = TRUE /\ r.paid = p
              /\ r.verdict = VerdictOf(class)
              /\ freshAt' = [s \in Sources |->
                   IF s \in worker[w].sources
                        /\ results[s].outcome = "fresh_published"
                   THEN now ELSE freshAt[s]]
      BY <1>1, <2>1, ExecuteRow
    <3>2. PICK class \in Classify(results), p \in PaidBy(w) : \E r0 :
              /\ worker' = [worker EXCEPT ![w] = r0] /\ SameClaim(r0, worker[w])
              /\ r0.pc = "reporting" /\ r0.ok = TRUE /\ r0.paid = p
              /\ r0.verdict = VerdictOf(class)
              /\ freshAt' = [s \in Sources |->
                   IF s \in worker[w].sources
                        /\ results[s].outcome = "fresh_published"
                   THEN now ELSE freshAt[s]]
      BY <3>1
    <3>3. PICK r :
              /\ worker' = [worker EXCEPT ![w] = r] /\ SameClaim(r, worker[w])
              /\ r.pc = "reporting" /\ r.ok = TRUE /\ r.paid = p
              /\ r.verdict = VerdictOf(class)
              /\ freshAt' = [s \in Sources |->
                   IF s \in worker[w].sources
                        /\ results[s].outcome = "fresh_published"
                   THEN now ELSE freshAt[s]]
      BY <3>2
    <3>4. ASSUME r.verdict = "complete", NEW s \in r.sources
          PROVE  freshAt'[s] >= r.moment
      <4>1. VerdictOf(class) = "complete" /\ s \in worker[w].sources
        BY <3>3, <3>4 DEF SameClaim
      <4>2. PICK S : S = worker[w].sources
        OBVIOUS
      <4>3. results \in [S -> SourceResults] /\ class \in Classify(results)
        BY <4>2
      <4>4. results[s].outcome = "fresh_published"
        BY <4>1, <4>2, <4>3, CompleteIsFresh
      <4>5. freshAt'[s] = now
        BY <1>3, <3>3, <4>1, <4>4
      <4> QED BY <1>1, <1>3, <3>3, <4>5 DEF SameClaim
    <3>5. r.paid > 0 => PaidClaim(w)
      <4> SUFFICES ASSUME p > 0 PROVE PaidClaim(w)
        BY <3>3
      <4>1. ClaimedAttempt(w).action = "retry_transport"
        BY DEF PaidBy
      <4>2. Held(w)
        BY <1>2 DEF At, Held
      <4> QED BY <1>1, <4>1, <4>2, ClaimedAttemptFacts DEF PaidClaim
    <3>6. /\ worker' = [worker EXCEPT ![w] = r] /\ SameClaim(r, worker[w])
          /\ r.pc = "reporting" /\ r.ok = TRUE
      BY <3>3
    <3> QED BY <3>4, <3>5, <3>6
  <2>2. CASE ExecuteRaises(w)
    <3>1. PICK r : /\ worker' = [worker EXCEPT ![w] = r] /\ SameClaim(r, worker[w])
                   /\ r.pc = "reporting" /\ r.ok = FALSE
                   /\ r.paid = worker[w].paid /\ r.verdict = "retry_local"
      BY <1>1, <2>2, RaiseRow
    <3>2. r.verdict # "complete" /\ ~(r.paid > 0)
      BY <1>3, <3>1
    <3> QED BY <3>1, <3>2
  <2> QED BY <2>1, <2>2
<1>7. worker'[w] = r /\ \A v \in Workers \ {w} : worker'[v] = worker[v]
  BY <1>1, <1>6 DEF WorldTypeOK
<1>8. \A c : RowStays(c)
  BY <1>2 DEF RowStays
<1>9. LeaseAhead(w)'
  <2>1. Held(w)
    BY <1>2 DEF At, Held
  <2> QED BY <1>6, <1>7, <1>8, <2>1, LeaseStays DEF RInv
<1>10. ReportOK(w)'
  <2>1. PaidClaim(w) => PaidClaim(w)'
    BY <1>2, <1>6, <1>7 DEF PaidClaim, SameClaim
  <2> QED BY <1>2, <1>3, <1>6, <1>7, <2>1 DEF ReportOK, At, SameClaim
<1>11. PaidColumn(chain') /\ RunningActions(chain', attempts')
       /\ ActionsKept(attempts, attempts')
  BY <1>2, SameActions DEF RInv
<1> QED BY <1>1, <1>5, <1>7, <1>8, <1>9, <1>10, <1>11, RStep

(* The steps of a worker over the ledger.                                  *)
LEMMA RLedgerSteps ==
  ASSUME ConvergenceAssumption, IInv, IInv', RInv, NEW w \in Workers,
         \/ \E lane \in Lanes : Miss(w, lane)
         \/ \E lane \in Lanes, c \in Chains : Claim(w, lane, c)
         \/ Report(w)
  PROVE  RInv'
<1>1. WorldTypeOK /\ WorldTypeOK' /\ now \in Nat /\ LedgerOK(chain, attempts, now)
      /\ LedgerOK(chain', attempts', now')
  <2>1. (WorldTypeOK)' /\ LedgerOK(chain, attempts, now)'
    BY IInvParts, PTL DEF WorkersOK
  <2>2. LedgerOK(chain', attempts', now')
    BY <2>1 DEF LedgerOK
  <2> QED BY <2>1, <2>2, IInvParts DEF WorkersOK, WorldTypeOK
<1>2. UNCHANGED <<now, freshAt>>
  BY DEF Miss, Claim, Report, world
<1>3. TimeAndData
  BY <1>1, <1>2 DEF TimeAndData, RInv, WorldTypeOK
<1>4. \A v \in Workers \ {w} : worker'[v] = worker[v]
  BY <1>1 DEF Miss, Claim, Report, WorldTypeOK
<1>5. worker[w] \in Run /\ worker[w].moment <= now
  BY <1>1 DEF WorldTypeOK, RInv, ReportOK
<1>6. PaidColumn(chain) /\ RunningActions(chain, attempts)
  BY DEF RInv
<1>7. ASSUME NEW lane \in Lanes, Miss(w, lane) PROVE RInv'
  <2>1. chain' = SweptChains(now) /\ attempts' = SweptAttempts(now)
    BY <1>7 DEF Miss, ClaimNothing
  <2>2. PaidColumn(chain') /\ RunningActions(chain', attempts')
        /\ ActionsKept(attempts, attempts')
    BY <1>1, <1>6, <2>1, SweepRInv
  <2>3. \A c \in Chains : RowStays(c)
    BY <1>1, <2>1, SweepColumns DEF RowStays
  <2>4. PICK r : r =
          CASE lane = "retry_candidate" -> [worker[w] EXCEPT !.pc = "probe_upstream"]
            [] lane = "probe_upstream"  -> [worker[w] EXCEPT !.pc = "transport_gate"]
            [] lane = "retry_transport" -> Idle
    OBVIOUS
  <2>5. worker'[w] = r
    BY <1>1, <1>7, <2>4 DEF Miss, WorldTypeOK
  <2>6. worker[w].paid = 0
    BY <1>5, <1>7 DEF Miss, At, Lanes, RInv, ReportOK, Run
  <2>7. /\ r.pc \notin {"executing", "reporting"}
        /\ r.moment \in {worker[w].moment, 0} /\ r.paid = 0
    BY <1>5, <2>4, <2>6 DEF Lanes, Run, Idle
  <2>8. LeaseAhead(w)' /\ ReportOK(w)'
    BY <1>1, <1>2, <1>5, <2>5, <2>7, IdleReport
  <2>9. \A v \in Workers \ {w} : Held(v) => RowStays(worker[v].chain)
    BY <2>3, HeldChain
  <2> QED BY <1>1, <1>3, <1>4, <2>2, <2>8, <2>9, RStep
<1>8. ASSUME NEW lane \in Lanes, NEW c \in Chains, Claim(w, lane, c) PROVE RInv'
  <2>1. PICK lease : lease = LeaseOf[lane]
    OBVIOUS
  <2>2. lease \in Nat \ {0}
    BY <2>1 DEF ConvergenceAssumption
  <2>3. ClaimDue(c, OwnerOf[w], now, lease, {lane}, EligibleFor[lane])
    BY <1>8, <2>1 DEF Claim
  <2>4. /\ PaidColumn(chain') /\ RunningActions(chain', attempts')
        /\ ActionsKept(attempts, attempts')
        /\ chain'[c].until > now
    BY <1>1, <1>2, <1>6, <2>2, <2>3, ClaimRInv
  <2>5. /\ \A d \in Chains \ {c} : chain'[d] = SweptChains(now)[d]
        /\ chain'[c].index = chain[c].index + 1
    BY <1>1, <2>3, ClaimMoves
  <2>6. PICK r : r = [Idle EXCEPT !.pc = "executing", !.chain = c,
                        !.number = chain[c].index + 1,
                        !.sources = chain[c].sources, !.moment = now]
    OBVIOUS
  <2>7. r.pc = "executing" /\ r.chain = c /\ r.moment = now /\ r.paid = 0
    BY <2>6 DEF Idle
  <2>8. worker'[w] = r
    BY <1>1, <1>8, <2>6 DEF Claim, WorldTypeOK
  <2>9. LeaseAhead(w)'
    BY <2>4, <2>7, <2>8 DEF LeaseAhead
  <2>10. ReportOK(w)'
    BY <1>1, <1>2, <2>7, <2>8 DEF ReportOK, At
  <2>11. ASSUME NEW v \in Workers \ {w} PROVE LeaseAhead(v)' /\ ReportOK(v)'
    <3>1. worker'[v] = worker[v] /\ LeaseAhead(v) /\ ReportOK(v)
      BY <1>4 DEF RInv
    <3>2. ReportOK(v)'
      BY <1>1, <1>3, <2>4, <3>1, ReportStays
    <3>3. CASE ~Held(v)
      BY <3>1, <3>2, <3>3 DEF LeaseAhead, Held
    <3>4. CASE Held(v) /\ worker[v].chain = c
      <4>1. worker[v].number <= chain[c].index /\ worker[v].number \in Nat
            /\ chain[c].index \in Nat
        BY <1>1, <3>4, HeldChain DEF WorldTypeOK, Run, LedgerOK, RowOK, ChainRow
      <4>2. chain'[c].index # worker[v].number
        BY <2>5, <4>1
      <4> QED BY <3>1, <3>2, <3>4, <4>2 DEF LeaseAhead
    <3>5. CASE Held(v) /\ worker[v].chain # c
      <4>1. worker[v].chain \in Chains
        BY <3>5, HeldChain
      <4>2. RowStays(worker[v].chain)
        BY <1>1, <2>5, <3>5, <4>1, SweepColumns DEF RowStays
      <4>3. LeaseAhead(v)'
        BY <3>1, <3>5, <4>2, LeaseStays DEF SameClaim
      <4> QED BY <3>2, <4>3
    <3> QED BY <3>3, <3>4, <3>5
  <2> QED BY <1>3, <2>4, <2>9, <2>10, <2>11 DEF RInv, TimeAndData
<1>9. CASE Report(w)
  <2>1. /\ PaidColumn(chain') /\ RunningActions(chain', attempts')
        /\ ActionsKept(attempts, attempts')
        /\ \A c \in Chains : RowStays(c)
    BY <1>6, <1>9, ReportRInv DEF RowStays
  <2>2. worker'[w] = Idle
    BY <1>1, <1>9 DEF Report, WorldTypeOK
  <2>3. LeaseAhead(w)' /\ ReportOK(w)'
    <3>1. /\ Idle.pc \notin {"executing", "reporting"}
          /\ Idle.moment = 0 /\ Idle.paid = 0
      BY DEF Idle
    <3> QED BY <1>1, <1>2, <2>2, <3>1, IdleReport
  <2>4. \A v \in Workers \ {w} : Held(v) => RowStays(worker[v].chain)
    BY <2>1, HeldChain
  <2> QED BY <1>1, <1>3, <1>4, <2>1, <2>3, <2>4, RStep
<1> QED BY <1>7, <1>8, <1>9

(* A step that leaves every running row and every run as they are.         *)
LEMMA RWorkersStay ==
  ASSUME RInv, WorldTypeOK, WorldTypeOK', TimeAndData, worker' = worker,
         PaidColumn(chain'), RunningActions(chain', attempts'),
         ActionsKept(attempts, attempts'),
         \A w \in Workers : Held(w) => RowStays(worker[w].chain)
  PROVE  RInv'
<1>1. ASSUME NEW w \in Workers PROVE LeaseAhead(w)' /\ ReportOK(w)'
  <2>1. ReportOK(w)'
    BY ReportStays DEF RInv
  <2>2. CASE Held(w)
    BY <2>1, <2>2, LeaseStays DEF RInv, SameClaim, Held
  <2>3. CASE ~Held(w)
    BY <2>1, <2>3 DEF LeaseAhead, Held
  <2> QED BY <2>1, <2>2, <2>3
<1> QED BY <1>1 DEF RInv, TimeAndData

LEMMA RNext ==
  ASSUME ConvergenceAssumption, IInv, IInv', RInv, [Next]_vars
  PROVE  RInv'
<1>1. WorldTypeOK /\ WorldTypeOK' /\ LedgerOK(chain, attempts, now)
  <2>1. (WorldTypeOK)'
    BY IInvParts, PTL DEF WorkersOK
  <2> QED BY <2>1, IInvParts DEF WorkersOK
<1>2. PaidColumn(chain) /\ RunningActions(chain, attempts)
      /\ \A s \in Sources : freshAt[s] <= now
  BY DEF RInv
<1>3. CASE Tick \/ (\E s \in Sources : Publish(s)) \/ UNCHANGED vars
  <2>1. /\ UNCHANGED <<chain, attempts, worker>>
        /\ now' \in {now, now + 1}
        /\ \A s \in Sources : freshAt'[s] \in {freshAt[s], now}
    BY <1>1, <1>3 DEF Tick, Publish, vars, ledger, world, WorldTypeOK
  <2>2. TimeAndData
    BY <1>1, <1>2, <2>1 DEF TimeAndData, WorldTypeOK
  <2>3. \A c : RowStays(c)
    BY <2>1 DEF RowStays
  <2>4. PaidColumn(chain') /\ RunningActions(chain', attempts')
        /\ ActionsKept(attempts, attempts')
    BY <1>2, <2>1, SameActions
  <2> QED BY <1>1, <2>1, <2>2, <2>3, <2>4, RWorkersStay
<1>4. CASE Reconcile \/ \E c \in Chains, s \in Sources, action \in PlannedActions :
                          Plan(c, s, action)
  <2>1. UNCHANGED <<now, worker, freshAt>>
    BY <1>4 DEF Reconcile, Plan, world
  <2>2. TimeAndData
    BY <1>1, <1>2, <2>1 DEF TimeAndData, WorldTypeOK
  <2>3. /\ PaidColumn(chain') /\ RunningActions(chain', attempts')
        /\ attempts' = attempts
        /\ \A c \in Chains : RowStays(c)
    BY <1>1, <1>2, <1>4, PlannerRInv DEF RowStays
  <2>4. \A w \in Workers : Held(w) => RowStays(worker[w].chain)
    BY <2>3, HeldChain
  <2>5. ActionsKept(attempts, attempts')
    BY <2>3, SameActions
  <2> QED BY <1>1, <2>1, <2>2, <2>3, <2>4, <2>5, RWorkersStay
<1>5. ASSUME NEW w \in Workers, WorkerStep(w) \/ Crash(w) PROVE RInv'
  BY <1>5, RIdleSteps, RExecute, RLedgerSteps DEF WorkerStep
<1> QED BY <1>3, <1>4, <1>5 DEF Next

(* In every reachable state each claim still rests on what its report will *)
(* be checked against: a lease longer than the claim's moment, the action  *)
(* of its own attempt, and fresh results behind a verdict of "complete".   *)
THEOREM ReportsRest == Spec => [](IInv /\ RInv)
<1>1. Init => IInv /\ RInv
  BY InitInv, RInit, ConvergenceAssumption
<1>2. IInv /\ RInv /\ [Next]_vars => (IInv /\ RInv)'
  <2> SUFFICES ASSUME IInv, RInv, [Next]_vars PROVE IInv' /\ RInv'
    OBVIOUS
  <2>1. IInv'
    BY NextInv, ConvergenceAssumption
  <2> QED BY <2>1, RNext, ConvergenceAssumption
<1> QED BY <1>1, <1>2, PTL DEF Spec

(* A chain turns fresh only on evidence: primaries of all its sources      *)
(* after it was opened, or the report of its current claim, every source   *)
(* of which was published fresh since the claim.                           *)
THEOREM FreshNeedsEvidence == Spec => FreshOnEvidence
<1>1. ConvergenceAssumption /\ IInv /\ RInv /\ [Next]_vars =>
        \A c \in Chains :
          chain[c].state # "fresh" /\ chain'[c].state = "fresh" =>
            \/ \A s \in chain[c].sources : primary[s] > chain[c].created
            \/ \E w \in Workers : /\ Current(w, c)
                                  /\ \A s \in worker[w].sources :
                                        freshAt[s] >= worker[w].moment
  <2> SUFFICES ASSUME ConvergenceAssumption, IInv, RInv, [Next]_vars,
                      NEW c \in Chains,
                      chain[c].state # "fresh", chain'[c].state = "fresh"
               PROVE  \/ \A s \in chain[c].sources : primary[s] > chain[c].created
                      \/ \E w \in Workers : /\ Current(w, c)
                                            /\ \A s \in worker[w].sources :
                                                  freshAt[s] >= worker[w].moment
    OBVIOUS
  <2>1. Closed(c) \/ Decided(c)
    <3>1. ChainStep(c)
      BY StepMoves
    <3> QED BY <3>1 DEF ChainStep, Swept, Claimed, Pending, Parked
  <2>2. CASE Closed(c)
    BY <2>2 DEF Closed, Superseded
  <2>3. CASE Decided(c)
    <3>1. PICK w \in Workers : /\ Report(w) /\ Current(w, c)
                               /\ worker[w].verdict = "complete"
      BY <2>3 DEF Decided
    <3>2. At(w, "reporting") /\ ReportOK(w)
      BY <3>1 DEF Report, RInv
    <3> QED BY <3>1, <3>2 DEF ReportOK
  <2> QED BY <2>1, <2>2, <2>3
<1> QED BY <1>1, ReportsRest, ConvergenceAssumption, PTL DEF Spec, FreshOnEvidence

(* A report meets an exception of finish_attempt only when the deadline    *)
(* took its chain under a live lease, whoever shares the owner's name,     *)
(* however long the run lasted and whatever it paid.                       *)
THEOREM RefusedPastDeadline == Spec => []RefusedOnlyPastDeadline
<1>1. ConvergenceAssumption /\ IInv /\ RInv => RefusedOnlyPastDeadline
  <2> SUFFICES ASSUME ConvergenceAssumption, IInv, RInv, NEW w \in Workers,
                      At(w, "reporting"),
                      FinishRefused(ClaimedAttempt(w), OwnerOf[w], worker[w].verdict,
                                    worker[w].ok, worker[w].paid, worker[w].moment)
               PROVE  /\ chain[worker[w].chain].state \in {"exhausted", "fresh"}
                      /\ chain[worker[w].chain].deadline <= now
    BY DEF RefusedOnlyPastDeadline
  <2>1. LedgerOK(chain, attempts, now) /\ WorkersOK
    BY IInvParts
  <2>2. PICK a : a = ClaimedAttempt(w)
    OBVIOUS
  <2>3. Held(w)
    BY DEF At, Held
  <2>4. a \in attempts /\ a.chain = worker[w].chain /\ a.number = worker[w].number
    BY <2>1, <2>2, <2>3, ClaimedAttemptFacts
  <2>5. \A b \in attempts : b.chain = worker[w].chain /\ b.number = worker[w].number
                              => b = a
    BY <2>1, <2>4 DEF LedgerOK, SameKey
  <2>6. a.worker = OwnerOf[w]
    BY <2>1, <2>3, <2>5 DEF WorkersOK
  <2>7. a.state = "running"
    BY <2>2, <2>6 DEF FinishRefused
  <2>8. PICK r : r = chain[a.chain]
    OBVIOUS
  <2>9. AttemptOK(a, r, now) /\ a.chain \in Chains /\ RowOK(r)
    BY <2>1, <2>4, <2>8 DEF LedgerOK, AttemptOK, AttemptRow
  <2>10. CASE r.state \in {"exhausted", "fresh"} /\ r.deadline <= now
    BY <2>4, <2>8, <2>10
  <2>11. CASE r.state = "running" /\ r.owner = a.worker
    <3>1. r.owner = OwnerOf[w] /\ r.index = worker[w].number
      BY <2>4, <2>6, <2>7, <2>9, <2>11 DEF AttemptOK
    <3>2. r.until # None /\ r.until \in Nat
      BY <2>9, <2>11 DEF RowOK, ConvergenceAssumption, ChainRow
    <3>3. worker[w].moment \in Nat /\ worker[w].paid \in Nat
      BY <2>1 DEF WorkersOK, WorldTypeOK, Run
    <3>4. r.until > worker[w].moment
      BY <2>3, <2>4, <2>8, <2>11, <3>1 DEF RInv, LeaseAhead
    <3>5. ReportOK(w) /\ PaidColumn(chain) /\ RunningActions(chain, attempts)
      BY DEF RInv
    <3>6. worker[w].paid > 0 => r.paidOk
      <4> SUFFICES ASSUME worker[w].paid > 0 PROVE r.paidOk
        OBVIOUS
      <4>1. a.action = "retry_transport"
        BY <2>5, <3>5 DEF ReportOK, PaidClaim
      <4>2. r.action = "retry_transport"
        BY <2>4, <2>7, <2>8, <2>11, <3>5, <4>1 DEF RunningActions
      <4> QED BY <2>8, <2>9, <3>5, <4>2 DEF PaidColumn
    <3>7. worker[w].verdict = "complete" => worker[w].ok
      BY <3>5 DEF ReportOK
    <3>8. \/ r.until <= worker[w].moment
          \/ worker[w].paid > 0 /\ ~r.paidOk
          \/ worker[w].verdict = "complete" /\ ~worker[w].ok
      BY <2>2, <2>6, <2>8, <3>1, <3>2 DEF FinishRefused
    <3> QED BY <3>2, <3>3, <3>4, <3>6, <3>7, <3>8
  <2> QED BY <2>7, <2>9, <2>10, <2>11 DEF AttemptOK
<1> QED BY <1>1, ReportsRest, ConvergenceAssumption, PTL

-----------------------------------------------------------------------------
(* The retry budgets.  Attempts count when they were not taken back; an    *)
(* open chain has tried its next action less often than it may, the        *)
(* running attempt aside.                                                  *)
Tried(atts, c, action) ==
  {a \in AttemptsOf(atts, c) : a.action = action /\ a.reason # "lease_expired"}
Done(atts, c, action) == {a \in Tried(atts, c, action) : a.state # "running"}

BudgetOf(row, atts, c, action) ==
  /\ Cardinality(Tried(atts, c, action)) <= MaxAttempts(action)
  /\ row.state \in Pending \cup {"running"} /\ row.action = action
       => Cardinality(Done(atts, c, action)) < MaxAttempts(action)

Budgets(rows, atts) ==
  \A c \in Chains, action \in RetryActions : BudgetOf(rows[c], atts, c, action)

LEMMA MaxType ==
  ASSUME DelaysAssumption, NEW action \in RetryActions
  PROVE  MaxAttempts(action) \in Nat \ {0}
<1>1. action \in RecoveryActions
  BY DEF RecoveryActions
<1>2. DelaysOf[action] \in Seq(Nat) /\ Len(DelaysOf[action]) > 0
  BY <1>1 DEF DelaysAssumption
<1> QED BY <1>2 DEF MaxAttempts

LEMMA CountsOfSubset ==
  ASSUME NEW S, IsFiniteSet(S), NEW T, T \subseteq S
  PROVE  /\ IsFiniteSet(T) /\ Cardinality(T) \in Nat /\ Cardinality(S) \in Nat
         /\ Cardinality(T) <= Cardinality(S)
<1>1. T \in SUBSET S
  OBVIOUS
<1>2. IsFiniteSet(T) /\ Cardinality(T) <= Cardinality(S)
  BY <1>1, FS_Subset
<1> QED BY <1>2, FS_CardinalityType

LEMMA OneMore ==
  ASSUME NEW S, IsFiniteSet(S), NEW x, NEW T, T \subseteq S \cup {x}
  PROVE  /\ Cardinality(T) \in Nat /\ Cardinality(S) \in Nat
         /\ Cardinality(T) <= Cardinality(S) + 1
<1>1. PICK U : U = S \cup {x}
  OBVIOUS
<1>2. /\ IsFiniteSet(U) /\ Cardinality(S) \in Nat
      /\ Cardinality(U) = Cardinality(S) \/ Cardinality(U) = Cardinality(S) + 1
  BY <1>1, FS_AddElement, FS_CardinalityType
<1>3. /\ Cardinality(T) \in Nat /\ Cardinality(U) \in Nat
      /\ Cardinality(T) <= Cardinality(U)
  BY <1>1, <1>2, CountsOfSubset
<1> QED BY <1>2, <1>3

LEMMA OneForOne ==
  ASSUME NEW S, IsFiniteSet(S), NEW x \in S, NEW y, NEW T,
         T \subseteq (S \ {x}) \cup {y}
  PROVE  /\ Cardinality(T) \in Nat /\ Cardinality(S) \in Nat
         /\ Cardinality(T) <= Cardinality(S)
<1>1. PICK U : U = S \ {x}
  OBVIOUS
<1>2. /\ IsFiniteSet(U) /\ Cardinality(S) \in Nat
      /\ Cardinality(U) = Cardinality(S) - 1
  BY <1>1, FS_RemoveElement, FS_CardinalityType
<1>3. /\ Cardinality(T) \in Nat /\ Cardinality(U) \in Nat
      /\ Cardinality(T) <= Cardinality(U) + 1
  BY <1>1, <1>2, OneMore
<1> QED BY <1>2, <1>3

LEMMA CountsAreFinite ==
  ASSUME NEW atts, IsFiniteSet(atts), NEW c, NEW action
  PROVE  IsFiniteSet(Tried(atts, c, action)) /\ IsFiniteSet(Done(atts, c, action))
<1>1. Tried(atts, c, action) \subseteq atts /\ Done(atts, c, action) \subseteq atts
  BY DEF Tried, Done, AttemptsOf
<1> QED BY <1>1, CountsOfSubset

(* A chain whose counted attempts only become fewer, and which opens no    *)
(* new action, keeps its budgets.                                          *)
LEMMA BudgetShrinks ==
  ASSUME DelaysAssumption, NEW row, NEW nrow, NEW atts, NEW natts, NEW c,
         NEW action \in RetryActions, IsFiniteSet(atts),
         BudgetOf(row, atts, c, action),
         Tried(natts, c, action) \subseteq Tried(atts, c, action),
         Done(natts, c, action) \subseteq Done(atts, c, action),
         nrow.state \in Pending \cup {"running"} =>
           row.state \in Pending \cup {"running"} /\ nrow.action = row.action
  PROVE  BudgetOf(nrow, natts, c, action)
<1>1. MaxAttempts(action) \in Nat
  BY MaxType
<1>2. /\ Cardinality(Tried(natts, c, action)) \in Nat
      /\ Cardinality(Tried(atts, c, action)) \in Nat
      /\ Cardinality(Tried(natts, c, action)) <= Cardinality(Tried(atts, c, action))
  BY CountsAreFinite, CountsOfSubset
<1>3. /\ Cardinality(Done(natts, c, action)) \in Nat
      /\ Cardinality(Done(atts, c, action)) \in Nat
      /\ Cardinality(Done(natts, c, action)) <= Cardinality(Done(atts, c, action))
  BY CountsAreFinite, CountsOfSubset
<1>4. Cardinality(Tried(natts, c, action)) <= MaxAttempts(action)
  BY <1>1, <1>2 DEF BudgetOf
<1>5. ASSUME nrow.state \in Pending \cup {"running"}, nrow.action = action
      PROVE  Cardinality(Done(natts, c, action)) < MaxAttempts(action)
  <2>1. Cardinality(Done(atts, c, action)) < MaxAttempts(action)
    BY <1>5 DEF BudgetOf
  <2> QED BY <1>1, <1>3, <2>1
<1> QED BY <1>4, <1>5 DEF BudgetOf

(* Claims that are taken back are no longer counted.                       *)
LEMMA SweepBudgets ==
  ASSUME DelaysAssumption, LedgerOK(chain, attempts, now), now \in Nat,
         Budgets(chain, attempts)
  PROVE  Budgets(SweptChains(now), SweptAttempts(now))
<1>1. ASSUME NEW a \in SweptAttempts(now), a.reason # "lease_expired"
      PROVE  a \in attempts
  <2>1. PICK b \in attempts : a = SweptAttempt(b, now)
    BY DEF SweptAttempts
  <2>2. b \in AttemptRow
    BY DEF LedgerOK, AttemptOK
  <2> QED BY <1>1, <2>1, <2>2 DEF SweptAttempt, AttemptRow
<1> SUFFICES ASSUME NEW c \in Chains, NEW action \in RetryActions
             PROVE  BudgetOf(SweptChains(now)[c], SweptAttempts(now), c, action)
  BY DEF Budgets
<1>2. /\ Tried(SweptAttempts(now), c, action) \subseteq Tried(attempts, c, action)
      /\ Done(SweptAttempts(now), c, action) \subseteq Done(attempts, c, action)
  BY <1>1 DEF Tried, Done, AttemptsOf
<1>3. PICK row, nrow : row = chain[c] /\ nrow = SweptChains(now)[c]
  OBVIOUS
<1>4. nrow.action = row.action
  BY <1>3, SweepColumns
<1>5. nrow = row \/ row.state \in Pending \cup {"running"}
  BY <1>3, SweepMoves DEF SweptTo
<1>6. nrow.state \in Pending \cup {"running"} =>
        row.state \in Pending \cup {"running"} /\ nrow.action = row.action
  BY <1>4, <1>5
<1>7. IsFiniteSet(attempts) /\ BudgetOf(row, attempts, c, action)
  BY <1>3 DEF LedgerOK, Budgets
<1> QED BY <1>2, <1>3, <1>6, <1>7, BudgetShrinks

(* A claim: the queued chain has no running attempt, so the new one is     *)
(* within the budget of its action.                                        *)
LEMMA ClaimBudgets ==
  ASSUME DelaysAssumption, LedgerOK(chain, attempts, now), now \in Nat,
         None \notin Nat, Budgets(chain, attempts),
         NEW c \in Chains, NEW owner, NEW lease, NEW acts, NEW eligible,
         ClaimDue(c, owner, now, lease, acts, eligible)
  PROVE  Budgets(chain', attempts')
<1>1. /\ LedgerOK(SweptChains(now), SweptAttempts(now), now)
      /\ Budgets(SweptChains(now), SweptAttempts(now))
  BY SweepOK, SweepBudgets
<1>2. PICK rows, atts : rows = SweptChains(now) /\ atts = SweptAttempts(now)
  OBVIOUS
<1>3. PICK row : row = SweptRow(c, now)
  OBVIOUS
<1>4. row = rows[c] /\ row \in ChainRow /\ row.state \in Pending
  <2>1. chain \in [Chains -> ChainRow]
    BY DEF LedgerOK, RowOK
  <2> QED BY <1>2, <1>3, <2>1, SweptRowFacts
          DEF SweptChains, ClaimDue, EarliestDue, Due, Claimable
<1>5. PICK nrow : nrow = [row EXCEPT !.state = "running", !.index = @ + 1,
                        !.next = None, !.owner = owner, !.until = now + lease]
  OBVIOUS
<1>6. nrow.action = row.action
  BY <1>4, <1>5 DEF ChainRow
<1>7. PICK na : na = [chain |-> c, number |-> row.index + 1,
                      action |-> row.action, state |-> "running",
                      worker |-> owner, reason |-> "none", paid |-> 0]
  OBVIOUS
<1>8. na.chain = c /\ na.action = row.action /\ na.state = "running"
  BY <1>7
<1>9. /\ chain' = [rows EXCEPT ![c] = nrow]
      /\ attempts' = atts \cup {na} /\ DOMAIN rows = Chains
  BY <1>2, <1>3, <1>5, <1>7 DEF ClaimDue, SweptChains
<1>10. chain'[c] = nrow /\ \A d \in Chains \ {c} : chain'[d] = rows[d]
  BY <1>9
<1>11. \A a \in atts : a.chain = c => a.state # "running"
  BY <1>1, <1>2, <1>4 DEF LedgerOK, AttemptOK, Pending
<1>12. IsFiniteSet(atts)
  BY <1>1, <1>2 DEF LedgerOK
<1> SUFFICES ASSUME NEW d \in Chains, NEW action \in RetryActions
             PROVE  BudgetOf(chain'[d], attempts', d, action)
  BY DEF Budgets
<1>13. MaxAttempts(action) \in Nat /\ BudgetOf(rows[d], atts, d, action)
  BY <1>1, <1>2, MaxType DEF Budgets
<1>14. Done(attempts', d, action) = Done(atts, d, action)
  BY <1>8, <1>9 DEF Done, Tried, AttemptsOf
<1>15. CASE d = c /\ action = row.action
  <2>1. Cardinality(Done(atts, c, action)) < MaxAttempts(action)
    BY <1>4, <1>13, <1>15 DEF BudgetOf
  <2>2. Tried(attempts', c, action) \subseteq Done(atts, c, action) \cup {na}
    BY <1>9, <1>11 DEF Tried, Done, AttemptsOf
  <2>3. /\ IsFiniteSet(Done(atts, c, action))
        /\ Cardinality(Done(atts, c, action)) \in Nat
    BY <1>12, CountsAreFinite, FS_CardinalityType
  <2>4. /\ Cardinality(Tried(attempts', c, action)) \in Nat
        /\ Cardinality(Tried(attempts', c, action))
             <= Cardinality(Done(atts, c, action)) + 1
    BY <2>2, <2>3, OneMore
  <2>5. Cardinality(Tried(attempts', c, action)) <= MaxAttempts(action)
    BY <1>13, <2>1, <2>3, <2>4
  <2> QED BY <1>14, <1>15, <2>1, <2>5 DEF BudgetOf
<1>16. CASE ~(d = c /\ action = row.action)
  <2>1. Tried(attempts', d, action) = Tried(atts, d, action)
    BY <1>8, <1>9, <1>16 DEF Tried, AttemptsOf
  <2>2. CASE d = c
    BY <1>4, <1>6, <1>10, <1>13, <1>14, <1>16, <2>1, <2>2 DEF BudgetOf
  <2>3. CASE d # c
    BY <1>10, <1>13, <1>14, <2>1, <2>3 DEF BudgetOf
  <2> QED BY <2>2, <2>3
<1> QED BY <1>15, <1>16

(* A report: the reported attempt joins those that are done, and the next  *)
(* action was counted, with it, against its own budget.                    *)
LEMMA ReportBudgets ==
  ASSUME ConvergenceAssumption, IInv, RunningActions(chain, attempts),
         Budgets(chain, attempts), NEW w \in Workers, Report(w)
  PROVE  Budgets(chain', attempts')
<1>1. LedgerOK(chain, attempts, now) /\ WorkersOK /\ DOMAIN chain = Chains
      /\ IsFiniteSet(attempts)
  BY IInvParts DEF LedgerOK
<1>2. CASE UNCHANGED ledger
  BY <1>2 DEF ledger, Budgets, BudgetOf, Tried, Done, AttemptsOf
<1>3. CASE ~UNCHANGED ledger
  <2>1. PICK c \in Chains, a \in attempts :
          /\ Current(w, c) /\ chain[c].state = "running"
          /\ a = ClaimedAttempt(w) /\ a.state = "running"
          /\ \E r : /\ chain' = [chain EXCEPT ![c] = r]
                    /\ r.state \in ChainStates \ {"running", "absent"}
                    /\ r.index = chain[c].index
                    /\ r.state = "fresh" => worker[w].verdict = "complete"
          /\ \E b : attempts' = (attempts \ {a}) \cup {b}
    BY <1>3, ReportMoves, Zenon
  <2>2. PICK r : chain' = [chain EXCEPT ![c] = r] /\ r.state # "running"
    BY <2>1
  <2>3. a.chain = c
    BY <1>1, <2>1, ClaimedAttemptFacts DEF Current
  <2>4. PICK verdict, ok, paid, at :
          FinishAttempt(a, verdict, ok, paid, at)
    BY <1>3, <2>1 DEF Report
  <2>5. a \in AttemptRow /\ chain[c] \in ChainRow /\ AttemptOK(a, chain[c], now)
    BY <1>1, <2>1, <2>3 DEF LedgerOK, AttemptOK, RowOK
  <2>6. PICK b : b = [a EXCEPT !.state = IF ok THEN "succeeded" ELSE "failed",
                               !.reason = "reported", !.paid = paid]
    OBVIOUS
  <2>7. attempts' = (attempts \ {a}) \cup {b}
    BY <2>4, <2>6 DEF FinishAttempt
  <2>8. b.chain = c /\ b.action = a.action /\ b.state # "running"
    BY <2>3, <2>5, <2>6 DEF AttemptRow
  <2>9. PICK d : d = Disposition(a, verdict, at)
    OBVIOUS
  <2>10. PICK q, p : q = PaidAllowed(verdict) /\ p = chain[c].paid + paid
    OBVIOUS
  <2>11. PICK nr : nr = [Unleased(chain[c], d.state, d.next) EXCEPT
            !.action = verdict, !.paidOk = q, !.paid = p]
    OBVIOUS
  <2>12. chain' = [chain EXCEPT ![c] = nr]
    BY <2>3, <2>4, <2>9, <2>10, <2>11 DEF FinishAttempt, ReportedRow
  <2>13. chain'[c] = nr /\ nr.state # "running"
         /\ \A e \in Chains \ {c} : chain'[e] = chain[e]
    BY <1>1, <2>2, <2>12
  <2>14. nr.action = verdict /\ nr.state = d.state
    BY <2>5, <2>11 DEF Unleased, ChainRow
  <2>15. \A x \in attempts : x.chain = c /\ x # a => x.state # "running"
    <3> SUFFICES ASSUME NEW x \in attempts, x.chain = c, x.state = "running"
                 PROVE  x = a
      OBVIOUS
    <3>1. AttemptOK(x, chain[c], now)
      BY <1>1 DEF LedgerOK
    <3>2. x.number = a.number
      BY <2>1, <2>5, <3>1 DEF AttemptOK
    <3> QED BY <1>1, <2>3, <3>2 DEF LedgerOK, SameKey
  <2> SUFFICES ASSUME NEW e \in Chains, NEW action \in RetryActions
               PROVE  BudgetOf(chain'[e], attempts', e, action)
    BY DEF Budgets
  <2>16. /\ MaxAttempts(action) \in Nat /\ BudgetOf(chain[e], attempts, e, action)
         /\ IsFiniteSet(Tried(attempts, e, action))
         /\ IsFiniteSet(Done(attempts, e, action))
    BY <1>1, MaxType, CountsAreFinite, DelaysAssumption DEF Budgets
  <2>17. CASE e # c
    <3>1. /\ Tried(attempts', e, action) = Tried(attempts, e, action)
          /\ Done(attempts', e, action) = Done(attempts, e, action)
      BY <2>3, <2>7, <2>8, <2>17 DEF Tried, Done, AttemptsOf
    <3> QED BY <2>13, <2>16, <2>17, <3>1 DEF BudgetOf
  <2>18. CASE e = c
    <3>1. Cardinality(Tried(attempts', c, action)) <= MaxAttempts(action)
      <4>1. CASE a.action = action
        <5>1. Tried(attempts', c, action) \subseteq Done(attempts, c, action) \cup {b}
          BY <2>7, <2>15 DEF Tried, Done, AttemptsOf
        <5>2. chain[c].action = action
          BY <2>1, <2>3, <4>1 DEF RunningActions
        <5>3. Cardinality(Done(attempts, c, action)) < MaxAttempts(action)
          BY <2>1, <2>16, <2>18, <5>2 DEF BudgetOf
        <5>4. /\ Cardinality(Tried(attempts', c, action)) \in Nat
              /\ Cardinality(Done(attempts, c, action)) \in Nat
              /\ Cardinality(Tried(attempts', c, action))
                   <= Cardinality(Done(attempts, c, action)) + 1
          BY <2>16, <2>18, <5>1, OneMore
        <5> QED BY <2>16, <5>3, <5>4
      <4>2. CASE a.action # action
        <5>1. Tried(attempts', c, action) \subseteq Tried(attempts, c, action)
          BY <2>7, <2>8, <4>2 DEF Tried, AttemptsOf
        <5>2. /\ Cardinality(Tried(attempts', c, action)) \in Nat
              /\ Cardinality(Tried(attempts, c, action)) \in Nat
              /\ Cardinality(Tried(attempts', c, action))
                   <= Cardinality(Tried(attempts, c, action))
          BY <2>16, <2>18, <5>1, CountsOfSubset
        <5>3. Cardinality(Tried(attempts, c, action)) <= MaxAttempts(action)
          BY <2>16, <2>18 DEF BudgetOf
        <5> QED BY <2>16, <5>2, <5>3
      <4> QED BY <4>1, <4>2
    <3>2. ASSUME nr.state \in Pending \cup {"running"}, nr.action = action
          PROVE  Cardinality(Done(attempts', c, action)) < MaxAttempts(action)
      <4>1. d.state \in Pending /\ verdict = action
        BY <2>13, <2>14, <3>2
      <4>2. PICK S : S = {x \in AttemptsOf(attempts, c) : x.action = action}
        OBVIOUS
      <4>3. IsFiniteSet(S)
        <5>1. S \subseteq attempts
          BY <4>2 DEF AttemptsOf
        <5> QED BY <1>1, <5>1, CountsOfSubset
      <4>4. Cardinality(S) \in Nat
        BY <4>3, FS_CardinalityType
      <4>5. ~(Cardinality(S) >= MaxAttempts(action))
        <5>1. CountOf(attempts, a.chain, action) = Cardinality(S)
          BY <2>3, <4>2 DEF CountOf
        <5>2. action # "complete" /\ action \notin ParkActions
          BY DEF RetryActions, ParkActions
        <5>3. CASE Cardinality(S) >= MaxAttempts(action)
          <6>1. d = [state |-> "exhausted", next |-> None]
            BY <2>9, <4>1, <5>1, <5>2, <5>3 DEF Disposition
          <6> QED BY <4>1, <6>1 DEF Pending
        <5> QED BY <5>3
      <4>6. /\ Cardinality(Done(attempts', c, action)) \in Nat
            /\ Cardinality(Done(attempts', c, action)) <= Cardinality(S)
        <5>1. CASE a.action = action
          <6>1. a \in S
            BY <2>1, <2>3, <4>2, <5>1 DEF AttemptsOf
          <6>2. Done(attempts', c, action) \subseteq (S \ {a}) \cup {b}
            BY <2>7, <4>2 DEF Done, Tried, AttemptsOf
          <6> QED BY <4>3, <6>1, <6>2, OneForOne
        <5>2. CASE a.action # action
          <6>1. Done(attempts', c, action) \subseteq S
            BY <2>7, <2>8, <4>2, <5>2 DEF Done, Tried, AttemptsOf
          <6> QED BY <4>3, <6>1, CountsOfSubset
        <5> QED BY <5>1, <5>2
      <4> QED BY <2>16, <4>4, <4>5, <4>6
    <3> QED BY <2>13, <2>18, <3>1, <3>2 DEF BudgetOf
  <2> QED BY <2>17, <2>18
<1> QED BY <1>2, <1>3

(* The planner: a new chain has no attempts, an old one keeps its action.  *)
LEMMA PlannerBudgets ==
  ASSUME ConvergenceAssumption, LedgerOK(chain, attempts, now),
         Budgets(chain, attempts),
         Reconcile \/ \E c \in Chains, s \in Sources, action \in PlannedActions :
                        Plan(c, s, action)
  PROVE  Budgets(chain', attempts')
<1>1. IsFiniteSet(attempts) /\ DOMAIN chain = Chains
  BY DEF LedgerOK
<1>2. ASSUME attempts' = attempts,
             NEW d \in Chains,
             chain'[d].state \in Pending \cup {"running"} =>
               /\ chain[d].state \in Pending \cup {"running"}
               /\ chain'[d].action = chain[d].action,
             NEW action \in RetryActions
      PROVE  BudgetOf(chain'[d], attempts', d, action)
  BY <1>1, <1>2, BudgetShrinks, DelaysAssumption DEF Budgets
<1>3. CASE Reconcile
  <2>1. attempts' = attempts
    BY <1>3 DEF Reconcile, ReconcileFreshPrimaryOutcomes
  <2>2. \A d \in Chains : chain'[d] = chain[d] \/ chain'[d].state = "fresh"
    BY <1>3, ReconcileMoves
  <2> QED BY <1>2, <2>1, <2>2 DEF Budgets, Pending
<1>4. ASSUME NEW c \in Chains, NEW s \in Sources, NEW planned \in PlannedActions,
             Plan(c, s, planned)
      PROVE  Budgets(chain', attempts')
  <2>1. PICK observed, deadline : CreateOrGetChain(c, {s}, planned, observed, deadline)
    BY <1>4 DEF Plan
  <2>2. PICK r : /\ chain' = [chain EXCEPT ![c] = r] /\ attempts' = attempts
                 /\ r = IF chain[c].state = "absent"
                        THEN NewChain({s}, planned, observed, deadline)
                        ELSE [chain[c] EXCEPT !.sources = chain[c].sources \cup {s}]
    BY <2>1 DEF CreateOrGetChain
  <2>3. chain'[c] = r /\ \A d \in Chains \ {c} : chain'[d] = chain[d]
    BY <1>1, <2>2
  <2>4. ASSUME NEW d \in Chains, d # c, NEW action \in RetryActions
        PROVE  BudgetOf(chain'[d], attempts', d, action)
    BY <1>2, <2>2, <2>3, <2>4
  <2>5. ASSUME NEW action \in RetryActions
        PROVE  BudgetOf(chain'[c], attempts', c, action)
    <3>1. CASE chain[c].state = "absent"
      <4>1. \A a \in attempts : a.chain # c
        BY <3>1 DEF LedgerOK, RowOK, AttemptOK
      <4>2. Tried(attempts, c, action) = {} /\ Done(attempts, c, action) = {}
        BY <4>1 DEF Tried, Done, AttemptsOf
      <4>3. MaxAttempts(action) \in Nat \ {0}
        BY MaxType, DelaysAssumption
      <4> QED BY <2>2, <4>2, <4>3, FS_EmptySet DEF BudgetOf
    <3>2. CASE chain[c].state # "absent"
      <4>1. chain[c] \in ChainRow
        BY DEF LedgerOK, RowOK
      <4>2. r = [chain[c] EXCEPT !.sources = chain[c].sources \cup {s}]
        BY <2>2, <3>2
      <4>3. r.state = chain[c].state /\ r.action = chain[c].action
        BY <4>1, <4>2 DEF ChainRow
      <4> QED BY <1>2, <2>2, <2>3, <4>3
    <3> QED BY <3>1, <3>2
  <2> QED BY <2>4, <2>5 DEF Budgets
<1> QED BY <1>3, <1>4

LEMMA NextBudgets ==
  ASSUME ConvergenceAssumption, IInv, RInv, Budgets(chain, attempts), [Next]_vars
  PROVE  Budgets(chain', attempts')
<1>1. LedgerOK(chain, attempts, now) /\ now \in Nat /\ RunningActions(chain, attempts)
  BY IInvParts DEF WorkersOK, WorldTypeOK, RInv
<1>2. CASE UNCHANGED ledger
  BY <1>2 DEF ledger, Budgets, BudgetOf, Tried, Done, AttemptsOf
<1>3. ASSUME NEW w \in Workers, NEW lane \in Lanes, Miss(w, lane)
      PROVE  Budgets(chain', attempts')
  <2>1. chain' = SweptChains(now) /\ attempts' = SweptAttempts(now)
    BY <1>3 DEF Miss, ClaimNothing
  <2> QED BY <1>1, <2>1, SweepBudgets, DelaysAssumption
<1>4. ASSUME NEW w \in Workers, NEW lane \in Lanes, NEW c \in Chains,
             Claim(w, lane, c)
      PROVE  Budgets(chain', attempts')
  <2>1. ClaimDue(c, OwnerOf[w], now, LeaseOf[lane], {lane}, EligibleFor[lane])
    BY <1>4 DEF Claim
  <2>2. None \notin Nat
    BY DEF ConvergenceAssumption
  <2> QED BY <1>1, <2>1, <2>2, ClaimBudgets, DelaysAssumption
<1>5. ASSUME NEW w \in Workers, WorkerStep(w) PROVE Budgets(chain', attempts')
  <2>1. UNCHANGED ledger \/ Report(w) \/ (\E lane \in Lanes : Miss(w, lane))
        \/ \E lane \in Lanes, c \in Chains : Claim(w, lane, c)
    BY <1>5 DEF WorkerStep, Start, TransportDue, TransportSkipped, Execute,
                ExecuteRaises
  <2> QED BY <1>1, <1>2, <1>3, <1>4, <2>1, ReportBudgets
<1>6. \/ UNCHANGED ledger \/ Reconcile
      \/ \E c \in Chains, s \in Sources, action \in PlannedActions : Plan(c, s, action)
      \/ \E w \in Workers : WorkerStep(w)
  BY DEF Next, vars, Tick, Publish, Crash
<1> QED BY <1>1, <1>2, <1>5, <1>6, PlannerBudgets

(* No order of claims, reports, sweeps and plans gives a chain more        *)
(* attempts of one action than its budget; only attempts taken back after  *)
(* their lease expired are tried anew.                                     *)
THEOREM BudgetsKept == Spec => []RetryBudget
<1>1. Init => Budgets(chain, attempts)
  <2> SUFFICES ASSUME Init, NEW c \in Chains, NEW action \in RetryActions
               PROVE  BudgetOf(chain[c], attempts, c, action)
    BY DEF Budgets
  <2>1. Tried(attempts, c, action) = {} /\ Done(attempts, c, action) = {}
    BY DEF Init, StoreInit, Tried, Done, AttemptsOf
  <2>2. MaxAttempts(action) \in Nat \ {0}
    BY MaxType, DelaysAssumption
  <2> QED BY <2>1, <2>2, FS_EmptySet DEF BudgetOf
<1>2. IInv /\ RInv /\ Budgets(chain, attempts) /\ [Next]_vars
        => Budgets(chain, attempts)'
  <2> SUFFICES ASSUME IInv, RInv, Budgets(chain, attempts), [Next]_vars
               PROVE  Budgets(chain', attempts')
    BY DEF Budgets, BudgetOf, Tried, Done, AttemptsOf
  <2> QED BY NextBudgets, ConvergenceAssumption
<1>3. Budgets(chain, attempts) => RetryBudget
  BY DEF Budgets, BudgetOf, Tried, RetryBudget
<1> QED BY <1>1, <1>2, <1>3, ReportsRest, PTL DEF Spec
-----------------------------------------------------------------------------
(* The paid accounts.  Beside what PaidAccounts says, nothing is recorded  *)
(* for an attempt while it runs, and what a live claim is about to report  *)
(* has been spent, and is in no total yet.                                 *)
Accounts(rows, atts) ==
  /\ \A c \in Chains : rows[c].paid = SumPaid(AttemptsOf(atts, c))
  /\ \A a \in atts : /\ a.paid > 0 => a.action = "retry_transport"
                     /\ a.state = "running" => a.paid = 0

Reserve(w) ==
  \A a \in attempts :
    At(w, "reporting") /\ a.state = "running"
      /\ a.chain = worker[w].chain /\ a.number = worker[w].number
    => chain[a.chain].paid + worker[w].paid <= spent[a.chain]

PInv == /\ Accounts(chain, attempts)
        /\ \A c \in Chains : chain[c].paid <= spent[c]
        /\ \A w \in Workers : Reserve(w)

(* One row's units are as many as it has paid.                             *)
LEMMA UnitsOfRow ==
  ASSUME NEW a, NEW n \in Nat
  PROVE  IsFiniteSet({a} \X (1..n)) /\ Cardinality({a} \X (1..n)) = n
<1>1. PICK S, T : S = {a} /\ T = 1..n
  OBVIOUS
<1>2. IsFiniteSet(S) /\ Cardinality(S) = 1
  BY <1>1, FS_Singleton
<1>3. IsFiniteSet(T) /\ Cardinality(T) = n
  <2>1. IsFiniteSet(1..n) /\ Cardinality(1..n) = n
    BY FS_Interval
  <2> QED BY <1>1, <2>1
<1>4. IsFiniteSet(S \X T) /\ Cardinality(S \X T) = Cardinality(S) * Cardinality(T)
  BY <1>2, <1>3, FS_Product, Zenon
<1>5. IsFiniteSet(S \X T) /\ Cardinality(S \X T) = n
  BY <1>2, <1>3, <1>4
<1> QED BY <1>1, <1>5, Zenon

(* The units that a finite set of rows has paid are finitely many.         *)
LEMMA UnitsAreFinite ==
  ASSUME NEW rows, IsFiniteSet(rows), \A a \in rows : a.paid \in Nat
  PROVE  IsFiniteSet(PaidUnits(rows)) /\ SumPaid(rows) \in Nat
<1> DEFINE f == [a \in rows |-> {a} \X (1..a.paid)]
           U == {{a} \X (1..a.paid) : a \in rows}
<1>1. f \in Surjection(rows, U)
  BY DEF Surjection
<1>2. IsFiniteSet(U)
  BY <1>1, FS_Surjection
<1>3. ASSUME NEW a \in rows PROVE IsFiniteSet({a} \X (1..a.paid))
  BY UnitsOfRow
<1>4. IsFiniteSet(UNION U)
  <2>1. \A T \in U : IsFiniteSet(T)
    BY <1>3
  <2> HIDE DEF U
  <2> QED BY <1>2, <2>1, FS_UNION
<1> QED BY <1>4, FS_CardinalityType DEF PaidUnits, SumPaid

(* A row that has paid nothing adds nothing to the sum.                    *)
LEMMA UnpaidRow ==
  ASSUME NEW rows, NEW a, a.paid = 0
  PROVE  SumPaid(rows \cup {a}) = SumPaid(rows)
<1>1. {a} \X (1..a.paid) = {}
  OBVIOUS
<1>2. PaidUnits(rows \cup {a}) = PaidUnits(rows)
  BY <1>1 DEF PaidUnits
<1> QED BY <1>2 DEF SumPaid

(* A new row adds what it has paid.                                        *)
LEMMA PaidRow ==
  ASSUME NEW rows, IsFiniteSet(rows), \A b \in rows : b.paid \in Nat,
         NEW a, a \notin rows, a.paid \in Nat
  PROVE  SumPaid(rows \cup {a}) = SumPaid(rows) + a.paid
<1> DEFINE S == PaidUnits(rows)
           T == {a} \X (1..a.paid)
<1>1. IsFiniteSet(S) /\ Cardinality(S) \in Nat
  BY UnitsAreFinite DEF SumPaid
<1>2. IsFiniteSet(T) /\ Cardinality(T) = a.paid
  BY UnitsOfRow
<1>3. S \cap T = {}
  BY DEF PaidUnits
<1>4. PaidUnits(rows \cup {a}) = S \cup T
  BY DEF PaidUnits
<1> HIDE DEF S, T
<1>5. Cardinality(S \cup T) = Cardinality(S) + Cardinality(T) - Cardinality(S \cap T)
  BY <1>1, <1>2, FS_Union
<1>6. Cardinality(S \cap T) = 0
  BY <1>3, FS_EmptySet
<1>7. Cardinality(S \cup T) = Cardinality(S) + a.paid
  BY <1>1, <1>2, <1>5, <1>6
<1> QED BY <1>4, <1>7 DEF SumPaid, S

(* A set of rows and its image, row by row with the same usage, pay alike. *)
LEMMA SameUsage ==
  ASSUME NEW rows, IsFiniteSet(rows), NEW image,
         \A a \in rows : a.paid \in Nat /\ image[a].paid = a.paid,
         \A a, b \in rows : image[a] = image[b] => a = b
  PROVE  SumPaid({image[a] : a \in rows}) = SumPaid(rows)
<1> DEFINE S == PaidUnits(rows)
           T == PaidUnits({image[a] : a \in rows})
           f == [u \in S |-> <<image[u[1]], u[2]>>]
<1>1. \A u : u \in S <=> \E a \in rows : \E k \in 1..a.paid : u = <<a, k>>
  BY DEF PaidUnits
<1>2. \A u : u \in T <=> \E a \in rows : \E k \in 1..a.paid : u = <<image[a], k>>
  BY DEF PaidUnits
<1> HIDE DEF S, T
<1>3. f \in [S -> T]
  BY <1>1, <1>2
<1>4. \A t \in T : \E s \in S : f[s] = t
  <2> SUFFICES ASSUME NEW t \in T PROVE \E s \in S : f[s] = t
    OBVIOUS
  <2>1. PICK a \in rows : \E k \in 1..a.paid : t = <<image[a], k>>
    BY <1>2
  <2>2. PICK k \in 1..a.paid : t = <<image[a], k>>
    BY <2>1
  <2>3. <<a, k>> \in S /\ f[<<a, k>>] = t
    BY <1>1, <2>2
  <2> QED BY <2>3
<1>5. \A s, t \in S : f[s] = f[t] => s = t
  <2> SUFFICES ASSUME NEW s \in S, NEW t \in S, f[s] = f[t] PROVE s = t
    OBVIOUS
  <2>1. PICK a \in rows : \E k \in 1..a.paid : s = <<a, k>>
    BY <1>1
  <2>2. PICK b \in rows : \E l \in 1..b.paid : t = <<b, l>>
    BY <1>1
  <2>3. PICK k \in 1..a.paid, l \in 1..b.paid : s = <<a, k>> /\ t = <<b, l>>
    BY <2>1, <2>2
  <2>4. f[s] = <<image[a], k>> /\ f[t] = <<image[b], l>>
    BY <2>3
  <2>5. image[a] = image[b] /\ k = l
    BY <2>4
  <2> QED BY <2>3, <2>5
<1>6. ExistsBijection(S, T)
  <2> HIDE DEF f
  <2> QED BY <1>3, <1>4, <1>5 DEF ExistsBijection, Bijection, Injection, Surjection, IsInjective
<1>7. IsFiniteSet(S)
  BY UnitsAreFinite DEF S
<1>8. Cardinality(T) = Cardinality(S)
  BY <1>6, <1>7, FS_Bijection
<1> QED BY <1>8 DEF S, T, SumPaid
(* What the ledger's invariant says of the rows that are summed.           *)
LEMMA RowsOf ==
  ASSUME NEW rows, NEW atts, NEW t, LedgerOK(rows, atts, t), NEW c
  PROVE  /\ IsFiniteSet(AttemptsOf(atts, c))
         /\ \A a \in AttemptsOf(atts, c) : a.paid \in Nat
<1>1. AttemptsOf(atts, c) \subseteq atts
  BY DEF AttemptsOf
<1>2. \A a \in atts : a.paid \in Nat
  BY DEF LedgerOK, AttemptOK, AttemptRow
<1> QED BY <1>1, <1>2, CountsOfSubset DEF LedgerOK

(* The sweep moves no paid unit and starts no attempt.                     *)
LEMMA SweepAccounts ==
  ASSUME LedgerOK(chain, attempts, now), now \in Nat, Accounts(chain, attempts)
  PROVE  /\ Accounts(SweptChains(now), SweptAttempts(now))
         /\ \A c \in Chains : SweptChains(now)[c].paid = chain[c].paid
         /\ \A a \in SweptAttempts(now) : a.state = "running" => a \in attempts
<1>1. ASSUME NEW c \in Chains PROVE SweptChains(now)[c].paid = chain[c].paid
  <2>1. chain[c] \in ChainRow
    BY DEF LedgerOK, RowOK
  <2> QED BY <2>1 DEF SweptChains, SweptRow, Unleased, ChainRow
<1>2. ASSUME NEW a \in attempts
      PROVE  /\ SameKey(a, SweptAttempt(a, now)) /\ a.paid \in Nat
             /\ SweptAttempt(a, now).paid = a.paid
             /\ SweptAttempt(a, now).action = a.action
             /\ SweptAttempt(a, now).state = "running" => SweptAttempt(a, now) = a
  <2>1. a \in AttemptRow
    BY DEF LedgerOK, AttemptOK
  <2>2. SweptAttempt(a, now).paid = a.paid /\ a.paid \in Nat
    BY <2>1 DEF SweptAttempt, AttemptRow
  <2> QED BY <2>2, SweepAttempts
<1>3. ASSUME NEW c \in Chains
      PROVE  SumPaid(AttemptsOf(SweptAttempts(now), c)) = SumPaid(AttemptsOf(attempts, c))
  <2> DEFINE rows == AttemptsOf(attempts, c)
             image == [a \in attempts |-> SweptAttempt(a, now)]
  <2>1. IsFiniteSet(rows)
    BY RowsOf
  <2>2. \A a \in rows : a.paid \in Nat /\ image[a].paid = a.paid
    BY <1>2 DEF AttemptsOf
  <2>3. \A a, b \in rows : image[a] = image[b] => a = b
    BY <1>2 DEF AttemptsOf, SameKey, LedgerOK
  <2>4. AttemptsOf(SweptAttempts(now), c) = {image[a] : a \in rows}
    BY <1>2 DEF AttemptsOf, SweptAttempts, SameKey
  <2> HIDE DEF rows, image
  <2>5. SumPaid({image[a] : a \in rows}) = SumPaid(rows)
    BY <2>1, <2>2, <2>3, SameUsage
  <2> QED BY <2>4, <2>5 DEF rows
<1>4. ASSUME NEW a \in SweptAttempts(now)
      PROVE  /\ a.paid > 0 => a.action = "retry_transport"
             /\ a.state = "running" => a.paid = 0 /\ a \in attempts
  <2>1. PICK b \in attempts : a = SweptAttempt(b, now)
    BY DEF SweptAttempts
  <2> QED BY <1>2, <2>1 DEF Accounts
<1> QED BY <1>1, <1>3, <1>4 DEF Accounts

(* A claim adds a row that has paid nothing, and the only running one      *)
(* whose number is new.                                                    *)
LEMMA ClaimAccounts ==
  ASSUME LedgerOK(chain, attempts, now), now \in Nat, Accounts(chain, attempts),
         NEW c \in Chains, NEW owner, NEW lease, NEW acts, NEW eligible,
         ClaimDue(c, owner, now, lease, acts, eligible)
  PROVE  /\ Accounts(chain', attempts')
         /\ \A d \in Chains : chain'[d].paid = chain[d].paid
         /\ \A a \in attempts' : a.state = "running" =>
              a \in attempts \/ (a.chain = c /\ a.number = chain[c].index + 1)
<1>1. PICK row : row = SweptRow(c, now)
  OBVIOUS
<1>2. chain[c] \in ChainRow
  BY DEF LedgerOK, RowOK
<1>3. row \in ChainRow /\ row.index = chain[c].index /\ row.paid = chain[c].paid
  <2>1. row.paid = chain[c].paid
    BY <1>1, SweepAccounts DEF SweptChains
  <2>2. chain \in [Chains -> ChainRow]
    BY DEF LedgerOK, RowOK
  <2> QED BY <1>1, <2>1, <2>2, SweptRowFacts
<1>4. PICK nr : nr = [row EXCEPT !.state = "running", !.index = @ + 1,
                        !.next = None, !.owner = owner, !.until = now + lease]
  OBVIOUS
<1>5. nr.paid = chain[c].paid
  BY <1>3, <1>4 DEF ChainRow
<1>6. PICK na : na = [chain |-> c, number |-> row.index + 1,
                      action |-> row.action, state |-> "running",
                      worker |-> owner, reason |-> "none", paid |-> 0]
  OBVIOUS
<1>7. na.chain = c /\ na.number = chain[c].index + 1 /\ na.paid = 0
  BY <1>3, <1>6
<1>8. /\ chain' = [SweptChains(now) EXCEPT ![c] = nr]
      /\ attempts' = SweptAttempts(now) \cup {na} /\ DOMAIN SweptChains(now) = Chains
  BY <1>1, <1>4, <1>6 DEF ClaimDue, SweptChains
<1>9. \A d \in Chains : chain'[d].paid = chain[d].paid
  BY <1>5, <1>8, SweepAccounts
<1>10. ASSUME NEW d \in Chains
       PROVE  SumPaid(AttemptsOf(attempts', d)) = SumPaid(AttemptsOf(SweptAttempts(now), d))
  <2>1. CASE d = c
    <3>1. AttemptsOf(attempts', d) = AttemptsOf(SweptAttempts(now), d) \cup {na}
      BY <1>7, <1>8, <2>1 DEF AttemptsOf
    <3> QED BY <1>7, <3>1, UnpaidRow
  <2>2. CASE d # c
    <3>1. AttemptsOf(attempts', d) = AttemptsOf(SweptAttempts(now), d)
      BY <1>7, <1>8, <2>2 DEF AttemptsOf
    <3> QED BY <3>1
  <2> QED BY <2>1, <2>2
<1>11. ASSUME NEW a \in attempts'
       PROVE  /\ a.paid > 0 => a.action = "retry_transport"
              /\ a.state = "running" => a.paid = 0
  BY <1>7, <1>8, SweepAccounts DEF Accounts
<1>12. \A d \in Chains : chain'[d].paid = SumPaid(AttemptsOf(attempts', d))
  BY <1>9, <1>10, SweepAccounts DEF Accounts
<1>13. Accounts(chain', attempts')
  BY <1>11, <1>12 DEF Accounts
<1>14. ASSUME NEW a \in attempts', a.state = "running"
       PROVE  a \in attempts \/ (a.chain = c /\ a.number = chain[c].index + 1)
  <2>1. \A b \in SweptAttempts(now) : b.state = "running" => b \in attempts
    BY SweepAccounts, Zenon
  <2> QED BY <1>7, <1>8, <1>14, <2>1
<1> QED BY <1>9, <1>13, <1>14

(* The planner pays nothing and starts nothing; a chain it opens has no    *)
(* attempts, and so nothing to account for.                                *)
LEMMA PlannerAccounts ==
  ASSUME LedgerOK(chain, attempts, now), Accounts(chain, attempts),
         Reconcile \/ \E c \in Chains, s \in Sources, action \in PlannedActions :
                        Plan(c, s, action)
  PROVE  /\ Accounts(chain', attempts') /\ attempts' = attempts
         /\ \A c \in Chains : chain'[c].paid = chain[c].paid
<1>1. DOMAIN chain = Chains /\ \A c \in Chains : chain[c] \in ChainRow /\ RowOK(chain[c])
  BY DEF LedgerOK, RowOK
<1>2. attempts' = attempts
  BY DEF Reconcile, ReconcileFreshPrimaryOutcomes, Plan, CreateOrGetChain
<1>3. CASE Reconcile
  <2>1. ASSUME NEW c \in Chains PROVE chain'[c].paid = chain[c].paid
    <3>1. PICK r : r = chain'[c]
      OBVIOUS
    <3>2. r = chain[c] \/ r = [Unleased(chain[c], "fresh", None)
                                 EXCEPT !.action = "complete", !.paidOk = FALSE]
      BY <1>3, <3>1 DEF Reconcile, ReconcileFreshPrimaryOutcomes
    <3>3. r.paid = chain[c].paid
      BY <1>1, <3>2 DEF Unleased, ChainRow
    <3> QED BY <3>1, <3>3
  <2> QED BY <1>2, <2>1 DEF Accounts
<1>4. ASSUME NEW c \in Chains, NEW s \in Sources, NEW action \in PlannedActions,
             Plan(c, s, action)
      PROVE  \A d \in Chains : chain'[d].paid = chain[d].paid
  <2>1. PICK observed, deadline : CreateOrGetChain(c, {s}, action, observed, deadline)
    BY <1>4 DEF Plan
  <2>2. PICK r : /\ chain' = [chain EXCEPT ![c] = r]
                 /\ r = IF chain[c].state = "absent"
                        THEN NewChain({s}, action, observed, deadline)
                        ELSE [chain[c] EXCEPT !.sources = chain[c].sources \cup {s}]
    BY <2>1 DEF CreateOrGetChain
  <2>3. r.paid = chain[c].paid
    <3>1. CASE chain[c].state = "absent"
      <4>1. \A a \in attempts : a.chain # c
        BY <1>1, <3>1 DEF LedgerOK, RowOK, AttemptOK
      <4>2. PaidUnits(AttemptsOf(attempts, c)) = {}
        BY <4>1 DEF AttemptsOf, PaidUnits
      <4>3. chain[c].paid = 0
        BY <4>2, FS_EmptySet DEF Accounts, SumPaid
      <4> QED BY <2>2, <3>1, <4>3 DEF NewChain, Absent
    <3>2. CASE chain[c].state # "absent"
      BY <1>1, <2>2, <3>2 DEF ChainRow
    <3> QED BY <3>1, <3>2
  <2> QED BY <1>1, <2>2, <2>3
<1> QED BY <1>2, <1>3, <1>4 DEF Accounts
(* A report that is heard moves the usage of its attempt into the row and  *)
(* into the total of the chain, whose only running attempt this was.       *)
LEMMA ReportAccounts ==
  ASSUME ConvergenceAssumption, IInv, RInv, PInv,
         NEW w \in Workers, Report(w), ~UNCHANGED ledger
  PROVE  /\ Accounts(chain', attempts')
         /\ \E c \in Chains :
              /\ \A d \in Chains \ {c} : chain'[d].paid = chain[d].paid
              /\ chain'[c].paid <= spent[c]
              /\ \A b \in attempts' : b.state = "running" =>
                   b \in attempts /\ b.chain # c
<1>1. LedgerOK(chain, attempts, now) /\ WorkersOK /\ DOMAIN chain = Chains
  BY IInvParts DEF LedgerOK
<1>2. PICK c \in Chains, a \in attempts :
        /\ Current(w, c) /\ chain[c].state = "running"
        /\ a = ClaimedAttempt(w) /\ a.state = "running"
        /\ \E r : /\ chain' = [chain EXCEPT ![c] = r]
                  /\ r.state \in ChainStates \ {"running", "absent"}
                  /\ r.index = chain[c].index
                  /\ r.state = "fresh" => worker[w].verdict = "complete"
        /\ \E b : attempts' = (attempts \ {a}) \cup {b}
  BY ReportMoves, Zenon
<1>3. a.chain = c /\ worker[w].chain = c /\ worker[w].number = a.number
  BY <1>1, <1>2, ClaimedAttemptFacts DEF Current
<1>4. PICK paid : paid = worker[w].paid
  OBVIOUS
<1>5. PICK verdict, ok, at :
        /\ FinishAttempt(a, verdict, ok, paid, at)
        /\ ~FinishRefused(a, OwnerOf[w], verdict, ok, paid, at)
  BY <1>2, <1>4 DEF Report
<1>6. /\ a \in AttemptRow /\ chain[c] \in ChainRow /\ AttemptOK(a, chain[c], now)
      /\ chain[c].paid \in Nat /\ paid \in Nat
  BY <1>1, <1>2, <1>3, <1>4
     DEF LedgerOK, AttemptOK, RowOK, ChainRow, WorkersOK, WorldTypeOK, Run
<1>7. PICK b : b = [a EXCEPT !.state = IF ok THEN "succeeded" ELSE "failed",
                             !.reason = "reported", !.paid = paid]
  OBVIOUS
<1>8. attempts' = (attempts \ {a}) \cup {b}
  BY <1>5, <1>7 DEF FinishAttempt
<1>9. /\ SameKey(a, b) /\ b.action = a.action /\ b.state # "running"
      /\ b.paid = paid
  BY <1>6, <1>7 DEF SameKey, AttemptRow
<1>10. PICK d : d = Disposition(a, verdict, at)
  OBVIOUS
<1>11. PICK q, p : q = PaidAllowed(verdict) /\ p = chain[c].paid + paid
  OBVIOUS
<1>12. PICK nr : nr = [Unleased(chain[c], d.state, d.next) EXCEPT
          !.action = verdict, !.paidOk = q, !.paid = p]
  OBVIOUS
<1>13. chain' = [chain EXCEPT ![c] = nr]
  BY <1>3, <1>5, <1>10, <1>11, <1>12 DEF FinishAttempt, ReportedRow
<1>14. nr.paid = p
  BY <1>6, <1>12 DEF Unleased, ChainRow
<1>15. chain'[c].paid = chain[c].paid + paid
       /\ \A e \in Chains \ {c} : chain'[e] = chain[e]
  BY <1>1, <1>11, <1>13, <1>14
<1>16. \A x \in attempts : x.chain = c /\ x # a => x.state # "running"
  <2> SUFFICES ASSUME NEW x \in attempts, x.chain = c, x.state = "running"
               PROVE  x = a
    OBVIOUS
  <2>1. AttemptOK(x, chain[c], now)
    BY <1>1 DEF LedgerOK
  <2>2. x.number = a.number
    BY <1>2, <1>6, <2>1 DEF AttemptOK
  <2> QED BY <1>1, <1>3, <2>2 DEF LedgerOK, SameKey
<1>17. \A x \in attempts' : x.state = "running" => x \in attempts /\ x.chain # c
  BY <1>8, <1>9, <1>16
<1>18. SumPaid(AttemptsOf(attempts', c)) = SumPaid(AttemptsOf(attempts, c)) + paid
  <2>1. PICK rows : rows = AttemptsOf(attempts, c) \ {a}
    OBVIOUS
  <2>2. AttemptsOf(attempts, c) = rows \cup {a}
    BY <1>2, <1>3, <2>1 DEF AttemptsOf
  <2>3. AttemptsOf(attempts', c) = rows \cup {b}
    BY <1>3, <1>8, <1>9, <2>1 DEF AttemptsOf, SameKey
  <2>4. a.paid = 0
    BY <1>2 DEF PInv, Accounts
  <2>5. SumPaid(AttemptsOf(attempts, c)) = SumPaid(rows)
    BY <2>2, <2>4, UnpaidRow
  <2>6. b \notin rows
    BY <1>1, <1>2, <1>9, <2>1 DEF LedgerOK, AttemptsOf
  <2>7. rows \subseteq AttemptsOf(attempts, c)
    BY <2>1
  <2>8. IsFiniteSet(rows) /\ \A x \in rows : x.paid \in Nat
    BY <1>1, <2>7, RowsOf, CountsOfSubset
  <2>9. SumPaid(rows \cup {b}) = SumPaid(rows) + b.paid
    BY <1>6, <1>9, <2>6, <2>8, PaidRow
  <2> QED BY <1>9, <2>3, <2>5, <2>9
<1>19. \A e \in Chains : chain'[e].paid = SumPaid(AttemptsOf(attempts', e))
  <2>1. ASSUME NEW e \in Chains, e # c
        PROVE  AttemptsOf(attempts', e) = AttemptsOf(attempts, e)
    BY <1>3, <1>8, <1>9, <2>1 DEF AttemptsOf, SameKey
  <2> QED BY <1>15, <1>18, <2>1 DEF PInv, Accounts
<1>20. paid > 0 => a.action = "retry_transport"
  <2> SUFFICES ASSUME paid > 0 PROVE a.action = "retry_transport"
    OBVIOUS
  <2>1. chain[c].paidOk
    BY <1>2, <1>3, <1>5 DEF FinishRefused
  <2> QED BY <1>2, <1>3, <2>1 DEF RInv, PaidColumn, RunningActions
<1>21. \A x \in attempts' : /\ x.paid > 0 => x.action = "retry_transport"
                            /\ x.state = "running" => x.paid = 0
  BY <1>8, <1>9, <1>20 DEF PInv, Accounts
<1>22. chain'[c].paid <= spent[c]
  <2>1. At(w, "reporting")
    BY DEF Report
  <2>2. chain[c].paid + paid <= spent[c]
    BY <1>2, <1>3, <1>4, <2>1 DEF PInv, Reserve
  <2> QED BY <1>15, <2>2
<1> QED BY <1>15, <1>17, <1>19, <1>21, <1>22 DEF Accounts

(* What a live claim is about to report stays covered while its attempt    *)
(* and the total of its chain stay, however much is spent.                 *)
LEMMA ReserveStays ==
  ASSUME IInv, NEW v \in Workers, Reserve(v), worker'[v] = worker[v],
         WorldTypeOK', \A c \in Chains : spent[c] <= spent'[c],
         \A b \in attempts' :
           b.state = "running" /\ b.chain = worker[v].chain
             /\ b.number = worker[v].number
           => b \in attempts /\ chain'[b.chain].paid = chain[b.chain].paid
  PROVE  Reserve(v)'
<1> SUFFICES ASSUME NEW b \in attempts', At(v, "reporting")', b.state = "running",
                    b.chain = worker'[v].chain, b.number = worker'[v].number
             PROVE  chain'[b.chain].paid + worker'[v].paid <= spent'[b.chain]
  BY DEF Reserve
<1>1. LedgerOK(chain, attempts, now) /\ WorldTypeOK
  BY IInvParts DEF WorkersOK
<1>2. b \in attempts /\ chain'[b.chain].paid = chain[b.chain].paid
  OBVIOUS
<1>3. b.chain \in Chains
  BY <1>1, <1>2 DEF LedgerOK, AttemptOK, AttemptRow
<1>4. /\ chain[b.chain].paid \in Nat /\ worker[v].paid \in Nat
      /\ spent[b.chain] \in Nat /\ spent'[b.chain] \in Nat
  BY <1>1, <1>3 DEF LedgerOK, RowOK, ChainRow, WorldTypeOK, Run
<1>5. chain[b.chain].paid + worker[v].paid <= spent[b.chain]
  BY <1>2 DEF Reserve, At
<1>6. spent[b.chain] <= spent'[b.chain]
  BY <1>3
<1> QED BY <1>2, <1>4, <1>5, <1>6

(* PInv is inductive, relative to IInv and RInv.                           *)
LEMMA PNext ==
  ASSUME ConvergenceAssumption, IInv, IInv', RInv, PInv, [Next]_vars
  PROVE  PInv'
<1>1. LedgerOK(chain, attempts, now) /\ WorldTypeOK /\ WorldTypeOK' /\ now \in Nat
  <2>1. (WorldTypeOK)'
    BY IInvParts, PTL DEF WorkersOK
  <2> QED BY <2>1, IInvParts DEF WorkersOK, WorldTypeOK
<1>2. /\ Accounts(chain, attempts)
      /\ \A c \in Chains : /\ chain[c].paid <= spent[c] /\ chain[c].paid \in Nat
                           /\ spent[c] \in Nat /\ spent'[c] \in Nat
      /\ \A a \in attempts : a.chain \in Chains
  BY <1>1 DEF PInv, LedgerOK, RowOK, ChainRow, AttemptOK, AttemptRow, WorldTypeOK
<1>3. ASSUME Accounts(chain', attempts'), \A c \in Chains : chain'[c].paid <= spent'[c],
             \A w \in Workers : Reserve(w)'
      PROVE  PInv'
  BY <1>3 DEF PInv, Accounts
<1>4. ASSUME Accounts(chain', attempts'), worker' = worker, UNCHANGED spent,
             \A c \in Chains : chain'[c].paid = chain[c].paid,
             \A b \in attempts' : b.state = "running" => b \in attempts
      PROVE  PInv'
  <2>1. \A c \in Chains : spent[c] <= spent'[c] /\ chain'[c].paid <= spent'[c]
    BY <1>2, <1>4
  <2>2. ASSUME NEW w \in Workers PROVE Reserve(w)'
    BY <1>1, <1>2, <1>4, <2>1, ReserveStays DEF PInv
  <2> QED BY <1>3, <1>4, <2>1, <2>2
<1>5. CASE Tick \/ (\E s \in Sources : Publish(s)) \/ UNCHANGED vars
  BY <1>2, <1>4, <1>5 DEF Tick, Publish, vars, ledger, world
<1>6. CASE Reconcile \/ \E c \in Chains, s \in Sources, action \in PlannedActions :
                          Plan(c, s, action)
  <2>1. worker' = worker /\ UNCHANGED spent
    BY <1>6 DEF Reconcile, Plan, world
  <2>2. /\ Accounts(chain', attempts') /\ attempts' = attempts
        /\ \A c \in Chains : chain'[c].paid = chain[c].paid
    BY <1>1, <1>2, <1>6, PlannerAccounts
  <2> QED BY <1>4, <2>1, <2>2
<1>7. ASSUME NEW w \in Workers, WorkerStep(w) \/ Crash(w) PROVE PInv'
  <2>1. \A v \in Workers \ {w} : worker'[v] = worker[v]
    BY <1>1, <1>7 DEF WorkerStep, Start, Miss, Claim, TransportDue, TransportSkipped,
       Execute, ExecuteRaises, Report, Crash, Goto, WorldTypeOK
  <2>2. \A v \in Workers : Reserve(v)
    BY DEF PInv
  <2>3. ASSUME NEW lane \in Lanes, Miss(w, lane) PROVE PInv'
    <3>1. chain' = SweptChains(now) /\ attempts' = SweptAttempts(now) /\ UNCHANGED spent
      BY <2>3 DEF Miss, ClaimNothing, world
    <3>2. /\ Accounts(chain', attempts')
          /\ \A c \in Chains : chain'[c].paid = chain[c].paid
          /\ \A a \in attempts' : a.state = "running" => a \in attempts
      BY <1>1, <1>2, <3>1, SweepAccounts
    <3>3. ~At(w, "reporting")'
      <4>1. PICK r : r =
              CASE lane = "retry_candidate" -> [worker[w] EXCEPT !.pc = "probe_upstream"]
                [] lane = "probe_upstream"  -> [worker[w] EXCEPT !.pc = "transport_gate"]
                [] lane = "retry_transport" -> Idle
        OBVIOUS
      <4>2. worker'[w] = r /\ worker[w] \in Run
        BY <1>1, <2>3, <4>1 DEF Miss, WorldTypeOK
      <4>3. r.pc # "reporting"
        BY <4>1, <4>2 DEF Lanes, Run, Idle
      <4> QED BY <4>2, <4>3 DEF At
    <3>4. \A c \in Chains : spent[c] <= spent'[c] /\ chain'[c].paid <= spent'[c]
      BY <1>2, <3>1, <3>2
    <3>5. ASSUME NEW v \in Workers PROVE Reserve(v)'
      <4>1. CASE v = w
        BY <3>3, <4>1 DEF Reserve
      <4>2. CASE v # w
        BY <1>1, <1>2, <2>1, <2>2, <3>2, <3>4, <4>2, ReserveStays
      <4> QED BY <4>1, <4>2
    <3> QED BY <1>3, <3>2, <3>4, <3>5
  <2>4. ASSUME NEW lane \in Lanes, NEW c \in Chains, Claim(w, lane, c) PROVE PInv'
    <3>1. ClaimDue(c, OwnerOf[w], now, LeaseOf[lane], {lane}, EligibleFor[lane])
          /\ UNCHANGED spent
      BY <2>4 DEF Claim, world
    <3>2. /\ Accounts(chain', attempts')
          /\ \A d \in Chains : chain'[d].paid = chain[d].paid
          /\ \A a \in attempts' : a.state = "running" =>
               a \in attempts \/ (a.chain = c /\ a.number = chain[c].index + 1)
      BY <1>1, <1>2, <3>1, ClaimAccounts
    <3>3. ~At(w, "reporting")'
      BY <1>1, <2>4 DEF Claim, At, Idle, WorldTypeOK
    <3>4. \A d \in Chains : spent[d] <= spent'[d] /\ chain'[d].paid <= spent'[d]
      BY <1>2, <3>1, <3>2
    <3>5. ASSUME NEW v \in Workers PROVE Reserve(v)'
      <4>1. CASE v = w
        BY <3>3, <4>1 DEF Reserve
      <4>2. CASE v # w /\ At(v, "reporting")
        <5>1. Held(v)
          BY <4>2 DEF At, Held
        <5>2. worker[v].number <= chain[worker[v].chain].index
              /\ worker[v].number \in Nat /\ worker[v].chain \in Chains
              /\ chain[worker[v].chain].index \in Nat
          BY <1>1, <5>1, HeldChain DEF WorldTypeOK, Run, LedgerOK, RowOK, ChainRow
        <5>3. \A b \in attempts' :
                b.state = "running" /\ b.chain = worker[v].chain
                  /\ b.number = worker[v].number
                => b \in attempts /\ chain'[b.chain].paid = chain[b.chain].paid
          BY <3>2, <5>2
        <5> QED BY <1>1, <2>1, <2>2, <3>4, <4>2, <5>3, ReserveStays
      <4>3. CASE v # w /\ ~At(v, "reporting")
        BY <2>1, <4>3 DEF Reserve, At
      <4> QED BY <4>1, <4>2, <4>3
    <3> QED BY <1>3, <3>2, <3>4, <3>5
  <2>5. CASE Report(w)
    <3>1. ~At(w, "reporting")' /\ UNCHANGED spent
      BY <1>1, <2>5 DEF Report, At, Idle, WorldTypeOK, world
    <3>2. \A c \in Chains : spent[c] <= spent'[c]
      BY <1>2, <3>1
    <3>3. CASE UNCHANGED ledger
      <4>1. chain' = chain /\ attempts' = attempts
        BY <3>3 DEF ledger
      <4>2. ASSUME NEW v \in Workers PROVE Reserve(v)'
        <5>1. CASE v = w
          BY <3>1, <5>1 DEF Reserve
        <5>2. CASE v # w
          BY <1>1, <2>1, <2>2, <3>2, <4>1, <5>2, ReserveStays
        <5> QED BY <5>1, <5>2
      <4> QED BY <1>2, <1>3, <3>1, <4>1, <4>2
    <3>4. CASE ~UNCHANGED ledger
      <4>1. Accounts(chain', attempts')
        BY <2>5, <3>4, ReportAccounts
      <4>2. PICK c \in Chains :
              /\ \A d \in Chains \ {c} : chain'[d].paid = chain[d].paid
              /\ chain'[c].paid <= spent[c]
              /\ \A b \in attempts' : b.state = "running" =>
                   b \in attempts /\ b.chain # c
        BY <2>5, <3>4, ReportAccounts
      <4>3. \A d \in Chains : chain'[d].paid <= spent'[d]
        BY <1>2, <3>1, <4>2
      <4>4. ASSUME NEW v \in Workers PROVE Reserve(v)'
        <5>1. CASE v = w
          BY <3>1, <5>1 DEF Reserve
        <5>2. CASE v # w
          BY <1>1, <1>2, <2>1, <2>2, <3>2, <4>2, <5>2, ReserveStays
        <5> QED BY <5>1, <5>2
      <4> QED BY <1>3, <4>1, <4>3, <4>4
    <3> QED BY <3>3, <3>4
  <2>6. CASE \/ Start(w) \/ TransportDue(w) \/ TransportSkipped(w)
             \/ Execute(w) \/ ExecuteRaises(w) \/ Crash(w)
    <3>1. chain' = chain /\ attempts' = attempts
      BY <2>6 DEF Start, TransportDue, TransportSkipped, Execute, ExecuteRaises,
                  Crash, ledger
    <3>2. ASSUME UNCHANGED spent, ~At(w, "reporting")' PROVE PInv'
      <4>1. \A c \in Chains : spent[c] <= spent'[c] /\ chain'[c].paid <= spent'[c]
        BY <1>2, <3>1, <3>2
      <4>2. ASSUME NEW v \in Workers PROVE Reserve(v)'
        <5>1. CASE v = w
          BY <3>2, <5>1 DEF Reserve
        <5>2. CASE v # w
          BY <1>1, <2>1, <2>2, <3>1, <4>1, <5>2, ReserveStays
        <5> QED BY <5>1, <5>2
      <4> QED BY <1>2, <1>3, <3>1, <4>1, <4>2
    <3>3. ASSUME NEW p \in PaidBy(w), Spend(w, p), At(w, "executing"),
                 At(w, "reporting")' => /\ SameClaim(worker'[w], worker[w])
                                        /\ worker'[w].paid \in {0, p}
          PROVE  PInv'
      <4>1. p \in Nat
        BY DEF PaidBy, ConvergenceAssumption
      <4>2. worker[w].chain \in Chains
        BY <3>3, HeldChain DEF At, Held
      <4>3. /\ spent'[worker[w].chain] = spent[worker[w].chain] + p
            /\ \A c \in Chains : spent'[c] \in {spent[c], spent[c] + p}
        BY <1>1, <3>3, <4>2 DEF Spend, WorldTypeOK
      <4>4. \A c \in Chains : spent[c] <= spent'[c] /\ chain'[c].paid <= spent'[c]
        BY <1>2, <3>1, <4>1, <4>3
      <4>5. Reserve(w)'
        <5>1. \A c \in Chains : chain[c].paid <= spent[c] /\ chain[c].paid \in Nat
                                /\ spent[c] \in Nat
          BY <1>2
        <5>2. chain'[worker[w].chain].paid + p <= spent'[worker[w].chain]
              /\ chain'[worker[w].chain].paid <= spent'[worker[w].chain]
              /\ chain'[worker[w].chain].paid \in Nat
          BY <3>1, <4>1, <4>2, <4>3, <4>4, <5>1
        <5>3. At(w, "reporting")' =>
                chain'[worker'[w].chain].paid + worker'[w].paid <= spent'[worker'[w].chain]
          BY <3>3, <4>1, <5>2 DEF SameClaim
        <5> QED BY <5>3 DEF Reserve
      <4>6. ASSUME NEW v \in Workers PROVE Reserve(v)'
        <5>1. CASE v = w
          BY <4>5, <5>1
        <5>2. CASE v # w
          BY <1>1, <2>1, <2>2, <3>1, <4>4, <5>2, ReserveStays
        <5> QED BY <5>1, <5>2
      <4> QED BY <1>2, <1>3, <3>1, <4>4, <4>6
    <3>4. worker[w] \in Run
      BY <1>1 DEF WorldTypeOK
    <3>5. CASE Start(w) \/ TransportDue(w)
      <4>1. PICK pc \in {"retry_candidate", "retry_transport"} :
              worker' = [worker EXCEPT ![w].pc = pc]
        BY <3>5 DEF Start, TransportDue, Goto
      <4>2. PICK r : r = [worker[w] EXCEPT !.pc = pc]
        OBVIOUS
      <4>3. worker'[w] = r /\ r.pc = pc
        BY <1>1, <3>4, <4>1, <4>2 DEF WorldTypeOK, Run
      <4> QED BY <3>2, <3>5, <4>3 DEF Start, TransportDue, At, world
    <3>6. CASE TransportSkipped(w) \/ Crash(w)
      <4>1. ~At(w, "reporting")'
        BY <1>1, <3>6 DEF TransportSkipped, Crash, At, Idle, WorldTypeOK
      <4>2. \/ UNCHANGED spent
            \/ At(w, "executing") /\ \E p \in PaidBy(w) : Spend(w, p)
        BY <3>6 DEF TransportSkipped, Crash, world
      <4>3. CASE UNCHANGED spent
        BY <3>2, <4>1, <4>3
      <4>4. ASSUME NEW p \in PaidBy(w), Spend(w, p), At(w, "executing") PROVE PInv'
        BY <3>3, <4>1, <4>4
      <4> QED BY <4>2, <4>3, <4>4
    <3>7. CASE Execute(w)
      <4>1. PICK results \in [worker[w].sources -> SourceResults], p \in PaidBy(w) :
              Spend(w, p) /\ \E class \in Classify(results) :
                worker' = [worker EXCEPT ![w].pc = "reporting", ![w].ok = TRUE,
                             ![w].verdict = VerdictOf(class), ![w].paid = p]
        BY <3>7, Zenon DEF Execute
      <4>2. PICK v : worker' = [worker EXCEPT ![w].pc = "reporting", ![w].ok = TRUE,
                                  ![w].verdict = v, ![w].paid = p]
        BY <4>1
      <4>3. PICK r : r = [worker[w] EXCEPT !.pc = "reporting", !.ok = TRUE,
                                           !.verdict = v, !.paid = p]
        OBVIOUS
      <4>4. worker'[w] = r
        BY <1>1, <4>2, <4>3 DEF WorldTypeOK
      <4>5. SameClaim(r, worker[w]) /\ r.paid = p
        BY <3>4, <4>3 DEF SameClaim, Run
      <4>6. Spend(w, p) /\ At(w, "executing")
        BY <3>7, <4>1 DEF Execute
      <4> QED BY <3>3, <4>4, <4>5, <4>6
    <3>8. CASE ExecuteRaises(w)
      <4>1. PICK p \in PaidBy(w) : Spend(w, p)
        BY <3>8 DEF ExecuteRaises
      <4>2. At(w, "executing") /\ worker[w].paid = 0
        <5>1. At(w, "executing")
          BY <3>8 DEF ExecuteRaises
        <5> QED BY <3>4, <5>1 DEF RInv, ReportOK, At, Run
      <4>3. PICK r : /\ worker' = [worker EXCEPT ![w] = r] /\ SameClaim(r, worker[w])
                     /\ r.paid = worker[w].paid
        BY <1>1, <3>8, RaiseRow
      <4>4. worker'[w] = r
        BY <1>1, <4>3 DEF WorldTypeOK
      <4> QED BY <3>3, <4>1, <4>2, <4>3, <4>4
    <3> QED BY <2>6, <3>5, <3>6, <3>7, <3>8
  <2> QED BY <1>7, <2>3, <2>4, <2>5, <2>6 DEF WorkerStep
<1> QED BY <1>5, <1>6, <1>7 DEF Next
(* What a chain is billed is the sum of what its attempts reported, only   *)
(* transport attempts report a paid request, and no report of a stale or   *)
(* repeated claim bills what was not spent: any number of workers, crashes *)
(* and deadlines.                                                          *)
THEOREM AccountsBalance == Spec => []PaidAccounts
<1>1. Init => PInv
  <2> SUFFICES ASSUME Init PROVE PInv
    OBVIOUS
  <2>1. \A c \in Chains : chain[c].paid = 0 /\ spent[c] = 0 /\ AttemptsOf(attempts, c) = {}
    BY DEF Init, StoreInit, Absent, AttemptsOf
  <2>2. SumPaid({}) = 0
    BY FS_EmptySet DEF SumPaid, PaidUnits
  <2>3. Accounts(chain, attempts)
    BY <2>1, <2>2 DEF Accounts, Init, StoreInit
  <2>4. \A w \in Workers : Reserve(w)
    BY DEF Reserve, Init, StoreInit
  <2> QED BY <2>1, <2>3, <2>4 DEF PInv
<1>2. ConvergenceAssumption /\ (IInv /\ RInv) /\ (IInv /\ RInv)' /\ PInv /\ [Next]_vars
        => PInv'
  BY PNext
<1>3. PInv => PaidAccounts
  BY DEF PInv, Accounts, PaidAccounts
<1> QED BY <1>1, <1>2, <1>3, ReportsRest, ConvergenceAssumption, PTL DEF Spec

(* Only a claim gives a run a claim.                                       *)
LEMMA ClaimsStay ==
  ASSUME WorldTypeOK, NEW w \in Workers,
         \/ Start(w) \/ TransportDue(w) \/ TransportSkipped(w) \/ Report(w) \/ Crash(w)
         \/ \E lane \in Lanes : Miss(w, lane)
         \/ Execute(w) \/ ExecuteRaises(w)
  PROVE  \A v \in Workers : Held(v)' => Held(v) /\ SameClaim(worker'[v], worker[v])
<1>1. worker \in [Workers -> Run] /\ worker[w] \in Run
  BY DEF WorldTypeOK
<1>2. ASSUME NEW r, worker' = [worker EXCEPT ![w] = r],
             \/ r.pc \notin {"executing", "reporting"}
             \/ Held(w) /\ SameClaim(r, worker[w])
      PROVE  \A v \in Workers : Held(v)' => Held(v) /\ SameClaim(worker'[v], worker[v])
  BY <1>1, <1>2 DEF Held, SameClaim
<1>3. Idle.pc \notin {"executing", "reporting"}
  BY DEF Idle
<1>4. ASSUME NEW pc \in WorkerPcs \ {"executing", "reporting"},
             worker' = [worker EXCEPT ![w].pc = pc]
      PROVE  \A v \in Workers : Held(v)' => Held(v) /\ SameClaim(worker'[v], worker[v])
  <2>1. PICK r : r = [worker[w] EXCEPT !.pc = pc]
    OBVIOUS
  <2>2. worker' = [worker EXCEPT ![w] = r] /\ r.pc = pc
    BY <1>1, <1>4, <2>1 DEF Run
  <2> QED BY <1>2, <2>2
<1>5. CASE Start(w) \/ TransportDue(w)
  BY <1>4, <1>5 DEF Start, TransportDue, Goto, WorkerPcs, Lanes
<1>6. CASE TransportSkipped(w) \/ Report(w) \/ Crash(w)
  BY <1>2, <1>3, <1>6 DEF TransportSkipped, Report, Crash
<1>7. ASSUME NEW lane \in Lanes, Miss(w, lane)
      PROVE  \A v \in Workers : Held(v)' => Held(v) /\ SameClaim(worker'[v], worker[v])
  <2>1. \/ worker' = [worker EXCEPT ![w] = Idle]
        \/ \E pc \in {"probe_upstream", "transport_gate"} :
              worker' = [worker EXCEPT ![w] = [worker[w] EXCEPT !.pc = pc]]
    BY <1>1, <1>7 DEF Miss, Lanes
  <2>2. ASSUME NEW pc \in {"probe_upstream", "transport_gate"},
               worker' = [worker EXCEPT ![w] = [worker[w] EXCEPT !.pc = pc]]
        PROVE  worker' = [worker EXCEPT ![w].pc = pc]
    BY <2>2
  <2> QED BY <1>2, <1>3, <1>4, <2>1, <2>2 DEF WorkerPcs, Lanes
<1>8. CASE Execute(w) \/ ExecuteRaises(w)
  <2>1. Held(w)
    BY <1>8 DEF Execute, ExecuteRaises, At, Held
  <2>2. \E r : worker' = [worker EXCEPT ![w] = r] /\ SameClaim(r, worker[w])
    BY <1>8, ExecuteRow, RaiseRow
  <2> QED BY <1>2, <2>1, <2>2
<1> QED BY <1>5, <1>6, <1>7, <1>8

(* No two runs ever hold the same claim: a claim's number is new when it   *)
(* is made, and a killed run forgets its own.                              *)
DistinctClaims ==
  \A w, v \in Workers :
    Held(w) /\ Held(v) /\ worker[w].chain = worker[v].chain
            /\ worker[w].number = worker[v].number => w = v

THEOREM ClaimsAreDistinct == Spec => []DistinctClaims
<1>1. Init => DistinctClaims
  BY DEF Init, Idle, Held, DistinctClaims
<1>2. IInv /\ DistinctClaims /\ [Next]_vars => DistinctClaims'
  <2> SUFFICES ASSUME IInv, DistinctClaims, [Next]_vars PROVE DistinctClaims'
    OBVIOUS
  <2>1. WorldTypeOK /\ LedgerOK(chain, attempts, now)
    BY IInvParts DEF WorkersOK
  <2>2. ASSUME \A v \in Workers : Held(v)' => Held(v) /\ SameClaim(worker'[v], worker[v])
        PROVE  DistinctClaims'
    BY <2>2 DEF DistinctClaims, SameClaim, Held
  <2>3. ASSUME NEW w \in Workers, NEW lane \in Lanes, NEW c \in Chains, Claim(w, lane, c)
        PROVE  DistinctClaims'
    <3>1. \A v \in Workers \ {w} : worker'[v] = worker[v]
      BY <2>1, <2>3 DEF Claim, WorldTypeOK
    <3>2. worker'[w].chain = c /\ worker'[w].number = chain[c].index + 1
      BY <2>1, <2>3 DEF Claim, Idle, WorldTypeOK
    <3>3. ASSUME NEW v \in Workers \ {w}, Held(v)', worker'[v].chain = c
          PROVE  worker'[v].number # chain[c].index + 1
      <4>1. worker[v].number <= chain[c].index
        BY <3>1, <3>3, HeldChain DEF Held
      <4>2. worker[v].number \in Nat /\ chain[c].index \in Nat
        BY <2>1 DEF WorldTypeOK, Run, LedgerOK, RowOK, ChainRow
      <4> QED BY <3>1, <4>1, <4>2
    <3> QED BY <3>1, <3>2, <3>3 DEF DistinctClaims, Held
  <2>4. ASSUME NEW w \in Workers, WorkerStep(w) \/ Crash(w) PROVE DistinctClaims'
    BY <2>1, <2>2, <2>3, <2>4, ClaimsStay DEF WorkerStep
  <2>5. CASE UNCHANGED worker
    BY <2>5 DEF DistinctClaims, Held
  <2> QED BY <2>4, <2>5 DEF Next, Tick, Publish, Plan, Reconcile, vars
<1> QED BY <1>1, <1>2, Invariance, PTL DEF Spec
=============================================================================
