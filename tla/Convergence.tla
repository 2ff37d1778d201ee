---------------------------- MODULE Convergence ----------------------------
(***************************************************************************)
(* Freshness convergence: the ledger of ConvergenceStore, the recovery     *)
(* workers (app/convergence_worker.py) that claim, execute and report over *)
(* it, and the planner and the primary refreshes seen from the ledger.     *)
(* A worker is one run of the systemd oneshot; killed, it starts again.    *)
(***************************************************************************)
EXTENDS ConvergenceStore

CONSTANTS Workers,
          OwnerOf,       \* worker |-> its lease owner (the pid of a container)
          LeaseOf,       \* lane |-> lease_seconds
          EligibleFor,   \* lane |-> eligible_source_ids
          SpanOf,        \* action |-> planner's _deadline_for duration
          PlannedActions,\* the decisions the planner's events lead to
          SourceResults, \* the per-source results an executor returns
          MaxTime,       \* bound: the clock
          PlanUntil,     \* bound: the last time the planner opens or merges
          MaxLag,        \* bound: age of an event when it is planned
          MaxSpend,      \* bound: paid requests of one transport execution
          MaxCrashes     \* bound: killed workers

VARIABLES now,           \* the wall clock
          worker,        \* [Workers -> a run and the claim it holds]
          primary,       \* s |-> time of its latest primary fresh_published
          freshAt,       \* s |-> time of its latest fresh result of any kind
          spent,         \* c |-> paid requests really made for the chain
          crashes

vars == <<ledger, now, worker, primary, freshAt, spent, crashes>>
world == <<primary, freshAt, spent>>

Lanes == {"retry_candidate", "probe_upstream", "retry_transport"}
Priority == [timed_out |-> 5, failed |-> 4, lkg_served |-> 3,
             provisional |-> 2, skipped |-> 1, fresh_published |-> 0]

WorkerPcs == Lanes \cup {"idle", "transport_gate", "executing", "reporting"}
Run == [pc : WorkerPcs, chain : Chains \cup {None}, number : Nat,
        sources : SUBSET Sources, moment : Nat,
        verdict : RecoveryActions \cup {"complete"}, ok : BOOLEAN, paid : Nat]

Idle == [pc |-> "idle", chain |-> None, number |-> 0, sources |-> {},
         moment |-> 0, verdict |-> "diagnose", ok |-> FALSE, paid |-> 0]

Init == /\ StoreInit
        /\ now = 1
        /\ worker = [w \in Workers |-> Idle]
        /\ primary = [s \in Sources |-> 0]
        /\ freshAt = [s \in Sources |-> 0]
        /\ spent = [c \in Chains |-> 0]
        /\ crashes = 0

At(w, pc) == worker[w].pc = pc
Goto(w, pc) == worker' = [worker EXCEPT ![w].pc = pc]

-----------------------------------------------------------------------------
(* The environment: time, primary refreshes, and the planner's two writes. *)
Tick == /\ now < MaxTime
        /\ now' = now + 1
        /\ UNCHANGED <<ledger, worker, world, crashes>>

Publish(s) == /\ primary[s] < now
              /\ primary' = [primary EXCEPT ![s] = now]
              /\ freshAt' = [freshAt EXCEPT ![s] = now]
              /\ UNCHANGED <<ledger, now, worker, spent, crashes>>

Plan(c, s, action) ==
  /\ s \notin chain[c].sources
  /\ now <= PlanUntil
  /\ \E observed \in {t \in 1..now : t + MaxLag >= now} :
        CreateOrGetChain(c, {s}, action, observed, observed + SpanOf[action])
  /\ UNCHANGED <<now, worker, world, crashes>>

Reconcile == /\ \E c \in Chains : Superseded(c, primary)
             /\ ReconcileFreshPrimaryOutcomes(primary)
             /\ UNCHANGED <<now, worker, world, crashes>>

-----------------------------------------------------------------------------
(* main: the three lanes in order, the first claim ends the search.        *)
Start(w) == /\ At(w, "idle")
            /\ Goto(w, "retry_candidate")
            /\ UNCHANGED <<ledger, now, world, crashes>>

Miss(w, lane) ==
  /\ At(w, lane)
  /\ ClaimNothing(now, {lane}, EligibleFor[lane])
  /\ worker' = [worker EXCEPT ![w] =
       CASE lane = "retry_candidate" -> [@ EXCEPT !.pc = "probe_upstream"]
         [] lane = "probe_upstream"  -> [@ EXCEPT !.pc = "transport_gate"]
         [] lane = "retry_transport" -> Idle]
  /\ UNCHANGED <<now, world, crashes>>

(* run_once takes its moment just before the transaction of the claim;     *)
(* here both are one step, so the wait for the lock in between is left out.*)
Claim(w, lane, c) ==
  /\ At(w, lane)
  /\ ClaimDue(c, OwnerOf[w], now, LeaseOf[lane], {lane}, EligibleFor[lane])
  /\ worker' = [worker EXCEPT ![w] =
       [Idle EXCEPT !.pc = "executing", !.chain = c,
          !.number = chain[c].index + 1, !.sources = chain[c].sources,
          !.moment = now]]
  /\ UNCHANGED <<now, world, crashes>>

(* Before the paid lane: has_due, then the control client's configuration. *)
TransportDue(w) ==
  /\ At(w, "transport_gate")
  /\ HasDue(now, {"retry_transport"}, EligibleFor["retry_transport"])
  /\ Goto(w, "retry_transport")
  /\ UNCHANGED <<ledger, now, world, crashes>>

TransportSkipped(w) ==     \* not due, or configuration_blocked
  /\ At(w, "transport_gate")
  /\ worker' = [worker EXCEPT ![w] = Idle]
  /\ UNCHANGED <<ledger, now, world, crashes>>

-----------------------------------------------------------------------------
(* _classify_execution: all fresh, else pending, else the worst outcome.   *)
Classify_AnyFresh(results) ==                             \* mutant
  IF \E s \in DOMAIN results : results[s].outcome = "fresh_published"
  THEN {[outcome |-> "fresh_published", reason |-> "none"]}
  ELSE {[outcome |-> results[s].outcome, reason |-> results[s].reason] :
          s \in DOMAIN results}

Classify(results) ==
  LET R == {results[s] : s \in DOMAIN results}
      worst == {r \in R : \A q \in R : Priority[r.outcome] >= Priority[q.outcome]}
      reasonOf(r) == IF r.outcome \in {"fresh_published", "provisional"}
                     THEN "none" ELSE r.reason
  IN  IF \A r \in R : r.outcome = "fresh_published"
      THEN {[outcome |-> "fresh_published", reason |-> "none"]}
      ELSE IF \E r \in R : r.pending
      THEN {[outcome |-> "skipped", reason |-> "unavailable"]}
      ELSE {[outcome |-> r.outcome, reason |-> reasonOf(r)] : r \in worst}

VerdictOf(class) ==
  Decide(class.outcome, class.reason,
         class.outcome = "skipped" /\ class.reason = "unavailable")

(* The row of the attempt that the run has claimed.                        *)
ClaimedAttempt(w) == CHOOSE a \in attempts : a.chain = worker[w].chain
                                          /\ a.number = worker[w].number

PaidBy(w) == IF ClaimedAttempt(w).action = "retry_transport"
              THEN 0..MaxSpend ELSE {0}

Spend(w, p) == spent' = [spent EXCEPT ![worker[w].chain] = @ + p]

(* The executor returns one result per claimed source and its exact usage. *)
Execute(w) ==
  /\ At(w, "executing")
  /\ \E results \in [worker[w].sources -> SourceResults], p \in PaidBy(w) :
       \E class \in Classify(results) :
         /\ worker' = [worker EXCEPT ![w].pc = "reporting", ![w].ok = TRUE,
                          ![w].verdict = VerdictOf(class), ![w].paid = p]
         /\ freshAt' = [s \in Sources |->
              IF s \in worker[w].sources /\ results[s].outcome = "fresh_published"
              THEN now ELSE freshAt[s]]
         /\ Spend(w, p)
  /\ UNCHANGED <<ledger, now, primary, crashes>>

(* Any exception (timeout, contract mismatch, unknown usage) becomes a     *)
(* local failure whose usage is reported as zero.                          *)
ExecuteRaises(w) ==
  /\ At(w, "executing")
  /\ worker' = [worker EXCEPT ![w].pc = "reporting", ![w].ok = FALSE,
                   ![w].verdict = Decide("failed", "dependency", FALSE)]
  /\ \E p \in PaidBy(w) : Spend(w, p)
  /\ UNCHANGED <<ledger, now, primary, freshAt, crashes>>

(* finish_attempt is given the moment of the claim as finished_at.  When   *)
(* it ignores or refuses the report, the run ends and the ledger keeps.    *)
Report(w) ==
  LET r == worker[w]
      a == ClaimedAttempt(w)
  IN  /\ At(w, "reporting")
      /\ IF \/ FinishIgnored(a, OwnerOf[w])
            \/ FinishRefused(a, OwnerOf[w], r.verdict, r.ok, r.paid, r.moment)
         THEN UNCHANGED ledger
         ELSE FinishAttempt(a, r.verdict, r.ok, r.paid, r.moment)
      /\ worker' = [worker EXCEPT ![w] = Idle]
      /\ UNCHANGED <<now, world, crashes>>

Crash(w) ==
  /\ ~At(w, "idle")
  /\ crashes < MaxCrashes
  /\ crashes' = crashes + 1
  /\ IF At(w, "executing") THEN \E p \in PaidBy(w) : Spend(w, p)
                           ELSE UNCHANGED spent
  /\ worker' = [worker EXCEPT ![w] = Idle]
  /\ UNCHANGED <<ledger, now, primary, freshAt>>

-----------------------------------------------------------------------------
WorkerStep(w) ==
  \/ Start(w)
  \/ \E lane \in Lanes : Miss(w, lane)
  \/ \E lane \in Lanes, c \in Chains : Claim(w, lane, c)
  \/ TransportDue(w) \/ TransportSkipped(w)
  \/ Execute(w) \/ ExecuteRaises(w)
  \/ Report(w)

Next == \/ Tick
        \/ \E s \in Sources : Publish(s)
        \/ \E c \in Chains, s \in Sources, action \in PlannedActions :
              Plan(c, s, action)
        \/ Reconcile
        \/ \E w \in Workers : WorkerStep(w) \/ Crash(w)

Spec == Init /\ [][Next]_vars

(* The timer starts a worker every minute and each of its calls is bounded *)
(* (an execution by its 20-minute deadline, the unit by TimeoutStartSec);  *)
(* the planner's timer reconciles every five minutes.                      *)
Fairness == /\ WF_vars(Tick) /\ WF_vars(Reconcile)
            /\ \A w \in Workers : WF_vars(WorkerStep(w))
FairSpec == Spec /\ Fairness

-----------------------------------------------------------------------------
ASSUME ConvergenceAssumption ==
  /\ None \notin Nat /\ None \notin Owners /\ None \notin Chains
  /\ CohortOf \in [Chains -> SUBSET Sources]
  /\ OwnerOf \in [Workers -> Owners]
  /\ LeaseOf \in [Lanes -> Nat \ {0}]
  /\ EligibleFor \in [Lanes -> SUBSET Sources]
  /\ SpanOf \in [RecoveryActions -> Nat \ {0}]
  /\ \A a \in RetryActions : DelaysOf[a][1] < SpanOf[a]
  /\ PlannedActions \subseteq RecoveryActions
  /\ SourceResults \subseteq [outcome : DOMAIN Priority, reason : Reasons,
                              pending : BOOLEAN]
  /\ MaxTime \in Nat /\ PlanUntil \in Nat /\ MaxLag \in Nat /\ MaxSpend \in Nat /\ MaxCrashes \in Nat

TypeOK == /\ StoreTypeOK
          /\ now \in Nat
          /\ worker \in [Workers -> Run]
          /\ primary \in [Sources -> Nat]
          /\ freshAt \in [Sources -> Nat]
          /\ spent \in [Chains -> Nat]
          /\ crashes \in Nat

-----------------------------------------------------------------------------
Held(w) == worker[w].pc \in {"executing", "reporting"}
Current(w, c) == Held(w) /\ worker[w].chain = c
                         /\ worker[w].number = chain[c].index
Open(c)    == chain[c].state \in Pending \cup {"running"}
Settled(c) == chain[c].state \in Parked \cup {"exhausted", "fresh"}

(* The lease columns and the state column move together: a chain is leased *)
(* iff it is running, and it has a next_attempt_at, inside its deadline,   *)
(* iff it is queued (no reader of the queue can lose or double a chain).   *)
LeaseColumns ==
  \A c \in Chains : LET r == chain[c] IN
    /\ (r.state = "running") <=> (r.owner # None)
    /\ (r.owner # None) <=> (r.until # None)
    /\ (r.state \in Pending) <=> (r.next # None)
    /\ r.state \in Pending => r.next < r.deadline

(* At most one attempt of a chain is running, and it is the latest; it is  *)
(* the lease holder's while the chain runs, and outlives the lease only    *)
(* when the deadline swept the chain away under a live lease.              *)
RunningAttempt ==
  \A a \in attempts : a.state = "running" =>
    /\ a.number = chain[a.chain].index
    /\ \A b \in attempts : b.chain = a.chain /\ b.state = "running" => b = a
    /\ \/ chain[a.chain].state = "running" /\ chain[a.chain].owner = a.worker
       \/ /\ chain[a.chain].state \in {"exhausted", "fresh"}
          /\ chain[a.chain].deadline <= now

(* A run that holds a claim has the attempt row of that claim, under its   *)
(* owner name; a chain's action is "complete" only when it is fresh, and   *)
(* before a chain is opened it has no attempt.                             *)
ClaimsRecorded ==
  /\ \A w \in Workers : Held(w) =>
       \E a \in attempts : /\ a.chain = worker[w].chain
                           /\ a.number = worker[w].number
                           /\ a.worker = OwnerOf[w]
  /\ \A c \in Chains : /\ chain[c].action = "complete" => chain[c].state = "fresh"
                       /\ chain[c].state = "absent" => chain[c].index = 0

(* No attempt number is used twice in a chain, nor ahead of its index.     *)
AttemptNumbers ==
  /\ \A a \in attempts : a.number \in 1..chain[a.chain].index
  /\ \A a, b \in attempts : a.chain = b.chain /\ a.number = b.number => a = b

(* The inductive invariant behind LeaseColumns and RunningAttempt.         *)
IInv == /\ TypeOK /\ IsFiniteSet(attempts)
        /\ ClaimsRecorded /\ AttemptNumbers
        /\ LeaseColumns /\ RunningAttempt

(* Crashes aside, an action is tried at most max_attempts times, however   *)
(* often other decisions come in between.                                  *)
RetryBudget ==
  \A c \in Chains, action \in RetryActions :
    Cardinality({a \in AttemptsOf(attempts, c) :
                   a.action = action /\ a.reason # "lease_expired"})
      <= MaxAttempts(action)

(* A worker's report is refused with an exception only when the deadline   *)
(* took its chain: never by another claim, a shared owner name or a lane   *)
(* that may not pay.                                                       *)
RefusedOnlyPastDeadline ==
  \A w \in Workers : At(w, "reporting") =>
    LET r == worker[w] IN
    FinishRefused(ClaimedAttempt(w), OwnerOf[w], r.verdict, r.ok, r.paid, r.moment)
      => /\ chain[r.chain].state \in {"exhausted", "fresh"}
         /\ chain[r.chain].deadline <= now

(* has_due answers exactly whether claim_due would claim (its docstring:   *)
(* "whether a matching claim exists"), although the two queries differ.    *)
HasDueIsClaimable ==
  \A lane \in Lanes :
    HasDue(now, {lane}, EligibleFor[lane]) <=> Due(now, {lane}, EligibleFor[lane]) # {}

(* The paid total of a chain is the sum over its attempts, only transport  *)
(* attempts pay, and no more is recorded than was really spent.            *)
PaidUnits(rows) == UNION {{a} \X (1..a.paid) : a \in rows}
SumPaid(rows) == Cardinality(PaidUnits(rows))

PaidAccounts ==
  /\ \A c \in Chains : /\ chain[c].paid = SumPaid(AttemptsOf(attempts, c))
                       /\ chain[c].paid <= spent[c]
  /\ \A a \in attempts : a.paid > 0 => a.action = "retry_transport"

(* Only the worker of the current attempt decides what follows a running   *)
(* chain; a stale worker's late report never moves it.                     *)
CurrentWorkerDecides ==
  [][\A c \in Chains :
       chain[c].state = "running" /\ chain'[c].state # "running" =>
         \/ LeaseExpired(c, now) \/ chain[c].deadline <= now
         \/ \E w \in Workers : Current(w, c) /\ worker'[w] = Idle]_vars

(* A chain becomes fresh only when every source its closer knew of was     *)
(* freshly published after the chain was opened.                           *)
FreshOnEvidence ==
  [][\A c \in Chains :
       chain[c].state # "fresh" /\ chain'[c].state = "fresh" =>
         \/ \A s \in chain[c].sources : primary[s] > chain[c].created
         \/ \E w \in Workers : /\ Current(w, c)
                               /\ \A s \in worker[w].sources :
                                     freshAt[s] >= worker[w].moment]_vars

(* A settled chain is reopened by nothing: it keeps its state, or a newer  *)
(* primary of all its sources closes it as fresh.  Recorded attempts keep  *)
(* their verdict and their usage.                                          *)
SettledStays ==
  [][/\ \A c \in Chains : Settled(c) =>
          \/ chain'[c].state = chain[c].state
          \/ /\ chain'[c].state = "fresh"
             /\ \A s \in chain[c].sources : primary[s] > chain[c].created
     /\ \A a \in attempts : a.state # "running" => a \in attempts']_vars

(* Every open chain is settled in the end: done, parked or exhausted.      *)
EventuallySettled == \A c \in Chains : Open(c) ~> Settled(c)

(* When primary refreshes of all its sources succeed after the chain was   *)
(* opened, the chain ends fresh, whatever the recovery made of it.         *)
PrimaryCloses ==
  \A c \in Chains :
    <>[](/\ chain[c].state # "absent"
         /\ \A s \in chain[c].sources : primary[s] > chain[c].created)
      => <>(chain[c].state = "fresh")

-----------------------------------------------------------------------------
(* What the repository says and the code does not do.                      *)

(* A fresh chain means that each of its sources was published fresh since  *)
(* the chain was opened (reconcile's docstring, and the worker's test).    *)
FreshCoversEverySource ==
  \A c \in Chains : chain[c].state = "fresh" =>
    \A s \in chain[c].sources : freshAt[s] >= chain[c].created

-----------------------------------------------------------------------------
(* The ledger with its workers implements the abstract fenced recovery.    *)
PhaseOf(row) ==
  CASE row.state = "absent"    -> "absent"
    [] row.state \in Pending   -> "queued"
    [] row.state = "running"   -> "granted"
    [] row.state \in Parked    -> "parked"
    [] row.state = "exhausted" -> "given_up"
    [] row.state = "fresh"     -> "fresh"

Abstract == INSTANCE FencedRecovery WITH
  Items <- Chains, Agents <- Workers, NoGrant <- None,
  phase <- [c \in Chains |-> PhaseOf(chain[c])],
  fence <- [c \in Chains |-> chain[c].index],
  holding <- [w \in Workers |-> IF Held(w)
                                THEN <<worker[w].chain, worker[w].number>>
                                ELSE None]

(* Each step of the ledger and its workers is a step of the abstraction.   *)
ImplementsFencedRecovery == Abstract!ASpec
=============================================================================
