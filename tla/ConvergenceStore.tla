-------------------------- MODULE ConvergenceStore --------------------------
(***************************************************************************)
(* The durable recovery ledger (app/convergence_store.py): the tables      *)
(* convergence_chains (with convergence_chain_sources) and                 *)
(* convergence_attempts, and its operations.  Each operation is one        *)
(* BEGIN IMMEDIATE transaction, so each is one step.  The callers, who     *)
(* supply the clock and the owners, are in the modules that EXTEND this.   *)
(***************************************************************************)
EXTENDS RecoveryPolicy, FiniteSets

CONSTANTS Chains,      \* chain ids: hash of (policy, cohort, occurrence)
          Sources,     \* parser sources
          CohortOf,    \* chain id |-> the sources of its recovery cohort
          Owners,      \* lease owners, "convergence-worker-<pid>"
          None         \* SQL NULL

VARIABLES chain,       \* [Chains -> ChainRow], state "absent": no such row
          attempts     \* set of AttemptRow

ledger == <<chain, attempts>>

Pending == {"waiting", "upstream_pending"}
Parked  == {"paused", "quarantined", "diagnosis_required"}
ChainStates == Pending \cup Parked \cup {"absent", "running", "fresh", "exhausted"}

ChainRow == [state    : ChainStates,
             action   : RecoveryActions \cup {"complete"},
             paidOk   : BOOLEAN,                 \* paid_fetch_allowed
             sources  : SUBSET Sources,
             index    : Nat,                     \* attempt_index
             next     : Nat \cup {None},         \* next_attempt_at
             created  : Nat,
             deadline : Nat,
             owner    : Owners \cup {None},      \* lease_owner
             until    : Nat \cup {None},         \* lease_until
             paid     : Nat]                     \* paid_requests_total

AttemptRow == [chain  : Chains,
               number : Nat,
               action : RecoveryActions,
               state  : {"running", "succeeded", "failed"},
               worker : Owners,
               reason : {"none", "lease_expired", "reported"},
               paid   : Nat]

Absent == [state |-> "absent", action |-> "diagnose", paidOk |-> FALSE,
           sources |-> {}, index |-> 0, next |-> None, created |-> 0,
           deadline |-> 0, owner |-> None, until |-> None, paid |-> 0]

StoreInit == /\ chain = [c \in Chains |-> Absent]
             /\ attempts = {}

StoreTypeOK == /\ chain \in [Chains -> ChainRow]
               /\ attempts \subseteq AttemptRow

AttemptsOf(rows, c) == {a \in rows : a.chain = c}
RunningOf(rows, c)  == {a \in AttemptsOf(rows, c) : a.state = "running"}
(* Mutant: the attempt being reported is not counted.                      *)
CountOf_FinishedOnly(rows, c, action) ==
  Cardinality({a \in AttemptsOf(rows, c) : a.action = action /\ a.state # "running"})
CountOf(rows, c, action) == Cardinality({a \in AttemptsOf(rows, c) : a.action = action})

(* A row leaves the queue, or its lease, with these columns reset.         *)
Unleased(row, state, next) ==
  [row EXCEPT !.state = state, !.next = next, !.owner = None, !.until = None]

-----------------------------------------------------------------------------
(* create_or_get_chain: INSERT OR IGNORE of the row, then of its sources,   *)
(* so an existing chain, whatever its state, only gains sources.            *)
NewChain_Unpaid(sources, action, observed, deadline) ==   \* mutant
  [Absent EXCEPT
     !.state = InitialState(action), !.action = action, !.sources = sources,
     !.next = IF DelaysOf[action] = <<>> THEN None
              ELSE observed + DelaysOf[action][1],
     !.created = observed, !.deadline = deadline]

NewChain(sources, action, observed, deadline) ==
  [Absent EXCEPT
     !.state = InitialState(action), !.action = action,
     !.paidOk = PaidAllowed(action), !.sources = sources,
     !.next = IF DelaysOf[action] = <<>> THEN None
              ELSE observed + DelaysOf[action][1],
     !.created = observed, !.deadline = deadline]

CreateOrGetChain(c, sources, action, observed, deadline) ==
  /\ sources # {} /\ sources \subseteq CohortOf[c]
  /\ action # "complete"
  /\ deadline > observed
  /\ chain' = [chain EXCEPT ![c] =
                 IF chain[c].state = "absent"
                 THEN NewChain(sources, action, observed, deadline)
                 ELSE [chain[c] EXCEPT !.sources = chain[c].sources \cup sources]]
  /\ UNCHANGED attempts

(* reconcile_fresh_primary_outcomes: primary[s] is the latest finished_at  *)
(* of a primary fresh_published attempt of s (0 when there is none).       *)
Superseded_WaitingOnly(c, primary) ==                     \* mutant
  /\ chain[c].state \in Pending
  /\ \A s \in chain[c].sources : primary[s] > chain[c].created

Superseded(c, primary) ==
  /\ chain[c].state \in Pending \cup Parked \cup {"exhausted"}
  /\ \A s \in chain[c].sources : primary[s] > chain[c].created

ReconcileFreshPrimaryOutcomes(primary) ==
  /\ chain' = [c \in Chains |->
                 IF Superseded(c, primary)
                 THEN [Unleased(chain[c], "fresh", None)
                         EXCEPT !.action = "complete", !.paidOk = FALSE]
                 ELSE chain[c]]
  /\ UNCHANGED attempts

-----------------------------------------------------------------------------
(* claim_due, first half: every expired lease is taken back, then every    *)
(* open chain past its deadline is exhausted, even under a live lease.     *)
LeaseExpired(c, now) ==
  /\ chain[c].state = "running"
  /\ chain[c].until # None
  /\ chain[c].until <= now

SweptRow_NoDeadline(c, now) ==                            \* mutant
  IF LeaseExpired(c, now) THEN Unleased(chain[c], "waiting", now) ELSE chain[c]

SweptRow_AnyState(c, now) ==                              \* mutant
  LET row == SweptRow_NoDeadline(c, now) IN
  IF row.state # "absent" /\ row.deadline <= now
  THEN Unleased(row, "exhausted", None) ELSE row

SweptRow(c, now) ==
  LET row == IF LeaseExpired(c, now)
             THEN Unleased(chain[c], "waiting", now) ELSE chain[c]
  IN  IF row.state \in Pending \cup {"running"} /\ row.deadline <= now
      THEN Unleased(row, "exhausted", None) ELSE row

SweptChains(now) == [c \in Chains |-> SweptRow(c, now)]

SweptAttempt_LeftRunning(a, now) == a                     \* mutant

SweptAttempt(a, now) ==
  IF a.state = "running" /\ LeaseExpired(a.chain, now)
  THEN [a EXCEPT !.state = "failed", !.reason = "lease_expired"] ELSE a

SweptAttempts(now) == {SweptAttempt(a, now) : a \in attempts}

(* claim_due, second half: the due chains of one lane, the earliest first. *)
Claimable(row, now, actions, eligible) ==
  /\ row.state \in Pending
  /\ row.next # None
  /\ row.next <= now
  /\ row.deadline > now
  /\ row.until # None => row.until <= now
  /\ row.action \in actions
  /\ eligible # {} /\ row.sources \subseteq eligible

Due(now, actions, eligible) ==
  {c \in Chains : Claimable(SweptRow(c, now), now, actions, eligible)}

(* ORDER BY next_attempt_at, created_at; the chain id, a hash, breaks ties. *)
Before(r, q) == r.next < q.next \/ (r.next = q.next /\ r.created <= q.created)

EarliestDue(now, actions, eligible) ==
  {c \in Due(now, actions, eligible) :
     \A d \in Due(now, actions, eligible) :
        Before(SweptRow(c, now), SweptRow(d, now))}

ClaimDue(c, owner, now, lease, actions, eligible) ==
  LET row == SweptRow(c, now) IN
  /\ c \in EarliestDue(now, actions, eligible)
  /\ chain' = [SweptChains(now) EXCEPT ![c] =
                 [row EXCEPT !.state = "running", !.index = @ + 1,
                    !.next = None, !.owner = owner, !.until = now + lease]]
  /\ attempts' = SweptAttempts(now) \cup
       {[chain |-> c, number |-> row.index + 1, action |-> row.action,
         state |-> "running", worker |-> owner, reason |-> "none", paid |-> 0]}

(* Nothing due, or an empty filter: the sweep is committed all the same.   *)
ClaimNothing(now, actions, eligible) ==
  /\ Due(now, actions, eligible) = {}
  /\ chain' = SweptChains(now)
  /\ attempts' = SweptAttempts(now)

(* has_due: a read-only query written apart from claim_due's.              *)
HasDue_LiveOnly(now, actions, eligible) ==                \* mutant
  \E c \in Chains :
    /\ chain[c].deadline > now
    /\ chain[c].state \in Pending
    /\ chain[c].next # None
    /\ chain[c].next <= now
    /\ chain[c].action \in actions
    /\ eligible # {} /\ chain[c].sources \subseteq eligible

HasDue(now, actions, eligible) ==
  \E c \in Chains :
    /\ chain[c].deadline > now
    /\ \/ /\ chain[c].state \in Pending
          /\ chain[c].next # None
          /\ chain[c].next <= now
          /\ chain[c].until # None => chain[c].until <= now
       \/ LeaseExpired(c, now)
    /\ chain[c].action \in actions
    /\ eligible # {} /\ chain[c].sources \subseteq eligible

-----------------------------------------------------------------------------
(* finish_attempt of attempt a.  The call is accepted, ignored (the        *)
(* attempt is no longer running) or refused with an exception.             *)
FinishIgnored_Never(a, owner) == FALSE                    \* mutant
FinishIgnored(a, owner) == a.worker = owner /\ a.state # "running"

FinishRefused(a, owner, action, ok, paid, at) ==
  \/ a.worker # owner
  \/ /\ a.state = "running"
     /\ \/ chain[a.chain].owner # owner
        \/ chain[a.chain].until = None \/ chain[a.chain].until <= at
        \/ paid > 0 /\ ~chain[a.chain].paidOk
        \/ action = "complete" /\ ~ok

(* The state and next_attempt_at that follow a decision.                   *)
Disposition(a, action, at) ==
  LET row   == chain[a.chain]
      tried == CountOf(attempts, a.chain, action)
      retry == at + DelaysOf[action][tried + 1]
  IN  IF action = "complete" THEN [state |-> "fresh", next |-> None]
      ELSE IF action \in ParkActions
           THEN [state |-> InitialState(action), next |-> None]
      ELSE IF tried >= MaxAttempts(action) \/ retry >= row.deadline
           THEN [state |-> "exhausted", next |-> None]
      ELSE [state |-> InitialState(action), next |-> retry]

(* The row after the report, its totals increased by this attempt's usage. *)
ReportedRow_Overwrites(row, d, action, paid) ==           \* mutant
  [Unleased(row, d.state, d.next) EXCEPT
     !.action = action, !.paidOk = PaidAllowed(action), !.paid = paid]

ReportedRow(row, d, action, paid) ==
  [Unleased(row, d.state, d.next) EXCEPT
     !.action = action, !.paidOk = PaidAllowed(action), !.paid = row.paid + paid]

FinishAttempt(a, action, ok, paid, at) ==
  /\ attempts' = (attempts \ {a}) \cup
       {[a EXCEPT !.state = IF ok THEN "succeeded" ELSE "failed",
                  !.reason = "reported", !.paid = paid]}
  /\ chain' = [chain EXCEPT ![a.chain] =
       ReportedRow(chain[a.chain], Disposition(a, action, at), action, paid)]
=============================================================================
