--------------------------- MODULE RecoveryPolicy ---------------------------
(***************************************************************************)
(* The pure recovery policy of the convergence ledger                      *)
(* (app/convergence_policy.py): which bounded action follows an outcome.   *)
(* A reason code or an outcome is the source's own label; a delay is a     *)
(* natural number of clock units, its value a constant.                    *)
(***************************************************************************)
EXTENDS Naturals, Sequences

CONSTANT DelaysOf      \* action |-> its _..._DELAYS tuple, in clock units

(* Actions that wait for another attempt, and actions that only park.      *)
RetryActions == {"retry_scheduler", "probe_upstream", "retry_candidate",
                 "retry_publication", "retry_local", "retry_transport"}
ParkActions  == {"pause_provider", "quarantine", "diagnose"}
RecoveryActions == RetryActions \cup ParkActions

Outcomes == {"fresh_published", "missing", "provisional", "skipped",
             "timed_out", "failed", "lkg_served"}

PauseReasons     == {"proxy_payment", "authentication"}
TransportReasons == {"rate_limited", "access_blocked", "upstream_5xx",
                     "timeout", "transport"}
CandidateReasons == {"contract", "regression"}
LocalReasons     == {"preflight", "dependency", "backend_policy"}
DeterministicReasons == {"parse_error", "ai_quarantine"}
UpstreamReasons  == {"unavailable", "upstream_4xx"}
Reasons == PauseReasons \cup TransportReasons \cup CandidateReasons
             \cup LocalReasons \cup DeterministicReasons \cup UpstreamReasons
             \cup {"publication_sync", "unknown", "none"}

(* decide_recovery: the rules in the order the code tries them.            *)
Decide(outcome, reason, pending) ==
  IF outcome = "fresh_published" THEN "complete"
  ELSE IF outcome = "missing" THEN "retry_scheduler"
  ELSE IF pending \/ reason \in UpstreamReasons THEN "probe_upstream"
  ELSE IF reason \in PauseReasons THEN "pause_provider"
  ELSE IF outcome = "provisional" \/ reason \in CandidateReasons
       THEN "retry_candidate"
  ELSE IF reason = "publication_sync" THEN "retry_publication"
  ELSE IF reason \in LocalReasons THEN "retry_local"
  ELSE IF outcome = "timed_out" \/ reason \in TransportReasons
       THEN "retry_transport"
  ELSE IF reason \in DeterministicReasons THEN "quarantine"
  ELSE "diagnose"

(* RecoveryDecision.max_attempts and .paid_fetch_allowed of an action.     *)
MaxAttempts(action) == Len(DelaysOf[action])
PaidAllowed(action) == action = "retry_transport"

InitialState_ActionName(action) == action                 \* mutant

(* convergence_store._initial_state.                                       *)
InitialState(action) ==
  CASE action = "probe_upstream" -> "upstream_pending"
    [] action = "pause_provider" -> "paused"
    [] action = "quarantine"     -> "quarantined"
    [] action = "diagnose"       -> "diagnosis_required"
    [] OTHER                     -> "waiting"

(* Retrying actions carry an ordered non-empty backoff, parking ones none. *)
ASSUME DelaysAssumption ==
  /\ DelaysOf \in [RecoveryActions -> Seq(Nat)]
  /\ \A a \in RetryActions : Len(DelaysOf[a]) > 0
  /\ \A a \in ParkActions : DelaysOf[a] = <<>>
  /\ \A a \in RetryActions : \A i, j \in 1..Len(DelaysOf[a]) :
        i <= j => DelaysOf[a][i] <= DelaysOf[a][j]
=============================================================================
