------------------------------ MODULE RunQueue ------------------------------
(***************************************************************************)
(* What the run queue promises those who put runs into it, without files,  *)
(* threads, sources or results.  Runs are accepted one after another and   *)
(* served in that order, one at a time: the one that is served is always   *)
(* the oldest without a verdict, and whatever was accepted before it has   *)
(* one.  A verdict is given once and stands.  When the server stops, the   *)
(* run it was at has none and is the next to be served.                    *)
(***************************************************************************)
EXTENDS Naturals

CONSTANTS MaxRuns,      \* bound: runs ever accepted
          Verdicts,
          Pending       \* no verdict yet

VARIABLES accepted,     \* runs 1..accepted have been accepted
          serving,      \* the run that is served, 0: none
          verdict       \* run |-> its verdict, or Pending

qvars == <<accepted, serving, verdict>>

QInit == /\ accepted = 0
         /\ serving = 0
         /\ verdict = [i \in 1..MaxRuns |-> Pending]

Enqueue == /\ accepted < MaxRuns
           /\ accepted' = accepted + 1
           /\ UNCHANGED <<serving, verdict>>

Serve(i) == /\ serving = 0
            /\ verdict[i] = Pending
            /\ \A j \in 1..accepted : j < i => verdict[j] # Pending
            /\ serving' = i
            /\ UNCHANGED <<accepted, verdict>>

Answer(i) == /\ serving = i
             /\ \E v \in Verdicts : verdict' = [verdict EXCEPT ![i] = v]
             /\ serving' = 0
             /\ UNCHANGED accepted

Interrupt == /\ serving # 0
             /\ serving' = 0
             /\ UNCHANGED <<accepted, verdict>>

QNext == \/ Enqueue
         \/ \E i \in 1..accepted : Serve(i) \/ Answer(i)
         \/ Interrupt

QSpec == QInit /\ [][QNext]_qvars
=============================================================================
