------------------------ MODULE MCConvergencePlanner ------------------------
(* Small instances of ConvergencePlanner. *)
EXTENDS ConvergencePlanner

CONSTANTS s1, s2, k1, w1, p1

Delays == [a \in RecoveryActions |-> IF a \in ParkActions THEN <<>> ELSE <<1, 2>>]
Span2 == [a \in RecoveryActions |-> 2]
OneCohort == [s \in Sources |-> k1]
ChainIds == {k1} \X (Windows \cup AttemptIds)
CohortSources == [c \in Chains |-> Sources]

Slot(w, s, d, r) == [window |-> w, source |-> s, deadline |-> d, rank |-> r]
LateSlot == {Slot(w1, s1, 3, 1)}

R(o, r, p) == [outcome |-> o, reason |-> r, pending |-> p]
ThreeResults == {R("fresh_published", "none", FALSE), R("failed", "transport", FALSE),
                 R("skipped", "none", FALSE)}
=============================================================================
