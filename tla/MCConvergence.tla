--------------------------- MODULE MCConvergence ---------------------------
(* Small instances of Convergence: delays, leases and spans in clock units. *)
EXTENDS Convergence, TLC

CONSTANTS c1, c2, s1, s2, w1, w2, o1, o2

Delays == [a \in RecoveryActions |->
             CASE a \in {"retry_transport"} -> <<1, 2>>
               [] a \in ParkActions -> <<>>
               [] OTHER -> <<1, 1>>]
Lease1 == [lane \in Lanes |-> IF lane = "probe_upstream" THEN 1 ELSE 2]
Span4 == [a \in RecoveryActions |-> 4]
Span5 == [a \in RecoveryActions |-> 5]
Span3 == [a \in RecoveryActions |-> 3]

OneCohort == [c \in Chains |-> Sources]
SharedPid == [w \in Workers |-> o1]
SplitEligible == [lane \in Lanes |->
                    CASE lane = "retry_candidate" -> {s1, s2}
                      [] lane = "probe_upstream"  -> {s1}
                      [] lane = "retry_transport" -> {s2}]
AllEligible == [lane \in Lanes |-> Sources]

R(o, r, p) == [outcome |-> o, reason |-> r, pending |-> p]
TwoResults == {R("fresh_published", "none", FALSE), R("failed", "transport", FALSE)}
ThreeResults == TwoResults \cup {R("skipped", "unavailable", TRUE)}
FourResults == TwoResults \cup {R("lkg_served", "contract", FALSE),
                                R("skipped", "unavailable", TRUE)}
=============================================================================
