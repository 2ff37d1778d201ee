--------------------------- MODULE MCPaidRequests ---------------------------
(* Small instances of PaidRequests.                                         *)
EXTENDS PaidRequests, TLC

CONSTANTS r1, r2, r3

Exchange == Permutations(Requests)
=============================================================================
