---------------------------- MODULE MCPublication ----------------------------
(* Small instances of Publication.                                          *)
EXTENDS Publication, TLC

CONSTANTS a, b

Exchange == Permutations(Procs)
=============================================================================
