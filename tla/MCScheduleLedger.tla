-------------------------- MODULE MCScheduleLedger --------------------------
(* Small instances of ScheduleLedger.                                       *)
EXTENDS ScheduleLedger, TLC

CONSTANTS s1, s2, p1, p2

Daily == [id |-> "daily", sources |-> {s1, s2}, times |-> {2, 4, 6, 8},
          mode |-> None]
PostPatch == [id |-> "post-patch", sources |-> {s1}, times |-> {3, 5},
              mode |-> "early"]
TwoSpecs == {Daily, PostPatch}
Exchange == Permutations(Procs)
=============================================================================
