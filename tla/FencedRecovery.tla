--------------------------- MODULE FencedRecovery ---------------------------
(***************************************************************************)
(* What the convergence ledger promises its callers, without clocks,       *)
(* leases or tables.  A recovery item is granted to one agent at a time;   *)
(* every grant has a new number, the fence.  Only an agent that holds the  *)
(* current grant decides what follows it; agents with an older grant are   *)
(* heard without effect.  A settled item is never granted again, and only  *)
(* fresh data from elsewhere improves it.                                  *)
(***************************************************************************)
EXTENDS Naturals

CONSTANTS Items, Agents, NoGrant

VARIABLES phase,     \* "absent", "queued", "granted", "parked", "given_up", "fresh"
          fence,     \* item |-> number of its latest grant
          holding    \* agent |-> the <<item, fence>> it works on, or NoGrant

avars == <<phase, fence, holding>>

Phases == {"absent", "queued", "granted", "parked", "given_up", "fresh"}

AInit == /\ phase = [i \in Items |-> "absent"]
         /\ fence = [i \in Items |-> 0]
         /\ holding = [g \in Agents |-> NoGrant]

Open(i) == /\ phase[i] = "absent"
           /\ \E p \in {"queued", "parked"} : phase' = [phase EXCEPT ![i] = p]
           /\ UNCHANGED <<fence, holding>>

(* Grants are withdrawn and hopeless items given up, any number at once.   *)
Withdrawn == [Items -> Phases]
Withdraw(p) == \A i \in Items :
  \/ p[i] = phase[i]
  \/ phase[i] \in {"queued", "granted"} /\ p[i] \in {"queued", "given_up"}

Sweep == \E p \in Withdrawn : /\ Withdraw(p)
                              /\ phase' = p
                              /\ UNCHANGED <<fence, holding>>

Grant(g, i) == \E p \in Withdrawn :
  /\ Withdraw(p)
  /\ holding[g] = NoGrant
  /\ p[i] = "queued"
  /\ phase' = [p EXCEPT ![i] = "granted"]
  /\ fence' = [fence EXCEPT ![i] = @ + 1]
  /\ holding' = [holding EXCEPT ![g] = <<i, fence[i] + 1>>]

(* The holder of the current grant decides; any other report is dropped.   *)
Decide(g, i) ==
  /\ holding[g] = <<i, fence[i]>>
  /\ phase[i] = "granted"
  /\ \E p \in {"queued", "parked", "given_up", "fresh"} :
        phase' = [phase EXCEPT ![i] = p]
  /\ holding' = [holding EXCEPT ![g] = NoGrant]
  /\ UNCHANGED fence

Drop(g) == /\ holding[g] # NoGrant
           /\ holding' = [holding EXCEPT ![g] = NoGrant]
           /\ UNCHANGED <<phase, fence>>

Improve == /\ \E p \in Withdrawn :
                /\ \A i \in Items :
                     \/ p[i] = phase[i]
                     \/ phase[i] \in {"queued", "parked", "given_up"} /\ p[i] = "fresh"
                /\ phase' = p
           /\ UNCHANGED <<fence, holding>>

ANext == \/ \E i \in Items : Open(i)
         \/ Sweep
         \/ \E g \in Agents, i \in Items : Grant(g, i) \/ Decide(g, i)
         \/ \E g \in Agents : Drop(g)
         \/ Improve

ASpec == AInit /\ [][ANext]_avars
=============================================================================
