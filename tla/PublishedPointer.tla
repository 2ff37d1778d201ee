-------------------------- MODULE PublishedPointer --------------------------
(***************************************************************************)
(* What the publication store promises its writers and readers, without    *)
(* locks, manifests or attempt files.  A writer takes a number, later than *)
(* all before it; only the holder of the last number taken stores a        *)
(* version or moves the pointer, once, and the pointer and the versions    *)
(* kept beside it have their data.  Data that is kept is lost to a fault   *)
(* only: neither a writer that stops nor one that cleans up takes it away. *)
(***************************************************************************)
EXTENDS Naturals

CONSTANTS Writers, Data      \* numbers of versions, without 0

VARIABLES last,       \* the last number taken
          ticket,     \* writer |-> its number, 0: none
          pointer,    \* the version that is published, 0: none
          kept,       \* the versions one may go back to, with the current
          stored,     \* the versions whose data is there
          faults      \* faults so far

pvars == <<last, ticket, pointer, kept, stored, faults>>

PInit == /\ last = 0 /\ ticket = [w \in Writers |-> 0]
         /\ pointer = 0 /\ kept = {} /\ stored = {}
         /\ faults = 0

Newest(w) == ticket[w] # 0 /\ ticket[w] = last
Without(w) == [ticket EXCEPT ![w] = 0]

Take(w) == /\ last' > last
           /\ ticket[w] = 0
           /\ ticket' = [ticket EXCEPT ![w] = last']
           /\ UNCHANGED <<pointer, kept, stored, faults>>

(* A number that nobody publishes under still overtakes those before it.   *)
Skip == /\ last' > last
        /\ UNCHANGED <<ticket, pointer, kept, stored, faults>>

Store(w) == /\ Newest(w)
            /\ \E v \in Data : stored' = stored \cup {v}
            /\ UNCHANGED <<last, ticket, pointer, kept, faults>>

Move(w) == /\ Newest(w)
           /\ kept' \in SUBSET stored
           /\ pointer' \in kept'
           /\ ticket' = Without(w)
           /\ UNCHANGED <<last, stored, faults>>

GiveUp(w) == /\ ticket[w] # 0
             /\ ticket' = Without(w)
             /\ UNCHANGED <<last, pointer, kept, stored, faults>>

CleanUp == /\ UNCHANGED <<last, faults, pointer, kept, ticket>>
           /\ stored' \in SUBSET stored
           /\ stored \cap kept \subseteq stored'

(* A file is damaged or lost, or cannot be written.                        *)
Fault == /\ faults' = faults + 1
         /\ stored' \in SUBSET stored
         /\ \/ UNCHANGED <<pointer, kept>>
            \/ pointer' = 0 /\ kept' = {}
         /\ last' >= last
         /\ \/ UNCHANGED ticket
            \/ \E w \in Writers : ticket' = Without(w)

PNext == \/ CleanUp \/ Skip \/ Fault
         \/ \E w \in Writers : Take(w) \/ Store(w) \/ Move(w) \/ GiveUp(w)

PSpec == PInit /\ [][PNext]_pvars
=============================================================================
