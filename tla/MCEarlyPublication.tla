------------------------- MODULE MCEarlyPublication -------------------------
(* Small instances of EarlyPublication.                                     *)
EXTENDS EarlyPublication
=============================================================================
