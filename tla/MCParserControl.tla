--------------------------- MODULE MCParserControl ---------------------------
(* Small instances of ParserControl: what a scraper returns, and selections. *)
EXTENDS ParserControl, TLC

CONSTANTS s1, s2, q1, q2, r1

Raw(state, cached, provisional) ==
  [state |-> state, cached |-> cached, provisional |-> provisional,
   pending |-> FALSE]
Fresh == {Raw("ok", FALSE, FALSE)}
SomeKinds == Fresh \cup {Raw("error", TRUE, FALSE)}
AnySelection == {{s1}, {s2}, {s1, s2}}
=============================================================================
