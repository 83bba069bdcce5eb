----------------------------- MODULE MCHashIndex -----------------------------
(* Small instances of HashIndex for TLC. *)
EXTENDS HashIndex, TLC

CONSTANTS a, b, c, r1

TwoKeys == {a, b}
ThreeKeys == {a, b, c}
OneReader == {r1}
\* Two keys share a chain.
OneSlot == a :> 0 @@ b :> 0
TwoSlots == a :> 0 @@ b :> 0 @@ c :> 1
=============================================================================
