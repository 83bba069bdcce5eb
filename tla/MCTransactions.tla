---------------------------- MODULE MCTransactions ----------------------------
(* Small instances of Transactions for TLC. *)
EXTENDS Transactions, TLC

CONSTANTS a, b, s1, s2

TwoKeys == {a, b}
TwoSessions == {s1, s2}
Symmetry == Permutations(Keys) \cup Permutations(Sessions)
=============================================================================
