---------------------------- MODULE MCWalFlusher ----------------------------
(* Small instances of WalFlusher for TLC.  Callers are interchangeable. *)
EXTENDS WalFlusher, TLC

CONSTANTS c1, c2, compact

MCCallers == {c1, c2}
Symmetry == Permutations(MCCallers)
=============================================================================
