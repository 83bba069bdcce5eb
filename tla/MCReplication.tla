--------------------------- MODULE MCReplication ---------------------------
(* Replication on small instances. *)
EXTENDS Replication, TLC

CONSTANTS k1, k2, s1, s2, r1

TwoKeys == {k1, k2}
TwoSessions == {s1, s2}
OneReplica == {r1}
BothClients == {"go", "python"}

Symmetry == Permutations(TwoKeys) \cup Permutations(TwoSessions)
=============================================================================
