----------------------------- MODULE MCVolumePool -----------------------------
(* Small instances of VolumePool for TLC. *)
EXTENDS VolumePool, TLC

CONSTANTS w1, w2, local, r1

TwoWriters == {w1, w2}
OneRemote == <<r1>>
WriterSymmetry == Permutations(Writers)
=============================================================================
