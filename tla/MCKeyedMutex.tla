---------------------------- MODULE MCKeyedMutex ----------------------------
(* Small instances of KeyedMutex for TLC. *)
EXTENDS KeyedMutex, TLC

CONSTANTS p1, p2, p3, ka, kb, kc

MCProcs == {p1, p2, p3}
MCKeys == {ka, kb, kc}
\* Two keys share a shard; a shard without keys is locked by LockAll only.
MCShardIndex == ka :> 0 @@ kb :> 0 @@ kc :> 2
=============================================================================
