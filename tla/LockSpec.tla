------------------------------ MODULE LockSpec ------------------------------
(***************************************************************************)
(* What the rest of the store takes the sharded mutex for: a process enters *)
(* a critical section on a set of shards in one step, and never while a     *)
(* conflicting section is occupied.  Store locks its keys this way.         *)
(***************************************************************************)
CONSTANTS Procs, Shards

VARIABLE inside  \* the section every process is in

Out == [mode |-> "none", shards |-> {}]
Section == [mode : {"none", "read", "write"}, shards : SUBSET Shards]

\* Two sections share a shard and one of them writes.
Conflict(x, y) == x.shards \cap y.shards # {} /\ (x.mode = "write" \/ y.mode = "write")

Init == inside = [p \in Procs |-> Out]

Enter(p, x) ==
  /\ inside[p] = Out
  /\ \A q \in Procs \ {p} : ~Conflict(x, inside[q])
  /\ inside' = [inside EXCEPT ![p] = x]

Leave(p) ==
  /\ inside[p] # Out
  /\ inside' = [inside EXCEPT ![p] = Out]

Next == \E p \in Procs : (\E x \in Section : Enter(p, x)) \/ Leave(p)

Spec == Init /\ [][Next]_inside

\* No two processes are in conflicting sections: a writer of a key is alone with
\* it, and Compact and the eviction sweep are alone in the store.
Exclusive == \A p, q \in Procs : p # q => ~Conflict(inside[p], inside[q])
=============================================================================
