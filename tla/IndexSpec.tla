------------------------------ MODULE IndexSpec ------------------------------
(***************************************************************************)
(* What the store takes the hash index for: a map from keys to values in    *)
(* which every Set, Delete and Get happens at one instant, with a saved     *)
(* copy that a crash goes back to.  A value is the number of the Set that   *)
(* wrote it; 0 stands for an absent key.  Compact rewrites the map and       *)
(* leaves it as it is, except that it may turn a key's value into one of     *)
(* its strays.                                                              *)
(***************************************************************************)
EXTENDS Naturals

CONSTANTS Keys, Readers

VARIABLES map, saved, answer,
  strays  \* per key, the values Compact may bring up instead of its own

vars == <<map, saved, answer>>

Nothing == [k \in Keys |-> 0]

Init == map = Nothing /\ saved = Nothing /\ answer = [p \in Readers |-> 0]

\* Set or Delete of k: no other key changes.
Put(k) == /\ map'[k] \in Nat /\ map' = [map EXCEPT ![k] = map'[k]]
          /\ UNCHANGED <<saved, answer>>

\* Some keys' current values have reached the file.
Save(K) == /\ saved' = [k \in Keys |-> IF k \in K THEN map[k] ELSE saved[k]]
           /\ UNCHANGED <<map, answer>>

Read(p, k) == answer' = [answer EXCEPT ![p] = map[k]] /\ UNCHANGED <<map, saved>>

Crash == map' = saved /\ answer' = [p \in Readers |-> 0] /\ UNCHANGED saved

\* The rewritten map is saved ...
Rewrite == /\ saved' = [k \in Keys |-> saved'[k]]
           /\ \A k \in Keys : saved'[k] \in {map[k]} \cup strays[k]
           /\ UNCHANGED <<map, answer>>

\* ... and taken over.
Adopt == /\ \A k \in Keys : saved[k] \in {map[k]} \cup strays[k]
         /\ map' = saved /\ UNCHANGED <<saved, answer>>

Next ==
  \/ \E k \in Keys : Put(k)
  \/ \E K \in SUBSET Keys : Save(K)
  \/ \E p \in Readers, k \in Keys : Read(p, k)
  \/ Rewrite \/ Adopt \/ Crash

Spec == Init /\ [][Next]_vars
=============================================================================
