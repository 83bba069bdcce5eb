----------------------------- MODULE Transactions -----------------------------
(***************************************************************************)
(* The transaction stack of a session (session.go, TransactionStack in      *)
(* brise.go) over the committed store: nested BEGIN, COMMIT into the parent *)
(* frame or into the store, ROLLBACK, and the reads that look through the   *)
(* stack (Get, TTL, Count).  Sessions run side by side; what a commit does  *)
(* step by step to index, TTL cache and WAL is in Store, here it is atomic  *)
(* (lockShards).                                                            *)
(*                                                                          *)
(* A value is a member of Values, 0 an absent one.  An expiry is -1 if the  *)
(* map has no entry, 0 for the zero time (no expiry), else a point in time. *)
(***************************************************************************)
EXTENDS Integers, Sequences, FiniteSets

CONSTANTS
  Keys, Sessions, Values,
  MaxDepth,             \* bound: nested transactions
  MaxOps, MaxTime       \* bounds: operations and ticks in a behaviour

ASSUME TransactionConstants ==
  /\ IsFiniteSet(Keys) /\ Values \subseteq Nat \ {0}
  /\ MaxDepth \in Nat /\ MaxOps \in Nat /\ MaxTime \in Nat

VARIABLES
  now,
  base,   \* the committed store: value and expiry of every key
  stack,  \* every session's frames, the innermost last
  nops,
  alone   \* history: the store as it would be had the session done nothing but
          \* Persist since its outermost BEGIN

vars == <<now, base, stack, nops, alone>>

Absent == [val |-> 0, exp |-> 0]
NewFrame == [store |-> [k \in Keys |-> 0], deleted |-> {}, expiry |-> [k \in Keys |-> -1]]

Init ==
  /\ now = 0 /\ nops = 0
  /\ base = [k \in Keys |-> Absent]
  /\ stack = [s \in Sessions |-> <<>>]
  /\ alone = [s \in Sessions |-> base]

-----------------------------------------------------------------------------
(* Reads *)

Top(s) == stack[s][Len(stack[s])]

\* The frames of a stack q that say something about k, and the innermost of them.
Mentions(q, k) == {i \in DOMAIN q : k \in q[i].deleted \/ q[i].store[k] # 0}
Innermost(q, k) == q[CHOOSE i \in Mentions(q, k) : \A j \in Mentions(q, k) : j <= i]

Expired(e) == e.exp > 0 /\ now > e.exp
Live(e) == IF Expired(e) THEN Absent ELSE e

\* Get: the value, 0 if the key is not found.  A frame's expiry is not looked at.
Get(s, k) ==
  IF Mentions(stack[s], k) # {}
    THEN LET f == Innermost(stack[s], k) IN IF k \in f.deleted THEN 0 ELSE f.store[k]
    ELSE Live(base[k]).val

\* The value and expiry a commit of f would give k.
Entry(f, k) == [val |-> f.store[k], exp |-> IF f.expiry[k] > 0 THEN f.expiry[k] ELSE 0]

\* What the stack, or else the store, holds for k.
effectiveEntry(s, k) ==
  IF Mentions(stack[s], k) # {}
    THEN LET f == Innermost(stack[s], k) IN IF k \in f.deleted THEN Absent ELSE Entry(f, k)
    ELSE base[k]

\* Mutant of TTL: an expiry that has passed is reported as a lifetime of 0.
TTLUnchecked(s, k) ==
  LET e == effectiveEntry(s, k) IN
  IF e.val = 0 THEN -2 ELSE IF e.exp = 0 THEN -1 ELSE IF e.exp > now THEN e.exp - now ELSE 0

\* TTL: -2 for a key that is absent or whose time has come, -1 without expiry.
TTL(s, k) ==
  LET e == effectiveEntry(s, k) IN
  IF e.val = 0 \/ (e.exp > 0 /\ now >= e.exp) THEN -2
  ELSE IF e.exp = 0 THEN -1 ELSE e.exp - now

\* Count: the keys some frame deletes, and the values the frames override, from
\* the innermost frame outwards.
txDeleted(s) == UNION {stack[s][i].deleted : i \in DOMAIN stack[s]}
txOverride(s) ==
  {kv \in Keys \X Values :
     \E i \in DOMAIN stack[s] :
       /\ stack[s][i].store[kv[1]] = kv[2]
       /\ \A j \in DOMAIN stack[s] : j > i => /\ stack[s][j].store[kv[1]] = 0
                                              /\ kv[1] \notin stack[s][j].deleted}
Count(s, v) ==
  Cardinality({k \in Keys : /\ k \notin txDeleted(s)
                            /\ \A u \in Values : <<k, u>> \notin txOverride(s)
                            /\ Live(base[k]).val = v})
  + Cardinality({k \in Keys : <<k, v>> \in txOverride(s)})

-----------------------------------------------------------------------------
(* Operations *)

MayAct == nops < MaxOps /\ nops' = nops + 1

\* The store changes; to the sessions in S it is not their own doing.
Store(S, new) ==
  /\ base' = new
  /\ alone' = [s \in Sessions |->
                 [k \in Keys |-> IF s \in S /\ new[k] # base[k] THEN new[k] ELSE alone[s][k]]]

\* Edit the innermost frame.
Edit(s, f) ==
  /\ stack' = [stack EXCEPT ![s][Len(stack[s])] = f]
  /\ UNCHANGED <<base, alone>>

BeginTransaction(s) ==
  /\ MayAct /\ Len(stack[s]) < MaxDepth
  /\ stack' = [stack EXCEPT ![s] = Append(@, NewFrame)]
  /\ alone' = IF stack[s] = <<>> THEN [alone EXCEPT ![s] = base] ELSE alone
  /\ UNCHANGED <<now, base>>

SetInFrame(f, k, v, exp) ==
  [store |-> [f.store EXCEPT ![k] = v], deleted |-> f.deleted \ {k},
   expiry |-> [f.expiry EXCEPT ![k] = exp]]

\* Set (ttl = 0) and SetEX.
Set(s, k, v, ttl) ==
  LET exp == IF ttl = 0 THEN 0 ELSE now + ttl IN
  /\ MayAct /\ UNCHANGED now
  /\ \/ /\ stack[s] # <<>>
        /\ Edit(s, SetInFrame(Top(s), k, v, exp))
     \/ /\ stack[s] = <<>>
        /\ Store(Sessions \ {s}, [base EXCEPT ![k] = [val |-> v, exp |-> exp]])
        /\ UNCHANGED stack

DeleteInFrame(f, k) ==
  [store |-> [f.store EXCEPT ![k] = 0], deleted |-> f.deleted \cup {k},
   expiry |-> [f.expiry EXCEPT ![k] = -1]]

\* Mutant of DeleteFrom: the store loses the key at once, transaction or not.
DeleteFromBoth(s, k) ==
  /\ Store(Sessions \ {s}, [base EXCEPT ![k] = Absent])
  /\ UNCHANGED stack

DeleteFrom(s, k) ==
  \/ /\ stack[s] # <<>>
     /\ Edit(s, DeleteInFrame(Top(s), k))
  \/ /\ stack[s] = <<>>
     /\ Store(Sessions \ {s}, [base EXCEPT ![k] = Absent])
     /\ UNCHANGED stack

Delete(s, k) == MayAct /\ DeleteFrom(s, k) /\ UNCHANGED now

\* Persist edits the innermost frame if it holds the key; otherwise it goes
\* straight to the store, transaction or not.
Persist(s, k) ==
  /\ MayAct /\ UNCHANGED now
  /\ \/ /\ stack[s] # <<>> /\ Top(s).store[k] # 0
        /\ Edit(s, [Top(s) EXCEPT !.expiry[k] = 0])
     \/ /\ ~(stack[s] # <<>> /\ Top(s).store[k] # 0)
        /\ base[k].val # 0 /\ base[k].exp # 0
        /\ Store(Sessions, [base EXCEPT ![k].exp = 0])
        /\ UNCHANGED stack

\* Mutant of Merged: an expiry the parent frame already has is kept.
MergedKeepsExpiry(f, parent) ==
  [store |-> [k \in Keys |-> IF f.store[k] # 0 THEN f.store[k]
                             ELSE IF k \in f.deleted THEN 0 ELSE parent.store[k]],
   deleted |-> {k \in parent.deleted : f.store[k] = 0} \cup f.deleted,
   expiry |-> [k \in Keys |-> IF parent.expiry[k] # -1 THEN parent.expiry[k] ELSE f.expiry[k]]]

\* The parent frame after the merge of f.
Merged(f, parent) ==
  [store |-> [k \in Keys |-> IF f.store[k] # 0 THEN f.store[k]
                             ELSE IF k \in f.deleted THEN 0 ELSE parent.store[k]],
   deleted |-> {k \in parent.deleted : f.store[k] = 0} \cup f.deleted,
   expiry |-> [k \in Keys |-> IF f.expiry[k] # -1 THEN f.expiry[k] ELSE parent.expiry[k]]]

\* COMMIT of a nested transaction.
CommitNested(s) ==
  LET n == Len(stack[s]) IN
  /\ MayAct /\ n > 1
  /\ stack' = [stack EXCEPT ![s] = Append(SubSeq(@, 1, n - 2), Merged(Top(s), @[n - 1]))]
  /\ UNCHANGED <<now, base, alone>>

\* COMMIT of the outermost transaction, under the locks of its keys.
CommitOuter(s) ==
  LET f == Top(s) IN
  /\ Len(stack[s]) = 1 /\ MayAct
  /\ stack' = [stack EXCEPT ![s] = <<>>]
  /\ Store(Sessions \ {s},
           [k \in Keys |-> IF f.store[k] # 0 THEN Entry(f, k)
                           ELSE IF k \in f.deleted THEN Absent ELSE base[k]])
  /\ UNCHANGED now

RollbackTransaction(s) ==
  /\ stack[s] # <<>> /\ MayAct
  /\ stack' = [stack EXCEPT ![s] = SubSeq(@, 1, Len(@) - 1)]
  /\ UNCHANGED <<now, base, alone>>

Tick == now < MaxTime /\ now' = now + 1 /\ UNCHANGED <<base, stack, nops, alone>>

Next ==
  \/ \E s \in Sessions :
       \/ BeginTransaction(s) \/ CommitNested(s) \/ CommitOuter(s) \/ RollbackTransaction(s)
       \/ \E k \in Keys :
            \/ \E v \in Values, ttl \in {0, 1} : Set(s, k, v, ttl)
            \/ Delete(s, k) \/ Persist(s, k)
  \/ Tick

Spec == Init /\ [][Next]_vars

-----------------------------------------------------------------------------
(* Properties *)

Frame == [store : [Keys -> Values \cup {0}], deleted : SUBSET Keys, expiry : [Keys -> Nat \cup {-1}]]
BaseEntry == [val : Values \cup {0}, exp : Nat]

\* Every variable keeps its type; in a frame a key is set or deleted, not both,
\* and every value that is set has its expiry beside it.
TypeOK ==
  /\ now \in Nat /\ nops \in Nat
  /\ base \in [Keys -> BaseEntry]
  /\ alone \in [Sessions -> [Keys -> BaseEntry]]
  /\ stack \in [Sessions -> Seq(Frame)]
  /\ \A s \in Sessions : \A i \in DOMAIN stack[s] : \A k \in Keys :
       stack[s][i].store[k] # 0 => k \notin stack[s][i].deleted /\ stack[s][i].expiry[k] # -1

\* COMMIT, nested or outermost, changes nothing of what the session reads: every
\* key keeps the value and the expiry the stack gave it, and the ones it did not
\* touch keep the store's.
CommitKeepsView ==
  [][\A s \in Sessions : CommitNested(s) \/ CommitOuter(s)
       => \A k \in Keys : effectiveEntry(s, k)' = effectiveEntry(s, k)]_vars

\* A key TTL gives a lifetime for, or calls permanent, is one Get finds, whichever
\* frame or the store it is in.
TTLAgrees == \A s \in Sessions, k \in Keys : TTL(s, k) # -2 => Get(s, k) # 0

\* Count gives the number of keys Get finds the value under, through all frames.
CountAgrees ==
  \A s \in Sessions, v \in Values : Count(s, v) = Cardinality({k \in Keys : Get(s, k) = v})

\* A session in a transaction has not touched the store: "ROLLBACK ... discards
\* all changes", and others see none of them ("per-connection isolation").  The
\* exception is Persist on a key that the innermost frame does not hold.
Isolated == \A s \in Sessions : stack[s] # <<>> => base = alone[s]

\* Get: "Expired keys are treated as absent", inside a transaction too.
GetSkipsExpired ==
  \A s \in Sessions, k \in Keys : Get(s, k) # 0 => ~Expired(effectiveEntry(s, k))

\* Persist "removes the TTL from key" if "the key existed": it never changes
\* which value, if any, is read under the key.
PersistKeepsValue ==
  [][\A s \in Sessions, k \in Keys : Persist(s, k) => Live(base[k]).val' = Live(base[k]).val]_vars
=============================================================================
