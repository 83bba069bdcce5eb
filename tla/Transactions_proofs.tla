------------------------ MODULE Transactions_proofs -------------------------
(* Proofs about Transactions, for any number of keys, sessions and nested       *)
(* transactions: types, isolation (Isolated), that COMMIT keeps what the        *)
(* session reads (CommitKeepsView), and that TTL and Count agree with Get.      *)
EXTENDS Transactions, FiniteSetTheorems, WellFoundedInduction, TLAPS

-----------------------------------------------------------------------------
(* The innermost frame *)

LEMMA HasMax ==
  ASSUME NEW n \in Nat, NEW M \in SUBSET (1..n), M # {}
  PROVE  \E i \in M : \A j \in M : j <= i
<1> DEFINE R == OpToRel(<, Nat)
           T == {n - i : i \in M}
<1>1. IsWellFoundedOn(R, Nat)
  BY NatLessThanWellFounded, Zenon
<1>2. \A x, y \in Nat : <<x, y>> \in R <=> x < y
  BY Zenon DEF OpToRel
<1>3. T \subseteq Nat /\ T # {}
  <2>1. \A i \in M : n - i \in Nat
    OBVIOUS
  <2> QED
    BY <2>1, Zenon
<1> HIDE DEF R
<1>4. PICK x \in T : \A y \in T : ~(<<y, x>> \in R)
  <2> HIDE DEF T
  <2> QED
    BY <1>1, <1>3, WFMin, Zenon
<1>5. PICK i \in M : x = n - i
  BY Zenon
<1>6. ASSUME NEW j \in M PROVE j <= i
  <2>1. n - j \in T /\ n - j \in Nat /\ x \in Nat
    BY <1>3, Zenon
  <2>2. ~(n - j < x)
    BY <1>2, <1>4, <2>1, Zenon
  <2> QED
    BY <1>5, <2>2
<1> QED
  BY <1>6, Zenon

\* Frame f says something about k.
Says(f, k) == k \in f.deleted \/ f.store[k] # 0

\* A frame as the operations leave it.  An expiry may outlive the value it came
\* with (a merge of a deletion leaves the parent's), but never without a deletion.
Tidy(f) ==
  /\ f \in Frame
  /\ \A k \in Keys : /\ f.store[k] # 0 => k \notin f.deleted /\ f.expiry[k] # -1
                     /\ f.expiry[k] # -1 => Says(f, k)

TidyFrame == {f \in Frame : Tidy(f)}

Typed ==
  /\ now \in Nat /\ nops \in Nat
  /\ base \in [Keys -> BaseEntry]
  /\ alone \in [Sessions -> [Keys -> BaseEntry]]
  /\ stack \in [Sessions -> Seq(TidyFrame)]

LEMMA TidyFrames ==
  ASSUME NEW q \in Seq(TidyFrame), NEW i \in DOMAIN q
  PROVE  q[i] \in Frame /\ Tidy(q[i])
<1>1. q[i] \in TidyFrame
  OBVIOUS
<1> QED
  BY <1>1, Zenon DEF TidyFrame

LEMMA TypedIsTypeOK == Typed => TypeOK
<1> SUFFICES ASSUME Typed PROVE TypeOK
  BY Zenon
<1>1. stack \in [Sessions -> Seq(Frame)]
  <2>1. ASSUME NEW s \in Sessions PROVE stack[s] \in Seq(Frame)
    <3>1. stack[s] \in Seq(TidyFrame)
      BY Zenon DEF Typed
    <3>2. \A i \in DOMAIN stack[s] : stack[s][i] \in Frame
      BY <3>1, TidyFrames, Zenon
    <3> QED
      BY <3>1, <3>2
  <2> QED
    BY <2>1, Zenon DEF Typed
<1>2. ASSUME NEW s \in Sessions, NEW i \in DOMAIN stack[s], NEW k \in Keys, stack[s][i].store[k] # 0
      PROVE  k \notin stack[s][i].deleted /\ stack[s][i].expiry[k] # -1
  <2>1. Tidy(stack[s][i])
    BY TidyFrames, Zenon DEF Typed
  <2> QED
    BY <1>2, <2>1, Zenon DEF Tidy
<1> QED
  BY <1>1, <1>2, Zenon DEF Typed, TypeOK

\* The innermost frame that says something of k is the one Innermost chooses.
LEMMA InnermostIs ==
  ASSUME NEW q \in Seq(TidyFrame), NEW k, NEW i \in Mentions(q, k),
         \A j \in Mentions(q, k) : j <= i
  PROVE  Innermost(q, k) = q[i]
<1>1. Mentions(q, k) \subseteq Int
  BY DEF Mentions
<1>2. \A x \in Mentions(q, k) : (\A j \in Mentions(q, k) : j <= x) => x = i
  BY <1>1
<1> DEFINE c == CHOOSE x \in Mentions(q, k) : \A j \in Mentions(q, k) : j <= x
<1>3. c \in Mentions(q, k) /\ \A j \in Mentions(q, k) : j <= c
  BY Zenon
<1>4. c = i
  BY <1>2, <1>3, Zenon
<1> QED
  BY <1>4, Zenon DEF Innermost

LEMMA InnermostExists ==
  ASSUME NEW q \in Seq(TidyFrame), NEW k, Mentions(q, k) # {}
  PROVE  \E i \in Mentions(q, k) : \A j \in Mentions(q, k) : j <= i
<1>1. Len(q) \in Nat /\ Mentions(q, k) \subseteq 1..Len(q)
  BY DEF Mentions
<1> QED
  BY <1>1, HasMax, Zenon

-----------------------------------------------------------------------------
(* Frames *)

LEMMA NewFrameTidy == NewFrame \in TidyFrame
<1>1. NewFrame \in Frame
  BY Zenon DEF NewFrame, Frame
<1>2. \A k \in Keys : NewFrame.store[k] = 0 /\ NewFrame.expiry[k] = -1
  BY Zenon DEF NewFrame
<1> QED
  BY <1>1, <1>2, Zenon DEF TidyFrame, Tidy

\* The parts of a frame.
LEMMA FrameParts ==
  ASSUME NEW f \in TidyFrame
  PROVE  /\ f.store \in [Keys -> Values \cup {0}] /\ f.deleted \in SUBSET Keys
         /\ f.expiry \in [Keys -> Nat \cup {-1}]
         /\ f = [store |-> f.store, deleted |-> f.deleted, expiry |-> f.expiry]
         /\ \A k \in Keys :
              /\ f.store[k] # 0 => k \notin f.deleted /\ f.expiry[k] # -1
              /\ f.expiry[k] # -1 => k \in f.deleted \/ f.store[k] # 0
<1>1. f \in Frame /\ Tidy(f)
  BY Zenon DEF TidyFrame
<1>2. /\ f.store \in [Keys -> Values \cup {0}] /\ f.deleted \in SUBSET Keys
      /\ f.expiry \in [Keys -> Nat \cup {-1}]
      /\ f = [store |-> f.store, deleted |-> f.deleted, expiry |-> f.expiry]
  BY <1>1, Zenon DEF Frame
<1> QED
  BY <1>1, <1>2, Zenon DEF Tidy, Says

LEMMA MakeFrame ==
  ASSUME NEW st \in [Keys -> Values \cup {0}], NEW del \in SUBSET Keys,
         NEW ex \in [Keys -> Nat \cup {-1}],
         \A k \in Keys : /\ st[k] # 0 => k \notin del /\ ex[k] # -1
                         /\ ex[k] # -1 => k \in del \/ st[k] # 0
  PROVE  [store |-> st, deleted |-> del, expiry |-> ex] \in TidyFrame
<1> DEFINE f == [store |-> st, deleted |-> del, expiry |-> ex]
<1>1. f.store = st /\ f.deleted = del /\ f.expiry = ex /\ f \in Frame
  BY Zenon DEF Frame
<1> HIDE DEF f
<1>2. f \in TidyFrame
  BY <1>1, Zenon DEF TidyFrame, Tidy, Says
<1> QED
  BY <1>2, Zenon DEF f

LEMMA SetTidy ==
  ASSUME NEW f \in TidyFrame, NEW k \in Keys, NEW v \in Values, NEW exp \in Nat
  PROVE  SetInFrame(f, k, v, exp) \in TidyFrame
<1> DEFINE st == [f.store EXCEPT ![k] = v]
           del == f.deleted \ {k}
           ex == [f.expiry EXCEPT ![k] = exp]
<1>1. /\ f.store \in [Keys -> Values \cup {0}] /\ f.deleted \in SUBSET Keys
      /\ f.expiry \in [Keys -> Nat \cup {-1}]
      /\ f = [store |-> f.store, deleted |-> f.deleted, expiry |-> f.expiry]
      /\ \A j \in Keys :
           /\ f.store[j] # 0 => j \notin f.deleted /\ f.expiry[j] # -1
           /\ f.expiry[j] # -1 => j \in f.deleted \/ f.store[j] # 0
  BY FrameParts, Zenon
<1>2. SetInFrame(f, k, v, exp) = [store |-> st, deleted |-> del, expiry |-> ex]
  BY Zenon DEF SetInFrame
<1>3. v # 0 /\ exp # -1
  BY TransactionConstants
<1>4. \A j \in Keys : /\ st[j] # 0 => j \notin del /\ ex[j] # -1
                      /\ ex[j] # -1 => j \in del \/ st[j] # 0
  BY <1>1, <1>3, Zenon
<1>5. st \in [Keys -> Values \cup {0}] /\ del \in SUBSET Keys /\ ex \in [Keys -> Nat \cup {-1}]
  BY <1>1, Zenon
<1> HIDE DEF st, del, ex
<1> QED
  BY <1>2, <1>4, <1>5, MakeFrame

LEMMA DeleteTidy ==
  ASSUME NEW f \in TidyFrame, NEW k \in Keys
  PROVE  DeleteInFrame(f, k) \in TidyFrame
<1> DEFINE st == [f.store EXCEPT ![k] = 0]
           del == f.deleted \cup {k}
           ex == [f.expiry EXCEPT ![k] = -1]
<1>1. /\ f.store \in [Keys -> Values \cup {0}] /\ f.deleted \in SUBSET Keys
      /\ f.expiry \in [Keys -> Nat \cup {-1}]
      /\ f = [store |-> f.store, deleted |-> f.deleted, expiry |-> f.expiry]
      /\ \A j \in Keys :
           /\ f.store[j] # 0 => j \notin f.deleted /\ f.expiry[j] # -1
           /\ f.expiry[j] # -1 => j \in f.deleted \/ f.store[j] # 0
  BY FrameParts, Zenon
<1>2. DeleteInFrame(f, k) = [store |-> st, deleted |-> del, expiry |-> ex]
  BY Zenon DEF DeleteInFrame
<1>3. \A j \in Keys : /\ st[j] # 0 => j \notin del /\ ex[j] # -1
                      /\ ex[j] # -1 => j \in del \/ st[j] # 0
  BY <1>1, Zenon
<1>4. st \in [Keys -> Values \cup {0}] /\ del \in SUBSET Keys /\ ex \in [Keys -> Nat \cup {-1}]
  BY <1>1, Zenon
<1> HIDE DEF st, del, ex
<1> QED
  BY <1>2, <1>3, <1>4, MakeFrame

LEMMA PersistTidy ==
  ASSUME NEW f \in TidyFrame, NEW k \in Keys, f.store[k] # 0
  PROVE  [f EXCEPT !.expiry[k] = 0] \in TidyFrame
<1> DEFINE ex == [f.expiry EXCEPT ![k] = 0]
<1>1. /\ f.store \in [Keys -> Values \cup {0}] /\ f.deleted \in SUBSET Keys
      /\ f.expiry \in [Keys -> Nat \cup {-1}]
      /\ f = [store |-> f.store, deleted |-> f.deleted, expiry |-> f.expiry]
      /\ \A j \in Keys :
           /\ f.store[j] # 0 => j \notin f.deleted /\ f.expiry[j] # -1
           /\ f.expiry[j] # -1 => j \in f.deleted \/ f.store[j] # 0
  BY FrameParts, Zenon
<1>2. [f EXCEPT !.expiry[k] = 0] = [store |-> f.store, deleted |-> f.deleted, expiry |-> ex]
  BY <1>1
<1>3. /\ ex \in [Keys -> Nat \cup {-1}]
      /\ \A j \in Keys : /\ f.store[j] # 0 => j \notin f.deleted /\ ex[j] # -1
                         /\ ex[j] # -1 => j \in f.deleted \/ f.store[j] # 0
  BY <1>1
<1> HIDE DEF ex
<1> QED
  BY <1>1, <1>2, <1>3, MakeFrame

\* What the merge of f into its parent p says of k.
LEMMA MergedParts ==
  ASSUME NEW f \in TidyFrame, NEW p \in TidyFrame
  PROVE  LET m == Merged(f, p) IN
         /\ m \in TidyFrame
         /\ \A k \in Keys :
              /\ m.store[k] = IF f.store[k] # 0 THEN f.store[k]
                              ELSE IF k \in f.deleted THEN 0 ELSE p.store[k]
              /\ k \in m.deleted <=> k \in f.deleted \/ (k \in p.deleted /\ f.store[k] = 0)
              /\ m.expiry[k] = IF f.expiry[k] # -1 THEN f.expiry[k] ELSE p.expiry[k]
<1> DEFINE st == [k \in Keys |-> IF f.store[k] # 0 THEN f.store[k]
                                 ELSE IF k \in f.deleted THEN 0 ELSE p.store[k]]
           del == {k \in p.deleted : f.store[k] = 0} \cup f.deleted
           ex == [k \in Keys |-> IF f.expiry[k] # -1 THEN f.expiry[k] ELSE p.expiry[k]]
<1>1. /\ f.store \in [Keys -> Values \cup {0}] /\ f.deleted \in SUBSET Keys
      /\ f.expiry \in [Keys -> Nat \cup {-1}]
      /\ \A j \in Keys :
           /\ f.store[j] # 0 => j \notin f.deleted /\ f.expiry[j] # -1
           /\ f.expiry[j] # -1 => j \in f.deleted \/ f.store[j] # 0
  BY FrameParts, Zenon
<1>2. /\ p.store \in [Keys -> Values \cup {0}] /\ p.deleted \in SUBSET Keys
      /\ p.expiry \in [Keys -> Nat \cup {-1}]
      /\ \A j \in Keys :
           /\ p.store[j] # 0 => j \notin p.deleted /\ p.expiry[j] # -1
           /\ p.expiry[j] # -1 => j \in p.deleted \/ p.store[j] # 0
  BY FrameParts, Zenon
<1>3. Merged(f, p) = [store |-> st, deleted |-> del, expiry |-> ex]
  BY Zenon DEF Merged
<1>4. \A k \in Keys :
        /\ st[k] = IF f.store[k] # 0 THEN f.store[k]
                   ELSE IF k \in f.deleted THEN 0 ELSE p.store[k]
        /\ k \in del <=> k \in f.deleted \/ (k \in p.deleted /\ f.store[k] = 0)
        /\ ex[k] = IF f.expiry[k] # -1 THEN f.expiry[k] ELSE p.expiry[k]
  BY <1>1, <1>2, Zenon
<1>5. st \in [Keys -> Values \cup {0}] /\ del \in SUBSET Keys /\ ex \in [Keys -> Nat \cup {-1}]
  BY <1>1, <1>2, Zenon
<1> HIDE DEF st, del, ex
<1>6. \A j \in Keys : /\ st[j] # 0 => j \notin del /\ ex[j] # -1
                      /\ ex[j] # -1 => j \in del \/ st[j] # 0
  BY <1>1, <1>2, <1>4, Zenon
<1>7. Merged(f, p) \in TidyFrame
  BY <1>3, <1>5, <1>6, MakeFrame
<1>8. Merged(f, p).store = st /\ Merged(f, p).deleted = del /\ Merged(f, p).expiry = ex
  BY <1>3
<1> QED
  BY <1>4, <1>7, <1>8, Zenon

-----------------------------------------------------------------------------
(* Types and isolation *)

TxInv == Typed /\ Isolated

\* The innermost frame is replaced by f.
LEMMA EditTyped ==
  ASSUME Typed, NEW s \in Sessions, stack[s] # <<>>, NEW f \in TidyFrame, Edit(s, f)
  PROVE  /\ stack' \in [Sessions -> Seq(TidyFrame)]
         /\ \A t \in Sessions : stack'[t] # <<>> => stack[t] # <<>>
<1>1. /\ stack \in [Sessions -> Seq(TidyFrame)] /\ Len(stack[s]) \in DOMAIN stack[s]
  BY DEF Typed
<1>2. [stack[s] EXCEPT ![Len(stack[s])] = f] \in Seq(TidyFrame)
  BY <1>1
<1>3. stack' = [stack EXCEPT ![s] = [stack[s] EXCEPT ![Len(stack[s])] = f]]
  BY <1>1, Zenon DEF Edit
<1> QED
  BY <1>1, <1>2, <1>3, Zenon

LEMMA TopTidy ==
  ASSUME Typed, NEW s \in Sessions, stack[s] # <<>>
  PROVE  Top(s) \in TidyFrame
<1>1. stack[s] \in Seq(TidyFrame) /\ Len(stack[s]) \in DOMAIN stack[s]
  BY DEF Typed
<1> QED
  BY <1>1 DEF Top

\* The store changes, and to the sessions in S it is not their doing.
LEMMA StoreTyped ==
  ASSUME TxInv, NEW S \in SUBSET Sessions, NEW new \in [Keys -> BaseEntry], Store(S, new)
  PROVE  /\ base' \in [Keys -> BaseEntry]
         /\ alone' \in [Sessions -> [Keys -> BaseEntry]]
         /\ \A t \in S : stack[t] # <<>> => base' = alone'[t]
<1>1. /\ base \in [Keys -> BaseEntry] /\ alone \in [Sessions -> [Keys -> BaseEntry]]
      /\ \A t \in Sessions : stack[t] # <<>> => base = alone[t]
  BY Zenon DEF TxInv, Typed, Isolated
<1>2. /\ base' = new
      /\ alone' = [s \in Sessions |->
                 [k \in Keys |-> IF s \in S /\ new[k] # base[k] THEN new[k] ELSE alone[s][k]]]
  BY Zenon DEF Store
<1>3. alone' \in [Sessions -> [Keys -> BaseEntry]]
  BY <1>1, <1>2, Zenon
<1>4. ASSUME NEW t \in S, stack[t] # <<>> PROVE base' = alone'[t]
  <2>1. \A k \in Keys : alone'[t][k] = new[k]
    BY <1>1, <1>2, <1>4, Zenon
  <2>2. alone'[t] \in [Keys -> BaseEntry]
    BY <1>3, Zenon
  <2> QED
    BY <1>2, <2>1, <2>2, Zenon
<1> QED
  BY <1>2, <1>3, <1>4, Zenon

LEMMA Entries ==
  ASSUME NEW f \in TidyFrame, NEW k \in Keys
  PROVE  Entry(f, k) \in BaseEntry /\ Absent \in BaseEntry
  BY FrameParts DEF Entry, Absent, BaseEntry

LEMMA TxStep ==
  ASSUME TxInv, Next
  PROVE  TxInv'
<1>0. /\ now \in Nat /\ nops \in Nat /\ base \in [Keys -> BaseEntry]
      /\ alone \in [Sessions -> [Keys -> BaseEntry]]
      /\ stack \in [Sessions -> Seq(TidyFrame)]
      /\ \A s \in Sessions : stack[s] # <<>> => base = alone[s]
      /\ Typed
  BY Zenon DEF TxInv, Typed, Isolated
<1>a. ASSUME NEW s \in Sessions, NEW f \in TidyFrame, stack[s] # <<>>, Edit(s, f),
             now' = now, MayAct
      PROVE  TxInv'
  <2>1. /\ stack' \in [Sessions -> Seq(TidyFrame)]
        /\ \A t \in Sessions : stack'[t] # <<>> => stack[t] # <<>>
    BY <1>0, <1>a, EditTyped, Zenon
  <2>2. base' = base /\ alone' = alone /\ nops' \in Nat
    BY <1>0, <1>a DEF Edit, MayAct
  <2> QED
    BY <1>0, <1>a, <2>1, <2>2, Zenon DEF TxInv, Typed, Isolated
<1>b. ASSUME NEW S \in SUBSET Sessions, NEW new \in [Keys -> BaseEntry], Store(S, new),
             stack' \in [Sessions -> Seq(TidyFrame)],
             \A t \in Sessions : stack'[t] # <<>> => t \in S /\ stack[t] # <<>>,
             now' = now, MayAct
      PROVE  TxInv'
  <2>1. /\ base' \in [Keys -> BaseEntry] /\ alone' \in [Sessions -> [Keys -> BaseEntry]]
        /\ \A t \in S : stack[t] # <<>> => base' = alone'[t]
    BY <1>b, StoreTyped, Zenon
  <2>2. nops' \in Nat
    BY <1>0, <1>b DEF MayAct
  <2> QED
    BY <1>0, <1>b, <2>1, <2>2, Zenon DEF TxInv, Typed, Isolated
<1>1. ASSUME NEW s \in Sessions, BeginTransaction(s) PROVE TxInv'
  <2>1. /\ now' = now /\ base' = base /\ nops' \in Nat
        /\ stack' = [stack EXCEPT ![s] = Append(@, NewFrame)]
        /\ alone' = IF stack[s] = <<>> THEN [alone EXCEPT ![s] = base] ELSE alone
    BY <1>0, <1>1 DEF BeginTransaction, MayAct
  <2>2. stack' \in [Sessions -> Seq(TidyFrame)]
    <3>1. Append(stack[s], NewFrame) \in Seq(TidyFrame)
      BY <1>0, NewFrameTidy
    <3> QED
      BY <1>0, <2>1, <3>1, Zenon
  <2>3. alone' \in [Sessions -> [Keys -> BaseEntry]]
    BY <1>0, <2>1, Zenon
  <2>4. \A t \in Sessions : stack'[t] # <<>> => base' = alone'[t]
    BY <1>0, <2>1, Zenon
  <2> QED
    BY <1>0, <2>1, <2>2, <2>3, <2>4, Zenon DEF TxInv, Typed, Isolated
<1>2. ASSUME NEW s \in Sessions, CommitNested(s) PROVE TxInv'
  <2> DEFINE n == Len(stack[s])
             q == Append(SubSeq(stack[s], 1, n - 2), Merged(Top(s), stack[s][n - 1]))
  <2>1. stack[s] \in Seq(TidyFrame) /\ n \in Nat /\ n > 1 /\ n \in DOMAIN stack[s] /\ n - 1 \in DOMAIN stack[s]
    BY <1>0, <1>2 DEF CommitNested
  <2>2. Merged(Top(s), stack[s][n - 1]) \in TidyFrame
    BY <2>1, MergedParts DEF Top
  <2>3. SubSeq(stack[s], 1, n - 2) \in Seq(TidyFrame)
    BY <2>1
  <2>4. q \in Seq(TidyFrame)
    BY <2>2, <2>3
  <2> HIDE DEF q
  <2>5. /\ stack' = [stack EXCEPT ![s] = q] /\ now' = now /\ base' = base /\ alone' = alone
        /\ nops' \in Nat
    BY <1>0, <1>2 DEF CommitNested, MayAct, q
  <2>6. stack' \in [Sessions -> Seq(TidyFrame)]
        /\ \A t \in Sessions : stack'[t] # <<>> => stack[t] # <<>>
    BY <1>0, <2>1, <2>4, <2>5
  <2> QED
    BY <1>0, <2>5, <2>6, Zenon DEF TxInv, Typed, Isolated
<1>3. ASSUME NEW s \in Sessions, CommitOuter(s) PROVE TxInv'
  <2> DEFINE f == Top(s)
             new == [k \in Keys |-> IF f.store[k] # 0 THEN Entry(f, k)
                                    ELSE IF k \in f.deleted THEN Absent ELSE base[k]]
  <2>1. stack[s] # <<>>
    <3>1. Len(stack[s]) = 1
      BY <1>3, Zenon DEF CommitOuter
    <3>2. stack[s] \in Seq(TidyFrame)
      BY <1>0, Zenon
    <3> HIDE DEF f, new
    <3> QED
      BY <3>1, <3>2
  <2>2. f \in TidyFrame
    BY <1>0, <2>1, TopTidy, Zenon
  <2>3. new \in [Keys -> BaseEntry]
    BY <1>0, <2>2, Entries, Zenon
  <2>4. Store(Sessions \ {s}, new) /\ stack' = [stack EXCEPT ![s] = <<>>] /\ now' = now /\ MayAct
    BY <1>3, Zenon DEF CommitOuter
  <2> HIDE DEF new
  <2>5. stack' \in [Sessions -> Seq(TidyFrame)]
        /\ \A t \in Sessions : stack'[t] # <<>> => t \in Sessions \ {s} /\ stack[t] # <<>>
    BY <1>0, <2>4
  <2> QED
    BY <1>b, <2>3, <2>4, <2>5, Zenon
<1>4. ASSUME NEW s \in Sessions, RollbackTransaction(s) PROVE TxInv'
  <2>1. /\ stack' = [stack EXCEPT ![s] = SubSeq(@, 1, Len(@) - 1)]
        /\ now' = now /\ base' = base /\ alone' = alone /\ nops' \in Nat /\ stack[s] # <<>>
    BY <1>0, <1>4 DEF RollbackTransaction, MayAct
  <2>2. SubSeq(stack[s], 1, Len(stack[s]) - 1) \in Seq(TidyFrame)
    BY <1>0
  <2>3. stack' \in [Sessions -> Seq(TidyFrame)]
        /\ \A t \in Sessions : stack'[t] # <<>> => stack[t] # <<>>
    BY <1>0, <2>1, <2>2, Zenon
  <2> QED
    BY <1>0, <2>1, <2>3, Zenon DEF TxInv, Typed, Isolated
<1>5. ASSUME NEW s \in Sessions, NEW k \in Keys, NEW v \in Values, NEW ttl \in {0, 1}, Set(s, k, v, ttl)
      PROVE  TxInv'
  <2> DEFINE exp == IF ttl = 0 THEN 0 ELSE now + ttl
             new == [base EXCEPT ![k] = [val |-> v, exp |-> exp]]
  <2>1. exp \in Nat /\ MayAct /\ now' = now
    BY <1>0, <1>5 DEF Set
  <2> HIDE DEF exp
  <2>2. CASE stack[s] # <<>> /\ Edit(s, SetInFrame(Top(s), k, v, exp))
    <3>1. SetInFrame(Top(s), k, v, exp) \in TidyFrame
      BY <1>0, <2>1, <2>2, TopTidy, SetTidy, Zenon
    <3> QED
      BY <1>a, <2>1, <2>2, <3>1, Zenon
  <2>3. CASE stack[s] = <<>> /\ Store(Sessions \ {s}, new) /\ stack' = stack
    <3>1. new \in [Keys -> BaseEntry]
      BY <1>0, <2>1, Zenon DEF BaseEntry
    <3> HIDE DEF new
    <3>2. \A t \in Sessions : stack'[t] # <<>> => t \in Sessions \ {s} /\ stack[t] # <<>>
      BY <2>3, Zenon
    <3> QED
      BY <1>0, <1>b, <2>1, <2>3, <3>1, <3>2, Zenon
  <2> QED
    BY <1>5, <2>2, <2>3, Zenon DEF Set, exp
<1>6. ASSUME NEW s \in Sessions, NEW k \in Keys, Delete(s, k) PROVE TxInv'
  <2> DEFINE new == [base EXCEPT ![k] = Absent]
  <2>1. MayAct /\ now' = now
    BY <1>6, Zenon DEF Delete
  <2>2. CASE stack[s] # <<>> /\ Edit(s, DeleteInFrame(Top(s), k))
    <3>1. DeleteInFrame(Top(s), k) \in TidyFrame
      BY <1>0, <2>2, TopTidy, DeleteTidy, Zenon
    <3> QED
      BY <1>a, <2>1, <2>2, <3>1, Zenon
  <2>3. CASE stack[s] = <<>> /\ Store(Sessions \ {s}, new) /\ stack' = stack
    <3>1. new \in [Keys -> BaseEntry]
      BY <1>0, Zenon DEF BaseEntry, Absent
    <3> HIDE DEF new
    <3>2. \A t \in Sessions : stack'[t] # <<>> => t \in Sessions \ {s} /\ stack[t] # <<>>
      BY <2>3, Zenon
    <3> QED
      BY <1>0, <1>b, <2>1, <2>3, <3>1, <3>2, Zenon
  <2> QED
    BY <1>6, <2>2, <2>3, Zenon DEF Delete, DeleteFrom
<1>7. ASSUME NEW s \in Sessions, NEW k \in Keys, Persist(s, k) PROVE TxInv'
  <2> DEFINE new == [base EXCEPT ![k].exp = 0]
  <2>1. MayAct /\ now' = now
    BY <1>7, Zenon DEF Persist
  <2>2. CASE stack[s] # <<>> /\ Top(s).store[k] # 0 /\ Edit(s, [Top(s) EXCEPT !.expiry[k] = 0])
    <3>1. [Top(s) EXCEPT !.expiry[k] = 0] \in TidyFrame
      BY <1>0, <2>2, TopTidy, PersistTidy, Zenon
    <3> QED
      BY <1>a, <2>1, <2>2, <3>1, Zenon
  <2>3. CASE Store(Sessions, new) /\ stack' = stack
    <3>1. new \in [Keys -> BaseEntry]
      BY <1>0, Zenon DEF BaseEntry
    <3> HIDE DEF new
    <3> QED
      BY <1>0, <1>b, <2>1, <2>3, <3>1, Zenon
  <2> QED
    BY <1>7, <2>2, <2>3, Zenon DEF Persist
<1>8. ASSUME Tick PROVE TxInv'
  BY <1>0, <1>8 DEF Tick, TxInv, Typed, Isolated
<1> QED
  BY <1>1, <1>2, <1>3, <1>4, <1>5, <1>6, <1>7, <1>8, Zenon DEF Next

-----------------------------------------------------------------------------
(* What a session reads *)

\* The value and expiry frame f gives k, if it says anything.
Gives(f, k) == IF k \in f.deleted THEN Absent ELSE Entry(f, k)

\* What a stack q gives k, over an entry b of the store.
View(q, k, b) == IF Mentions(q, k) # {} THEN Gives(Innermost(q, k), k) ELSE b

\* The innermost frame that says something of k gives its entry.
LEMMA ViewFrom ==
  ASSUME NEW q \in Seq(TidyFrame), NEW k, NEW b, NEW i \in DOMAIN q,
         Says(q[i], k), \A j \in DOMAIN q : j > i => ~Says(q[j], k)
  PROVE  /\ Mentions(q, k) # {} /\ Innermost(q, k) = q[i]
         /\ View(q, k, b) = Gives(q[i], k)
<1>1. DOMAIN q \subseteq Int
  OBVIOUS
<1>2. i \in Mentions(q, k) /\ \A j \in Mentions(q, k) : j <= i
  BY <1>1 DEF Mentions, Says
<1>3. Innermost(q, k) = q[i]
  BY <1>2, InnermostIs, Zenon
<1> QED
  BY <1>2, <1>3, Zenon DEF View

LEMMA ViewUnder ==
  ASSUME NEW q, NEW k, NEW b, \A j \in DOMAIN q : ~Says(q[j], k)
  PROVE  Mentions(q, k) = {} /\ View(q, k, b) = b
<1>1. Mentions(q, k) = {}
  BY Zenon DEF Mentions, Says
<1> QED
  BY <1>1, Zenon DEF View

LEMMA SomeFrame ==
  ASSUME NEW q \in Seq(TidyFrame), NEW k
  PROVE  \/ \A j \in DOMAIN q : ~Says(q[j], k)
         \/ \E i \in DOMAIN q : Says(q[i], k) /\ \A j \in DOMAIN q : j > i => ~Says(q[j], k)
<1>1. CASE Mentions(q, k) = {}
  BY <1>1, Zenon DEF Mentions, Says
<1>2. CASE Mentions(q, k) # {}
  <2>1. PICK i \in Mentions(q, k) : \A j \in Mentions(q, k) : j <= i
    BY <1>2, InnermostExists, Zenon
  <2>2. DOMAIN q \subseteq Int
    OBVIOUS
  <2> QED
    BY <2>1, <2>2 DEF Mentions, Says
<1> QED
  BY <1>1, <1>2, Zenon

LEMMA NestedKeepsView ==
  ASSUME Typed, Typed', NEW s \in Sessions, CommitNested(s), NEW k \in Keys
  PROVE  effectiveEntry(s, k)' = effectiveEntry(s, k)
<1> DEFINE q == stack[s]
           b == base[k]
           n == Len(q)
           f == q[n]
           p == q[n - 1]
           m == Merged(f, p)
           r == stack'[s]
<1>1. /\ q \in Seq(TidyFrame) /\ n \in Nat /\ n > 1 /\ DOMAIN q = 1..n
      /\ f \in TidyFrame /\ p \in TidyFrame /\ base' = base
  BY DEF Typed, CommitNested
<1>2. r = Append(SubSeq(q, 1, n - 2), m)
  BY Zenon DEF CommitNested, Top, Typed
<1>3. /\ DOMAIN r = 1..(n - 1) /\ r[n - 1] = m
      /\ \A i \in 1..(n - 2) : r[i] = q[i]
  <2>1. m \in TidyFrame
    BY <1>1, MergedParts
  <2> HIDE DEF m
  <2> QED
    BY <1>1, <1>2, <2>1
<1>4. /\ m.store[k] = IF f.store[k] # 0 THEN f.store[k]
                      ELSE IF k \in f.deleted THEN 0 ELSE p.store[k]
      /\ k \in m.deleted <=> k \in f.deleted \/ (k \in p.deleted /\ f.store[k] = 0)
      /\ m.expiry[k] = IF f.expiry[k] # -1 THEN f.expiry[k] ELSE p.expiry[k]
  BY <1>1, MergedParts
<1>5. /\ f.store[k] # 0 => k \notin f.deleted /\ f.expiry[k] # -1
      /\ f.expiry[k] # -1 => k \in f.deleted \/ f.store[k] # 0
  BY <1>1, FrameParts, Zenon
<1>a. effectiveEntry(s, k) = View(q, k, b)
  BY Zenon DEF effectiveEntry, View, Gives
<1>b. effectiveEntry(s, k)' = View(r, k, b)
  BY <1>1, Zenon DEF effectiveEntry, View, Gives, Mentions, Innermost, Absent, Entry
<1>c. r \in Seq(TidyFrame)
  BY Zenon DEF Typed
<1> HIDE DEF q, b, n, f, p, m, r
\* The merged frame speaks when either of the two did, and as the inner one did.
<1>6. /\ Says(m, k) <=> Says(f, k) \/ Says(p, k)
      /\ Says(f, k) => Gives(m, k) = Gives(f, k)
      /\ ~Says(f, k) => Gives(m, k) = Gives(p, k)
  BY <1>4, <1>5, Zenon DEF Says, Gives, Entry
<1>7. ASSUME Says(m, k) PROVE View(r, k, b) = Gives(m, k)
  <2>1. n - 1 \in DOMAIN r /\ Says(r[n - 1], k) /\ \A j \in DOMAIN r : ~(j > n - 1)
    BY <1>1, <1>3, <1>7
  <2> QED
    BY <1>3, <1>c, <2>1, ViewFrom
<1>8. CASE Says(f, k)
  <2>1. n \in DOMAIN q /\ \A j \in DOMAIN q : ~(j > n)
    BY <1>1
  <2>2. View(q, k, b) = Gives(f, k)
    BY <1>1, <1>8, <2>1, ViewFrom, Zenon DEF f
  <2> QED
    BY <1>a, <1>b, <1>6, <1>7, <1>8, <2>2, Zenon
<1>9. CASE ~Says(f, k) /\ Says(p, k)
  <2>1. n - 1 \in DOMAIN q /\ \A j \in DOMAIN q : j > n - 1 => j = n
    BY <1>1
  <2>2. View(q, k, b) = Gives(p, k)
    BY <1>1, <1>9, <2>1, ViewFrom, Zenon DEF f, p
  <2> QED
    BY <1>a, <1>b, <1>6, <1>7, <1>9, <2>2, Zenon
<1>10. CASE ~Says(f, k) /\ ~Says(p, k)
  <2>0. ~Says(m, k)
    BY <1>6, <1>10, Zenon
  <2>1. CASE \A j \in DOMAIN q : ~Says(q[j], k)
    <3>1. \A j \in DOMAIN r : ~Says(r[j], k)
      BY <1>1, <1>3, <2>0, <2>1
    <3> QED
      BY <1>a, <1>b, <2>1, <3>1, ViewUnder
  <2>2. ASSUME NEW i \in DOMAIN q, Says(q[i], k), \A j \in DOMAIN q : j > i => ~Says(q[j], k)
        PROVE  effectiveEntry(s, k)' = effectiveEntry(s, k)
    <3>1. i \in 1..(n - 2)
      BY <1>1, <1>10, <2>2 DEF f, p
    <3>2. i \in DOMAIN r /\ r[i] = q[i] /\ \A j \in DOMAIN r : j > i => ~Says(r[j], k)
      BY <1>1, <1>3, <2>0, <2>2, <3>1
    <3>3. View(r, k, b) = Gives(r[i], k)
      BY <1>c, <2>2, <3>2, ViewFrom
    <3>4. View(q, k, b) = Gives(q[i], k)
      BY <1>1, <2>2, ViewFrom, Zenon
    <3> QED
      BY <1>a, <1>b, <3>2, <3>3, <3>4, Zenon
  <2> QED
    BY <1>1, <2>1, <2>2, SomeFrame, Zenon
<1> QED
  BY <1>8, <1>9, <1>10, Zenon

LEMMA OuterKeepsView ==
  ASSUME Typed, NEW s \in Sessions, CommitOuter(s), NEW k \in Keys
  PROVE  effectiveEntry(s, k)' = effectiveEntry(s, k)
<1> DEFINE f == Top(s)
<1>1. Len(stack[s]) = 1 /\ stack[s] \in Seq(TidyFrame)
  BY Zenon DEF CommitOuter, Typed
<1>2. DOMAIN stack[s] = {1} /\ Top(s) = stack[s][1] /\ f \in TidyFrame
  BY <1>1 DEF Top
<1>3. stack' = [stack EXCEPT ![s] = <<>>]
  BY Zenon DEF CommitOuter
<1>4. stack'[s] = <<>>
  BY <1>3, Zenon DEF Typed
<1>5. base'[k] = IF f.store[k] # 0 THEN Entry(f, k)
                 ELSE IF k \in f.deleted THEN Absent ELSE base[k]
  BY Zenon DEF CommitOuter, Store
<1>6. Mentions(stack[s], k)' = {}
  BY <1>4 DEF Mentions
<1>7. effectiveEntry(s, k)' = base'[k]
  BY <1>6, Zenon DEF effectiveEntry
<1>8. f.store[k] # 0 => k \notin f.deleted
  BY <1>2, FrameParts, Zenon
<1>9. effectiveEntry(s, k) = View(stack[s], k, base[k])
  BY Zenon DEF effectiveEntry, View, Gives
<1> HIDE DEF f
<1>10. CASE Says(f, k)
  <2>1. View(stack[s], k, base[k]) = Gives(f, k)
    <3>1. 1 \in DOMAIN stack[s] /\ Says(stack[s][1], k) /\ \A j \in DOMAIN stack[s] : ~(j > 1)
      BY <1>2, <1>10 DEF f
    <3> QED
      BY <1>1, <1>2, <3>1, ViewFrom DEF f
  <2> QED
    BY <1>5, <1>7, <1>8, <1>9, <1>10, <2>1, Zenon DEF Says, Gives
<1>11. CASE ~Says(f, k)
  <2>1. View(stack[s], k, base[k]) = base[k]
    BY <1>2, <1>11, ViewUnder DEF f
  <2> QED
    BY <1>5, <1>7, <1>9, <1>11, <2>1, Zenon DEF Says
<1> QED
  BY <1>10, <1>11, Zenon

\* Get, in terms of the innermost frame.
LEMMA GetFrom ==
  ASSUME Typed, NEW s \in Sessions, NEW k \in Keys
  PROVE  \/ /\ \A j \in DOMAIN stack[s] : ~Says(stack[s][j], k)
            /\ effectiveEntry(s, k) = base[k] /\ Get(s, k) = Live(base[k]).val
         \/ \E i \in DOMAIN stack[s] :
              /\ Says(stack[s][i], k) /\ \A j \in DOMAIN stack[s] : j > i => ~Says(stack[s][j], k)
              /\ effectiveEntry(s, k) = Gives(stack[s][i], k)
              /\ Get(s, k) = IF k \in stack[s][i].deleted THEN 0 ELSE stack[s][i].store[k]
<1>1. stack[s] \in Seq(TidyFrame)
  BY Zenon DEF Typed
<1>2. CASE \A j \in DOMAIN stack[s] : ~Says(stack[s][j], k)
  <2>1. Mentions(stack[s], k) = {}
    BY <1>2, ViewUnder, Zenon
  <2> QED
    BY <1>2, <2>1, Zenon DEF effectiveEntry, Get
<1>3. ASSUME NEW i \in DOMAIN stack[s], Says(stack[s][i], k),
             \A j \in DOMAIN stack[s] : j > i => ~Says(stack[s][j], k)
      PROVE  /\ effectiveEntry(s, k) = Gives(stack[s][i], k)
             /\ Get(s, k) = IF k \in stack[s][i].deleted THEN 0 ELSE stack[s][i].store[k]
  <2>1. Mentions(stack[s], k) # {} /\ Innermost(stack[s], k) = stack[s][i]
    BY <1>1, <1>3, ViewFrom, Zenon
  <2> QED
    BY <2>1, Zenon DEF effectiveEntry, Get, Gives
<1> QED
  BY <1>1, <1>2, <1>3, SomeFrame, Zenon

LEMMA TTLIsRight ==
  ASSUME Typed, NEW s \in Sessions, NEW k \in Keys, TTL(s, k) # -2
  PROVE  Get(s, k) # 0
<1>1. /\ effectiveEntry(s, k).val # 0
      /\ ~(effectiveEntry(s, k).exp > 0 /\ now >= effectiveEntry(s, k).exp)
  BY Zenon DEF TTL
<1>2. CASE effectiveEntry(s, k) = base[k] /\ Get(s, k) = Live(base[k]).val
  <2>1. base[k].exp \in Nat /\ now \in Nat
    BY Zenon DEF Typed, BaseEntry
  <2>2. ~Expired(base[k])
    BY <1>1, <1>2, <2>1 DEF Expired
  <2> QED
    BY <1>1, <1>2, <2>2, Zenon DEF Live
<1>3. ASSUME NEW f, effectiveEntry(s, k) = Gives(f, k),
             Get(s, k) = IF k \in f.deleted THEN 0 ELSE f.store[k]
      PROVE  Get(s, k) # 0
  <2>1. k \notin f.deleted
    BY <1>1, <1>3 DEF Gives, Absent
  <2>2. f.store[k] # 0
    BY <1>1, <1>3, <2>1 DEF Gives, Entry
  <2> QED
    BY <1>3, <2>1, <2>2, Zenon
<1> QED
  BY <1>2, <1>3, GetFrom, Zenon

\* k is overridden by v: the innermost frame that says something of k sets it to v.
LEMMA Overridden ==
  ASSUME NEW s \in Sessions, NEW k \in Keys, NEW v \in Values
  PROVE  <<k, v>> \in txOverride(s) <=>
           \E i \in DOMAIN stack[s] :
             /\ stack[s][i].store[k] = v
             /\ \A j \in DOMAIN stack[s] : j > i => ~Says(stack[s][j], k)
<1>1. <<k, v>> \in Keys \X Values /\ <<k, v>>[1] = k /\ <<k, v>>[2] = v
  BY Zenon
<1> QED
  BY <1>1, Zenon DEF txOverride, Says

LEMMA CountIsRight ==
  ASSUME Typed, NEW s \in Sessions, NEW v \in Values
  PROVE  Count(s, v) = Cardinality({k \in Keys : Get(s, k) = v})
<1> DEFINE A == {k \in Keys : /\ k \notin txDeleted(s)
                              /\ \A u \in Values : <<k, u>> \notin txOverride(s)
                              /\ Live(base[k]).val = v}
           B == {k \in Keys : <<k, v>> \in txOverride(s)}
           G == {k \in Keys : Get(s, k) = v}
<1>1. v # 0 /\ IsFiniteSet(Keys)
  BY TransactionConstants, Zenon
<1>2. A \cap B = {}
  BY Zenon
<1>3. ASSUME NEW k \in Keys PROVE k \in G <=> k \in A \/ k \in B
  <2>0. /\ stack[s] \in Seq(TidyFrame) /\ DOMAIN stack[s] \subseteq Int
        /\ \A j \in DOMAIN stack[s] : stack[s][j] \in TidyFrame
    BY DEF Typed
  <2>1. CASE /\ \A j \in DOMAIN stack[s] : ~Says(stack[s][j], k)
             /\ Get(s, k) = Live(base[k]).val
    <3>1. k \notin txDeleted(s)
      BY <2>1, Zenon DEF txDeleted, Says
    <3>2. ASSUME NEW u \in Values PROVE <<k, u>> \notin txOverride(s)
      <4>1. u # 0
        BY TransactionConstants, Zenon
      <4> QED
        BY <2>1, <4>1, Overridden DEF Says
    <3> QED
      BY <2>1, <3>1, <3>2, Zenon
  <2>2. ASSUME NEW i \in DOMAIN stack[s], Says(stack[s][i], k),
               \A j \in DOMAIN stack[s] : j > i => ~Says(stack[s][j], k),
               Get(s, k) = IF k \in stack[s][i].deleted THEN 0 ELSE stack[s][i].store[k]
        PROVE  k \in G <=> k \in A \/ k \in B
    <3> DEFINE f == stack[s][i]
    <3>1. /\ f.store[k] \in Values \cup {0} /\ (f.store[k] # 0 => k \notin f.deleted)
      BY <2>0, FrameParts
    \* A frame that overrides k is frame i.
    <3>2. ASSUME NEW u \in Values, <<k, u>> \in txOverride(s) PROVE f.store[k] = u
      <4>1. PICK h \in DOMAIN stack[s] :
              /\ stack[s][h].store[k] = u
              /\ \A j \in DOMAIN stack[s] : j > h => ~Says(stack[s][j], k)
        BY <3>2, Overridden
      <4>2. u # 0
        BY TransactionConstants, Zenon
      <4>3. Says(stack[s][h], k)
        BY <4>1, <4>2, Zenon DEF Says
      <4>4. h = i
        BY <2>0, <2>2, <4>1, <4>3
      <4> QED
        BY <4>1, <4>4, Zenon
    <3>3. CASE k \in f.deleted
      <4>1. k \in txDeleted(s)
        BY <3>3, Zenon DEF txDeleted
      <4>2. k \notin B
        BY <1>1, <3>1, <3>2, <3>3, Zenon
      <4> QED
        BY <1>1, <2>2, <3>3, <4>1, <4>2, Zenon
    <3>4. CASE k \notin f.deleted
      <4>1. f.store[k] # 0 /\ f.store[k] \in Values
        BY <2>2, <3>1, <3>4, Zenon DEF Says
      <4>2. <<k, f.store[k]>> \in txOverride(s)
        BY <2>2, <4>1, Overridden, Zenon
      <4> HIDE DEF f
      <4>3. k \notin A
        BY <4>1, <4>2, Zenon
      <4>4. k \in B <=> f.store[k] = v
        BY <3>2, <4>2, Zenon
      <4> QED
        BY <2>2, <3>4, <4>3, <4>4, Zenon DEF f
    <3> QED
      BY <3>3, <3>4, Zenon
  <2> QED
    BY <2>1, <2>2, GetFrom
<1>4. G = A \cup B /\ A \subseteq Keys /\ B \subseteq Keys
  BY <1>3, Zenon
<1>5. Count(s, v) = Cardinality(A) + Cardinality(B)
  BY Zenon DEF Count
<1> HIDE DEF A, B, G
<1>6. IsFiniteSet(A) /\ IsFiniteSet(B)
  BY <1>1, <1>4, FS_Subset, Zenon
<1>7. Cardinality(A \cup B) = Cardinality(A) + Cardinality(B) - Cardinality(A \cap B)
  BY <1>6, FS_Union, Zenon
<1>8. Cardinality(A \cap B) = 0 /\ Cardinality(A) \in Nat /\ Cardinality(B) \in Nat
  BY <1>2, <1>6, FS_EmptySet, FS_CardinalityType, Zenon
<1>9. Count(s, v) = Cardinality(G)
  BY <1>4, <1>5, <1>7, <1>8
<1> QED
  BY <1>9, Zenon DEF G

-----------------------------------------------------------------------------
(* Theorems *)

LEMMA TxInvHolds == Spec => []TxInv
<1>1. Init => TxInv
  <2> SUFFICES ASSUME Init PROVE TxInv
    BY Zenon
  <2>1. base \in [Keys -> BaseEntry]
    BY Zenon DEF Init, Absent, BaseEntry
  <2>2. stack \in [Sessions -> Seq(TidyFrame)] /\ \A s \in Sessions : stack[s] = <<>>
    BY DEF Init
  <2> QED
    BY <2>1, <2>2, Zenon DEF Init, TxInv, Typed, Isolated
<1>2. TxInv /\ [Next]_vars => TxInv'
  <2> SUFFICES ASSUME TxInv, [Next]_vars PROVE TxInv'
    BY Zenon
  <2>1. CASE UNCHANGED vars
    BY <2>1, Zenon DEF vars, TxInv, Typed, Isolated
  <2> QED
    BY <2>1, TxStep, Zenon
<1> QED
  BY <1>1, <1>2, PTL DEF Spec

\* Types; a frame never both sets and deletes a key (session.go, Set and Delete).
THEOREM TypeCorrect == Spec => []TypeOK
  BY TxInvHolds, TypedIsTypeOK, PTL DEF TxInv

\* Until its outermost COMMIT a session does nothing to the store but Persist,
\* however many transactions it nests and others run.
THEOREM TransactionsAreIsolated == Spec => []Isolated
  BY TxInvHolds, PTL DEF TxInv

\* COMMIT, into the parent frame or the store, keeps every value and expiry the
\* session reads (CommitTransaction).
THEOREM CommitKeepsWhatIsRead == Spec => CommitKeepsView
<1>1. TxInv /\ TxInv' /\ [Next]_vars =>
        [\A s \in Sessions : CommitNested(s) \/ CommitOuter(s)
           => \A k \in Keys : effectiveEntry(s, k)' = effectiveEntry(s, k)]_vars
  BY NestedKeepsView, OuterKeepsView, Zenon DEF TxInv
<1> QED
  BY <1>1, TxInvHolds, PTL DEF Spec, CommitKeepsView

\* A key TTL reports as present is one Get finds (Session.TTL, Session.Get).
THEOREM TTLAgreesWithGet == Spec => []TTLAgrees
<1>1. TxInv => TTLAgrees
  BY TTLIsRight, Zenon DEF TxInv, TTLAgrees
<1> QED
  BY <1>1, TxInvHolds, PTL

\* Count looks through the frames as Get does (Session.Count).
THEOREM CountAgreesWithGet == Spec => []CountAgrees
<1>1. TxInv => CountAgrees
  BY CountIsRight, Zenon DEF TxInv, CountAgrees
<1> QED
  BY <1>1, TxInvHolds, PTL
=============================================================================
