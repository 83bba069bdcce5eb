--------------------------- MODULE HashIndex_proofs ---------------------------
(* Proofs about HashIndex, for any number of keys, slots and readers, any hash    *)
(* and any threshold: chains are in order, and Get, which takes no lock, is       *)
(* atomic (the index implements IndexSpec).                                       *)
EXTENDS HashIndex, TLAPS

\* A leaf is Zenon's unless it names another prover.
USE Zenon

-----------------------------------------------------------------------------
(* The greatest element of a set of offsets, 0 if there is none *)

IsTop(S, n) == IF S = {} THEN n = 0 ELSE n \in S /\ \A p \in S : p <= n

LEMMA TopUnique ==
  ASSUME NEW S \in SUBSET Nat, NEW m, NEW n, IsTop(S, m), IsTop(S, n)
  PROVE  m = n
<1>1. CASE S = {}
  BY <1>1 DEF IsTop
<1>2. CASE S # {}
  <2>1. m \in S /\ n \in S /\ m <= n /\ n <= m
    BY <1>2 DEF IsTop
  <2>2. m \in Nat /\ n \in Nat
    BY <2>1
  <2> QED
    BY <2>1, <2>2, SMT
<1> QED
  BY <1>1, <1>2

LEMMA TopOfNone == IsTop({}, 0)
  BY DEF IsTop

LEMMA TopAdded ==
  ASSUME NEW S \in SUBSET Nat, NEW n \in Nat, \A p \in S : p <= n
  PROVE  IsTop(S \cup {n}, n)
  BY SMT DEF IsTop

LEMMA TopRange ==
  ASSUME NEW n \in Nat, NEW S \in SUBSET (1..n), NEW t, IsTop(S, t)
  PROVE  t \in 0..n
<1>1. CASE S = {}
  BY <1>1, SMT DEF IsTop
<1>2. CASE S # {}
  <2>1. t \in 1..n
    BY <1>2 DEF IsTop
  <2> QED
    BY <2>1, SMT
<1> QED
  BY <1>1, <1>2

-----------------------------------------------------------------------------
(* Chains in a file f whose entries L are lost *)

\* The entries of a slot, and of a key, up to offset n.
OfSlot(f, L, s, n) == {o \in 1..Len(f) : o \notin L /\ o <= n /\ SlotOf[f[o].key] = s}
OfKey(f, L, k, n) == {o \in 1..Len(f) : o \notin L /\ o <= n /\ f[o].key = k}

\* Every entry points to the one before it in its slot.
Chain(f, L) ==
  \A o \in 1..Len(f) :
    o \notin L => f[o].key \in Keys /\ IsTop(OfSlot(f, L, SlotOf[f[o].key], o - 1), f[o].next)

\* Bucket table h, and the newest entries c of the keys, when n entries are visible.
Heads(f, L, h, n) == \A s \in Slots : IsTop(OfSlot(f, L, s, n), h[s])
Newest(f, L, c, n) == \A k \in Keys : IsTop(OfKey(f, L, k, n), c[k])

LEMMA SlotFacts == SlotOf \in [Keys -> Slots] /\ \A k \in Keys : SlotOf[k] \in Slots
  BY IndexConstants

LEMMA OfNat ==
  ASSUME NEW f \in Seq(Entry), NEW L, NEW x, NEW n
  PROVE  /\ OfSlot(f, L, x, n) \in SUBSET Nat /\ OfSlot(f, L, x, n) \in SUBSET (1..Len(f))
         /\ OfKey(f, L, x, n) \in SUBSET Nat /\ OfKey(f, L, x, n) \in SUBSET (1..Len(f))
  BY SMT DEF OfSlot, OfKey

LEMMA TopNat ==
  ASSUME NEW f \in Seq(Entry), NEW L, NEW x, NEW n, NEW t
  PROVE  /\ IsTop(OfSlot(f, L, x, n), t) => t \in 0..Len(f)
         /\ IsTop(OfKey(f, L, x, n), t) => t \in 0..Len(f)
<1>1. Len(f) \in Nat
  BY SMT
<1> QED
  BY <1>1, SMT DEF OfSlot, OfKey, IsTop

\* A key's entries are in its slot: up to the newest one of the slot are all.
LEMMA KeyInSlot ==
  ASSUME NEW f \in Seq(Entry), NEW L, NEW k \in Keys, NEW n \in Nat, NEW t \in Nat,
         IsTop(OfSlot(f, L, SlotOf[k], n), t)
  PROVE  OfKey(f, L, k, t) = OfKey(f, L, k, n)
<1>1. OfKey(f, L, k, n) \subseteq OfSlot(f, L, SlotOf[k], n)
  BY DEF OfKey, OfSlot
<1>2. \A o \in OfSlot(f, L, SlotOf[k], n) : o <= t
  BY DEF IsTop
<1>3. t <= n
  BY SMT DEF IsTop, OfSlot
<1>4. OfKey(f, L, k, n) \subseteq OfKey(f, L, k, t)
  BY <1>1, <1>2 DEF OfKey
<1>5. OfKey(f, L, k, t) \subseteq OfKey(f, L, k, n)
  BY <1>3, SMT DEF OfKey
<1> QED
  BY <1>4, <1>5

\* One step along a chain in search of k.
LEMMA WalkOn ==
  ASSUME NEW f \in Seq(Entry), NEW L, Chain(f, L), NEW k \in Keys,
         NEW o \in OfSlot(f, L, SlotOf[k], Len(f))
  PROVE  /\ f[o].key = k => IsTop(OfKey(f, L, k, o), o)
         /\ f[o].key # k => OfKey(f, L, k, f[o].next) = OfKey(f, L, k, o)
         /\ f[o].next = 0 \/ f[o].next \in OfSlot(f, L, SlotOf[k], Len(f))
         /\ f[o].next \in Nat
<1>1. o \in 1..Len(f) /\ o \notin L /\ SlotOf[f[o].key] = SlotOf[k] /\ Len(f) \in Nat
  BY SMT DEF OfSlot
<1>2. IsTop(OfSlot(f, L, SlotOf[k], o - 1), f[o].next)
  BY <1>1 DEF Chain
<1>3. f[o].next \in Nat /\ o - 1 \in Nat
  <2>1. f[o] \in Entry
    BY <1>1, SMT
  <2> QED
    BY <1>1, <2>1, SMT DEF Entry
<1>4. OfKey(f, L, k, f[o].next) = OfKey(f, L, k, o - 1)
  BY <1>2, <1>3, KeyInSlot
<1>5. f[o].key # k => OfKey(f, L, k, o - 1) = OfKey(f, L, k, o)
  BY <1>1, SMT DEF OfKey
<1>6. f[o].key = k => IsTop(OfKey(f, L, k, o), o)
  BY <1>1, SMT DEF OfKey, IsTop
<1>7. f[o].next = 0 \/ f[o].next \in OfSlot(f, L, SlotOf[k], Len(f))
  BY <1>1, <1>2, SMT DEF IsTop, OfSlot
<1> QED
  BY <1>3, <1>4, <1>5, <1>6, <1>7

LEMMA AppendFacts ==
  ASSUME NEW f \in Seq(Entry), NEW e \in Entry
  PROVE  /\ Append(f, e) \in Seq(Entry) /\ Len(Append(f, e)) = Len(f) + 1
         /\ Append(f, e)[Len(f) + 1] = e /\ Len(f) \in Nat
         /\ \A o \in 1..Len(f) : Append(f, e)[o] = f[o]
  BY SMT

\* An entry is appended; it is not visible yet.
LEMMA AppendOf ==
  ASSUME NEW f \in Seq(Entry), NEW L \in SUBSET (1..Len(f)), NEW e \in Entry, NEW n \in 0..Len(f),
         NEW x
  PROVE  /\ OfSlot(Append(f, e), L, x, n) = OfSlot(f, L, x, n)
         /\ OfKey(Append(f, e), L, x, n) = OfKey(f, L, x, n)
<1> DEFINE g == Append(f, e)
<1>1. /\ g \in Seq(Entry) /\ Len(g) = Len(f) + 1 /\ Len(f) \in Nat
      /\ \A o \in 1..Len(f) : g[o] = f[o]
  BY SMT
<1> HIDE DEF g
<1>2. ASSUME NEW o PROVE o \in OfSlot(g, L, x, n) <=> o \in OfSlot(f, L, x, n)
  BY <1>1, SMT DEF OfSlot
<1>3. ASSUME NEW o PROVE o \in OfKey(g, L, x, n) <=> o \in OfKey(f, L, x, n)
  BY <1>1, SMT DEF OfKey
<1>4. OfSlot(g, L, x, n) = OfSlot(f, L, x, n)
  BY <1>2
<1>5. OfKey(g, L, x, n) = OfKey(f, L, x, n)
  BY <1>3
<1> QED
  BY <1>4, <1>5 DEF g

LEMMA AppendChain ==
  ASSUME NEW f \in Seq(Entry), NEW L \in SUBSET (1..Len(f)), NEW e \in Entry, Chain(f, L),
         e.key \in Keys, IsTop(OfSlot(f, L, SlotOf[e.key], Len(f)), e.next)
  PROVE  Chain(Append(f, e), L)
<1> DEFINE g == Append(f, e)
<1>1. /\ Len(g) = Len(f) + 1 /\ Len(f) \in Nat /\ g[Len(f) + 1] = e
      /\ \A o \in 1..Len(f) : g[o] = f[o]
  BY AppendFacts
<1>2. \A n \in 0..Len(f) : \A x : OfSlot(g, L, x, n) = OfSlot(f, L, x, n)
  BY AppendOf
<1> HIDE DEF g
<1> SUFFICES ASSUME NEW o \in 1..Len(g), o \notin L
             PROVE  /\ g[o].key \in Keys
                    /\ IsTop(OfSlot(g, L, SlotOf[g[o].key], o - 1), g[o].next)
  BY DEF Chain, g
<1>3. CASE o = Len(f) + 1
  <2>1. g[o] = e /\ o - 1 = Len(f)
    BY <1>1, <1>3, SMT
  <2>2. OfSlot(g, L, SlotOf[e.key], Len(f)) = OfSlot(f, L, SlotOf[e.key], Len(f))
    BY <1>1, <1>2, SMT
  <2> QED
    BY <2>1, <2>2
<1>4. CASE o # Len(f) + 1
  <2>1. o \in 1..Len(f) /\ o - 1 \in 0..Len(f) /\ g[o] = f[o]
    BY <1>1, <1>4, SMT
  <2>2. f[o].key \in Keys /\ IsTop(OfSlot(f, L, SlotOf[f[o].key], o - 1), f[o].next)
    BY <2>1 DEF Chain
  <2>3. OfSlot(g, L, SlotOf[f[o].key], o - 1) = OfSlot(f, L, SlotOf[f[o].key], o - 1)
    BY <1>2, <2>1
  <2> QED
    BY <2>1, <2>2, <2>3
<1> QED
  BY <1>3, <1>4

\* Bytes that are no entry are appended.
LEMMA AppendLost ==
  ASSUME NEW f \in Seq(Entry), NEW L \in SUBSET (1..Len(f)), NEW e \in Entry, Chain(f, L)
  PROVE  LET g == Append(f, e)
             M == L \cup {Len(f) + 1}
         IN  /\ Chain(g, M) /\ M \subseteq 1..Len(g)
             /\ \A x, n : OfSlot(g, M, x, n) = OfSlot(f, L, x, n)
             /\ \A x, n : OfKey(g, M, x, n) = OfKey(f, L, x, n)
             /\ \A x : OfSlot(g, M, x, Len(g)) = OfSlot(f, L, x, Len(f))
             /\ \A x : OfKey(g, M, x, Len(g)) = OfKey(f, L, x, Len(f))
<1> DEFINE g == Append(f, e)
           M == L \cup {Len(f) + 1}
<1>1. /\ g \in Seq(Entry) /\ Len(g) = Len(f) + 1 /\ Len(f) \in Nat
      /\ \A o \in 1..Len(f) : g[o] = f[o]
  BY SMT
<1>2. /\ M \subseteq 1..Len(g)
      /\ \A o : (o \in 1..Len(g) /\ o \notin M) <=> (o \in 1..Len(f) /\ o \notin L)
  <2>1. M \subseteq 1..Len(g)
    <3> HIDE DEF g
    <3>1. \A o \in L : o \in 1..Len(g)
      BY <1>1, SMT
    <3>2. Len(f) + 1 \in 1..Len(g)
      BY <1>1, SMT
    <3> QED
      BY <3>1, <3>2
  <2>2. ASSUME NEW o PROVE (o \in 1..Len(g) /\ o \notin M) <=> (o \in 1..Len(f) /\ o \notin L)
    <3> HIDE DEF g
    <3> QED
      BY <1>1, SMT
  <2> QED
    BY <2>1, <2>2
<1> HIDE DEF g, M
<1>3. ASSUME NEW x, NEW n PROVE OfSlot(g, M, x, n) = OfSlot(f, L, x, n)
  <2> SUFFICES ASSUME NEW o PROVE o \in OfSlot(g, M, x, n) <=> o \in OfSlot(f, L, x, n)
    OBVIOUS
  <2> QED
    BY <1>1, <1>2 DEF OfSlot
<1>4. ASSUME NEW x, NEW n PROVE OfKey(g, M, x, n) = OfKey(f, L, x, n)
  <2> SUFFICES ASSUME NEW o PROVE o \in OfKey(g, M, x, n) <=> o \in OfKey(f, L, x, n)
    OBVIOUS
  <2> QED
    BY <1>1, <1>2 DEF OfKey
<1>5. \A x : OfSlot(f, L, x, Len(g)) = OfSlot(f, L, x, Len(f))
  BY <1>1, SMT DEF OfSlot
<1>6. \A x : OfKey(f, L, x, Len(g)) = OfKey(f, L, x, Len(f))
  BY <1>1, SMT DEF OfKey
<1>7. ASSUME NEW o \in 1..Len(g), o \notin M
      PROVE  g[o].key \in Keys /\ IsTop(OfSlot(g, M, SlotOf[g[o].key], o - 1), g[o].next)
  <2>1. o \in 1..Len(f) /\ o \notin L /\ g[o] = f[o]
    BY <1>1, <1>2, <1>7
  <2>2. f[o].key \in Keys /\ IsTop(OfSlot(f, L, SlotOf[f[o].key], o - 1), f[o].next)
    BY <2>1 DEF Chain
  <2> QED
    BY <1>3, <2>1, <2>2
<1>8. Chain(g, M)
  BY <1>7 DEF Chain
<1> QED
  BY <1>2, <1>3, <1>4, <1>5, <1>6, <1>8 DEF g, M

\* The last entry becomes visible.
LEMMA PublishTop ==
  ASSUME NEW f \in Seq(Entry), NEW L, Len(f) >= 1, Len(f) \notin L
  PROVE  LET n == Len(f) IN
         /\ \A s : SlotOf[f[n].key] = s => IsTop(OfSlot(f, L, s, n), n)
         /\ \A s : SlotOf[f[n].key] # s => OfSlot(f, L, s, n) = OfSlot(f, L, s, n - 1)
         /\ \A k : f[n].key = k => IsTop(OfKey(f, L, k, n), n)
         /\ \A k : f[n].key # k => OfKey(f, L, k, n) = OfKey(f, L, k, n - 1)
<1> DEFINE n == Len(f)
<1>1. n \in Nat /\ n \in 1..n
  BY SMT
<1> HIDE DEF n
<1>2. Len(f) = n /\ n \notin L
  BY DEF n
<1>3. \A s : SlotOf[f[n].key] = s => IsTop(OfSlot(f, L, s, n), n)
  BY <1>1, <1>2, SMT DEF OfSlot, IsTop
<1>4. \A s : SlotOf[f[n].key] # s => OfSlot(f, L, s, n) = OfSlot(f, L, s, n - 1)
  BY <1>1, <1>2, SMT DEF OfSlot
<1>5. \A k : f[n].key = k => IsTop(OfKey(f, L, k, n), n)
  BY <1>1, <1>2, SMT DEF OfKey, IsTop
<1>6. \A k : f[n].key # k => OfKey(f, L, k, n) = OfKey(f, L, k, n - 1)
  BY <1>1, <1>2, SMTT(30) DEF OfKey
<1> QED
  BY <1>3, <1>4, <1>5, <1>6 DEF n

\* A crash: what is beyond the bucket table h is lost.
LEMMA CutChains ==
  ASSUME NEW f \in Seq(Entry), NEW L \in SUBSET (1..Len(f)), Chain(f, L),
         NEW h \in [Slots -> Nat],
         \A s \in Slots : h[s] = 0 \/ h[s] \in OfSlot(f, L, s, Len(f))
  PROVE  LET M == L \cup {o \in 1..Len(f) : f[o].key # NoKey /\ o > h[SlotOf[f[o].key]]}
         IN  /\ M \subseteq 1..Len(f) /\ Chain(f, M) /\ Heads(f, M, h, Len(f))
             /\ \A k \in Keys : /\ OfKey(f, M, k, Len(f)) = OfKey(f, L, k, h[SlotOf[k]])
                                /\ OfKey(f, M, k, h[SlotOf[k]]) = OfKey(f, L, k, h[SlotOf[k]])
             /\ \A s \in Slots : h[s] = 0 \/ h[s] \in OfSlot(f, M, s, Len(f))
<1> DEFINE M == L \cup {o \in 1..Len(f) : f[o].key # NoKey /\ o > h[SlotOf[f[o].key]]}
<1>1. Len(f) \in Nat /\ SlotOf \in [Keys -> Slots] /\ NoKey \notin Keys
  BY IndexConstants, SMT
<1>2. \A o \in 1..Len(f) : o \notin L => f[o].key \in Keys /\ f[o].key # NoKey
  BY <1>1 DEF Chain
<1>3. \A o \in 1..Len(f) : o \notin M <=> o \notin L /\ o <= h[SlotOf[f[o].key]]
  <2> SUFFICES ASSUME NEW o \in 1..Len(f), o \notin L
               PROVE  ~(f[o].key # NoKey /\ o > h[SlotOf[f[o].key]]) <=> o <= h[SlotOf[f[o].key]]
    BY DEF M
  <2>1. f[o].key \in Keys /\ f[o].key # NoKey
    BY <1>2
  <2>2. h[SlotOf[f[o].key]] \in Nat /\ o \in Nat
    BY <1>1, <2>1, SMT
  <2> QED
    BY <2>1, <2>2, SMT
<1>4. M \subseteq 1..Len(f)
  OBVIOUS
<1> HIDE DEF M
<1>5. ASSUME NEW s \in Slots PROVE OfSlot(f, M, s, Len(f)) = OfSlot(f, L, s, h[s])
  <2> SUFFICES ASSUME NEW o PROVE o \in OfSlot(f, M, s, Len(f)) <=> o \in OfSlot(f, L, s, h[s])
    OBVIOUS
  <2> QED
    BY <1>1, <1>3, SMT DEF OfSlot
<1>6. ASSUME NEW k \in Keys
      PROVE  /\ OfKey(f, M, k, Len(f)) = OfKey(f, L, k, h[SlotOf[k]])
             /\ OfKey(f, M, k, h[SlotOf[k]]) = OfKey(f, L, k, h[SlotOf[k]])
  <2>1. ASSUME NEW o PROVE o \in OfKey(f, M, k, Len(f)) <=> o \in OfKey(f, L, k, h[SlotOf[k]])
    BY <1>1, <1>3, SMT DEF OfKey
  <2>2. ASSUME NEW o
        PROVE  o \in OfKey(f, M, k, h[SlotOf[k]]) <=> o \in OfKey(f, L, k, h[SlotOf[k]])
    BY <1>1, <1>3 DEF OfKey
  <2> QED
    BY <2>1, <2>2
<1>7. ASSUME NEW s \in Slots
      PROVE  IsTop(OfSlot(f, L, s, h[s]), h[s]) /\ (h[s] = 0 \/ h[s] \in OfSlot(f, L, s, h[s]))
  <2>1. CASE h[s] = 0
    <3>1. OfSlot(f, L, s, 0) = {}
      BY <1>1, SMT DEF OfSlot
    <3> QED
      BY <2>1, <3>1, TopOfNone
  <2>2. CASE h[s] \in OfSlot(f, L, s, Len(f))
    <3>1. h[s] \in OfSlot(f, L, s, h[s])
      BY <2>2, SMT DEF OfSlot
    <3>2. \A p \in OfSlot(f, L, s, h[s]) : p <= h[s]
      BY DEF OfSlot
    <3> QED
      BY <3>1, <3>2 DEF IsTop
  <2> QED
    BY <2>1, <2>2
<1>8. Heads(f, M, h, Len(f)) /\ \A s \in Slots : h[s] = 0 \/ h[s] \in OfSlot(f, M, s, Len(f))
  BY <1>5, <1>7 DEF Heads
<1>9. ASSUME NEW o \in 1..Len(f), o \notin M
      PROVE  f[o].key \in Keys /\ IsTop(OfSlot(f, M, SlotOf[f[o].key], o - 1), f[o].next)
  <2> DEFINE s == SlotOf[f[o].key]
  <2>1. o \notin L /\ o <= h[s]
    BY <1>3, <1>9
  <2>2. f[o].key \in Keys /\ IsTop(OfSlot(f, L, s, o - 1), f[o].next)
    BY <2>1 DEF Chain
  <2>3. s \in Slots /\ h[s] \in Nat
    BY <1>1, <2>2
  <2> HIDE DEF s
  <2>4. ASSUME NEW p PROVE p \in OfSlot(f, M, s, o - 1) <=> p \in OfSlot(f, L, s, o - 1)
    BY <1>1, <1>3, <2>1, <2>3, SMT DEF OfSlot
  <2>5. OfSlot(f, M, s, o - 1) = OfSlot(f, L, s, o - 1)
    BY <2>4
  <2> QED
    BY <2>2, <2>5 DEF s
<1>10. Chain(f, M)
  BY <1>9 DEF Chain
<1> QED
  BY <1>4, <1>6, <1>8, <1>10 DEF M

-----------------------------------------------------------------------------
(* The inductive invariant *)

\* The length of the data region that readers may reach.
Visible == IF w.pc = "written" THEN Len(file) - 1 ELSE Len(file)

Swapped == cpc \in {"renamed", "closed"}

Types ==
  /\ open \in BOOLEAN /\ file \in Seq(Entry) /\ lost \in SUBSET (1..Len(file))
  /\ table \in [Slots -> Nat] /\ buckets \in [Slots -> Nat]
  /\ cur \in [Keys -> Nat] /\ sav \in [Keys -> Nat]
  /\ w \in [pc : {"idle", "written", "published"}, key : Keys \cup {NoKey}]
  /\ cpc \in {"idle", "copy", "renamed", "closed"} /\ todo \in SUBSET Keys
  /\ found \in [Keys -> Nat] /\ tmp \in Tmps /\ tmp.lost \in SUBSET (1..Len(tmp.file))
  /\ get \in [Readers -> [pc : {"idle", "walk", "done"}, key : Keys \cup {NoKey}, off : Nat,
                          val : Nat, due : Nat]]
  /\ nwrites \in Nat

\* Who may be at work together.
Phases ==
  /\ w.pc # "idle" => w.key \in Keys
  /\ w.pc = "written" => /\ Len(file) >= 1 /\ Len(file) \notin lost
                         /\ file[Len(file)].key = w.key
  /\ cpc # "idle" => open /\ w.pc = "idle" /\ \A p \in Readers : get[p].pc = "idle"
  /\ ~open => w.pc = "idle" /\ \A p \in Readers : get[p].pc = "idle"

\* The file and what is in memory of it.
InMemory ==
  /\ Chain(file, lost)
  /\ Heads(file, lost, buckets, Visible) /\ Newest(file, lost, cur, Visible)

\* The bucket table in the file.
OnDisk ==
  /\ \A s \in Slots : /\ table[s] <= buckets[s]
                      /\ table[s] = 0 \/ table[s] \in OfSlot(file, lost, s, Visible)
  /\ ~Swapped => \A k \in Keys : IsTop(OfKey(file, lost, k, table[SlotOf[k]]), sav[k])

\* The file Compact builds.
InTmpFile ==
  /\ Chain(tmp.file, tmp.lost) /\ Heads(tmp.file, tmp.lost, tmp.table, Len(tmp.file))
  /\ Swapped => Newest(tmp.file, tmp.lost, sav, Len(tmp.file))
  /\ cpc = "copy" => todo \subseteq FoundKeys

\* A reader has the newest entry of its key still in front of it.
Walking(f, L, g) ==
  /\ g.key \in Keys /\ g.val = 0
  /\ g.off = 0 \/ g.off \in OfSlot(f, L, SlotOf[g.key], Len(f))
  /\ IsTop(OfKey(f, L, g.key, g.off), g.due)

Walks == \A p \in Readers : get[p].pc = "walk" => Walking(file, lost, get[p])

IndexInv == Types /\ Phases /\ InMemory /\ OnDisk /\ InTmpFile /\ Walks

LEMMA EmptyFile ==
  /\ Chain(<<>>, {}) /\ Heads(<<>>, {}, Empty, 0) /\ Heads(<<>>, {}, Empty, Len(<<>>))
  /\ \A k, n : OfKey(<<>>, {}, k, n) = {}
  /\ Empty \in [Slots -> Nat] /\ Nothing \in [Keys -> Nat]
  /\ NoTmp \in Tmps /\ NoTmp.file = <<>> /\ NoTmp.lost = {} /\ NoTmp.table = Empty
  /\ NoTmp.lost \in SUBSET (1..Len(NoTmp.file))
<1>1. Len(<<>>) = 0 /\ <<>> \in Seq(Entry)
  BY SMT
<1>2. \A k, n : OfKey(<<>>, {}, k, n) = {} /\ OfSlot(<<>>, {}, k, n) = {}
  BY <1>1, SMT DEF OfKey, OfSlot
<1>3. Chain(<<>>, {})
  BY <1>1, SMT DEF Chain
<1>4. \A s \in Slots : Empty[s] = 0
  BY DEF Empty
<1>5. Empty \in [Slots -> Nat] /\ Nothing \in [Keys -> Nat]
  BY DEF Empty, Nothing
<1>6. NoTmp \in Tmps
  <2>1. {} \in SUBSET Nat /\ 0 \in Nat
    OBVIOUS
  <2> HIDE DEF Empty, Nothing
  <2> QED
    BY <1>1, <1>5, <2>1 DEF NoTmp, Tmps
<1>7. NoTmp.file = <<>> /\ NoTmp.lost = {} /\ NoTmp.table = Empty
  BY DEF NoTmp
<1> QED
  BY <1>1, <1>2, <1>3, <1>4, <1>5, <1>6, <1>7, TopOfNone DEF Heads

LEMMA InitIndexInv == Init => IndexInv
<1> SUFFICES ASSUME Init PROVE IndexInv
  OBVIOUS
<1>1. /\ open = FALSE /\ file = <<>> /\ table = Empty /\ buckets = Empty /\ w = IdleWriter
      /\ get = [p \in Readers |-> IdleGet] /\ cpc = "idle" /\ todo = {} /\ tmp = NoTmp
      /\ nwrites = 0 /\ lost = {} /\ found = Nothing
      /\ cur = [k \in Keys |-> 0] /\ sav = [k \in Keys |-> 0]
  BY DEF Init, Nothing
<1>2. w.pc = "idle" /\ w \in [pc : {"idle", "written", "published"}, key : Keys \cup {NoKey}]
  BY <1>1 DEF IdleWriter
<1>3. /\ get \in [Readers -> [pc : {"idle", "walk", "done"}, key : Keys \cup {NoKey}, off : Nat,
                             val : Nat, due : Nat]]
      /\ \A p \in Readers : get[p].pc = "idle"
  BY <1>1 DEF IdleGet
<1>4. Types
  <2>1. <<>> \in Seq(Entry)
    BY SMT
  <2> QED
    BY <1>1, <1>2, <1>3, <2>1, EmptyFile DEF Types
<1>5. Visible = 0 /\ ~Swapped
  BY <1>1, <1>2 DEF Visible, Swapped
<1>6. Phases /\ Walks
  BY <1>1, <1>2, <1>3 DEF Phases, Walks
<1>7. Newest(file, lost, cur, 0)
  BY <1>1, EmptyFile, TopOfNone DEF Newest
<1>8. InMemory
  BY <1>1, <1>5, <1>7, EmptyFile DEF InMemory
<1>9. \A s \in Slots : table[s] = 0 /\ buckets[s] = 0
  BY <1>1 DEF Empty
<1>10. \A k \in Keys : IsTop(OfKey(file, lost, k, table[SlotOf[k]]), sav[k])
  BY <1>1, EmptyFile, TopOfNone
<1>11. OnDisk
  BY <1>5, <1>9, <1>10, SMT DEF OnDisk
<1>12. InTmpFile
  <2>1. tmp.file = <<>> /\ tmp.table = Empty /\ tmp.lost = {}
    BY <1>1, EmptyFile
  <2> QED
    BY <1>1, <1>5, <2>1, EmptyFile DEF InTmpFile
<1> QED
  BY <1>4, <1>6, <1>8, <1>11, <1>12 DEF IndexInv

-----------------------------------------------------------------------------
(* Get *)

core == <<open, file, lost, table, buckets, cur, sav, w, cpc, found, todo, tmp, entryCount>>

LEMMA CoreKeeps ==
  ASSUME IndexInv, UNCHANGED core
  PROVE  /\ InMemory' /\ OnDisk' /\ InTmpFile'
         /\ UNCHANGED get /\ nwrites' \in Nat => IndexInv'
<1>a. /\ file' = file /\ lost' = lost /\ table' = table /\ buckets' = buckets /\ cur' = cur
      /\ sav' = sav /\ w' = w /\ cpc' = cpc /\ todo' = todo /\ tmp' = tmp /\ found' = found
      /\ entryCount' = entryCount
  BY DEF core
<1>b. Visible' = Visible /\ Swapped' = Swapped
  BY <1>a DEF Visible, Swapped
<1>c. FoundKeys' = FoundKeys
  BY <1>a DEF FoundKeys
<1>d. InMemory' /\ OnDisk'
  BY <1>a, <1>b DEF IndexInv, InMemory, OnDisk
<1>1. InMemory' /\ OnDisk' /\ InTmpFile'
  BY <1>a, <1>b, <1>c, <1>d DEF IndexInv, InTmpFile
<1>2. ASSUME UNCHANGED get, nwrites' \in Nat PROVE Types' /\ Phases' /\ Walks'
  BY <1>2 DEF core, IndexInv, Types, Phases, Walks
<1> QED
  BY <1>1, <1>2 DEF IndexInv

LEMMA LoadKeeps ==
  ASSUME IndexInv, NEW p \in Readers, NEW k \in Keys, Load(p, k)
  PROVE  IndexInv'
<1> DEFINE g == [pc |-> "walk", key |-> k, off |-> buckets[SlotOf[k]], val |-> 0, due |-> cur[k]]
<1>1. Types /\ Phases /\ InMemory /\ Walks
  BY DEF IndexInv
<1>2. UNCHANGED core /\ UNCHANGED nwrites /\ get' = [get EXCEPT ![p] = g] /\ open /\ cpc = "idle"
  BY DEF Load, core, fileVars, memVars, compactVars, counters, history
<1>3. SlotOf[k] \in Slots
  BY SlotFacts
<1>4. buckets[SlotOf[k]] \in Nat /\ cur[k] \in Nat /\ file \in Seq(Entry) /\ Len(file) \in Nat
  BY <1>1, <1>3, SMT DEF Types
<1>5. Visible \in Nat /\ Visible <= Len(file)
  BY <1>1, <1>4, SMT DEF Visible, Phases
<1>6. IsTop(OfSlot(file, lost, SlotOf[k], Visible), buckets[SlotOf[k]])
  BY <1>1, <1>3 DEF InMemory, Heads
<1>7. OfKey(file, lost, k, buckets[SlotOf[k]]) = OfKey(file, lost, k, Visible)
  BY <1>4, <1>5, <1>6, KeyInSlot
<1>8. IsTop(OfKey(file, lost, k, buckets[SlotOf[k]]), cur[k])
  BY <1>1, <1>7 DEF InMemory, Newest
<1>9. buckets[SlotOf[k]] = 0 \/ buckets[SlotOf[k]] \in OfSlot(file, lost, SlotOf[k], Len(file))
  BY <1>4, <1>5, <1>6, SMTT(30) DEF IsTop, OfSlot
<1>10. Walking(file, lost, g)
  BY <1>8, <1>9 DEF Walking
<1>11. g \in [pc : {"idle", "walk", "done"}, key : Keys \cup {NoKey}, off : Nat, val : Nat, due : Nat]
  BY <1>4
<1> HIDE DEF g
<1>12. get' \in [Readers -> [pc : {"idle", "walk", "done"}, key : Keys \cup {NoKey}, off : Nat,
                             val : Nat, due : Nat]]
  BY <1>1, <1>2, <1>11 DEF Types
<1>13. Types'
  BY <1>1, <1>2, <1>12 DEF Types, core
<1>14. Phases'
  BY <1>1, <1>2 DEF Phases, core
<1>15. \A q \in Readers : get'[q] = IF q = p THEN g ELSE get[q]
  BY <1>1, <1>2 DEF Types
<1>16. Walks'
  BY <1>1, <1>2, <1>10, <1>15 DEF Walks, core
<1> QED
  BY <1>2, <1>13, <1>14, <1>16, CoreKeeps DEF IndexInv

\* One entry further, or the answer: it is the entry that was due.
LEMMA WalkKeeps ==
  ASSUME IndexInv, NEW p \in Readers, Walk(p)
  PROVE  /\ IndexInv'
         /\ get'[p].pc = "walk" => get'[p].due = get[p].due
         /\ get'[p].pc # "walk" => get'[p].pc = "done" /\ get'[p].val = Val(file, get[p].due)
         /\ \A q \in Readers : q # p => get'[q] = get[q]
<1> DEFINE g == get[p]
           G == [pc : {"idle", "walk", "done"}, key : Keys \cup {NoKey}, off : Nat,
                 val : Nat, due : Nat]
           h == IF g.off = 0 THEN [g EXCEPT !.pc = "done"]
                ELSE IF Matches(g) THEN [g EXCEPT !.pc = "done", !.val = file[g.off].val]
                ELSE [g EXCEPT !.off = NextOff(g)]
<1>1. Types /\ Phases /\ InMemory /\ Walks /\ g \in G /\ file \in Seq(Entry) /\ get \in [Readers -> G]
  BY DEF IndexInv, Types
<1>2. UNCHANGED core /\ UNCHANGED nwrites /\ get' = [get EXCEPT ![p] = h] /\ g.pc = "walk"
  BY DEF Walk, core, fileVars, memVars, compactVars, counters, history
<1>3. Walking(file, lost, g) /\ Chain(file, lost)
  BY <1>1, <1>2 DEF Walks, InMemory
<1>4. g.key \in Keys /\ g.off \in Nat /\ g.due \in Nat /\ g.val \in Nat
  BY <1>1, <1>3 DEF Walking
<1>5. /\ h \in G /\ h.due = g.due
      /\ h.pc = "walk" => Walking(file, lost, h)
      /\ h.pc # "walk" => h.pc = "done" /\ h.val = Val(file, g.due)
  <2>1. CASE g.off = 0
    <3>1. h = [g EXCEPT !.pc = "done"]
      BY <2>1
    <3>2. OfKey(file, lost, g.key, 0) = {}
      BY <1>1, SMTT(30) DEF OfKey
    <3>3. g.due = 0
      BY <1>3, <2>1, <3>2 DEF Walking, IsTop
    <3>4. h \in G /\ h.due = g.due /\ h.pc = "done" /\ h.val = g.val
      BY <1>1, <3>1
    <3>5. h.val = Val(file, g.due)
      BY <1>3, <3>3, <3>4 DEF Val, Walking
    <3> QED
      BY <3>4, <3>5
  <2>2. CASE g.off # 0
    <3> DEFINE e == file[g.off]
    <3>1. g.off \in OfSlot(file, lost, SlotOf[g.key], Len(file))
      BY <1>3, <2>2 DEF Walking
    <3>2. e \in Entry
      BY <1>1, <3>1, SMTT(30) DEF OfSlot
    <3>3. /\ e.key = g.key => IsTop(OfKey(file, lost, g.key, g.off), g.off)
          /\ e.key # g.key => OfKey(file, lost, g.key, e.next) = OfKey(file, lost, g.key, g.off)
          /\ e.next = 0 \/ e.next \in OfSlot(file, lost, SlotOf[g.key], Len(file))
          /\ e.next \in Nat
      BY <1>1, <1>3, <1>4, <3>1, WalkOn
    <3>4. CASE Matches(g)
      <4>1. h = [g EXCEPT !.pc = "done", !.val = e.val]
        BY <2>2, <3>4
      <4>2. e.val \in Nat
        BY <3>2 DEF Entry
      <4>3. h \in G /\ h.due = g.due /\ h.pc = "done" /\ h.val = e.val
        BY <1>1, <4>1, <4>2
      <4>4. g.due = g.off
        <5>1. IsTop(OfKey(file, lost, g.key, g.off), g.off)
          BY <3>3, <3>4 DEF Matches
        <5>2. IsTop(OfKey(file, lost, g.key, g.off), g.due)
          BY <1>3 DEF Walking
        <5>3. OfKey(file, lost, g.key, g.off) \in SUBSET Nat
          BY <1>1, OfNat
        <5> QED
          BY <5>1, <5>2, <5>3, TopUnique
      <4>5. h.val = Val(file, g.due)
        BY <2>2, <4>3, <4>4 DEF Val
      <4> QED
        BY <4>3, <4>5
    <3>5. CASE ~Matches(g)
      <4>1. h = [g EXCEPT !.off = e.next]
        BY <2>2, <3>5 DEF NextOff
      <4>2. /\ h \in G /\ h.due = g.due /\ h.pc = "walk" /\ h.off = e.next /\ h.key = g.key
            /\ h.val = g.val
        BY <1>1, <1>2, <3>3, <4>1, ZenonT(30)
      <4> HIDE DEF h
      <4>3. IsTop(OfKey(file, lost, g.key, e.next), g.due)
        BY <1>3, <3>3, <3>5 DEF Walking, Matches
      <4>4. Walking(file, lost, h)
        BY <1>3, <3>3, <4>2, <4>3 DEF Walking
      <4> QED
        BY <4>2, <4>4
    <3> QED
      BY <3>4, <3>5
  <2> QED
    BY <2>1, <2>2
<1> HIDE DEF g, h, G
<1>6. get' \in [Readers -> G] /\ \A q \in Readers : get'[q] = IF q = p THEN h ELSE get[q]
  BY <1>1, <1>2, <1>5
<1>7. Types'
  BY <1>1, <1>2, <1>6 DEF Types, core, G
<1>8. open /\ cpc = "idle"
  BY <1>1, <1>2 DEF Phases, Types, g
<1>9. Phases'
  BY <1>1, <1>2, <1>8 DEF Phases, core
<1>10. Walks'
  BY <1>1, <1>2, <1>5, <1>6 DEF Walks, core
<1>11. IndexInv'
  BY <1>2, <1>7, <1>9, <1>10, CoreKeeps DEF IndexInv
<1> QED
  BY <1>5, <1>6, <1>11 DEF g

LEMMA ReturnKeeps ==
  ASSUME IndexInv, NEW p \in Readers, Return(p)
  PROVE  IndexInv'
<1> DEFINE h == [IdleGet EXCEPT !.val = get[p].val]
           G == [pc : {"idle", "walk", "done"}, key : Keys \cup {NoKey}, off : Nat,
                 val : Nat, due : Nat]
<1>1. Types /\ Phases /\ Walks /\ get \in [Readers -> G]
  BY DEF IndexInv, Types
<1>2. UNCHANGED core /\ UNCHANGED nwrites /\ get' = [get EXCEPT ![p] = h]
  BY DEF Return, core, fileVars, memVars, compactVars, counters, history
<1>3. h \in G /\ h.pc = "idle"
  BY <1>1 DEF IdleGet
<1> HIDE DEF h, G
<1>4. get' \in [Readers -> G] /\ \A q \in Readers : get'[q] = IF q = p THEN h ELSE get[q]
  BY <1>1, <1>2, <1>3
<1>5. Types'
  BY <1>1, <1>2, <1>4 DEF Types, core, G
<1>6. Phases' /\ Walks'
  BY <1>1, <1>2, <1>3, <1>4 DEF Phases, Walks, core
<1> QED
  BY <1>2, <1>5, <1>6, CoreKeeps DEF IndexInv

-----------------------------------------------------------------------------
(* Set and Delete *)

LEMMA VisibleFacts ==
  ASSUME IndexInv
  PROVE  /\ Visible \in Nat /\ Visible <= Len(file) /\ Len(file) \in Nat
         /\ w.pc # "written" => Visible = Len(file)
         /\ w.pc = "written" => Visible = Len(file) - 1
<1>1. file \in Seq(Entry) /\ (w.pc = "written" => Len(file) >= 1)
  BY DEF IndexInv, Types, Phases
<1>2. Len(file) \in Nat
  BY <1>1, SMT
<1> QED
  BY <1>1, <1>2, SMT DEF Visible

LEMMA WalksOn ==
  ASSUME IndexInv, NEW e \in Entry, file' = Append(file, e), lost' = lost, get' = get
  PROVE  Walks'
<1>1. file \in Seq(Entry) /\ lost \in SUBSET (1..Len(file)) /\ Walks
  BY DEF IndexInv, Types
<1>2. Len(file) \in Nat /\ Len(file') = Len(file) + 1
  BY <1>1, AppendFacts
<1> SUFFICES ASSUME NEW p \in Readers, get[p].pc = "walk" PROVE Walking(file', lost, get[p])
  BY DEF Walks
<1> DEFINE g == get[p]
<1>3. Walking(file, lost, g)
  BY <1>1 DEF Walks
<1> HIDE DEF g
<1>4. g.off \in 0..Len(file) /\ Len(file) \in 0..Len(file)
  BY <1>2, <1>3, SMT DEF Walking, OfSlot
<1>5. OfKey(file', lost, g.key, g.off) = OfKey(file, lost, g.key, g.off)
  BY <1>1, <1>4, AppendOf
<1>6. OfSlot(file', lost, SlotOf[g.key], Len(file)) = OfSlot(file, lost, SlotOf[g.key], Len(file))
  BY <1>1, <1>4, AppendOf
<1>7. OfSlot(file', lost, SlotOf[g.key], Len(file))
        \subseteq OfSlot(file', lost, SlotOf[g.key], Len(file'))
  BY <1>2, SMT DEF OfSlot
<1> QED
  BY <1>3, <1>5, <1>6, <1>7 DEF Walking, g

LEMMA AppendEntryKeeps ==
  ASSUME IndexInv, NEW k \in Keys, NEW val \in Nat, NEW count, Append1(k, val, count)
  PROVE  IndexInv'
<1> DEFINE e == NewEntry(k, val)
<1>1. /\ Types /\ Phases /\ InMemory /\ OnDisk /\ InTmpFile
      /\ file \in Seq(Entry) /\ lost \in SUBSET (1..Len(file)) /\ buckets \in [Slots -> Nat]
      /\ table \in [Slots -> Nat]
  BY DEF IndexInv, Types
<1>2. /\ open /\ w.pc = "idle" /\ cpc = "idle" /\ nwrites' = nwrites + 1
      /\ file' = Append(file, e) /\ w' = [pc |-> "written", key |-> k]
      /\ UNCHANGED <<open, table, buckets, get, cpc, found, todo, tmp, cur, sav, lost>>
  BY DEF Append1, MayAppend, compactVars, history
<1>3. SlotOf[k] \in Slots
  BY SlotFacts
<1>4. e \in Entry /\ e.key = k /\ e.next = buckets[SlotOf[k]]
  BY <1>1, <1>3 DEF NewEntry, Entry
<1> HIDE DEF e
<1>5. Visible = Len(file) /\ Len(file) \in Nat
  BY <1>2, VisibleFacts
<1>6. /\ file' \in Seq(Entry) /\ Len(file') = Len(file) + 1 /\ file'[Len(file) + 1] = e
      /\ \A x : OfSlot(file', lost, x, Len(file)) = OfSlot(file, lost, x, Len(file))
      /\ \A x : OfKey(file', lost, x, Len(file)) = OfKey(file, lost, x, Len(file))
  <2>1. file' \in Seq(Entry) /\ Len(file') = Len(file) + 1 /\ file'[Len(file) + 1] = e
    BY <1>1, <1>2, <1>4, AppendFacts
  <2>2. Len(file) \in 0..Len(file)
    BY <1>5, SMT
  <2> QED
    BY <1>1, <1>2, <1>4, <2>1, <2>2, AppendOf, ZenonT(30)
<1>7. Visible' = Len(file)
  BY <1>2, <1>5, <1>6, SMT DEF Visible
<1>8. Types'
  <2>1. lost' \in SUBSET (1..Len(file'))
    BY <1>1, <1>2, <1>5, <1>6, SMT
  <2>2. w' \in [pc : {"idle", "written", "published"}, key : Keys \cup {NoKey}]
    BY <1>2
  <2>3. nwrites' \in Nat
    BY <1>1, <1>2, SMTT(30) DEF Types
  <2> QED
    BY <1>1, <1>2, <1>6, <2>1, <2>2, <2>3 DEF Types
<1>9. Phases'
  <2>1. Len(file') >= 1 /\ Len(file') \notin lost /\ file'[Len(file')].key = k
    BY <1>1, <1>4, <1>5, <1>6, SMT
  <2> QED
    BY <1>1, <1>2, <2>1 DEF Phases
<1>10. InMemory'
  <2>1. IsTop(OfSlot(file, lost, SlotOf[k], Len(file)), buckets[SlotOf[k]])
    BY <1>1, <1>3, <1>5 DEF InMemory, Heads
  <2>2. Chain(file', lost)
    BY <1>1, <1>2, <1>4, <2>1, AppendChain DEF InMemory
  <2>3. Heads(file', lost, buckets, Len(file)) /\ Newest(file', lost, cur, Len(file))
    BY <1>1, <1>5, <1>6 DEF InMemory, Heads, Newest
  <2> QED
    BY <1>2, <1>7, <2>2, <2>3 DEF InMemory
<1>11. OnDisk'
  <2>1. \A s \in Slots : table[s] \in Nat /\ table[s] <= Len(file)
    <3>1. ASSUME NEW s \in Slots PROVE table[s] = 0 \/ table[s] <= Len(file)
      <4>1. table[s] = 0 \/ table[s] \in OfSlot(file, lost, s, Len(file))
        BY <1>1, <1>5 DEF OnDisk
      <4> QED
        BY <4>1 DEF OfSlot
    <3> QED
      BY <1>1, <1>5, <3>1, SMT
  <2>2. ASSUME NEW x \in Keys
        PROVE  OfKey(file', lost, x, table[SlotOf[x]]) = OfKey(file, lost, x, table[SlotOf[x]])
    <3>1. table[SlotOf[x]] \in 0..Len(file)
      BY <1>5, <2>1, SlotFacts, SMT
    <3> QED
      BY <1>1, <1>2, <1>4, <3>1, AppendOf
  <2>3. Swapped' = Swapped
    BY <1>2 DEF Swapped
  <2> QED
    BY <1>1, <1>2, <1>5, <1>6, <1>7, <2>2, <2>3 DEF OnDisk
<1>12. InTmpFile'
  BY <1>1, <1>2 DEF InTmpFile, Swapped
<1>13. Walks'
  BY <1>2, <1>4, WalksOn
<1> QED
  BY <1>8, <1>9, <1>10, <1>11, <1>12, <1>13 DEF IndexInv

LEMMA PublishKeeps ==
  ASSUME IndexInv, Publish
  PROVE  IndexInv'
<1> DEFINE n == Len(file)
<1>1. /\ Types /\ Phases /\ InMemory /\ OnDisk /\ InTmpFile /\ Walks
      /\ file \in Seq(Entry) /\ buckets \in [Slots -> Nat] /\ table \in [Slots -> Nat]
      /\ cur \in [Keys -> Nat] /\ w \in [pc : {"idle", "written", "published"}, key : Keys \cup {NoKey}]
  BY DEF IndexInv, Types
<1>2. /\ w.pc = "written" /\ w' = [w EXCEPT !.pc = "published"]
      /\ buckets' = [buckets EXCEPT ![SlotOf[w.key]] = n] /\ cur' = [cur EXCEPT ![w.key] = n]
      /\ UNCHANGED <<open, file, table, get, cpc, found, todo, tmp, nwrites, sav, lost>>
  BY DEF Publish, fileVars, compactVars, counters
<1>3. w.key \in Keys /\ n >= 1 /\ n \notin lost /\ file[n].key = w.key /\ cpc = "idle" /\ open
  BY <1>1, <1>2 DEF Phases, Types
<1>4. Visible = n - 1 /\ n \in Nat
  BY <1>2, VisibleFacts
<1>5. w'.pc = "published" /\ w'.key = w.key
      /\ w' \in [pc : {"idle", "written", "published"}, key : Keys \cup {NoKey}]
  BY <1>1, <1>2
<1>6. Visible' = n
  BY <1>2, <1>5 DEF Visible
<1>7. SlotOf[w.key] \in Slots
  BY <1>3, SlotFacts
<1>8. /\ \A s : SlotOf[w.key] = s => IsTop(OfSlot(file, lost, s, n), n)
      /\ \A s : SlotOf[w.key] # s => OfSlot(file, lost, s, n) = OfSlot(file, lost, s, n - 1)
      /\ \A k : w.key = k => IsTop(OfKey(file, lost, k, n), n)
      /\ \A k : w.key # k => OfKey(file, lost, k, n) = OfKey(file, lost, k, n - 1)
  BY <1>1, <1>3, PublishTop
<1> HIDE DEF n
<1>9. Types'
  BY <1>1, <1>2, <1>4, <1>5, ZenonT(30) DEF Types
<1>10. Phases'
  BY <1>1, <1>2, <1>3, <1>5 DEF Phases
<1>11. Heads(file, lost, buckets', n)
  BY <1>1, <1>2, <1>4, <1>8 DEF InMemory, Heads
<1>12. Newest(file, lost, cur', n)
  BY <1>1, <1>2, <1>4, <1>8 DEF InMemory, Newest
<1>13. InMemory'
  BY <1>1, <1>2, <1>6, <1>11, <1>12 DEF InMemory
<1>14. ASSUME NEW s \in Slots
       PROVE  table[s] <= buckets'[s] /\ (table[s] = 0 \/ table[s] \in OfSlot(file, lost, s, n))
  <2>1. table[s] <= buckets[s] /\ (table[s] = 0 \/ table[s] \in OfSlot(file, lost, s, n - 1))
    BY <1>1, <1>4 DEF OnDisk
  <2>2. OfSlot(file, lost, s, n - 1) \subseteq OfSlot(file, lost, s, n)
    <3>1. ASSUME NEW o \in OfSlot(file, lost, s, n - 1) PROVE o \in OfSlot(file, lost, s, n)
      <4>1. o \in 1..Len(file) /\ o <= n - 1
        BY DEF OfSlot
      <4>2. o <= n
        BY <1>4, <4>1, SMT
      <4> QED
        BY <4>2 DEF OfSlot
    <3> QED
      BY <3>1
  <2>3. table[s] <= n
    BY <1>4, <2>1, SMT DEF OfSlot
  <2> QED
    BY <1>1, <1>2, <2>1, <2>2, <2>3
<1>15. OnDisk'
  BY <1>1, <1>2, <1>6, <1>14 DEF OnDisk, Swapped
<1>16. InTmpFile' /\ Walks'
  BY <1>1, <1>2, <1>3 DEF InTmpFile, Walks, Swapped
<1> QED
  BY <1>9, <1>10, <1>13, <1>15, <1>16 DEF IndexInv

LEMMA PersistKeeps ==
  ASSUME IndexInv, PersistBucket
  PROVE  IndexInv'
<1> DEFINE s == SlotOf[w.key]
<1>1. /\ Types /\ Phases /\ InMemory /\ OnDisk /\ InTmpFile /\ Walks
      /\ file \in Seq(Entry) /\ buckets \in [Slots -> Nat] /\ table \in [Slots -> Nat]
      /\ cur \in [Keys -> Nat] /\ sav \in [Keys -> Nat]
  BY DEF IndexInv, Types
<1>2. /\ w.pc = "published" /\ w' = IdleWriter
      /\ UNCHANGED <<open, file, buckets, get, cpc, found, todo, tmp, nwrites, cur, lost>>
  BY DEF PersistBucket, compactVars, counters
<1>3. w.key \in Keys /\ cpc = "idle" /\ s \in Slots
  BY <1>1, <1>2, SlotFacts DEF Phases, Types
<1>4. /\ w'.pc = "idle"
      /\ w' \in [pc : {"idle", "written", "published"}, key : Keys \cup {NoKey}]
  BY <1>2 DEF IdleWriter
<1>5. Visible = Len(file) /\ Visible' = Len(file) /\ Len(file) \in Nat
  BY <1>2, <1>4, VisibleFacts DEF Visible
<1>6. InMemory' /\ Phases' /\ Walks' /\ InTmpFile'
  BY <1>1, <1>2, <1>3, <1>4, <1>5 DEF InMemory, Phases, Walks, InTmpFile, Swapped
<1>7. CASE UNCHANGED <<table, sav>>
  <2>1. Types'
    BY <1>1, <1>2, <1>4, <1>7 DEF Types
  <2>2. OnDisk'
    BY <1>1, <1>2, <1>5, <1>7 DEF OnDisk, Swapped
  <2> QED
    BY <1>6, <2>1, <2>2 DEF IndexInv
<1>8. CASE /\ table' = [table EXCEPT ![s] = buckets[s]]
           /\ sav' = [k \in Keys |-> IF SlotOf[k] = s THEN cur[k] ELSE sav[k]]
  <2> HIDE DEF s
  <2>1. Types'
    BY <1>1, <1>2, <1>3, <1>4, <1>8 DEF Types
  <2>2. ASSUME NEW x \in Slots
        PROVE  table'[x] <= buckets[x] /\ (table'[x] = 0 \/ table'[x] \in OfSlot(file, lost, x, Visible))
    <3>1. CASE x = s
      <4>1. table'[x] = buckets[x] /\ buckets[x] \in Nat
        BY <1>1, <1>8, <3>1
      <4>2. IsTop(OfSlot(file, lost, x, Visible), buckets[x])
        BY <1>1 DEF InMemory, Heads
      <4> QED
        BY <4>1, <4>2, SMT DEF IsTop
    <3>2. CASE x # s
      BY <1>1, <1>8, <3>2 DEF OnDisk
    <3> QED
      BY <3>1, <3>2
  <2>3. ASSUME NEW k \in Keys PROVE IsTop(OfKey(file, lost, k, table'[SlotOf[k]]), sav'[k])
    <3>0. SlotOf[k] \in Slots
      BY SlotFacts
    <3>1. CASE SlotOf[k] = s
      <4>1. table'[SlotOf[k]] = buckets[SlotOf[k]] /\ sav'[k] = cur[k] /\ buckets[SlotOf[k]] \in Nat
        BY <1>1, <1>8, <3>0, <3>1
      <4>2. IsTop(OfSlot(file, lost, SlotOf[k], Visible), buckets[SlotOf[k]])
        BY <1>1, <3>0 DEF InMemory, Heads
      <4>3. OfKey(file, lost, k, buckets[SlotOf[k]]) = OfKey(file, lost, k, Visible)
        BY <1>1, <1>5, <4>1, <4>2, KeyInSlot
      <4> QED
        BY <1>1, <4>1, <4>3 DEF InMemory, Newest
    <3>2. CASE SlotOf[k] # s
      <4>1. table'[SlotOf[k]] = table[SlotOf[k]] /\ sav'[k] = sav[k]
        BY <1>1, <1>8, <3>0, <3>2
      <4> QED
        BY <1>1, <1>3, <4>1 DEF OnDisk, Swapped
    <3> QED
      BY <3>1, <3>2
  <2>4. OnDisk'
    BY <1>2, <1>5, <2>2, <2>3 DEF OnDisk
  <2> QED
    BY <1>6, <2>1, <2>4 DEF IndexInv
<1> QED
  BY <1>7, <1>8 DEF PersistBucket

-----------------------------------------------------------------------------
(* Compact *)

\* The file, the map in memory and who is at work, while Compact copies.
LEMMA CompactKeeps1 ==
  ASSUME IndexInv, cpc # "idle",
         UNCHANGED <<open, file, lost, table, buckets, cur, w, get, nwrites>>
  PROVE  /\ Phases' /\ Walks' /\ InMemory'
         /\ ~Swapped /\ UNCHANGED sav => OnDisk'
         /\ Swapped' => OnDisk'
<1>1. Types /\ Phases /\ InMemory /\ OnDisk /\ Walks
  BY DEF IndexInv
<1>2. open /\ w.pc = "idle" /\ \A p \in Readers : get[p].pc = "idle"
  BY <1>1 DEF Phases
<1>3. Visible' = Visible
  BY DEF Visible
<1>4. Phases' /\ Walks' /\ InMemory'
  BY <1>1, <1>2, <1>3, ZenonT(30) DEF Phases, Walks, InMemory
<1>5. ASSUME (~Swapped /\ UNCHANGED sav) \/ Swapped' PROVE OnDisk'
  BY <1>1, <1>3, <1>5 DEF OnDisk
<1> QED
  BY <1>4, <1>5

LEMMA CompactFailsKeeps ==
  ASSUME IndexInv, CompactFails
  PROVE  IndexInv'
<1>1. Types
  BY DEF IndexInv
<1>2. /\ cpc = "copy" /\ cpc' = "idle" /\ found' = Nothing /\ todo' = {} /\ tmp' = NoTmp
      /\ UNCHANGED <<open, file, lost, table, buckets, cur, sav, w, get, entryCount, nwrites>>
  BY DEF CompactFails, fileVars, memVars, counters, history
<1>3. Types'
  BY <1>1, <1>2, EmptyFile DEF Types
<1>4. Phases' /\ Walks' /\ InMemory' /\ OnDisk' /\ ~Swapped'
  BY <1>2, CompactKeeps1 DEF Swapped
<1>5. tmp'.file = <<>> /\ tmp'.table = Empty /\ tmp'.lost = {}
  BY <1>2, EmptyFile
<1>6. InTmpFile'
  BY <1>2, <1>4, <1>5, EmptyFile DEF InTmpFile
<1> QED
  BY <1>3, <1>4, <1>6 DEF IndexInv

LEMMA CompactCloseKeeps ==
  ASSUME IndexInv, CompactClose
  PROVE  IndexInv'
<1>1. Types /\ InTmpFile
  BY DEF IndexInv
<1>2. /\ cpc = "renamed" /\ cpc' = "closed"
      /\ UNCHANGED <<open, file, lost, table, buckets, cur, sav, w, get, nwrites, found, todo, tmp>>
  BY DEF CompactClose, fileVars, memVars, counters, history
<1>3. Types' /\ Swapped /\ Swapped'
  BY <1>1, <1>2 DEF Types, Swapped
<1>4. Phases' /\ Walks' /\ InMemory' /\ OnDisk'
  BY <1>2, <1>3, CompactKeeps1
<1>5. InTmpFile'
  BY <1>1, <1>2, <1>3 DEF InTmpFile
<1> QED
  BY <1>3, <1>4, <1>5 DEF IndexInv

\* The new file takes the place of the old one.
LEMMA NewFileKeeps ==
  ASSUME IndexInv, Swapped, w'.pc = "idle",
         file' = tmp.file, table' = tmp.table, buckets' = tmp.table, lost' = tmp.lost, cur' = sav, sav' = sav
  PROVE  InMemory' /\ OnDisk'
<1> DEFINE f == tmp.file
           h == tmp.table
           L == tmp.lost
<1>1. f \in Seq(Entry) /\ h \in [Slots -> Nat]
  BY DEF IndexInv, Types, Tmps
<1>2. Chain(f, L) /\ Heads(f, L, h, Len(f)) /\ Newest(f, L, sav, Len(f))
  BY DEF IndexInv, InTmpFile
<1>3. file' = f /\ table' = h /\ buckets' = h /\ lost' = L
  OBVIOUS
<1> HIDE DEF f, h, L
<1>4. Visible' = Len(f) /\ Len(f) \in Nat
  BY <1>1, <1>3, SMT DEF Visible
<1>5. InMemory'
  BY <1>2, <1>3, <1>4 DEF InMemory
<1>6. ASSUME NEW s \in Slots PROVE h[s] <= h[s] /\ (h[s] = 0 \/ h[s] \in OfSlot(f, L, s, Len(f)))
  BY <1>1, <1>2, SMTT(30) DEF Heads, IsTop
<1>7. ASSUME NEW k \in Keys PROVE IsTop(OfKey(f, L, k, h[SlotOf[k]]), sav[k])
  <2>1. SlotOf[k] \in Slots /\ h[SlotOf[k]] \in Nat
    BY <1>1, SlotFacts
  <2>2. IsTop(OfSlot(f, L, SlotOf[k], Len(f)), h[SlotOf[k]])
    BY <1>2, <2>1 DEF Heads
  <2>3. OfKey(f, L, k, h[SlotOf[k]]) = OfKey(f, L, k, Len(f))
    BY <1>1, <1>4, <2>1, <2>2, KeyInSlot
  <2> QED
    BY <1>2, <2>3 DEF Newest
<1>8. OnDisk'
  BY <1>3, <1>4, <1>6, <1>7 DEF OnDisk
<1> QED
  BY <1>5, <1>8

LEMMA CompactReopenKeeps ==
  ASSUME IndexInv, CompactReopen
  PROVE  IndexInv'
<1>1. Types /\ Phases
  BY DEF IndexInv
<1>2. /\ cpc = "closed" /\ cpc' = "idle" /\ file' = tmp.file /\ table' = tmp.table
      /\ buckets' = tmp.table /\ tmp' = NoTmp /\ cur' = sav /\ lost' = tmp.lost
      /\ found' = Nothing
      /\ UNCHANGED <<open, w, get, todo, nwrites, sav>>
  BY DEF CompactReopen, counters
<1>3. open /\ w.pc = "idle" /\ w'.pc = "idle" /\ \A p \in Readers : get[p].pc = "idle"
  BY <1>1, <1>2 DEF Phases
<1>4. InMemory' /\ OnDisk'
  BY <1>2, <1>3, NewFileKeeps DEF Swapped
<1>5. Types'
  <2>1. tmp.file \in Seq(Entry) /\ tmp.table \in [Slots -> Nat] /\ tmp.lost \in SUBSET (1..Len(tmp.file))
    BY <1>1 DEF Types, Tmps
  <2> QED
    BY <1>1, <1>2, <2>1, EmptyFile DEF Types
<1>6. Phases' /\ Walks'
  BY <1>2, <1>3 DEF Phases, Walks
<1>7. tmp'.file = <<>> /\ tmp'.table = Empty /\ tmp'.lost = {} /\ ~Swapped'
  BY <1>2, EmptyFile DEF Swapped
<1>8. InTmpFile'
  BY <1>2, <1>7, EmptyFile DEF InTmpFile
<1> QED
  BY <1>4, <1>5, <1>6, <1>8 DEF IndexInv

-----------------------------------------------------------------------------
(* Crash and open *)

LEMMA TmpEntryTyped ==
  ASSUME IndexInv, NEW k \in Keys
  PROVE  TmpEntry(k) \in Entry /\ TmpEntry(k).key = k /\ TmpEntry(k).next = tmp.table[SlotOf[k]]
<1>1. found[k] \in Nat /\ tmp.table[SlotOf[k]] \in Nat
  BY SlotFacts DEF IndexInv, Types, Tmps
<1> QED
  BY <1>1 DEF TmpEntry, Entry

\* Whatever a dying Compact leaves in index.hash.tmp, its chains are in order.
LEMMA TmpLeftKeeps ==
  ASSUME IndexInv, NEW t \in TmpLeft
  PROVE  /\ t \in Tmps /\ t.lost \in SUBSET (1..Len(t.file))
         /\ Chain(t.file, t.lost) /\ Heads(t.file, t.lost, t.table, Len(t.file))
<1> DEFINE With(e) == [tmp EXCEPT !.file = Append(tmp.file, e), !.lost = tmp.lost \cup {Len(tmp.file) + 1},
                                  !.count = 0]
<1>1. /\ tmp \in Tmps /\ tmp.file \in Seq(Entry) /\ tmp.lost \in SUBSET (1..Len(tmp.file)) /\ Len(tmp.file) \in Nat
      /\ Chain(tmp.file, tmp.lost) /\ Heads(tmp.file, tmp.lost, tmp.table, Len(tmp.file))
      /\ todo \in SUBSET Keys
  <2>1. tmp.file \in Seq(Entry)
    BY DEF IndexInv, Types, Tmps
  <2>2. Len(tmp.file) \in Nat
    BY <2>1, SMT
  <2> QED
    BY <2>1, <2>2 DEF IndexInv, Types, InTmpFile
<1>2. t = tmp \/ t = [tmp EXCEPT !.count = 0] \/ \E e \in Entry : t = With(e)
  <2>1. Half \in Entry
    BY DEF Half, Entry
  <2>2. \A k \in todo : TmpEntry(k) \in Entry
    BY <1>1, TmpEntryTyped
  <2>3. t = tmp \/ t = [tmp EXCEPT !.count = 0] \/ t = With(Half) \/ \E k \in todo : t = With(TmpEntry(k))
    <3>1. CASE cpc # "copy"
      BY <3>1 DEF TmpLeft
    <3>2. CASE cpc = "copy"
      <4>1. \/ t \in {[tmp EXCEPT !.count = 0]} \/ t \in {tmp} \/ t \in {With(Half)}
            \/ t \in {With(TmpEntry(k)) : k \in todo}
        BY <3>2 DEF TmpLeft
      <4> QED
        BY <4>1
    <3> QED
      BY <3>1, <3>2
  <2> QED
    BY <2>1, <2>2, <2>3
<1>3. CASE t = tmp
  BY <1>1, <1>3
<1>4. CASE t = [tmp EXCEPT !.count = 0]
  <2>1. t \in Tmps /\ t.file = tmp.file /\ t.lost = tmp.lost /\ t.table = tmp.table
    BY <1>1, <1>4 DEF Tmps
  <2> QED
    BY <1>1, <2>1
<1>5. ASSUME NEW e \in Entry, t = With(e)
      PROVE  /\ t \in Tmps /\ t.lost \in SUBSET (1..Len(t.file))
             /\ Chain(t.file, t.lost) /\ Heads(t.file, t.lost, t.table, Len(t.file))
  <2> DEFINE g == Append(tmp.file, e)
             M == tmp.lost \cup {Len(tmp.file) + 1}
  <2>1. /\ Chain(g, M) /\ M \subseteq 1..Len(g)
        /\ \A x : OfSlot(g, M, x, Len(g)) = OfSlot(tmp.file, tmp.lost, x, Len(tmp.file))
    BY <1>1, AppendLost, ZenonT(30)
  <2>2. g \in Seq(Entry) /\ M \in SUBSET Nat
    BY <1>1, SMT
  <2> HIDE DEF g, M
  <2>3. t = [tmp EXCEPT !.file = g, !.lost = M, !.count = 0]
    BY <1>5 DEF g, M
  <2>4. t \in Tmps /\ t.file = g /\ t.lost = M /\ t.table = tmp.table
    BY <1>1, <2>2, <2>3 DEF Tmps
  <2>5. Heads(g, M, tmp.table, Len(g))
    BY <1>1, <2>1 DEF Heads
  <2> QED
    BY <2>1, <2>4, <2>5
<1> QED
  BY <1>2, <1>3, <1>4, <1>5

LEMMA HaltKeeps ==
  ASSUME IndexInv, NEW count, Halt(count)
  PROVE  IndexInv'
<1> DEFINE new == Swapped
           cut == {o \in 1..Len(file) : file[o].key # NoKey /\ o > table[SlotOf[file[o].key]]}
<1>1. /\ Types /\ InMemory /\ OnDisk /\ InTmpFile
      /\ file \in Seq(Entry) /\ lost \in SUBSET (1..Len(file)) /\ table \in [Slots -> Nat]
      /\ tmp.file \in Seq(Entry) /\ tmp.table \in [Slots -> Nat] /\ tmp.lost \in SUBSET (1..Len(tmp.file))
  BY DEF IndexInv, Types, Tmps
<1>2. /\ open' = FALSE /\ w' = IdleWriter /\ get' = [p \in Readers |-> IdleGet]
      /\ cpc' = "idle" /\ found' = Nothing /\ todo' = {} /\ cur' = sav /\ buckets' = table'
      /\ UNCHANGED <<nwrites, sav>>
  BY DEF Halt
<1>3. /\ file' = IF new THEN tmp.file ELSE file
      /\ table' = IF new THEN tmp.table ELSE table
      /\ new => tmp' = NoTmp
      /\ ~new => tmp' \in TmpLeft
      /\ lost' = IF new THEN tmp.lost ELSE lost \cup cut
  BY DEF Halt, Swapped
<1>4. /\ w'.pc = "idle"
      /\ w' \in [pc : {"idle", "written", "published"}, key : Keys \cup {NoKey}]
      /\ \A p \in Readers : get'[p].pc = "idle"
      /\ get' \in [Readers -> [pc : {"idle", "walk", "done"}, key : Keys \cup {NoKey}, off : Nat,
                               val : Nat, due : Nat]]
  BY <1>2 DEF IdleWriter, IdleGet
<1>5. Phases' /\ Walks' /\ ~Swapped'
  BY <1>2, <1>4 DEF Phases, Walks, Swapped
<1>6. CASE new
  <2>1. /\ file' = tmp.file /\ table' = tmp.table /\ buckets' = tmp.table /\ tmp' = NoTmp /\ lost' = tmp.lost
    BY <1>2, <1>3, <1>6
  <2>2. InMemory' /\ OnDisk'
    BY <1>2, <1>4, <1>6, <2>1, NewFileKeeps
  <2>3. Types'
    BY <1>1, <1>2, <1>4, <2>1, EmptyFile DEF Types
  <2>4. tmp'.file = <<>> /\ tmp'.table = Empty /\ tmp'.lost = {}
    BY <2>1, EmptyFile
  <2>5. InTmpFile'
    BY <1>2, <1>5, <2>4, EmptyFile DEF InTmpFile
  <2> QED
    BY <1>5, <2>2, <2>3, <2>5 DEF IndexInv
<1>7. CASE ~new
  <2> DEFINE M == lost \cup cut
  <2>1. /\ file' = file /\ table' = table /\ buckets' = table /\ lost' = M
        /\ tmp' \in TmpLeft
    BY <1>2, <1>3, <1>7
  <2>2. \A s \in Slots : table[s] = 0 \/ table[s] \in OfSlot(file, lost, s, Len(file))
    <3>1. Visible \in Nat /\ Visible <= Len(file) /\ Len(file) \in Nat
      BY VisibleFacts
    <3> QED
      BY <1>1, <3>1, SMT DEF OnDisk, OfSlot
  <2>3. Chain(file, lost)
    BY <1>1 DEF InMemory
  <2>4. /\ M \subseteq 1..Len(file) /\ Chain(file, M) /\ Heads(file, M, table, Len(file))
        /\ \A k \in Keys : /\ OfKey(file, M, k, Len(file)) = OfKey(file, lost, k, table[SlotOf[k]])
                           /\ OfKey(file, M, k, table[SlotOf[k]])
                                = OfKey(file, lost, k, table[SlotOf[k]])
        /\ \A s \in Slots : table[s] = 0 \/ table[s] \in OfSlot(file, M, s, Len(file))
    BY <1>1, <2>2, <2>3, CutChains, ZenonT(30)
  <2> HIDE DEF M
  <2>5. \A k \in Keys : IsTop(OfKey(file, lost, k, table[SlotOf[k]]), sav[k])
    BY <1>1, <1>7 DEF OnDisk
  <2>6. Visible' = Len(file)
    BY <1>4, <2>1 DEF Visible
  <2>7. InMemory'
    <3>1. Newest(file, M, sav, Len(file))
      BY <2>4, <2>5 DEF Newest
    <3> QED
      BY <1>2, <2>1, <2>4, <2>6, <3>1 DEF InMemory
  <2>8. OnDisk'
    <3>1. \A s \in Slots : table[s] <= table[s]
      BY <1>1, SMT
    <3> QED
      BY <1>2, <2>1, <2>4, <2>5, <2>6, <3>1 DEF OnDisk
  <2>9. /\ tmp' \in Tmps /\ tmp'.lost \in SUBSET (1..Len(tmp'.file))
        /\ Chain(tmp'.file, tmp'.lost) /\ Heads(tmp'.file, tmp'.lost, tmp'.table, Len(tmp'.file))
    BY <2>1, TmpLeftKeeps
  <2>10. InTmpFile'
    BY <1>1, <1>2, <1>5, <2>9 DEF InTmpFile
  <2>11. Types'
    BY <1>1, <1>2, <1>4, <2>1, <2>4, <2>9, EmptyFile, ZenonT(30) DEF Types
  <2> QED
    BY <1>5, <2>7, <2>8, <2>10, <2>11 DEF IndexInv
<1> QED
  BY <1>6, <1>7

LEMMA OpenKeeps ==
  ASSUME IndexInv, Open
  PROVE  IndexInv'
<1> DEFINE e == Half
           g == Append(file, e)
           M == lost \cup {Len(file) + 1}
<1>1. /\ Types /\ Phases /\ InMemory /\ OnDisk /\ InTmpFile /\ Walks
      /\ file \in Seq(Entry) /\ lost \in SUBSET (1..Len(file))
  BY DEF IndexInv, Types
<1>2. /\ ~open /\ open' = TRUE
      /\ UNCHANGED <<table, buckets, w, get, cpc, found, todo, tmp, nwrites, cur, sav>>
      /\ \/ file' = g /\ lost' = M
         \/ UNCHANGED <<file, lost>>
  BY DEF Open, compactVars, counters
<1>3. w.pc = "idle" /\ (\A p \in Readers : get[p].pc = "idle") /\ cpc = "idle"
  BY <1>1, <1>2 DEF Phases, Types
<1>4. Phases' /\ Walks' /\ InTmpFile' /\ Swapped' = Swapped
  BY <1>1, <1>2, <1>3 DEF Phases, Walks, InTmpFile, Swapped, FoundKeys
<1>5. Visible = Len(file)
  BY <1>3 DEF Visible
<1>6. Visible' = Len(file')
  BY <1>2, <1>3 DEF Visible
<1>7. CASE UNCHANGED <<file, lost>>
  <2>1. Types'
    BY <1>1, <1>2, <1>7, ZenonT(30) DEF Types
  <2>2. InMemory' /\ OnDisk'
    BY <1>1, <1>2, <1>4, <1>5, <1>6, <1>7 DEF InMemory, OnDisk
  <2> QED
    BY <1>4, <2>1, <2>2 DEF IndexInv
<1>8. CASE file' = g /\ lost' = M
  <2>1. e \in Entry
    BY DEF Half, Entry
  <2>2. Chain(file, lost)
    BY <1>1 DEF InMemory
  <2> HIDE DEF e
  <2>3. /\ Chain(g, M) /\ M \subseteq 1..Len(g)
        /\ \A x, n : OfKey(g, M, x, n) = OfKey(file, lost, x, n)
        /\ \A x : OfSlot(g, M, x, Len(g)) = OfSlot(file, lost, x, Len(file))
        /\ \A x : OfKey(g, M, x, Len(g)) = OfKey(file, lost, x, Len(file))
    BY <1>1, <2>1, <2>2, AppendLost, ZenonT(30)
  <2>4. g \in Seq(Entry)
    BY <1>1, <2>1, SMT
  <2> HIDE DEF g, M
  <2>5. Types'
    BY <1>1, <1>2, <1>8, <2>3, <2>4 DEF Types
  <2>6. Heads(g, M, buckets, Len(g)) /\ Newest(g, M, cur, Len(g))
    BY <1>1, <1>5, <2>3 DEF InMemory, Heads, Newest
  <2>7. InMemory'
    BY <1>2, <1>6, <1>8, <2>3, <2>6 DEF InMemory
  <2>8. OnDisk'
    BY <1>1, <1>2, <1>4, <1>5, <1>6, <1>8, <2>3 DEF OnDisk
  <2> QED
    BY <1>4, <2>5, <2>7, <2>8 DEF IndexInv
<1> QED
  BY <1>2, <1>7, <1>8

-----------------------------------------------------------------------------
(* The invariant, and the order of chains *)

LEMMA SetOrDelete ==
  ASSUME IndexInv, NEW k \in Keys, Set(k) \/ Delete(k)
  PROVE  \E val \in Nat : \E count : Append1(k, val, count)
<1>1. nwrites \in Nat
  BY DEF IndexInv, Types
<1>2. 0 \in Nat /\ nwrites + 1 \in Nat
  BY <1>1, SMT
<1> QED
  BY <1>2 DEF Set, Delete

ScanStep == ScanStart \/ ScanSmall \/ ScanMisreads \/ ScanSlot \/ ScanChain \/ ScanFails \/ ScanAstray

LEMMA ScanKeeps ==
  ASSUME ScanStep
  PROVE  UNCHANGED core /\ UNCHANGED <<get, nwrites, ncrashes, tail>>
  BY DEF ScanStep, ScanStart, ScanSmall, ScanMisreads, ScanSlot, ScanChain, ScanFails, ScanAstray, core, fileVars,
    memVars, compactVars, counters, history

LEMMA InvChainOrder == IndexInv => ChainOrder
<1> SUFFICES ASSUME IndexInv PROVE ChainOrder
  OBVIOUS
<1>0. file \in Seq(Entry)
  BY DEF IndexInv, Types
<1>1. /\ file \in Seq(Entry) /\ Chain(file, lost) /\ Heads(file, lost, buckets, Visible)
      /\ \A s \in Slots : table[s] <= buckets[s]
  BY <1>0 DEF IndexInv, InMemory, OnDisk
<1>2. Len(file) \in Nat
  BY <1>0, SMTT(30)
<1>3. ASSUME NEW o \in 1..Len(file) \ lost PROVE Follows(o, file[o].next)
  <2> DEFINE s == SlotOf[file[o].key]
             Older == {p \in 1..(o - 1) : p \notin lost /\ SlotOf[file[p].key] = s}
  <2>1. IsTop(OfSlot(file, lost, s, o - 1), file[o].next)
    BY <1>1 DEF Chain
  <2>2. o \in 1..Len(file)
    OBVIOUS
  <2>3. OfSlot(file, lost, s, o - 1) = Older
    <3> HIDE DEF s
    <3>1. ASSUME NEW p PROVE p \in OfSlot(file, lost, s, o - 1) <=> p \in Older
      BY <1>2, <2>2, SMTT(30) DEF OfSlot
    <3> QED
      BY <3>1
  <2> QED
    BY <2>1, <2>3, ZenonT(30) DEF Follows, IsTop
<1>4. \A s \in Slots : buckets[s] \in 0..Len(file)
  BY <1>1, TopNat DEF Heads
<1>5. \A s \in Slots : buckets[s] <= Len(file)
  BY <1>2, <1>4, SMT
<1> QED
  BY <1>1, <1>3, <1>5 DEF ChainOrder

-----------------------------------------------------------------------------
(* What Compact copies *)

\* What its scan may yield in the place of k's value.
Misread(k) == IF ~Sequential THEN {} ELSE IF Halves = {} THEN Undone(k) ELSE Nat

\* The newest entry of k in the new file is the one copied, or one left there before.
Copied(k) ==
  \A t : IsTop(OfKey(tmp.file, tmp.lost, k, Len(tmp.file)), t) =>
           Val(tmp.file, t) = IF k \in todo \/ found[k] = 0 THEN tmp.left[k] ELSE found[k]

Explained(k) == Val(tmp.file, sav[k]) \in {Val(file, cur[k])} \cup Strays(k)

CopyInv ==
  /\ cpc = "copy" => \A k \in Keys : Copied(k) /\ found[k] \in {Val(file, cur[k])} \cup Misread(k)
  /\ Swapped => \A k \in Keys : Explained(k)

-----------------------------------------------------------------------------
(* The index is an atomic map *)

mapNow == [k \in Keys |-> Val(file, cur[k])]
savedNow == [k \in Keys |-> Val(Saved, sav[k])]
answerNow == [p \in Readers |-> IF get[p].pc = "walk" THEN Val(file, get[p].due) ELSE get[p].val]

\* The offsets in use are in the file.
LEMMA Offsets ==
  ASSUME IndexInv
  PROVE  /\ \A k \in Keys : cur[k] \in 0..Len(file)
         /\ ~Swapped => \A k \in Keys : sav[k] \in 0..Len(file)
         /\ \A p \in Readers : get[p].pc = "walk" => get[p].due \in 0..Len(file)
<1>1. file \in Seq(Entry)
  BY DEF IndexInv, Types
<1>2. \A k \in Keys : cur[k] \in 0..Len(file)
  BY <1>1, TopNat DEF IndexInv, InMemory, Newest
<1>3. ~Swapped => \A k \in Keys : sav[k] \in 0..Len(file)
  BY <1>1, TopNat DEF IndexInv, OnDisk
<1>4. \A p \in Readers : get[p].pc = "walk" => get[p].due \in 0..Len(file)
  BY <1>1, TopNat DEF IndexInv, Walks, Walking
<1> QED
  BY <1>2, <1>3, <1>4

\* A longer file says the same of the map.
LEMMA AppendStutters ==
  ASSUME IndexInv, ~Swapped, ~Swapped', NEW e \in Entry, file' = Append(file, e),
         UNCHANGED <<cur, sav, get>>
  PROVE  UNCHANGED <<mapNow, savedNow, answerNow>>
<1>1. file \in Seq(Entry)
  BY DEF IndexInv, Types
<1>2. \A o \in 0..Len(file) : Val(file', o) = Val(file, o)
  <2>1. \A o \in 1..Len(file) : file'[o] = file[o]
    BY <1>1, AppendFacts
  <2>2. \A o \in 0..Len(file) : o = 0 \/ o \in 1..Len(file)
    BY SMT
  <2> QED
    BY <2>1, <2>2 DEF Val
<1>3. Saved = file /\ Saved' = file'
  BY DEF Saved, Swapped
<1>4. mapNow' = mapNow
  BY <1>2, Offsets DEF mapNow
<1>5. savedNow' = savedNow
  BY <1>2, <1>3, Offsets DEF savedNow
<1>6. answerNow' = answerNow
  BY <1>2, Offsets DEF answerNow
<1> QED
  BY <1>4, <1>5, <1>6

LEMMA SameStutters ==
  ASSUME UNCHANGED <<file, tmp, cpc, cur, sav, get>>
  PROVE  UNCHANGED <<mapNow, savedNow, answerNow>>
  BY DEF mapNow, savedNow, answerNow, Saved

\* The load of the bucket pointer is the instant of Get.
LEMMA LoadReads ==
  ASSUME IndexInv, NEW p \in Readers, NEW k \in Keys, Load(p, k)
  PROVE  Map!Read(p, k)
<1>1. /\ UNCHANGED <<file, tmp, cpc, cur, sav>>
      /\ get' = [get EXCEPT ![p] = [pc |-> "walk", key |-> k, off |-> buckets[SlotOf[k]],
                                    val |-> 0, due |-> cur[k]]]
  BY DEF Load, fileVars, compactVars, history
<1>2. get'[p].pc = "walk" /\ get'[p].due = cur[k] /\ \A q \in Readers : q # p => get'[q] = get[q]
  BY <1>1 DEF IndexInv, Types
<1>3. UNCHANGED <<mapNow, savedNow>>
  BY <1>1 DEF mapNow, savedNow, Saved
<1>a. mapNow[k] = Val(file, cur[k])
  BY DEF mapNow
<1>b. answerNow'[p] = Val(file, cur[k]) /\ \A q \in Readers : q # p => answerNow'[q] = answerNow[q]
  BY <1>1, <1>2, SMT DEF answerNow
<1>4. answerNow' = [answerNow EXCEPT ![p] = mapNow[k]]
  <2>1. answerNow' = [q \in Readers |-> answerNow'[q]] /\ answerNow = [q \in Readers |-> answerNow[q]]
    BY DEF answerNow
  <2> QED
    BY <1>a, <1>b, <2>1
<1> QED
  BY <1>3, <1>4, ZenonT(30) DEF Map!Read, mapNow, savedNow, answerNow

LEMMA WalkStutters ==
  ASSUME IndexInv, NEW p \in Readers, Walk(p) \/ Return(p)
  PROVE  UNCHANGED <<mapNow, savedNow, answerNow>>
<1>1. UNCHANGED <<file, tmp, cpc, cur, sav>>
  BY DEF Walk, Return, fileVars, compactVars, history
<1>2. UNCHANGED <<mapNow, savedNow>>
  BY <1>1 DEF mapNow, savedNow, Saved
<1>3. CASE Walk(p)
  <2>1. get[p].pc = "walk"
    BY <1>3 DEF Walk
  <2>2. /\ get'[p].pc = "walk" => get'[p].due = get[p].due
        /\ get'[p].pc # "walk" => get'[p].val = Val(file, get[p].due)
        /\ \A q \in Readers : q # p => get'[q] = get[q]
    BY <1>3, WalkKeeps
  <2>3. answerNow' = answerNow
    BY <1>1, <2>1, <2>2 DEF answerNow
  <2> QED
    BY <1>2, <2>3
<1>4. CASE Return(p)
  <2>1. get[p].pc = "done" /\ get' = [get EXCEPT ![p] = [IdleGet EXCEPT !.val = get[p].val]]
    BY <1>4 DEF Return
  <2>2. get'[p].pc = "idle" /\ get'[p].val = get[p].val /\ \A q \in Readers : q # p => get'[q] = get[q]
    BY <2>1 DEF IndexInv, Types, IdleGet
  <2>3. answerNow' = answerNow
    BY <1>1, <2>1, <2>2, SMTT(30) DEF answerNow
  <2> QED
    BY <1>2, <2>3
<1> QED
  BY <1>3, <1>4

\* The store of the bucket pointer is the instant of Set and Delete.
LEMMA PublishPuts ==
  ASSUME IndexInv, Publish
  PROVE  w.key \in Keys /\ Map!Put(w.key)
<1> DEFINE n == Len(file)
<1>1. /\ w.pc = "written" /\ UNCHANGED <<file, tmp, cpc, sav, get>>
      /\ cur' = [cur EXCEPT ![w.key] = n]
  BY DEF Publish, fileVars, compactVars
<1>2. w.key \in Keys /\ n >= 1 /\ file \in Seq(Entry) /\ cur \in [Keys -> Nat]
  BY <1>1 DEF IndexInv, Types, Phases
<1>3. Val(file, n) \in Nat
  <2>1. n \in 1..n
    BY <1>2, SMT
  <2>2. file[n] \in Entry
    BY <1>2, <2>1, SMT
  <2> QED
    BY <1>2, <2>2 DEF Val, Entry
<1> HIDE DEF n
<1>4. mapNow' = [mapNow EXCEPT ![w.key] = Val(file, n)]
  BY <1>1, <1>2 DEF mapNow
<1>5. mapNow'[w.key] = Val(file, n)
  BY <1>2, <1>4 DEF mapNow
<1>6. UNCHANGED <<savedNow, answerNow>>
  BY <1>1 DEF savedNow, answerNow, Saved
<1>7. mapNow'[w.key] \in Nat /\ mapNow' = [mapNow EXCEPT ![w.key] = mapNow'[w.key]]
  BY <1>3, <1>4, <1>5, ZenonT(30)
<1> QED
  BY <1>2, <1>6, <1>7 DEF Map!Put, mapNow, savedNow, answerNow

LEMMA PersistSaves ==
  ASSUME IndexInv, PersistBucket
  PROVE  [Map!Next]_(Map!vars)
<1> DEFINE K == {k \in Keys : SlotOf[k] = SlotOf[w.key]}
<1>1. w.pc = "published" /\ UNCHANGED <<file, tmp, cpc, cur, get>>
  BY DEF PersistBucket, compactVars
<1>2. cpc = "idle"
  BY <1>1 DEF IndexInv, Phases
<1>3. UNCHANGED <<mapNow, answerNow>> /\ Saved = file /\ Saved' = file
  BY <1>1, <1>2 DEF mapNow, answerNow, Saved
<1>4. CASE UNCHANGED sav
  <2>1. UNCHANGED <<mapNow, savedNow, answerNow>>
    BY <1>1, <1>4, SameStutters
  <2> QED
    BY <2>1 DEF Map!vars, mapNow, savedNow, answerNow
<1>5. CASE sav' = [k \in Keys |-> IF SlotOf[k] = SlotOf[w.key] THEN cur[k] ELSE sav[k]]
  <2>1. savedNow' = [k \in Keys |-> IF k \in K THEN mapNow[k] ELSE savedNow[k]]
    BY <1>3, <1>5, ZenonT(30) DEF savedNow, mapNow
  <2>2. Map!Save(K)
    BY <1>3, <2>1 DEF Map!Save, mapNow, savedNow, answerNow
  <2>3. K \in SUBSET Keys
    OBVIOUS
  <2> QED
    BY <2>2, <2>3 DEF Map!Next
<1> QED
  BY <1>4, <1>5 DEF PersistBucket

LEMMA ReopenAdopts ==
  ASSUME IndexInv, CopyInv, CompactReopen
  PROVE  Map!Adopt
<1>1. /\ cpc = "closed" /\ cpc' = "idle" /\ file' = tmp.file /\ cur' = sav /\ UNCHANGED <<get, sav>>
  BY DEF CompactReopen
<1>2. /\ \A k \in Keys : Explained(k)
      /\ \A p \in Readers : get[p].pc = "idle"
  BY <1>1, ZenonT(30) DEF CopyInv, Swapped, IndexInv, Phases
<1>3. mapNow' = savedNow
  BY <1>1 DEF mapNow, savedNow, Saved
<1>4. savedNow' = savedNow
  BY <1>1 DEF savedNow, Saved
<1>5. answerNow' = answerNow
  BY <1>1, <1>2 DEF answerNow
<1>6. ASSUME NEW k \in Keys
      PROVE  savedNow[k] \in {mapNow[k]} \cup [x \in Keys |-> Strays(x)][k]
  <2>1. savedNow[k] = Val(tmp.file, sav[k]) /\ mapNow[k] = Val(file, cur[k])
    BY <1>1 DEF savedNow, mapNow, Saved
  <2> QED
    BY <1>2, <2>1 DEF Explained
<1> QED
  BY <1>3, <1>4, <1>5, <1>6 DEF Map!Adopt, mapNow, savedNow, answerNow

LEMMA HaltCrashes ==
  ASSUME IndexInv, NEW count, Halt(count)
  PROVE  Map!Crash
<1>1. /\ cpc' = "idle" /\ cur' = sav /\ UNCHANGED sav /\ get' = [p \in Readers |-> IdleGet]
      /\ file' = Saved
  BY DEF Halt, Saved
<1>2. Saved' = Saved
  BY <1>1 DEF Saved
<1>3. mapNow' = savedNow
  BY <1>1 DEF mapNow, savedNow
<1>4. savedNow' = savedNow
  BY <1>1, <1>2 DEF savedNow
<1>5. answerNow' = [p \in Readers |-> 0]
  BY <1>1 DEF answerNow, IdleGet
<1> QED
  BY <1>3, <1>4, <1>5 DEF Map!Crash, mapNow, savedNow, answerNow

LEMMA InitRefines == Init => Map!Init /\ CopyInv
<1> SUFFICES ASSUME Init PROVE Map!Init /\ CopyInv
  OBVIOUS
<1>1. mapNow = [k \in Keys |-> 0] /\ savedNow = [k \in Keys |-> 0]
  BY ZenonT(30) DEF Init, Nothing, mapNow, savedNow, Val
<1>2. answerNow = [p \in Readers |-> 0]
  BY DEF Init, answerNow, IdleGet
<1>3. Map!Init
  BY <1>1, <1>2, ZenonT(30) DEF Map!Init, Map!Nothing, mapNow, savedNow, answerNow
<1>4. CopyInv
  BY DEF Init, CopyInv, Swapped
<1> QED
  BY <1>3, <1>4

-----------------------------------------------------------------------------
(* ForEach: the types of what a scan works on, and where it is in the file *)

ScanTypes ==
  /\ tail \in BOOLEAN /\ header \in Nat /\ entryCount \in Nat
  /\ scan \in Scans /\ during \in [Keys -> SUBSET Nat]
  /\ ncompacts \in Nat /\ nscans \in Nat /\ ncrashes \in Nat

\* A scan in a file f whose entries L are lost has its limit, or the rest of its
\* chain, inside the file.
ScanIn(f, L, sc) ==
  /\ sc.pc = "small" => sc.pos \in 1..(sc.limit + 1) /\ sc.limit <= Len(f)
  /\ sc.pc = "slot" => sc.slot \in 0..NumSlots
  /\ sc.pc = "chain" => /\ sc.slot \in Slots
                        /\ sc.off = 0 \/ sc.off \in OfSlot(f, L, sc.slot, Len(f))

ScanAt == (~scan.astray => ScanIn(file, lost, scan)) /\ (~open => scan.pc = "idle")

LEMMA ValNat ==
  ASSUME NEW f \in Seq(Entry), NEW o \in 0..Len(f)
  PROVE  Val(f, o) \in Nat
<1>1. o # 0 => f[o] \in Entry BY SMT
<1> QED BY <1>1 DEF Val, Entry

LEMMA NewestNat ==
  ASSUME IndexInv, NEW k \in Keys
  PROVE  cur[k] \in 0..Len(file) /\ Val(file, cur[k]) \in Nat
<1>1. file \in Seq(Entry) /\ IsTop(OfKey(file, lost, k, Visible), cur[k])
  BY DEF IndexInv, Types, InMemory, Newest
<1>2. cur[k] \in 0..Len(file) BY <1>1, TopNat
<1> QED BY <1>1, <1>2, ValNat

LEMMA UndoneNat ==
  ASSUME IndexInv, NEW k
  PROVE  Undone(k) \in SUBSET Nat
<1>1. file \in Seq(Entry) /\ lost \in SUBSET (1..Len(file)) BY DEF IndexInv, Types
<1>2. \A o \in 1..Len(file) : file[o] \in Entry BY <1>1, SMT
<1>3. \A o \in lost : file[o].val \in Nat BY <1>1, <1>2 DEF Entry
<1> QED BY <1>3 DEF Undone

LEMMA ScanFields ==
  ASSUME NEW sc \in Scans
  PROVE  /\ sc.pc \in {"idle", "small", "slot", "chain", "done", "failed"} /\ sc.pos \in Nat
         /\ sc.limit \in Nat /\ sc.slot \in Nat /\ sc.off \in Nat /\ sc.seen \in SUBSET Keys
         /\ sc.out \in [Keys -> Nat] /\ sc.astray \in BOOLEAN
BY DEF Scans

LEMMA IdleScanTyped == IdleScan \in Scans /\ IdleScan.pc = "idle" /\ ~IdleScan.astray
<1>1. Nothing \in [Keys -> Nat] BY EmptyFile
<1>2. 0 \in Nat /\ FALSE \in BOOLEAN OBVIOUS
<1> QED BY <1>1, <1>2 DEF IdleScan, Scans

\* ForEach is over, with or without an error.
LEMMA EndedIs ==
  ASSUME scan \in Scans, NEW pc \in {"done", "failed"}, NEW out \in [Keys -> Nat]
  PROVE  /\ Ended(pc, out) \in Scans /\ Ended(pc, out).pc = pc /\ Ended(pc, out).out = out
         /\ Ended(pc, out).astray = scan.astray
<1> DEFINE a == scan.astray
<1>1. Ended(pc, out) = [IdleScan EXCEPT !.pc = pc, !.out = out, !.astray = a] BY DEF Ended
<1>2. a \in BOOLEAN /\ IdleScan \in Scans BY ScanFields, IdleScanTyped
<1>3. pc \in {"idle", "small", "slot", "chain", "done", "failed"} OBVIOUS
<1> HIDE DEF a
<1>4. Ended(pc, out) \in Scans BY <1>1, <1>2, <1>3 DEF Scans
<1>5. Ended(pc, out).pc = pc /\ Ended(pc, out).out = out /\ Ended(pc, out).astray = a
  BY <1>1, <1>2 DEF Scans
<1> QED BY <1>4, <1>5 DEF a

LEMMA FailedIs ==
  ASSUME scan \in Scans, NEW out \in [Keys -> Nat]
  PROVE  /\ Failed(out) \in Scans /\ Failed(out).pc = "failed" /\ Failed(out).astray = scan.astray
         /\ Failed(out).out = IF scan.pc = "small" THEN Nothing ELSE out
<1> DEFINE o == IF scan.pc = "small" THEN Nothing ELSE out
<1>1. o \in [Keys -> Nat] BY EmptyFile
<1>2. Failed(out) = Ended("failed", o) /\ "failed" \in {"done", "failed"} BY DEF Failed
<1> HIDE DEF o
<1>3. /\ Ended("failed", o) \in Scans /\ Ended("failed", o).pc = "failed"
      /\ Ended("failed", o).astray = scan.astray /\ Ended("failed", o).out = o
  BY <1>1, <1>2, EndedIs
<1> QED BY <1>2, <1>3 DEF o

\* The new values of scan, field by field.
LEMMA StartIs ==
  ASSUME IndexInv, ScanTypes, ScanStart
  PROVE  /\ scan' \in Scans
         /\ scan'.pc = IF entryCount < Threshold THEN "small" ELSE "slot"
         /\ scan'.pos = 1 /\ scan'.limit = Len(file) /\ scan'.slot = 0 /\ scan'.off = 0
         /\ scan'.seen = {} /\ scan'.out = Nothing /\ ~scan'.astray
<1> DEFINE pc == IF entryCount < Threshold THEN "small" ELSE "slot"
           out == Nothing
<1>1. pc \in {"idle", "small", "slot", "chain", "done", "failed"} /\ out \in [Keys -> Nat] BY EmptyFile
<1>2. Len(file) \in Nat BY VisibleFacts
<1>3. scan' = [IdleScan EXCEPT !.pc = pc, !.pos = 1, !.limit = Len(file)] BY DEF ScanStart, Sequential
<1>4. IdleScan = [pc |-> "idle", pos |-> 0, limit |-> 0, slot |-> 0, off |-> 0, seen |-> {}, out |-> out,
             astray |-> FALSE]
  BY DEF IdleScan
<1> HIDE DEF pc, out
<1>5. scan' = [pc |-> pc, pos |-> 1, limit |-> Len(file), slot |-> 0, off |-> 0, seen |-> {}, out |-> out,
             astray |-> FALSE]
  BY <1>3, <1>4
<1>6. scan' \in Scans BY <1>1, <1>2, <1>5 DEF Scans
<1>7. /\ scan'.pc = pc /\ scan'.pos = 1 /\ scan'.limit = Len(file) /\ scan'.slot = 0 /\ scan'.off = 0
      /\ scan'.seen = {} /\ scan'.out = out /\ ~scan'.astray
  BY <1>5
<1> QED BY <1>6, <1>7 DEF pc, out

LEMMA SmallIs ==
  ASSUME IndexInv, ScanTypes, ScanAt, ScanSmall
  PROVE  /\ scan' \in Scans /\ ~scan.astray /\ ~scan'.astray
         /\ \/ scan.pos > scan.limit /\ scan'.pc = "done" /\ scan'.out = scan.out
            \/ LET e == file[scan.pos] IN
               /\ scan.pos <= scan.limit /\ scan.pos \in 1..Len(file) /\ e.key \in Keys
               /\ scan'.pc = "small" /\ scan'.pos = scan.pos + 1 /\ scan'.limit = scan.limit
               /\ scan'.out = [scan.out EXCEPT ![e.key] = e.val]
<1>1. /\ scan.pc = "small" /\ ~scan.astray /\ scan \in Scans /\ file \in Seq(Entry) /\ scan.pos \in 1..(scan.limit + 1)
      /\ scan.limit <= Len(file) /\ Len(file) \in Nat
  BY VisibleFacts DEF ScanTypes, ScanAt, ScanIn, ScanSmall, IndexInv, Types
<1>2. scan.pos \in Nat /\ scan.limit \in Nat /\ scan.out \in [Keys -> Nat] BY <1>1, ScanFields
<1>3. CASE scan.pos > scan.limit
  <2>1. scan' = Ended("done", scan.out) BY <1>3 DEF ScanSmall
  <2>2. scan' \in Scans /\ scan'.pc = "done" /\ scan'.out = scan.out /\ ~scan'.astray
    BY <1>1, <1>2, <2>1, EndedIs
  <2> QED BY <1>1, <1>3, <2>2
<1>4. CASE ~(scan.pos > scan.limit)
  <2> DEFINE e == file[scan.pos]
  <2>1. scan.pos <= scan.limit /\ scan.pos \in 1..Len(file) BY <1>1, <1>2, <1>4, SMT
  <2>2. e \in Entry BY <1>1, <2>1, SMT
  <2>3. e.key # NoKey BY <1>1, <2>1 DEF ScanSmall, AtHalf
  <2>4. e.key \in Keys /\ e.val \in Nat BY <2>2, <2>3 DEF Entry
  <2>5. scan' = [scan EXCEPT !.pos = @ + 1, !.out[e.key] = e.val] BY <1>4 DEF ScanSmall
  <2> HIDE DEF e
  <2> DEFINE out == [scan.out EXCEPT ![e.key] = e.val]
             n == scan.pos + 1
  <2>6. out \in [Keys -> Nat] /\ n \in Nat BY <1>2, <2>4, SMT
  <2>7. scan' = [scan EXCEPT !.pos = n, !.out = out] BY <1>1, <2>5 DEF Scans
  <2> HIDE DEF out, n
  <2>8. scan' \in Scans BY <1>1, <2>6, <2>7 DEF Scans
  <2>9. /\ scan'.pc = scan.pc /\ scan'.pos = n /\ scan'.limit = scan.limit /\ scan'.out = out
        /\ scan'.astray = scan.astray
    BY <1>1, <2>7 DEF Scans
  <2> QED BY <1>1, <2>1, <2>4, <2>8, <2>9 DEF e, out, n
<1> QED BY <1>3, <1>4

LEMMA SlotIs ==
  ASSUME IndexInv, ScanTypes, ScanAt, ScanSlot
  PROVE  /\ scan' \in Scans /\ scan'.out = scan.out /\ ~scan.astray /\ ~scan'.astray
         /\ \/ scan.slot = NumSlots /\ scan'.pc = "done"
            \/ /\ scan.slot \in Slots /\ scan'.pc = "chain" /\ scan'.off = buckets[scan.slot]
               /\ scan'.seen = scan.seen /\ scan'.slot = scan.slot
<1>1. scan \in Scans /\ scan.pc = "slot" /\ ~scan.astray /\ scan.slot \in 0..NumSlots /\ buckets \in [Slots -> Nat]
  BY DEF ScanTypes, ScanAt, ScanIn, ScanSlot, IndexInv, Types
<1>2. CASE scan.slot = NumSlots
  <2>1. scan' = Ended("done", scan.out) /\ scan.out \in [Keys -> Nat]
    BY <1>1, <1>2, ScanFields DEF ScanSlot
  <2>2. scan' \in Scans /\ scan'.pc = "done" /\ scan'.out = scan.out /\ ~scan'.astray
    BY <1>1, <2>1, EndedIs
  <2> QED BY <1>1, <1>2, <2>2
<1>3. CASE scan.slot # NumSlots
  <2>1. scan.slot \in Slots BY <1>1, <1>3, IndexConstants, SMT DEF Slots
  <2>2. buckets[scan.slot] \in Nat BY <1>1, <2>1
  <2>3. scan' = [scan EXCEPT !.pc = "chain", !.off = buckets[scan.slot]] BY <1>3 DEF ScanSlot
  <2>4. /\ scan' \in Scans /\ scan'.pc = "chain" /\ scan'.out = scan.out /\ scan'.seen = scan.seen
        /\ scan'.slot = scan.slot /\ scan'.off = buckets[scan.slot] /\ scan'.astray = scan.astray
    BY <1>1, <2>2, <2>3 DEF Scans
  <2> QED BY <1>1, <2>1, <2>4
<1> QED BY <1>2, <1>3

LEMMA ChainIs ==
  ASSUME IndexInv, ScanTypes, ScanAt, ScanChain
  PROVE  /\ scan' \in Scans /\ ~scan.astray /\ ~scan'.astray
         /\ \/ /\ scan.off = 0 /\ scan'.pc = "slot" /\ scan'.slot = scan.slot + 1
               /\ scan'.seen = scan.seen /\ scan'.out = scan.out
            \/ LET e == file[scan.off] IN
               /\ scan.off \in OfSlot(file, lost, scan.slot, Len(file)) /\ e.key \in Keys
               /\ SlotOf[e.key] = scan.slot
               /\ scan'.pc = "chain" /\ scan'.slot = scan.slot /\ scan'.off = e.next
               /\ scan'.seen = scan.seen \cup {e.key} /\ scan'.out = Yield(e)
<1>1. /\ scan \in Scans /\ scan.pc = "chain" /\ ~scan.astray /\ scan.slot \in Slots /\ file \in Seq(Entry)
      /\ Chain(file, lost) /\ (scan.off = 0 \/ scan.off \in OfSlot(file, lost, scan.slot, Len(file)))
  BY DEF ScanTypes, ScanAt, ScanIn, ScanChain, IndexInv, Types, InMemory
<1>2. scan.slot \in Nat /\ scan.seen \in SUBSET Keys /\ scan.out \in [Keys -> Nat] BY <1>1, ScanFields
<1>3. CASE scan.off = 0
  <2> DEFINE n == scan.slot + 1
  <2>1. scan' = [scan EXCEPT !.pc = "slot", !.slot = n] BY <1>3 DEF ScanChain
  <2>a. n \in Nat BY <1>2, SMT
  <2> HIDE DEF n
  <2>2. /\ scan' \in Scans /\ scan'.pc = "slot" /\ scan'.slot = scan.slot + 1 /\ scan'.seen = scan.seen
        /\ scan'.out = scan.out /\ ~scan'.astray
    <3>1. scan' \in Scans BY <1>1, <2>1, <2>a DEF Scans
    <3>2. /\ scan'.pc = "slot" /\ scan'.slot = n /\ scan'.seen = scan.seen /\ scan'.out = scan.out
          /\ scan'.astray = scan.astray
      BY <1>1, <2>1 DEF Scans
    <3> QED BY <1>1, <3>1, <3>2 DEF n
  <2> QED BY <1>1, <1>3, <2>2
<1>4. CASE scan.off # 0
  <2> DEFINE e == file[scan.off]
  <2>1. /\ scan.off \in OfSlot(file, lost, scan.slot, Len(file))
        /\ scan.off \in 1..Len(file) /\ scan.off \notin lost /\ SlotOf[e.key] = scan.slot
    BY <1>1, <1>4 DEF OfSlot
  <2>2. e \in Entry /\ e.key \in Keys BY <1>1, <2>1, SMT DEF Chain
  <2>3. e.next \in Nat /\ e.val \in Nat BY <2>2 DEF Entry
  <2>4. scan' = [scan EXCEPT !.off = e.next, !.seen = scan.seen \cup {e.key}, !.out = Yield(e)]
    BY <1>4 DEF ScanChain
  <2>5. Yield(e) \in [Keys -> Nat] BY <1>2, <2>2, <2>3 DEF Yield
  <2>6. scan.seen \cup {e.key} \in SUBSET Keys BY <1>2, <2>2
  <2> DEFINE y == Yield(e)
             seen == scan.seen \cup {e.key}
  <2> HIDE DEF y, seen, e
  <2>7. /\ scan' = [scan EXCEPT !.off = e.next, !.seen = seen, !.out = y]
        /\ y \in [Keys -> Nat] /\ seen \in SUBSET Keys
    BY <2>4, <2>5, <2>6 DEF y, seen
  <2>8. scan' \in Scans BY <1>1, <2>3, <2>7 DEF Scans
  <2>9. /\ scan'.pc = "chain" /\ scan'.slot = scan.slot /\ scan'.off = e.next /\ scan'.seen = seen
        /\ scan'.out = y /\ scan'.astray = scan.astray
    BY <1>1, <2>7 DEF Scans
  <2> QED BY <1>1, <2>1, <2>2, <2>8, <2>9 DEF e, y, seen
<1> QED BY <1>3, <1>4

LEMMA FailsIs ==
  ASSUME ScanTypes, ScanFails
  PROVE  /\ scan' \in Scans /\ scan'.pc = "failed" /\ scan'.astray = scan.astray
         /\ scan.pc = "small" => scan'.out = Nothing
         /\ scan.pc # "small" => scan.pc = "chain" /\ scan'.out = scan.out
<1>1. scan \in Scans /\ scan.out \in [Keys -> Nat] BY ScanFields DEF ScanTypes
<1>2. scan' = Failed(scan.out) /\ scan.pc \in {"small", "chain"} BY DEF ScanFails, AtHalf
<1> QED BY <1>1, <1>2, FailedIs

\* From here on nothing is known of the scan.
LEMMA AstrayIs ==
  ASSUME ScanTypes, ScanMisreads \/ ScanAstray
  PROVE  scan' \in Scans /\ scan'.astray /\ scan.pc \in Running
<1>1. scan \in Scans BY DEF ScanTypes
<1>2. CASE ScanMisreads
  <2>1. scan' = [scan EXCEPT !.astray = TRUE] /\ scan.pc = "small" BY <1>2 DEF ScanMisreads, AtHalf
  <2> QED BY <1>1, <2>1 DEF Scans, Running
<1>3. CASE ScanAstray
  <2>1. PICK out \in [Keys -> 0..Junk] : scan' \in {Failed(out), Ended("done", out)}
    BY <1>3 DEF ScanAstray
  <2>2. scan.pc \in Running /\ scan.astray BY <1>3 DEF ScanAstray
  <2>3. out \in [Keys -> Nat]
    <3>1. 0..Junk \subseteq Nat BY SMT
    <3> QED BY <3>1
  <2>4. CASE scan' = Failed(out) BY <1>1, <2>2, <2>3, <2>4, FailedIs
  <2>5. CASE scan' = Ended("done", out) BY <1>1, <2>2, <2>3, <2>5, EndedIs
  <2> QED BY <2>1, <2>4, <2>5
<1> QED BY <1>2, <1>3

\* An append leaves a scan where it is.
LEMMA ScanInOn ==
  ASSUME NEW f \in Seq(Entry), NEW L \in SUBSET (1..Len(f)), NEW e \in Entry, NEW sc \in Scans,
         ScanIn(f, L, sc)
  PROVE  ScanIn(Append(f, e), L, sc)
<1> DEFINE g == Append(f, e)
<1>1. Len(f) \in Nat /\ Len(g) = Len(f) + 1 /\ Len(f) \in 0..Len(f) BY AppendFacts, SMT
<1>2. OfSlot(g, L, sc.slot, Len(f)) = OfSlot(f, L, sc.slot, Len(f)) BY <1>1, AppendOf
<1> HIDE DEF g
<1>3. OfSlot(g, L, sc.slot, Len(f)) \subseteq OfSlot(g, L, sc.slot, Len(g)) BY <1>1, SMT DEF OfSlot
<1>4. sc.limit \in Nat BY ScanFields
<1>5. ASSUME sc.pc = "small" PROVE sc.pos \in 1..(sc.limit + 1) /\ sc.limit <= Len(g)
  <2>1. sc.pos \in 1..(sc.limit + 1) /\ sc.limit <= Len(f) BY <1>5 DEF ScanIn
  <2> QED BY <1>1, <1>4, <2>1, SMT
<1> QED BY <1>2, <1>3, <1>5 DEF ScanIn, g

LEMMA ReopenScan ==
  ASSUME scan \in Scans, CompactReopen
  PROVE  /\ scan' \in Scans /\ scan'.pc = scan.pc /\ scan'.out = scan.out
         /\ scan.pc \in Running => scan'.astray
         /\ scan.pc \notin Running => scan'.astray = scan.astray
<1> DEFINE b == scan.astray \/ scan.pc \in Running
<1>1. scan.astray \in BOOLEAN BY ScanFields
<1>2. b \in BOOLEAN OBVIOUS
<1>3. scan' = [scan EXCEPT !.astray = b] BY DEF CompactReopen
<1>4. (scan.pc \in Running => b) /\ (scan.pc \notin Running => b = scan.astray) BY <1>1
<1> HIDE DEF b
<1>5. scan' \in Scans BY <1>2, <1>3 DEF Scans
<1>6. scan'.pc = scan.pc /\ scan'.out = scan.out /\ scan'.astray = b BY <1>3 DEF Scans
<1> QED BY <1>4, <1>5, <1>6

LEMMA ScanTypesKept ==
  ASSUME IndexInv, ScanTypes, ScanAt, [Next]_vars
  PROVE  ScanTypes'
<1>1. /\ tail \in BOOLEAN /\ header \in Nat /\ entryCount \in Nat /\ scan \in Scans
      /\ during \in [Keys -> SUBSET Nat] /\ ncompacts \in Nat /\ nscans \in Nat /\ ncrashes \in Nat
  BY DEF ScanTypes
<1>2. /\ ncompacts + 1 \in Nat /\ nscans + 1 \in Nat /\ ncrashes + 1 \in Nat /\ entryCount + 1 \in Nat
      /\ (IF entryCount > 0 THEN entryCount - 1 ELSE 0) \in Nat /\ 0 \in Nat
  BY <1>1, SMT
<1>3. tmp.count \in Nat BY DEF IndexInv, Types, Tmps
<1>4. ASSUME UNCHANGED <<scan, during, tail, header, entryCount, ncompacts, nscans, ncrashes>>
      PROVE  ScanTypes'
  BY <1>4 DEF ScanTypes
<1>5. CASE UNCHANGED vars
  BY <1>4, <1>5 DEF vars, fileVars, memVars, compactVars, counters, history
<1>6. ASSUME NEW p \in Readers, (\E k \in Keys : Load(p, k)) \/ Walk(p) \/ Return(p) PROVE ScanTypes'
  BY <1>4, <1>6 DEF Load, Walk, Return, fileVars, memVars, counters, history
<1>7. ASSUME NEW k \in Keys, Set(k) \/ Delete(k) PROVE ScanTypes'
  <2>1. PICK n \in Nat : \E val : Append1(k, val, n) BY <1>2, <1>7 DEF Set, Delete
  <2>2. tail' \in BOOLEAN BY <1>1, <2>1 DEF Append1
  <2>3. /\ entryCount' \in Nat
        /\ UNCHANGED <<scan, during, header, ncompacts, nscans, ncrashes>>
    BY <2>1 DEF Append1, history
  <2> QED BY <2>2, <2>3 DEF ScanTypes
<1>8. CASE AppendFails BY <1>8 DEF AppendFails, ScanTypes, memVars, history
<1>9. CASE Publish
  <2>1. w.key \in Keys /\ Len(file) >= 1 /\ file \in Seq(Entry)
    BY <1>9 DEF Publish, IndexInv, Phases, Types
  <2>2. Len(file) \in 1..Len(file) /\ Len(file) \in Nat BY <2>1, SMT
  <2>3. file[Len(file)] \in Entry BY <2>1, <2>2, SMT
  <2>4. file[Len(file)].val \in Nat BY <2>3 DEF Entry
  <2>5. during[w.key] \cup {file[Len(file)].val} \in SUBSET Nat BY <1>1, <2>1, <2>4
  <2>6. during' \in [Keys -> SUBSET Nat] BY <1>1, <1>9, <2>1, <2>5 DEF Publish
  <2> QED BY <1>9, <2>6 DEF Publish, ScanTypes, fileVars, counters
<1>10. CASE PersistBucket BY <1>4, <1>10 DEF PersistBucket, counters
<1>11. CASE ScanStart
  <2>1. ASSUME NEW k \in Keys
        PROVE  {Val(file, cur[k])} \cup
                 (IF w.pc = "written" /\ w.key = k THEN {file[Len(file)].val} ELSE {}) \cup
                 (IF Sequential THEN Undone(k) ELSE {}) \in SUBSET Nat
    <3>1. Val(file, cur[k]) \in Nat BY NewestNat
    <3>2. ASSUME w.pc = "written" PROVE file[Len(file)].val \in Nat
      <4>1. Len(file) >= 1 /\ file \in Seq(Entry) BY <3>2 DEF IndexInv, Phases, Types
      <4>2. file[Len(file)] \in Entry BY <4>1, SMT
      <4> QED BY <4>2 DEF Entry
    <3>3. Undone(k) \in SUBSET Nat BY UndoneNat
    <3> QED BY <3>1, <3>2, <3>3
  <2>2. during' \in [Keys -> SUBSET Nat] BY <1>11, <2>1 DEF ScanStart
  <2>3. scan' \in Scans BY <1>11, StartIs
  <2> QED BY <1>2, <1>11, <2>2, <2>3 DEF ScanStart, ScanTypes, fileVars, memVars
<1>12. CASE ScanSmall \/ ScanMisreads \/ ScanSlot \/ ScanChain \/ ScanFails \/ ScanAstray
  <2>1. scan' \in Scans BY <1>12, SmallIs, SlotIs, ChainIs, FailsIs, AstrayIs
  <2> QED BY <1>12, <2>1 DEF ScanSmall, ScanMisreads, ScanSlot, ScanChain, ScanFails, ScanAstray, ScanTypes,
        fileVars, memVars, counters, history
<1>13. CASE CompactStart \/ (\E k \in Keys : CompactCopy(k)) \/ CompactFails \/ CompactRename \/ CompactClose
  BY <1>2, <1>13 DEF CompactStart, CompactCopy, CompactFails, CompactRename, CompactClose,
     ScanTypes, fileVars, memVars, counters, history
<1>14. CASE CompactReopen
  <2>1. Cardinality(FoundKeys) \in Nat
    <3>1. FoundKeys \in SUBSET Keys BY DEF FoundKeys
    <3> QED BY <3>1, IndexConstants
  <2>3. scan' \in Scans BY <1>14, ReopenScan DEF ScanTypes
  <2> QED BY <1>3, <1>14, <2>1, <2>3 DEF CompactReopen, ScanTypes, counters
<1>15. CASE Crash \/ Close
  <2>1. PICK n \in Nat : Halt(n) BY <1>1, <1>15 DEF Crash, Close
  <2>2. header' \in Nat /\ tail' \in BOOLEAN BY <1>1, <1>3, <2>1 DEF Halt
  <2>3. /\ scan' = IdleScan /\ entryCount' = 0 /\ ncrashes' = ncrashes + 1
        /\ UNCHANGED <<ncompacts, nscans, during>>
    BY <2>1 DEF Halt
  <2> QED BY <1>2, <2>2, <2>3, IdleScanTyped DEF ScanTypes
<1>16. CASE Open BY <1>16 DEF Open, ScanTypes, counters
<1> QED
  BY <1>5, <1>6, <1>7, <1>8, <1>9, <1>10, <1>11, <1>12, <1>13, <1>14, <1>15, <1>16 DEF Next

LEMMA ScanAtKept ==
  ASSUME IndexInv, ScanTypes, ScanAt, [Next]_vars
  PROVE  ScanAt'
<1>1. /\ file \in Seq(Entry) /\ lost \in SUBSET (1..Len(file)) /\ Len(file) \in Nat
      /\ (~scan.astray => ScanIn(file, lost, scan)) /\ (~open => scan.pc = "idle") /\ scan \in Scans
  BY VisibleFacts DEF ScanAt, ScanTypes, IndexInv, Types
<1>2. ASSUME UNCHANGED <<file, lost, scan, open>> PROVE ScanAt' BY <1>2 DEF ScanAt
<1>3. ASSUME scan'.pc \notin Running \/ scan'.astray, open' = open, open PROVE ScanAt'
  BY <1>1, <1>3 DEF ScanAt, ScanIn, Running
<1>4. ASSUME ScanStep PROVE UNCHANGED <<file, lost, open>> BY <1>4, ScanKeeps DEF core
<1>5. CASE UNCHANGED vars BY <1>2, <1>5 DEF vars, fileVars, history
<1>6. ASSUME NEW p \in Readers, (\E k \in Keys : Load(p, k)) \/ Walk(p) \/ Return(p) PROVE ScanAt'
  BY <1>2, <1>6 DEF Load, Walk, Return, fileVars, history
<1>7. ASSUME NEW k \in Keys, Set(k) \/ Delete(k) PROVE ScanAt'
  <2>1. PICK val \in Nat : \E n : Append1(k, val, n) BY <1>7, SetOrDelete
  <2>2. NewEntry(k, val) \in Entry
    BY SlotFacts DEF NewEntry, Entry, IndexInv, Types
  <2>3. file' = Append(file, NewEntry(k, val)) /\ UNCHANGED <<lost, scan, open>>
    BY <2>1 DEF Append1, history
  <2>4. ~scan.astray => ScanIn(Append(file, NewEntry(k, val)), lost, scan) BY <1>1, <2>2, ScanInOn
  <2> QED BY <1>1, <2>3, <2>4 DEF ScanAt
<1>8. CASE AppendFails \/ Publish \/ PersistBucket
  BY <1>2, <1>8 DEF AppendFails, Publish, PersistBucket, fileVars, history
<1>9. CASE ScanStart
  <2>1. scan'.pos = 1 /\ scan'.limit = Len(file) /\ scan'.slot = 0 /\ scan'.pc # "chain"
    BY <1>9, StartIs
  <2>2. 1 \in 1..(Len(file) + 1) /\ Len(file) <= Len(file) BY <1>1, SMT
  <2>3. 0 \in 0..NumSlots BY IndexConstants, SMT
  <2>4. open /\ UNCHANGED <<file, lost, open>> BY <1>4, <1>9 DEF ScanStep, ScanStart
  <2> QED BY <2>1, <2>2, <2>3, <2>4 DEF ScanAt, ScanIn
<1>10. CASE ScanSmall
  <2>1. open /\ UNCHANGED <<file, lost, open>> BY <1>1, <1>4, <1>10 DEF ScanStep, ScanSmall
  <2>2. scan.limit \in Nat /\ scan.pos \in Nat BY <1>1, ScanFields
  <2>3. scan'.pc = "small" => /\ scan'.pos = scan.pos + 1 /\ scan'.limit = scan.limit
                              /\ scan.pos <= scan.limit
    BY <1>10, SmallIs
  <2>4. scan'.pc \in {"small", "done"} BY <1>10, SmallIs
  <2>5. scan.limit <= Len(file) BY <1>1, <1>10 DEF ScanIn, ScanSmall
  <2>6. \A p, l \in Nat : p <= l => p + 1 \in 1..(l + 1) BY SMT
  <2> QED BY <2>1, <2>2, <2>3, <2>4, <2>5, <2>6 DEF ScanAt, ScanIn
<1>11. CASE ScanSlot
  <2>1. open /\ UNCHANGED <<file, lost, open>> BY <1>1, <1>4, <1>11 DEF ScanStep, ScanSlot
  <2>2. CASE scan'.pc = "done" BY <2>1, <2>2 DEF ScanAt, ScanIn
  <2>3. CASE scan'.pc = "chain"
    <3>1. scan.slot \in Slots /\ scan'.slot = scan.slot /\ scan'.off = buckets[scan.slot]
      BY <1>11, <2>3, SlotIs
    <3>2. IsTop(OfSlot(file, lost, scan.slot, Visible), buckets[scan.slot])
      BY <3>1 DEF IndexInv, InMemory, Heads
    <3>3. OfSlot(file, lost, scan.slot, Visible) \subseteq OfSlot(file, lost, scan.slot, Len(file))
      BY VisibleFacts, SMT DEF OfSlot
    <3>4. scan'.off = 0 \/ scan'.off \in OfSlot(file, lost, scan.slot, Len(file))
      BY <3>1, <3>2, <3>3 DEF IsTop
    <3> QED BY <2>1, <2>3, <3>1, <3>4 DEF ScanAt, ScanIn
  <2> QED BY <1>11, <2>2, <2>3, SlotIs
<1>12. CASE ScanChain
  <2>1. open /\ UNCHANGED <<file, lost, open>> BY <1>1, <1>4, <1>12 DEF ScanStep, ScanChain
  <2>2. scan.slot \in Slots BY <1>1, <1>12 DEF ScanIn, ScanChain
  <2>3. CASE scan'.pc = "slot"
    <3>1. scan'.slot = scan.slot + 1 BY <1>12, <2>3, ChainIs
    <3>2. scan.slot + 1 \in 0..NumSlots BY <2>2, IndexConstants, SMT DEF Slots
    <3> QED BY <2>1, <2>3, <3>1, <3>2 DEF ScanAt, ScanIn
  <2>4. CASE scan'.pc = "chain"
    <3> DEFINE e == file[scan.off]
    <3>1. /\ scan.off \in OfSlot(file, lost, scan.slot, Len(file)) /\ e.key \in Keys
          /\ SlotOf[e.key] = scan.slot /\ scan'.slot = scan.slot /\ scan'.off = e.next
      BY <1>12, <2>4, ChainIs
    <3>2. e.next = 0 \/ e.next \in OfSlot(file, lost, scan.slot, Len(file))
      <4>1. Chain(file, lost) BY DEF IndexInv, InMemory
      <4> QED BY <1>1, <3>1, <4>1, WalkOn
    <3> QED BY <2>1, <2>2, <2>4, <3>1, <3>2 DEF ScanAt, ScanIn
  <2> QED BY <1>12, <2>3, <2>4, ChainIs
<1>13. CASE ScanMisreads \/ ScanFails \/ ScanAstray
  <2>1. scan'.pc \notin Running \/ scan'.astray BY <1>13, FailsIs, AstrayIs DEF Running
  <2>2. scan.pc # "idle" BY <1>13, AstrayIs DEF ScanFails, AtHalf, Running
  <2>3. open /\ open' = open BY <1>1, <1>4, <1>13, <2>2 DEF ScanStep
  <2> QED BY <1>3, <2>1, <2>3
<1>14. CASE CompactStart \/ (\E k \in Keys : CompactCopy(k)) \/ CompactFails \/ CompactRename \/ CompactClose
  BY <1>2, <1>14 DEF CompactStart, CompactCopy, CompactFails, CompactRename, CompactClose,
     fileVars, history
<1>15. CASE CompactReopen
  <2>1. scan'.pc \notin Running \/ scan'.astray BY <1>1, <1>15, ReopenScan
  <2>2. open /\ open' = open BY <1>15 DEF CompactReopen, IndexInv, Phases
  <2> QED BY <1>3, <2>1, <2>2
<1>16. CASE Crash \/ Close
  <2>1. scan'.pc = "idle" BY <1>16, IdleScanTyped DEF Crash, Close, Halt
  <2> QED BY <2>1 DEF ScanAt, ScanIn
<1>17. CASE Open
  <2>1. scan'.pc = "idle" BY <1>1, <1>17 DEF Open
  <2> QED BY <2>1 DEF ScanAt, ScanIn
<1> QED
  BY <1>5, <1>6, <1>7, <1>8, <1>9, <1>10, <1>11, <1>12, <1>13, <1>14, <1>15, <1>16, <1>17 DEF Next

ScanSound == ScanTypes /\ ScanAt

LEMMA InitScanSound == Init => ScanSound
<1> SUFFICES ASSUME Init PROVE ScanSound OBVIOUS
<1>1. scan \in Scans /\ scan.pc = "idle" BY IdleScanTyped DEF Init
<1>2. during \in [Keys -> SUBSET Nat] BY DEF Init
<1>3. /\ tail \in BOOLEAN /\ header \in Nat /\ entryCount \in Nat
      /\ ncompacts \in Nat /\ nscans \in Nat /\ ncrashes \in Nat
  BY DEF Init
<1> QED BY <1>1, <1>2, <1>3 DEF ScanSound, ScanTypes, ScanAt, ScanIn

LEMMA NextScanSound == IndexInv /\ ScanSound /\ [Next]_vars => ScanSound'
BY ScanTypesKept, ScanAtKept DEF ScanSound

-----------------------------------------------------------------------------
(* What a scan reports *)

\* forEachSmall has reported the last entry of every key so far, and the last one
\* up to its limit is a value the key had during the scan (history d).
SmallRight(f, sc, d) ==
  \A k \in Keys : \A t :
    /\ IsTop(OfKey(f, {}, k, sc.pos - 1), t) => sc.out[k] = Val(f, t)
    /\ IsTop(OfKey(f, {}, k, sc.limit), t) => Val(f, t) \in d[k]

\* forEachLarge has reported the keys of the slots behind it, nothing of those
\* before it; in its slot, the newest entry of a key it has not seen is ahead.
Behind(sc, d) == \A k \in Keys : SlotOf[k] < sc.slot => sc.out[k] \in d[k]
Ahead(sc) ==
  \A k \in Keys : (IF sc.pc = "slot" THEN SlotOf[k] >= sc.slot ELSE SlotOf[k] > sc.slot)
                    => sc.out[k] = 0 /\ k \notin sc.seen
Within(f, L, sc, d) ==
  \A k \in Keys : SlotOf[k] = sc.slot =>
    /\ k \in sc.seen => sc.out[k] \in d[k]
    /\ k \notin sc.seen => /\ sc.out[k] = 0
                           /\ \A t : IsTop(OfKey(f, L, k, sc.off), t) => Val(f, t) \in d[k]

Reports(f, L, sc, d) ==
  /\ sc.pc = "small" => SmallRight(f, sc, d)
  /\ sc.pc \in {"slot", "chain"} => Behind(sc, d) /\ Ahead(sc)
  /\ sc.pc = "chain" => Within(f, L, sc, d)
  /\ sc.pc = "done" => \A k \in Keys : sc.out[k] \in d[k]
  /\ sc.pc = "failed" => \A k \in Keys : sc.out[k] \in d[k] \cup {0}

\* What is in the map now is a value of the scan's time.
Current(f, c, sc, d) == sc.pc \in Running => \A k \in Keys : Val(f, c[k]) \in d[k]

Reporting == ~scan.astray => Reports(file, lost, scan, during) /\ Current(file, cur, scan, during)

\* More values are allowed: what was reported stays right.
LEMMA ReportsMore ==
  ASSUME NEW f, NEW L, NEW sc, NEW d, NEW e, \A k \in Keys : d[k] \subseteq e[k], Reports(f, L, sc, d)
  PROVE  Reports(f, L, sc, e)
<1>1. ASSUME SmallRight(f, sc, d) PROVE SmallRight(f, sc, e) BY <1>1 DEF SmallRight
<1>2. ASSUME Behind(sc, d) PROVE Behind(sc, e) BY <1>2 DEF Behind
<1>3. ASSUME Within(f, L, sc, d) PROVE Within(f, L, sc, e) BY <1>3 DEF Within
<1> QED BY <1>1, <1>2, <1>3 DEF Reports

\* An append puts nothing before a scan's limit, or into the chain it is in.
LEMMA ReportsOn ==
  ASSUME NEW f \in Seq(Entry), NEW L \in SUBSET (1..Len(f)), NEW e \in Entry, NEW sc \in Scans, NEW d,
         ScanIn(f, L, sc), Reports(f, L, sc, d)
  PROVE  Reports(Append(f, e), L, sc, d)
<1> DEFINE g == Append(f, e)
<1>1. \A o \in 1..Len(f) : g[o] = f[o] BY AppendFacts
<1>2. Len(f) \in Nat BY AppendFacts
<1>3. {} \in SUBSET (1..Len(f)) OBVIOUS
<1>4. ASSUME NEW k, NEW n \in 0..Len(f)
      PROVE  OfKey(g, {}, k, n) = OfKey(f, {}, k, n) /\ OfKey(g, L, k, n) = OfKey(f, L, k, n)
  BY <1>3, AppendOf
<1> HIDE DEF g
<1>5. ASSUME NEW t \in 0..Len(f) PROVE Val(g, t) = Val(f, t) BY <1>1, <1>2, SMT DEF Val
<1>6. ASSUME NEW k, NEW n, NEW M, NEW t, IsTop(OfKey(f, M, k, n), t) PROVE Val(g, t) = Val(f, t)
  BY <1>5, <1>6, TopNat
<1>7. ASSUME sc.pc = "small" PROVE SmallRight(g, sc, d)
  <2>1. sc.pos \in 1..(sc.limit + 1) /\ sc.limit <= Len(f) /\ sc.limit \in Nat
    BY <1>7, ScanFields DEF ScanIn
  <2>2. sc.limit \in 0..Len(f) /\ sc.pos - 1 \in 0..Len(f) BY <1>2, <2>1, SMT
  <2>3. SmallRight(f, sc, d) BY <1>7 DEF Reports
  <2> SUFFICES ASSUME NEW k \in Keys, NEW t
               PROVE  /\ IsTop(OfKey(g, {}, k, sc.pos - 1), t) => sc.out[k] = Val(g, t)
                      /\ IsTop(OfKey(g, {}, k, sc.limit), t) => Val(g, t) \in d[k]
    BY DEF SmallRight
  <2>4. /\ OfKey(g, {}, k, sc.pos - 1) = OfKey(f, {}, k, sc.pos - 1)
        /\ OfKey(g, {}, k, sc.limit) = OfKey(f, {}, k, sc.limit)
    BY <1>4, <2>2
  <2>5. ASSUME IsTop(OfKey(f, {}, k, sc.pos - 1), t) PROVE sc.out[k] = Val(g, t)
    <3>1. Val(g, t) = Val(f, t) BY <1>6, <2>5
    <3> QED BY <2>3, <2>5, <3>1 DEF SmallRight
  <2>6. ASSUME IsTop(OfKey(f, {}, k, sc.limit), t) PROVE Val(g, t) \in d[k]
    <3>1. Val(g, t) = Val(f, t) BY <1>6, <2>6
    <3> QED BY <2>3, <2>6, <3>1 DEF SmallRight
  <2> QED BY <2>4, <2>5, <2>6
<1>8. ASSUME sc.pc = "chain" PROVE Within(g, L, sc, d)
  <2>1. sc.off \in 0..Len(f) BY <1>2, <1>8, SMT DEF ScanIn, OfSlot
  <2>2. Within(f, L, sc, d) BY <1>8 DEF Reports
  <2>3. ASSUME NEW k \in Keys, NEW t, SlotOf[k] = sc.slot, k \notin sc.seen, IsTop(OfKey(g, L, k, sc.off), t)
        PROVE  Val(g, t) \in d[k]
    <3>1. IsTop(OfKey(f, L, k, sc.off), t) BY <1>4, <2>1, <2>3
    <3>2. Val(g, t) = Val(f, t) BY <1>6, <3>1
    <3> QED BY <2>2, <2>3, <3>1, <3>2 DEF Within
  <2> QED BY <2>2, <2>3 DEF Within
<1> QED BY <1>7, <1>8 DEF Reports, g

\* The last entry of a key is the newest one, or one that is being written, or one
\* whose write a crash undid.
LEMMA LastIsNewest ==
  ASSUME IndexInv, NEW k \in Keys, NEW t, IsTop(OfKey(file, {}, k, Len(file)), t)
  PROVE  \/ Val(file, t) = Val(file, cur[k])
         \/ w.pc = "written" /\ w.key = k /\ Val(file, t) = file[Len(file)].val
         \/ Val(file, t) \in Undone(k)
<1> DEFINE S == OfKey(file, {}, k, Len(file))
           c == cur[k]
<1>1. /\ file \in Seq(Entry) /\ lost \in SUBSET (1..Len(file)) /\ Len(file) \in Nat
      /\ Visible \in Nat /\ Visible <= Len(file)
  BY VisibleFacts DEF IndexInv, Types
<1>2. IsTop(OfKey(file, lost, k, Visible), c) BY DEF IndexInv, InMemory, Newest
<1>3. c \in 0..Len(file) /\ t \in 0..Len(file) BY <1>1, <1>2, TopNat
<1>4. c = 0 \/ (c \in S /\ c <= t)
  <2>1. c = 0 \/ c \in OfKey(file, lost, k, Visible) BY <1>2 DEF IsTop
  <2>2. OfKey(file, lost, k, Visible) \subseteq S BY <1>1, SMT DEF OfKey
  <2> QED BY <2>1, <2>2 DEF IsTop
<1>5. t = 0 \/ (t \in 1..Len(file) /\ file[t].key = k) BY DEF IsTop, OfKey
<1> HIDE DEF S
<1>6. CASE t = 0
  <2>1. c = 0 BY <1>3, <1>4, <1>6, SMT
  <2> QED BY <1>6, <2>1
<1>7. CASE t # 0 /\ t \in lost
  <2>1. CASE t > c
    <3>1. file[t].val \in Undone(k) BY <1>5, <1>7, <2>1 DEF Undone
    <3> QED BY <1>7, <3>1 DEF Val
  <2>2. CASE ~(t > c)
    <3>1. t = c BY <1>3, <1>4, <1>7, <2>2, SMT
    <3> QED BY <3>1
  <2> QED BY <2>1, <2>2
<1>8. CASE t # 0 /\ t \notin lost
  <2>1. CASE t <= Visible
    <3>1. t \in OfKey(file, lost, k, Visible) BY <1>5, <1>8, <2>1 DEF OfKey
    <3>2. t <= c /\ c \in Nat BY <1>2, <1>3, <3>1, SMT DEF IsTop
    <3>3. t = c BY <1>3, <1>4, <1>8, <3>2, SMT
    <3> QED BY <3>3
  <2>2. CASE ~(t <= Visible)
    <3>1. w.pc = "written" /\ t = Len(file) BY <1>1, <1>3, <2>2, SMT DEF Visible
    <3>2. w.key = k BY <1>5, <1>8, <3>1 DEF IndexInv, Phases
    <3> QED BY <1>8, <3>1, <3>2 DEF Val
  <2> QED BY <2>1, <2>2
<1> QED BY <1>6, <1>7, <1>8

\* ForEach starts: its limit is the end of the file.
LEMMA StartReports ==
  ASSUME IndexInv, ScanTypes, ScanStart
  PROVE  Reporting'
<1>1. /\ UNCHANGED <<file, lost, cur, w>>
      /\ during' = [k \in Keys |-> {Val(file, cur[k])} \cup
                     (IF w.pc = "written" /\ w.key = k THEN {file[Len(file)].val} ELSE {})
                     \cup (IF Sequential THEN Undone(k) ELSE {})]
  BY DEF ScanStart, fileVars, memVars
<1>2. ASSUME NEW k \in Keys
      PROVE  /\ Val(file, cur[k]) \in during'[k]
             /\ w.pc = "written" /\ w.key = k => file[Len(file)].val \in during'[k]
             /\ Sequential => Undone(k) \subseteq during'[k]
  BY <1>1
<1>3. /\ scan'.pos = 1 /\ scan'.limit = Len(file) /\ scan'.slot = 0 /\ scan'.seen = {}
      /\ \A k \in Keys : scan'.out[k] = 0
      /\ scan'.pc = IF Sequential THEN "small" ELSE "slot"
  BY StartIs DEF Nothing, Sequential
<1>4. file \in Seq(Entry) /\ Len(file) \in Nat BY VisibleFacts DEF IndexInv, Types
<1>5. ASSUME Sequential, NEW k \in Keys, NEW t
      PROVE  /\ IsTop(OfKey(file, {}, k, 1 - 1), t) => 0 = Val(file, t)
             /\ IsTop(OfKey(file, {}, k, Len(file)), t) => Val(file, t) \in during'[k]
  <2>1. OfKey(file, {}, k, 1 - 1) = {} BY <1>4, SMT DEF OfKey
  <2>2. IsTop({}, t) => Val(file, t) = 0 BY DEF IsTop, Val
  <2>3. ASSUME IsTop(OfKey(file, {}, k, Len(file)), t) PROVE Val(file, t) \in during'[k]
    <3>1. \/ Val(file, t) = Val(file, cur[k])
          \/ w.pc = "written" /\ w.key = k /\ Val(file, t) = file[Len(file)].val
          \/ Val(file, t) \in Undone(k)
      BY <2>3, LastIsNewest
    <3> QED BY <1>2, <1>5, <3>1
  <2> QED BY <2>1, <2>2, <2>3
<1>6. ASSUME Sequential PROVE SmallRight(file, scan', during')
  <2>1. scan'.pos = 1 /\ scan'.limit = Len(file) /\ \A k \in Keys : scan'.out[k] = 0 BY <1>3
  <2> QED BY <1>5, <1>6, <2>1 DEF SmallRight
<1>7. Behind(scan', during') BY <1>3, SlotFacts, IndexConstants, SMT DEF Behind, Slots
<1>8. Ahead(scan') BY <1>3 DEF Ahead
<1>9. Reports(file, lost, scan', during') BY <1>3, <1>6, <1>7, <1>8 DEF Reports
<1>10. Current(file, cur, scan', during') BY <1>2 DEF Current
<1> QED BY <1>1, <1>9, <1>10 DEF Reporting

\* forEachLarge loads the head of a slot, or is through.
LEMMA SlotReports ==
  ASSUME IndexInv, ScanTypes, ScanAt, Reporting, ScanSlot
  PROVE  Reporting'
<1>1. UNCHANGED <<file, lost, cur, during>> BY DEF ScanSlot, fileVars, history
<1>2. /\ scan.pc = "slot" /\ Behind(scan, during) /\ Ahead(scan)
      /\ \A k \in Keys : Val(file, cur[k]) \in during[k]
  BY DEF ScanSlot, Reporting, Reports, Current, Running
<1>3. file \in Seq(Entry) /\ Len(file) \in Nat BY VisibleFacts DEF IndexInv, Types
<1>4. Current(file, cur, scan', during) BY <1>2 DEF Current
<1>5. scan'.out = scan.out BY SlotIs
<1>6. CASE scan.slot = NumSlots /\ scan'.pc = "done"
  <2>1. \A k \in Keys : SlotOf[k] < scan.slot BY <1>6, SlotFacts, IndexConstants, SMT DEF Slots
  <2>2. \A k \in Keys : scan'.out[k] \in during[k] BY <1>2, <1>5, <2>1 DEF Behind
  <2>3. Reports(file, lost, scan', during) BY <1>6, <2>2 DEF Reports
  <2> QED BY <1>1, <1>4, <2>3 DEF Reporting
<1>7. CASE /\ scan.slot \in Slots /\ scan'.pc = "chain" /\ scan'.off = buckets[scan.slot]
           /\ scan'.seen = scan.seen /\ scan'.slot = scan.slot
  <2>1. \A k \in Keys : /\ SlotOf[k] > scan.slot => SlotOf[k] >= scan.slot
                        /\ SlotOf[k] = scan.slot => SlotOf[k] >= scan.slot
    BY <1>7, SlotFacts, IndexConstants, SMT DEF Slots
  <2>2. Behind(scan', during) BY <1>2, <1>5, <1>7 DEF Behind
  <2>3. Ahead(scan') BY <1>2, <1>5, <1>7, <2>1 DEF Ahead
  <2>4. ASSUME NEW k \in Keys, SlotOf[k] = scan.slot, NEW t, IsTop(OfKey(file, lost, k, buckets[scan.slot]), t)
        PROVE  Val(file, t) \in during[k]
    <3> DEFINE b == buckets[SlotOf[k]]
    <3>1. SlotOf[k] \in Slots /\ b \in Nat BY SlotFacts DEF IndexInv, Types
    <3>2. IsTop(OfSlot(file, lost, SlotOf[k], Visible), b) BY <3>1 DEF IndexInv, InMemory, Heads
    <3>3. Visible \in Nat BY VisibleFacts
    <3>4. OfKey(file, lost, k, b) = OfKey(file, lost, k, Visible) BY <1>3, <3>1, <3>2, <3>3, KeyInSlot
    <3>5. IsTop(OfKey(file, lost, k, Visible), cur[k]) BY DEF IndexInv, InMemory, Newest
    <3>6. OfKey(file, lost, k, Visible) \in SUBSET Nat BY <1>3, OfNat
    <3>7. IsTop(OfKey(file, lost, k, Visible), t) BY <2>4, <3>4
    <3>8. t = cur[k] BY <3>5, <3>6, <3>7, TopUnique
    <3> QED BY <1>2, <3>8
  <2>5. \A k \in Keys : SlotOf[k] = scan.slot => scan.out[k] = 0 /\ k \notin scan.seen
    BY <1>2, <2>1 DEF Ahead
  <2>6. Within(file, lost, scan', during) BY <1>5, <1>7, <2>4, <2>5 DEF Within
  <2>7. Reports(file, lost, scan', during) BY <1>7, <2>2, <2>3, <2>6 DEF Reports
  <2> QED BY <1>1, <1>4, <2>7 DEF Reporting
<1> QED BY <1>6, <1>7, SlotIs

\* forEachLarge reads one entry of a chain, or reaches its end.
LEMMA ChainReports ==
  ASSUME IndexInv, ScanTypes, ScanAt, Reporting, ScanChain
  PROVE  Reporting'
<1>1. UNCHANGED <<file, lost, cur, during>> BY DEF ScanChain, fileVars, history
<1>2. /\ scan.pc = "chain" /\ Behind(scan, during) /\ Ahead(scan) /\ Within(file, lost, scan, during)
      /\ \A k \in Keys : Val(file, cur[k]) \in during[k] /\ scan.slot \in Slots
  BY DEF ScanChain, Reporting, Reports, Current, Running, ScanAt, ScanIn
<1>3. /\ file \in Seq(Entry) /\ Len(file) \in Nat /\ Chain(file, lost) /\ scan.out \in [Keys -> Nat]
      /\ scan.slot \in Nat
  BY VisibleFacts, ScanFields DEF ScanTypes, IndexInv, Types, InMemory
<1>4. Current(file, cur, scan', during) BY <1>2 DEF Current
<1>5. \A k \in Keys : SlotOf[k] \in Nat BY SlotFacts, IndexConstants, SMT DEF Slots
<1>6. CASE /\ scan.off = 0 /\ scan'.pc = "slot" /\ scan'.slot = scan.slot + 1
           /\ scan'.seen = scan.seen /\ scan'.out = scan.out
  <2>1. \A m, n \in Nat : /\ m < n + 1 => m < n \/ m = n
                          /\ m >= n + 1 => m > n
    BY SMT
  <2>2. ASSUME NEW k \in Keys, SlotOf[k] = scan.slot PROVE scan.out[k] \in during[k]
    <3>1. OfKey(file, lost, k, 0) = {} BY <1>3, SMT DEF OfKey
    <3>2. IsTop(OfKey(file, lost, k, scan.off), 0) BY <1>6, <3>1, TopOfNone
    <3>3. Val(file, 0) = 0 BY DEF Val
    <3> QED BY <1>2, <2>2, <3>2, <3>3 DEF Within
  <2>3. Behind(scan', during)
    <3> SUFFICES ASSUME NEW k \in Keys, SlotOf[k] < scan.slot + 1 PROVE scan.out[k] \in during[k]
      BY <1>6 DEF Behind
    <3>1. SlotOf[k] < scan.slot \/ SlotOf[k] = scan.slot BY <1>3, <1>5, <2>1
    <3> QED BY <1>2, <2>2, <3>1 DEF Behind
  <2>4. Ahead(scan')
    <3> SUFFICES ASSUME NEW k \in Keys, SlotOf[k] >= scan.slot + 1 PROVE scan.out[k] = 0 /\ k \notin scan.seen
      BY <1>6 DEF Ahead
    <3>1. SlotOf[k] > scan.slot BY <1>3, <1>5, <2>1
    <3>2. scan.pc # "slot" BY <1>2
    <3> QED BY <1>2, <3>1, <3>2 DEF Ahead
  <2>5. Reports(file, lost, scan', during) BY <1>6, <2>3, <2>4 DEF Reports
  <2> QED BY <1>1, <1>4, <2>5 DEF Reporting
<1>7. CASE LET e == file[scan.off] IN
           /\ scan.off \in OfSlot(file, lost, scan.slot, Len(file)) /\ e.key \in Keys
           /\ SlotOf[e.key] = scan.slot
           /\ scan'.pc = "chain" /\ scan'.slot = scan.slot /\ scan'.off = e.next
           /\ scan'.seen = scan.seen \cup {e.key} /\ scan'.out = Yield(e)
  <2> DEFINE e == file[scan.off]
             o == scan.off
  <2>1. /\ o \in OfSlot(file, lost, scan.slot, Len(file)) /\ e.key \in Keys /\ SlotOf[e.key] = scan.slot
        /\ scan'.pc = "chain" /\ scan'.slot = scan.slot /\ scan'.off = e.next
        /\ scan'.seen = scan.seen \cup {e.key} /\ scan'.out = Yield(e)
    BY <1>7
  <2>2. ASSUME NEW k \in Keys
        PROVE  Yield(e)[k] = IF k = e.key /\ k \notin scan.seen THEN e.val ELSE scan.out[k]
    BY <1>3, <2>1, <2>2 DEF Yield
  <2>3. ASSUME NEW k \in Keys, SlotOf[k] # scan.slot
        PROVE  scan'.out[k] = scan.out[k] /\ (k \in scan'.seen <=> k \in scan.seen)
    <3>1. k # e.key BY <2>1, <2>3
    <3> QED BY <2>1, <2>2, <3>1
  <2>4. \A m, n \in Nat : (m < n => m # n) /\ (m > n => m # n) BY SMT
  <2>5. Behind(scan', during)
    <3> SUFFICES ASSUME NEW k \in Keys, SlotOf[k] < scan.slot PROVE scan'.out[k] \in during[k]
      BY <2>1 DEF Behind
    <3>1. SlotOf[k] # scan.slot BY <1>3, <1>5, <2>4
    <3> QED BY <1>2, <2>3, <3>1 DEF Behind
  <2>6. Ahead(scan')
    <3> SUFFICES ASSUME NEW k \in Keys, SlotOf[k] > scan.slot PROVE scan'.out[k] = 0 /\ k \notin scan'.seen
      BY <2>1 DEF Ahead
    <3>1. SlotOf[k] # scan.slot BY <1>3, <1>5, <2>4
    <3>2. scan.pc # "slot" BY <1>2
    <3> QED BY <1>2, <2>3, <3>1, <3>2 DEF Ahead
  <2>7. ASSUME NEW k \in Keys, SlotOf[k] = scan.slot
        PROVE  /\ k \in scan'.seen => scan'.out[k] \in during[k]
               /\ k \notin scan'.seen =>
                    /\ scan'.out[k] = 0
                    /\ \A t : IsTop(OfKey(file, lost, k, e.next), t) => Val(file, t) \in during[k]
    <3>0. o \in OfSlot(file, lost, SlotOf[k], Len(file)) BY <2>1, <2>7
    <3>1. /\ e.key = k => IsTop(OfKey(file, lost, k, o), o)
          /\ e.key # k => OfKey(file, lost, k, e.next) = OfKey(file, lost, k, o)
      BY <1>3, <3>0, WalkOn
    <3>2. CASE k \in scan.seen
      <4>1. scan'.out[k] = scan.out[k] /\ k \in scan'.seen BY <2>1, <2>2, <3>2
      <4> QED BY <1>2, <2>7, <3>2, <4>1 DEF Within
    <3>3. CASE k \notin scan.seen /\ k = e.key
      <4>1. scan'.out[k] = e.val /\ k \in scan'.seen BY <2>1, <2>2, <3>3
      <4>2. o # 0 BY <1>3, <3>0, SMT DEF OfSlot
      <4>3. Val(file, o) = e.val BY <4>2 DEF Val
      <4>4. Val(file, o) \in during[k] BY <1>2, <2>7, <3>1, <3>3 DEF Within
      <4> QED BY <4>1, <4>3, <4>4
    <3>4. CASE k \notin scan.seen /\ k # e.key
      <4>1. scan'.out[k] = scan.out[k] /\ k \notin scan'.seen BY <2>1, <2>2, <3>4
      <4>2. OfKey(file, lost, k, e.next) = OfKey(file, lost, k, o) BY <3>1, <3>4
      <4> QED BY <1>2, <2>7, <3>4, <4>1, <4>2 DEF Within
    <3> QED BY <3>2, <3>3, <3>4
  <2>8. Within(file, lost, scan', during) BY <2>1, <2>7 DEF Within
  <2>9. Reports(file, lost, scan', during) BY <2>1, <2>5, <2>6, <2>8 DEF Reports
  <2> QED BY <1>1, <1>4, <2>9 DEF Reporting
<1> QED BY <1>6, <1>7, ChainIs

-----------------------------------------------------------------------------
(* What rests on a set of offsets having a greatest one *)
LOCAL INSTANCE WellFoundedInduction

\* A bounded set of offsets that is not empty has a greatest one.
LEMMA TopExists ==
  ASSUME NEW n \in Nat, NEW M \in SUBSET (1..n), M # {}
  PROVE  \E i \in M : \A j \in M : j <= i
<1> DEFINE R == OpToRel(<, Nat)
           T == {n - i : i \in M}
<1>1. IsWellFoundedOn(R, Nat)
  BY NatLessThanWellFounded
<1>0. \A x, y \in Nat : <<x, y>> \in R <=> x < y
  BY DEF OpToRel
<1>2. T \subseteq Nat /\ T # {}
  <2>1. \A i \in M : n - i \in Nat
    BY SMT
  <2> QED
    BY <2>1
<1> HIDE DEF R
<1>3. PICK x \in T : \A y \in T : ~(<<y, x>> \in R)
  <2> HIDE DEF T
  <2> QED
    BY <1>1, <1>2, WFMin
<1>4. PICK i \in M : x = n - i
  OBVIOUS
<1>5. ASSUME NEW j \in M PROVE j <= i
  <2>1. n - j \in T /\ n - j \in Nat /\ x \in Nat
    BY <1>2
  <2>2. ~(n - j < x)
    BY <1>0, <1>3, <2>1
  <2>3. i \in Nat /\ j \in Nat
    BY SMT
  <2> HIDE DEF T
  <2> QED
    BY <1>4, <2>2, <2>3, SMT
<1> QED
  BY <1>5

LEMMA ChosenIsTop ==
  ASSUME NEW n \in Nat, NEW S \in SUBSET (1..n)
  PROVE  IsTop(S, IF S = {} THEN 0 ELSE CHOOSE o \in S : \A p \in S : p <= o)
<1>1. CASE S = {}
  BY <1>1 DEF IsTop
<1>2. CASE S # {}
  <2>1. \E o \in S : \A p \in S : p <= o
    BY <1>2, TopExists
  <2> QED
    BY <1>2, <2>1 DEF IsTop
<1> QED
  BY <1>1, <1>2

LEMMA InTmpTop ==
  ASSUME IndexInv, NEW k \in Keys
  PROVE  /\ IsTop(OfKey(tmp.file, tmp.lost, k, Len(tmp.file)), InTmp(k)) /\ InTmp(k) \in Nat
         /\ Val(tmp.file, InTmp(k)) \in Nat
<1> DEFINE f == tmp.file
           S == {o \in 1..Len(f) \ tmp.lost : f[o].key = k}
<1>1. f \in Seq(Entry)
  BY DEF IndexInv, Types, Tmps
<1>2. Len(f) \in Nat
  BY <1>1, SMT
<1>3. InTmp(k) = IF S = {} THEN 0 ELSE CHOOSE o \in S : \A p \in S : p <= o
  BY DEF InTmp
<1>4. S \in SUBSET (1..Len(f))
  OBVIOUS
<1>5. OfKey(f, tmp.lost, k, Len(f)) = S
  <2> HIDE DEF f
  <2> QED
    BY <1>2, SMT DEF OfKey
<1> HIDE DEF S, f
<1>6. IsTop(S, InTmp(k))
  BY <1>2, <1>3, <1>4, ChosenIsTop
<1>7. InTmp(k) \in 0..Len(f)
  BY <1>2, <1>4, <1>6, TopRange
<1>8. InTmp(k) \in Nat
  BY <1>2, <1>7, SMT
<1>9. Val(f, InTmp(k)) \in Nat
  <2>1. InTmp(k) # 0 => f[InTmp(k)] \in Entry
    BY <1>1, <1>2, <1>7, SMT
  <2> QED
    BY <2>1 DEF Val, Entry
<1> QED
  BY <1>5, <1>6, <1>8, <1>9 DEF f

LEMMA CompactStartKeeps ==
  ASSUME IndexInv, CompactStart
  PROVE  IndexInv'
<1>1. Types /\ Phases /\ InMemory /\ OnDisk /\ InTmpFile /\ Walks /\ tmp \in Tmps
  BY DEF IndexInv, Types
<1> DEFINE left == [k \in Keys |-> Val(tmp.file, InTmp(k))]
<1>2. /\ open /\ cpc = "idle" /\ w.pc = "idle" /\ cpc' = "copy"
      /\ found' \in [Keys -> 0..Junk] /\ todo' = {k \in Keys : found'[k] # 0}
      /\ tmp' = [tmp EXCEPT !.left = left]
      /\ \A p \in Readers : get[p].pc = "idle"
      /\ UNCHANGED <<open, file, lost, table, buckets, cur, sav, w, get, entryCount, nwrites>>
  BY DEF CompactStart, fileVars, memVars, history
<1>a. found' \in [Keys -> Nat]
  <2>1. 0..Junk \subseteq Nat
    BY SMT
  <2> QED
    BY <1>2, <2>1
<1>b. left \in [Keys -> Nat]
  BY InTmpTop
<1> HIDE DEF left
<1>c. /\ tmp' \in Tmps /\ tmp'.file = tmp.file /\ tmp'.lost = tmp.lost /\ tmp'.table = tmp.table
  BY <1>1, <1>2, <1>b DEF Tmps
<1>3. Types'
  BY <1>1, <1>2, <1>a, <1>c, ZenonT(30) DEF Types
<1>4. Phases' /\ Walks'
  BY <1>1, <1>2 DEF Phases, Walks
<1>5. ~Swapped /\ ~Swapped' /\ Visible' = Visible
  BY <1>2 DEF Swapped, Visible
<1>6. InMemory' /\ OnDisk'
  BY <1>1, <1>2, <1>5, ZenonT(30) DEF InMemory, OnDisk
<1>7. todo' = FoundKeys'
  BY <1>2 DEF FoundKeys
<1>8. InTmpFile'
  BY <1>1, <1>5, <1>7, <1>c DEF InTmpFile
<1> QED
  BY <1>3, <1>4, <1>6, <1>8 DEF IndexInv

LEMMA CompactCopyKeeps ==
  ASSUME IndexInv, NEW k \in Keys, CompactCopy(k)
  PROVE  IndexInv'
<1> DEFINE f == tmp.file
           h == tmp.table
           L == tmp.lost
           e == TmpEntry(k)
           n == Len(f) + 1
<1>1. /\ Types /\ InTmpFile /\ tmp \in Tmps /\ L \in SUBSET (1..Len(f))
      /\ f \in Seq(Entry) /\ h \in [Slots -> Nat] /\ tmp.count \in Nat
  BY DEF IndexInv, Types, Tmps
<1>2. /\ cpc = "copy" /\ k \in todo /\ todo' = todo \ {k}
      /\ tmp' = [tmp EXCEPT !.file = Append(f, e), !.table = [h EXCEPT ![SlotOf[k]] = n],
                            !.count = tmp.count + 1]
      /\ UNCHANGED <<open, file, lost, table, buckets, cur, sav, w, cpc, found, get, entryCount, nwrites>>
  BY DEF CompactCopy, fileVars, memVars, counters, history
<1>5. SlotOf[k] \in Slots /\ h[SlotOf[k]] \in Nat
  BY <1>1, SlotFacts
<1>6. e \in Entry /\ e.key = k /\ e.next = h[SlotOf[k]]
  BY TmpEntryTyped
<1> HIDE DEF e, f, h, L
<1>7. Append(f, e) \in Seq(Entry) /\ Len(Append(f, e)) = n /\ Len(f) \in Nat /\ Append(f, e)[n] = e
  BY <1>1, <1>6, AppendFacts
<1>8. L \in SUBSET (1..n) /\ Len(f) \in 0..Len(f) /\ n \notin L
  BY <1>1, <1>7, SMTT(30)
<1>9. Chain(f, L) /\ Heads(f, L, h, Len(f))
  BY <1>1 DEF InTmpFile, f, h, L
<1>10. IsTop(OfSlot(f, L, SlotOf[k], Len(f)), e.next)
  BY <1>5, <1>6, <1>9 DEF Heads
<1> DEFINE g == Append(f, e)
<1>11. Chain(g, L)
  BY <1>1, <1>6, <1>9, <1>10, AppendChain, ZenonT(30)
<1>12. /\ \A s : SlotOf[k] = s => IsTop(OfSlot(g, L, s, n), n)
       /\ \A s : SlotOf[k] # s => OfSlot(g, L, s, n) = OfSlot(g, L, s, n - 1)
  <2>1. Len(g) >= 1 /\ Len(g) \notin L /\ Len(g) = n /\ g[n].key = k
    BY <1>6, <1>7, <1>8, SMT
  <2> HIDE DEF n, g
  <2>2. g \in Seq(Entry)
    BY <1>7 DEF g
  <2> QED
    BY <2>1, <2>2, PublishTop, ZenonT(30)
<1>13. \A s : OfSlot(g, L, s, n - 1) = OfSlot(f, L, s, Len(f))
  <2>1. n - 1 = Len(f)
    BY <1>7, SMT
  <2>2. \A s : OfSlot(g, L, s, Len(f)) = OfSlot(f, L, s, Len(f))
    BY <1>1, <1>6, <1>8, AppendOf, ZenonT(40)
  <2> QED
    BY <2>1, <2>2
<1>14. n \in Nat
  BY <1>7, SMT
<1>16. g \in Seq(Entry) /\ Len(g) = n
  BY <1>7
<1> DEFINE h2 == [h EXCEPT ![SlotOf[k]] = n]
           c2 == tmp.count + 1
<1>17. tmp' = [tmp EXCEPT !.file = g, !.table = h2, !.count = c2]
  BY <1>2
<1> HIDE DEF g, n
<1>18. Heads(g, L, h2, n)
  BY <1>1, <1>9, <1>12, <1>13 DEF Heads
<1>a. h2 \in [Slots -> Nat] /\ c2 \in Nat
  <2>1. tmp.count + 1 \in Nat
    BY <1>1, SMT
  <2> QED
    BY <1>1, <1>14, <2>1
<1> HIDE DEF h2, c2
<1>19. tmp'.file = g /\ tmp'.table = h2 /\ tmp'.lost = L /\ tmp' \in Tmps
  BY <1>1, <1>16, <1>17, <1>a DEF Tmps, L
<1>20. Types'
  BY <1>1, <1>2, <1>8, <1>16, <1>19, ZenonT(30) DEF Types
<1>21. Phases' /\ Walks' /\ InMemory' /\ OnDisk' /\ ~Swapped'
  BY <1>2, CompactKeeps1 DEF Swapped
<1>b. FoundKeys' = FoundKeys
  BY <1>2 DEF FoundKeys
<1>22. InTmpFile'
  BY <1>1, <1>2, <1>11, <1>16, <1>18, <1>19, <1>21, <1>b DEF InTmpFile
<1> QED
  BY <1>20, <1>21, <1>22 DEF IndexInv

LEMMA CompactRenameKeeps ==
  ASSUME IndexInv, CompactRename
  PROVE  IndexInv'
<1>1. Types /\ InTmpFile
  BY DEF IndexInv
<1>2. /\ cpc = "copy" /\ cpc' = "renamed" /\ sav' = [k \in Keys |-> InTmp(k)]
      /\ UNCHANGED <<open, file, lost, table, buckets, cur, w, get, entryCount, nwrites, found, todo, tmp>>
  BY DEF CompactRename, fileVars, memVars, counters
<1>3. sav' \in [Keys -> Nat] /\ Newest(tmp.file, tmp.lost, sav', Len(tmp.file))
  BY <1>2, InTmpTop DEF Newest
<1>4. Types'
  BY <1>1, <1>2, <1>3 DEF Types
<1>5. Phases' /\ Walks' /\ InMemory' /\ OnDisk'
  BY <1>2, CompactKeeps1 DEF Swapped
<1>6. InTmpFile'
  BY <1>1, <1>2, <1>3 DEF InTmpFile
<1> QED
  BY <1>4, <1>5, <1>6 DEF IndexInv

LEMMA NextIndexInv == IndexInv /\ [Next]_vars => IndexInv'
<1> SUFFICES ASSUME IndexInv, [Next]_vars PROVE IndexInv'
  OBVIOUS
<1>0. nwrites \in Nat
  BY DEF IndexInv, Types
<1>1. CASE UNCHANGED vars
  BY <1>0, <1>1, CoreKeeps DEF vars, core, fileVars, memVars, compactVars, counters, history
<1>2. ASSUME NEW p \in Readers, (\E k \in Keys : Load(p, k)) \/ Walk(p) \/ Return(p) PROVE IndexInv'
  BY <1>2, LoadKeeps, WalkKeeps, ReturnKeeps
<1>3. ASSUME NEW k \in Keys, Set(k) \/ Delete(k) PROVE IndexInv'
  BY <1>3, SetOrDelete, AppendEntryKeeps
<1>4. CASE AppendFails
  <2>1. UNCHANGED core /\ UNCHANGED get /\ nwrites' = nwrites + 1
    BY <1>4 DEF AppendFails, core, memVars, compactVars, history
  <2> QED
    BY <1>0, <2>1, CoreKeeps, SMT
<1>5. CASE Publish \/ PersistBucket
  BY <1>5, PublishKeeps, PersistKeeps
<1>6. CASE ScanStep
  BY <1>0, <1>6, ScanKeeps, CoreKeeps
<1>7. CASE CompactStart \/ (\E k \in Keys : CompactCopy(k)) \/ CompactFails
  BY <1>7, CompactStartKeeps, CompactCopyKeeps, CompactFailsKeeps
<1>8. CASE CompactRename \/ CompactClose \/ CompactReopen
  BY <1>8, CompactRenameKeeps, CompactCloseKeeps, CompactReopenKeeps
<1>9. CASE Crash \/ Close
  BY <1>9, HaltKeeps DEF Crash, Close
<1>10. CASE Open
  BY <1>10, OpenKeeps
<1> QED
  BY <1>1, <1>2, <1>3, <1>4, <1>5, <1>6, <1>7, <1>8, <1>9, <1>10 DEF Next, ScanStep

\* The chains in memory, in the file and in the file Compact builds, and every
\* reader's place in them, keep the invariant above.
THEOREM IndexInvHolds == Spec => []IndexInv
<1> QED
  BY InitIndexInv, NextIndexInv, PTL DEF Spec

\* For any keys, slots, hash and threshold, and whatever writes fail and wherever
\* the process dies: every entry that Set and Delete linked points to the one
\* before it in its slot, and the bucket table in the file is never ahead.
THEOREM ChainsInOrder == Spec => []ChainOrder
<1> QED
  BY IndexInvHolds, InvChainOrder, PTL

\* A scan without a lock that nobody disturbs finds the map, but for its Misread.
LEMMA FindsMap ==
  ASSUME IndexInv, w.pc = "idle", NEW k \in Keys, NEW v \in Nat, v \in Finds(k)
  PROVE  v \in {Val(file, cur[k])} \cup Misread(k)
<1>1. CASE ~Sequential
  BY <1>1 DEF Finds
<1>2. CASE Sequential /\ Halves # {}
  BY <1>2 DEF Misread
<1>3. CASE Sequential /\ Halves = {}
  <2> DEFINE S == {o \in 1..Len(file) : file[o].key = k}
             t == IF S = {} THEN 0 ELSE CHOOSE o \in S : \A p \in S : p <= o
  <2>1. v = Val(file, t)
    BY <1>3 DEF Finds, Last
  <2>2. file \in Seq(Entry) /\ Len(file) \in Nat /\ S \in SUBSET (1..Len(file))
    BY VisibleFacts DEF IndexInv, Types
  <2>3. OfKey(file, {}, k, Len(file)) = S
    <3>1. ASSUME NEW o PROVE o \in OfKey(file, {}, k, Len(file)) <=> o \in S
      BY <2>2, SMT DEF OfKey
    <3> QED
      BY <3>1
  <2> HIDE DEF S
  <2>4. IsTop(OfKey(file, {}, k, Len(file)), t)
    BY <2>2, <2>3, ChosenIsTop
  <2> HIDE DEF t
  <2>5. Val(file, t) = Val(file, cur[k]) \/ Val(file, t) \in Undone(k)
    BY <2>4, LastIsNewest
  <2> QED
    BY <1>3, <2>1, <2>5 DEF Misread
<1> QED
  BY <1>1, <1>2, <1>3

LEMMA TmpCopied ==
  ASSUME IndexInv, CopyInv, cpc = "copy", todo = {}, NEW k \in Keys
  PROVE  Val(tmp.file, InTmp(k)) \in {Val(file, cur[k])} \cup Strays(k)
<1>1. /\ Copied(k) /\ found[k] \in {Val(file, cur[k])} \cup Misread(k)
      /\ IsTop(OfKey(tmp.file, tmp.lost, k, Len(tmp.file)), InTmp(k))
  BY InTmpTop DEF CopyInv
<1>2. Val(tmp.file, InTmp(k)) = IF found[k] = 0 THEN tmp.left[k] ELSE found[k]
  BY <1>1 DEF Copied
<1>3. /\ Misread(k) \subseteq Strays(k)
      /\ 0 \in {Val(file, cur[k])} \cup Misread(k) => tmp.left[k] \in Strays(k)
  BY DEF Strays, Misread
<1>4. CASE found[k] = 0
  BY <1>1, <1>2, <1>3, <1>4
<1>5. CASE found[k] # 0
  BY <1>1, <1>2, <1>3, <1>5
<1> QED
  BY <1>4, <1>5

LEMMA CopyStepKeeps ==
  ASSUME IndexInv, CopyInv, NEW k \in Keys, CompactCopy(k)
  PROVE  \A x \in Keys : Copied(x)'
<1> DEFINE f == tmp.file
           L == tmp.lost
           e == TmpEntry(k)
           g == Append(f, e)
           n == Len(f) + 1
<1>1. /\ tmp \in Tmps /\ f \in Seq(Entry) /\ L \in SUBSET (1..Len(f)) /\ InTmpFile
  BY DEF IndexInv, Types, Tmps
<1>2. /\ cpc = "copy" /\ k \in todo /\ todo' = todo \ {k} /\ found' = found
      /\ tmp' = [tmp EXCEPT !.file = g, !.table = [tmp.table EXCEPT ![SlotOf[k]] = n],
                            !.count = tmp.count + 1]
  BY DEF CompactCopy
<1>3. \A x \in Keys : Copied(x)
  BY <1>2 DEF CopyInv
<1>4. found[k] # 0
  BY <1>1, <1>2 DEF InTmpFile, FoundKeys
<1>5. e \in Entry /\ e.key = k /\ e.val = found[k]
  BY TmpEntryTyped DEF TmpEntry
<1>6. tmp'.file = g /\ tmp'.lost = L /\ tmp'.left = tmp.left
  <2> HIDE DEF g, n
  <2> QED
    BY <1>1, <1>2 DEF Tmps
<1> HIDE DEF e, f, L
<1>8. /\ g \in Seq(Entry) /\ Len(g) = n /\ Len(f) \in Nat /\ g[n] = e
      /\ \A o \in 1..Len(f) : g[o] = f[o]
  BY <1>1, <1>5, AppendFacts
<1>9. Len(f) \in 0..Len(f) /\ n - 1 = Len(f) /\ n \in 1..n /\ n \notin L /\ n # 0
  BY <1>1, <1>8, SMTT(30)
<1>10. \A x : OfKey(g, L, x, Len(f)) = OfKey(f, L, x, Len(f))
  BY <1>1, <1>5, <1>9, AppendOf, ZenonT(30)
<1>11. \A x : k # x => OfKey(g, L, x, n) = OfKey(g, L, x, n - 1)
  <2>1. Len(g) >= 1 /\ Len(g) \notin L /\ Len(g) = n /\ g[n].key = k
    BY <1>5, <1>8, <1>9, SMTT(30)
  <2> HIDE DEF n, g
  <2> QED
    BY <1>8, <2>1, PublishTop
<1>12. ASSUME NEW x \in Keys, NEW t, IsTop(OfKey(g, L, x, n), t)
       PROVE  Val(g, t) = IF x \in todo' \/ found[x] = 0 THEN tmp.left[x] ELSE found[x]
  <2>1. CASE x = k
    <3>1. n \in OfKey(g, L, k, n)
      BY <1>5, <1>8, <1>9, SMT DEF OfKey
    <3>2. t \in OfKey(g, L, k, n) /\ n <= t
      BY <1>12, <2>1, <3>1 DEF IsTop
    <3>3. t = n
      BY <1>8, <3>2, SMT DEF OfKey
    <3>4. Val(g, t) = found[k]
      BY <1>5, <1>8, <1>9, <3>3 DEF Val
    <3> QED
      BY <1>2, <1>4, <2>1, <3>4
  <2>2. CASE x # k
    <3>1. OfKey(g, L, x, n) = OfKey(f, L, x, Len(f))
      BY <1>9, <1>10, <1>11, <2>2
    <3>2. Val(f, t) = IF x \in todo \/ found[x] = 0 THEN tmp.left[x] ELSE found[x]
      BY <1>3, <1>12, <3>1 DEF Copied, f, L
    <3>3. x \in todo' <=> x \in todo
      BY <1>2, <2>2
    <3>4. t \in 0..Len(f)
      BY <1>1, <1>12, <3>1, TopNat
    <3>5. Val(g, t) = Val(f, t)
      BY <1>8, <3>4, SMT DEF Val
    <3> QED
      BY <3>2, <3>3, <3>5
  <2> QED
    BY <2>1, <2>2
<1> QED
  BY <1>2, <1>6, <1>8, <1>12 DEF Copied

LEMMA NextCopyInv ==
  ASSUME IndexInv, CopyInv, [Next]_vars
  PROVE  CopyInv'
<1>0. Types /\ Phases
  BY DEF IndexInv
<1>c. ASSUME UNCHANGED <<file, lost, cur, entryCount>>
      PROVE  \A k \in Keys : Misread(k)' = Misread(k)
  BY <1>c DEF Misread, Undone, Halves, Sequential
<1>d. ASSUME UNCHANGED <<file, lost, cur, entryCount, tmp, sav>>
      PROVE  \A k \in Keys : Explained(k)' <=> Explained(k)
  <2>1. \A k \in Keys : Strays(k)' = Strays(k)
    BY <1>d, ZenonT(40) DEF Strays, Undone, Halves, Sequential
  <2>2. \A k \in Keys : Val(tmp.file, sav[k])' = Val(tmp.file, sav[k]) /\ Val(file, cur[k])' = Val(file, cur[k])
    BY <1>d
  <2> QED
    BY <2>1, <2>2 DEF Explained
<1>a. ASSUME UNCHANGED core PROVE CopyInv'
  <2>1. UNCHANGED <<file, lost, cur, entryCount, tmp, sav, cpc, todo, found>>
    BY <1>a DEF core
  <2> QED
    BY <1>c, <1>d, <2>1 DEF CopyInv, Copied, Swapped
<1>b. ASSUME cpc = "idle", UNCHANGED <<cpc, tmp>> PROVE CopyInv'
  BY <1>b DEF CopyInv, Swapped
<1>1. CASE UNCHANGED vars
  BY <1>1, <1>a DEF vars, core, fileVars, memVars, compactVars, counters, history
<1>2. ASSUME NEW p \in Readers, (\E k \in Keys : Load(p, k)) \/ Walk(p) \/ Return(p) PROVE CopyInv'
  <2>1. UNCHANGED core
    BY <1>2 DEF Load, Walk, Return, core, fileVars, memVars, compactVars, counters, history
  <2> QED
    BY <1>a, <2>1
<1>3. ASSUME NEW k \in Keys, Set(k) \/ Delete(k) PROVE CopyInv'
  <2>1. PICK val \in Nat : \E count : Append1(k, val, count)
    BY <1>3, SetOrDelete
  <2>2. cpc = "idle" /\ UNCHANGED <<cpc, tmp>>
    BY <2>1 DEF Append1, MayAppend, compactVars, history
  <2> QED
    BY <1>b, <2>2
<1>4. CASE AppendFails
  <2>1. UNCHANGED core
    BY <1>4 DEF AppendFails, MayAppend, core, memVars, compactVars, history
  <2> QED
    BY <1>a, <2>1
<1>5. CASE Publish \/ PersistBucket
  <2>1. w.pc # "idle" /\ UNCHANGED <<cpc, tmp>>
    BY <1>5 DEF Publish, PersistBucket, fileVars, compactVars, counters
  <2>2. cpc = "idle"
    BY <1>0, <2>1 DEF Phases
  <2> QED
    BY <1>b, <2>1, <2>2
<1>6. CASE ScanStep
  BY <1>6, <1>a, ScanKeeps
<1>7. CASE CompactStart
  <2>1. /\ w.pc = "idle" /\ cpc' = "copy" /\ found' \in [Keys -> 0..Junk]
        /\ \A k \in Keys : found'[k] \in Finds(k)
        /\ todo' = {k \in Keys : found'[k] # 0}
        /\ tmp' = [tmp EXCEPT !.left = [k \in Keys |-> Val(tmp.file, InTmp(k))]]
        /\ UNCHANGED <<file, lost, cur, entryCount>>
    BY <1>7 DEF CompactStart, fileVars, memVars, history
  <2>2. ASSUME NEW k \in Keys PROVE found'[k] \in {Val(file, cur[k])} \cup Misread(k)
    <3>1. found'[k] \in Nat
      <4>1. 0..Junk \subseteq Nat
        BY SMT
      <4> QED
        BY <2>1, <4>1
    <3> QED
      BY <2>1, <3>1, FindsMap
  <2>3. tmp'.file = tmp.file /\ tmp'.lost = tmp.lost /\ \A k \in Keys : tmp'.left[k] = Val(tmp.file, InTmp(k))
    BY <1>0, <2>1 DEF Types, Tmps
  <2>4. ASSUME NEW k \in Keys, NEW t, IsTop(OfKey(tmp.file, tmp.lost, k, Len(tmp.file)), t)
        PROVE  Val(tmp.file, t) = tmp'.left[k]
    <3>1. tmp.file \in Seq(Entry)
      BY <1>0 DEF Types, Tmps
    <3>2. OfKey(tmp.file, tmp.lost, k, Len(tmp.file)) \in SUBSET Nat
      BY <3>1, OfNat
    <3>3. t = InTmp(k)
      BY <2>4, <3>2, InTmpTop, TopUnique
    <3> QED
      BY <2>3, <3>3
  <2>5. \A k \in Keys : k \in todo' \/ found'[k] = 0
    BY <2>1
  <2>6. \A k \in Keys : Copied(k)'
    BY <2>3, <2>4, <2>5 DEF Copied
  <2> QED
    BY <1>c, <2>1, <2>2, <2>6 DEF CopyInv, Swapped
<1>8. ASSUME NEW k \in Keys, CompactCopy(k) PROVE CopyInv'
  <2>1. cpc = "copy" /\ UNCHANGED <<file, lost, cur, entryCount, cpc, found>>
    BY <1>8 DEF CompactCopy, fileVars, memVars, history
  <2>2. \A x \in Keys : Copied(x)'
    BY <1>8, CopyStepKeeps
  <2> QED
    BY <1>c, <2>1, <2>2 DEF CopyInv, Swapped
<1>9. CASE CompactFails
  BY <1>9 DEF CompactFails, CopyInv, Swapped
<1>10. CASE CompactRename
  <2>1. /\ cpc = "copy" /\ todo = {} /\ cpc' = "renamed" /\ sav' = [k \in Keys |-> InTmp(k)]
        /\ UNCHANGED <<file, lost, tmp, cur, entryCount>>
    BY <1>10 DEF CompactRename, fileVars, memVars
  <2>2. \A k \in Keys : Val(tmp.file, sav'[k]) \in {Val(file, cur[k])} \cup Strays(k)
    BY <2>1, TmpCopied
  <2>3. \A k \in Keys : Strays(k)' = Strays(k)
    BY <2>1, ZenonT(40) DEF Strays, Undone, Halves, Sequential
  <2>4. \A k \in Keys : Explained(k)'
    BY <2>1, <2>2, <2>3 DEF Explained
  <2> QED
    BY <2>1, <2>4 DEF CopyInv
<1>11. CASE CompactClose
  <2>1. /\ cpc = "renamed" /\ cpc' = "closed"
        /\ UNCHANGED <<file, lost, tmp, cur, sav, entryCount>>
    BY <1>11 DEF CompactClose, fileVars, memVars, history
  <2> QED
    BY <1>d, <2>1 DEF CopyInv, Swapped
<1>12. CASE CompactReopen
  BY <1>12 DEF CompactReopen, CopyInv, Swapped
<1>13. CASE Crash \/ Close
  BY <1>13 DEF Crash, Close, Halt, CopyInv, Swapped
<1>14. CASE Open
  <2>1. ~open /\ UNCHANGED <<cpc, tmp>>
    BY <1>14 DEF Open, compactVars
  <2>2. cpc = "idle"
    BY <1>0, <2>1 DEF Phases
  <2> QED
    BY <2>1, <2>2 DEF CopyInv, Swapped
<1> QED
  BY <1>1, <1>2, <1>3, <1>4, <1>5, <1>6, <1>7, <1>8, <1>9, <1>10, <1>11, <1>12, <1>13, <1>14
    DEF Next, ScanStep

LEMMA RenameRewrites ==
  ASSUME IndexInv, CopyInv, CompactRename
  PROVE  Map!Rewrite
<1>1. /\ cpc = "copy" /\ todo = {} /\ cpc' = "renamed" /\ sav' = [k \in Keys |-> InTmp(k)]
      /\ UNCHANGED <<file, tmp, cur, get>>
  BY DEF CompactRename, fileVars
<1>2. UNCHANGED <<mapNow, answerNow>> /\ Saved' = tmp.file
  BY <1>1 DEF mapNow, answerNow, Saved
<1>3. ASSUME NEW k \in Keys
      PROVE  savedNow'[k] \in {mapNow[k]} \cup [x \in Keys |-> Strays(x)][k]
  <2>1. savedNow'[k] = Val(tmp.file, InTmp(k)) /\ mapNow[k] = Val(file, cur[k])
    BY <1>1, <1>2 DEF savedNow, mapNow
  <2> QED
    BY <1>1, <2>1, TmpCopied
<1>4. savedNow' = [k \in Keys |-> savedNow'[k]]
  BY DEF savedNow
<1> QED
  BY <1>2, <1>3, <1>4 DEF Map!Rewrite, mapNow, savedNow, answerNow

LEMMA StepRefines == IndexInv /\ CopyInv /\ [Next]_vars => [Map!Next]_(Map!vars)
<1> SUFFICES ASSUME IndexInv, CopyInv, [Next]_vars PROVE [Map!Next]_(Map!vars)
  OBVIOUS
<1>a. ASSUME UNCHANGED <<mapNow, savedNow, answerNow>> PROVE UNCHANGED Map!vars
  BY <1>a DEF Map!vars, mapNow, savedNow, answerNow
<1>1. CASE UNCHANGED vars
  BY <1>1, <1>a, SameStutters DEF vars, fileVars, compactVars, history
<1>2. ASSUME NEW p \in Readers, NEW k \in Keys, Load(p, k) PROVE Map!Next
  BY <1>2, LoadReads DEF Map!Next
<1>3. ASSUME NEW p \in Readers, Walk(p) \/ Return(p) PROVE UNCHANGED Map!vars
  BY <1>3, <1>a, WalkStutters
<1>4. ASSUME NEW k \in Keys, Set(k) \/ Delete(k) PROVE UNCHANGED Map!vars
  <2>1. PICK val \in Nat : \E count : Append1(k, val, count)
    BY <1>4, SetOrDelete
  <2>2. cpc = "idle" /\ file' = Append(file, NewEntry(k, val)) /\ UNCHANGED <<cpc, cur, sav, get>>
    BY <2>1 DEF Append1, MayAppend, compactVars, history
  <2>3. NewEntry(k, val) \in Entry
    <3>1. buckets[SlotOf[k]] \in Nat
      BY SlotFacts DEF IndexInv, Types
    <3> QED
      BY <3>1 DEF NewEntry, Entry
  <2> QED
    BY <1>a, <2>2, <2>3, AppendStutters DEF Swapped
<1>5. CASE AppendFails
  BY <1>5, <1>a, SameStutters DEF AppendFails, compactVars, history
<1>6. CASE Publish
  BY <1>6, PublishPuts DEF Map!Next
<1>7. CASE PersistBucket
  BY <1>7, PersistSaves
<1>8. CASE ScanStep
  BY <1>8, <1>a, ScanKeeps, SameStutters DEF core
<1>9. ASSUME CompactStart \/ (\E k \in Keys : CompactCopy(k)) \/ CompactFails \/ CompactClose
      PROVE  UNCHANGED Map!vars
  <2>1. (~Swapped /\ ~Swapped') \/ (Swapped /\ Swapped' /\ UNCHANGED tmp)
    BY <1>9 DEF CompactStart, CompactCopy, CompactFails, CompactClose, Swapped
  <2>2. UNCHANGED <<file, cur, sav, get>>
    BY <1>9 DEF CompactStart, CompactCopy, CompactFails, CompactClose, fileVars, history
  <2>3. Saved' = Saved
    BY <2>1, <2>2 DEF Saved, Swapped
  <2>4. UNCHANGED <<mapNow, savedNow, answerNow>>
    BY <2>2, <2>3 DEF mapNow, savedNow, answerNow
  <2> QED
    BY <1>a, <2>4
<1>10. CASE CompactRename
  BY <1>10, RenameRewrites DEF Map!Next
<1>11. CASE CompactReopen
  BY <1>11, ReopenAdopts DEF Map!Next
<1>12. CASE Crash \/ Close
  BY <1>12, HaltCrashes DEF Crash, Close, Map!Next
<1>13. CASE Open
  <2>1. /\ ~open /\ UNCHANGED <<cpc, tmp, cur, sav, get>>
        /\ \/ UNCHANGED file
           \/ file' = Append(file, Half)
    BY <1>13 DEF Open, compactVars
  <2>2. cpc = "idle"
    BY <2>1 DEF IndexInv, Phases
  <2>3. Half \in Entry
    BY DEF Half, Entry
  <2> QED
    BY <1>a, <2>1, <2>2, <2>3, AppendStutters, SameStutters DEF Swapped
<1> QED
  BY <1>1, <1>2, <1>3, <1>4, <1>5, <1>6, <1>7, <1>8, <1>9, <1>10, <1>11, <1>12, <1>13 DEF
    Next, ScanStep

\* Get takes no lock and reads its chain entry by entry while Set and Delete link
\* new entries, and yet, for any keys, hash, readers and threshold, each of them
\* happens at one instant: hashIndex implements IndexSpec.  Whatever writes fail
\* and wherever the process dies, inside Compact too, Compact changes a key's value
\* only to one of its Strays.
THEOREM IndexIsAtomic == Spec => AtomicMap
<1>1. IndexInv /\ CopyInv /\ [Next]_vars => CopyInv'
  BY NextCopyInv
<1>2. Spec => []CopyInv
  BY <1>1, InitRefines, IndexInvHolds, PTL DEF Spec
<1> QED
  BY <1>2, InitRefines, IndexInvHolds, StepRefines, PTL DEF Spec, AtomicMap, Map!Spec

\* Every variable of the index keeps its type: in particular the entry count that
\* Delete lowers (hashindex.go checks it for 0 first) never goes below zero.
THEOREM TypeCorrect == Spec => []TypeOK
<1>1. IndexInv /\ ScanSound => TypeOK
  <2> SUFFICES ASSUME IndexInv, ScanSound PROVE TypeOK OBVIOUS
  <2>1. lost \in SUBSET Nat
    <3>1. lost \in SUBSET (1..Len(file)) BY DEF IndexInv, Types
    <3> QED BY <3>1, SMT
  <2> QED BY <2>1 DEF TypeOK, IndexInv, Types, ScanSound, ScanTypes
<1>2. Spec => [](IndexInv /\ ScanSound)
  BY InitIndexInv, NextIndexInv, InitScanSound, NextScanSound, PTL DEF Spec
<1> QED BY <1>1, <1>2, PTL

\* forEachSmall reads one more entry, or is through.
LEMMA SmallReports ==
  ASSUME IndexInv, ScanTypes, ScanAt, Reporting, ScanSmall
  PROVE  Reporting'
<1>1. UNCHANGED <<file, lost, cur, during>> BY DEF ScanSmall, fileVars, history
<1>2. /\ scan.pc = "small" /\ SmallRight(file, scan, during) /\ scan.pos \in 1..(scan.limit + 1)
      /\ \A k \in Keys : Val(file, cur[k]) \in during[k]
  BY DEF ScanSmall, Reporting, Reports, Current, Running, ScanAt, ScanIn
<1>3. scan.limit \in Nat /\ file \in Seq(Entry) /\ Len(file) \in Nat /\ scan.out \in [Keys -> Nat]
  BY ScanFields, VisibleFacts DEF ScanTypes, IndexInv, Types
<1>4. Current(file, cur, scan', during) BY <1>2 DEF Current
<1>5. CASE scan.pos > scan.limit /\ scan'.pc = "done" /\ scan'.out = scan.out
  <2>1. scan.pos - 1 = scan.limit BY <1>2, <1>3, <1>5, SMT
  <2>2. ASSUME NEW k \in Keys PROVE scan'.out[k] \in during[k]
    <3>1. PICK t : IsTop(OfKey(file, {}, k, scan.limit), t)
      <4>1. OfKey(file, {}, k, scan.limit) \in SUBSET (1..Len(file)) BY <1>3, OfNat
      <4> QED BY <1>3, <4>1, ChosenIsTop
    <3> QED BY <1>2, <1>5, <2>1, <3>1 DEF SmallRight
  <2>3. Reports(file, lost, scan', during) BY <1>5, <2>2 DEF Reports
  <2> QED BY <1>1, <1>4, <2>3 DEF Reporting
<1>7. CASE LET e == file[scan.pos] IN
           /\ scan.pos <= scan.limit /\ scan.pos \in 1..Len(file) /\ e.key \in Keys
           /\ scan'.pc = "small" /\ scan'.pos = scan.pos + 1 /\ scan'.limit = scan.limit
           /\ scan'.out = [scan.out EXCEPT ![e.key] = e.val]
  <2> DEFINE e == file[scan.pos]
             n == scan.pos
  <2>1. /\ n \in 1..Len(file) /\ e.key \in Keys /\ scan'.pc = "small" /\ scan'.pos = n + 1
        /\ scan'.limit = scan.limit
        /\ \A k \in Keys : scan'.out[k] = IF k = e.key THEN e.val ELSE scan.out[k]
    BY <1>3, <1>7
  <2>2. scan'.pos - 1 = n /\ n # 0 BY <2>1, SMT
  <2>3. ASSUME NEW k \in Keys, NEW t, IsTop(OfKey(file, {}, k, n), t) PROVE scan'.out[k] = Val(file, t)
    <3>1. CASE k = e.key
      <4>1. n \in OfKey(file, {}, k, n) BY <1>3, <2>1, <3>1, SMT DEF OfKey
      <4>2. t \in OfKey(file, {}, k, n) /\ n <= t BY <2>3, <4>1 DEF IsTop
      <4>3. t = n BY <2>1, <4>2, SMT DEF OfKey
      <4> QED BY <2>1, <2>2, <3>1, <4>3 DEF Val
    <3>2. CASE k # e.key
      <4>1. ASSUME NEW o PROVE o \in OfKey(file, {}, k, n) <=> o \in OfKey(file, {}, k, n - 1)
        BY <1>3, <2>1, <3>2, SMT DEF OfKey
      <4>2. OfKey(file, {}, k, n) = OfKey(file, {}, k, n - 1) BY <4>1
      <4> QED BY <1>2, <2>1, <2>3, <3>2, <4>2 DEF SmallRight
    <3> QED BY <3>1, <3>2
  <2>4. SmallRight(file, scan', during) BY <1>2, <2>1, <2>2, <2>3 DEF SmallRight
  <2>5. Reports(file, lost, scan', during) BY <2>1, <2>4 DEF Reports
  <2> QED BY <1>1, <1>4, <2>5 DEF Reporting
<1> QED BY <1>5, <1>7, SmallIs

\* ForEach ends with an error in the file it started on: what it has passed on is right.
LEMMA FailsReports ==
  ASSUME IndexInv, ScanTypes, ScanAt, Reporting, ScanFails
  PROVE  Reporting'
<1>1. UNCHANGED <<file, lost, cur, during>> BY DEF ScanFails, fileVars, history
<1> SUFFICES ASSUME ~scan.astray PROVE Reports(file, lost, scan', during) /\ Current(file, cur, scan', during)
  BY <1>1, FailsIs DEF Reporting
<1>2. scan'.pc = "failed" BY FailsIs
<1>3. Current(file, cur, scan', during) BY <1>2 DEF Current, Running
<1>4. ASSUME NEW k \in Keys PROVE scan'.out[k] \in during[k] \cup {0}
  <2>1. CASE scan.pc = "small" BY <2>1, FailsIs DEF Nothing
  <2>2. CASE scan.pc = "chain"
    <3>1. scan'.out = scan.out BY <2>2, FailsIs
    <3>2. Behind(scan, during) /\ Ahead(scan) /\ Within(file, lost, scan, during)
      BY <2>2 DEF Reporting, Reports
    <3>3. SlotOf[k] \in Nat /\ scan.slot \in Nat
      <4>1. SlotOf[k] \in Nat BY SlotFacts, IndexConstants, SMT DEF Slots
      <4> QED BY <4>1, ScanFields DEF ScanTypes
    <3>4. SlotOf[k] < scan.slot \/ SlotOf[k] = scan.slot \/ SlotOf[k] > scan.slot BY <3>3, SMT
    <3>5. scan.pc # "slot" BY <2>2
    <3> QED BY <3>1, <3>2, <3>4, <3>5 DEF Behind, Ahead, Within
  <2> QED BY <2>1, <2>2, FailsIs
<1> QED BY <1>2, <1>3, <1>4 DEF Reports

LEMMA ReportingKept ==
  ASSUME IndexInv, ScanTypes, ScanAt, Reporting, [Next]_vars
  PROVE  Reporting'
<1>1. /\ file \in Seq(Entry) /\ lost \in SUBSET (1..Len(file)) /\ Len(file) \in Nat /\ scan \in Scans
      /\ ~scan.astray => /\ Reports(file, lost, scan, during) /\ Current(file, cur, scan, during)
                         /\ ScanIn(file, lost, scan)
      /\ (~open => scan.pc = "idle") /\ during \in [Keys -> SUBSET Nat]
  BY VisibleFacts DEF ScanAt, ScanTypes, IndexInv, Types, Reporting
<1>2. ASSUME UNCHANGED <<file, lost, scan, cur, during>> PROVE Reporting' BY <1>2 DEF Reporting
<1>3. ASSUME scan'.pc = "idle" \/ scan'.astray PROVE Reporting'
  <2>1. scan'.astray \/ scan'.pc \notin {"small", "slot", "chain", "done", "failed"} BY <1>3
  <2> QED BY <2>1 DEF Reporting, Reports, Current, Running
<1>4. CASE UNCHANGED vars BY <1>2, <1>4 DEF vars, fileVars, history
<1>5. ASSUME NEW p \in Readers, (\E k \in Keys : Load(p, k)) \/ Walk(p) \/ Return(p) PROVE Reporting'
  BY <1>2, <1>5 DEF Load, Walk, Return, fileVars, history
<1>6. ASSUME NEW k \in Keys, Set(k) \/ Delete(k) PROVE Reporting'
  <2>1. PICK val \in Nat : \E n : Append1(k, val, n) BY <1>6, SetOrDelete
  <2> DEFINE e == NewEntry(k, val)
  <2>2. e \in Entry BY SlotFacts DEF NewEntry, Entry, IndexInv, Types
  <2>3. file' = Append(file, e) /\ UNCHANGED <<lost, scan, cur, during>> BY <2>1 DEF Append1, history
  <2> HIDE DEF e
  <2>4. ~scan.astray => Reports(Append(file, e), lost, scan, during) BY <1>1, <2>2, ReportsOn
  <2>5. ASSUME NEW x \in Keys PROVE Val(Append(file, e), cur[x]) = Val(file, cur[x])
    <3>1. cur[x] \in 0..Len(file) BY NewestNat
    <3>2. \A o \in 1..Len(file) : Append(file, e)[o] = file[o] BY <1>1, <2>2, AppendFacts
    <3> QED BY <1>1, <3>1, <3>2, SMT DEF Val
  <2>6. ~scan.astray => Current(Append(file, e), cur, scan, during) BY <1>1, <2>5 DEF Current
  <2> QED BY <2>3, <2>4, <2>6 DEF Reporting
<1>7. CASE AppendFails \/ PersistBucket
  BY <1>2, <1>7 DEF AppendFails, PersistBucket, fileVars, history
<1>8. CASE Publish
  <2>1. /\ UNCHANGED <<file, lost, scan>> /\ cur' = [cur EXCEPT ![w.key] = Len(file)]
        /\ during' = [during EXCEPT ![w.key] = @ \cup {file[Len(file)].val}]
    BY <1>8 DEF Publish, fileVars
  <2>2. w.key \in Keys /\ Len(file) >= 1 /\ cur \in [Keys -> Nat]
    BY <1>8 DEF Publish, IndexInv, Phases, Types
  <2>3. ASSUME NEW k \in Keys
        PROVE  /\ during[k] \subseteq during'[k]
               /\ k = w.key => cur'[k] = Len(file) /\ file[Len(file)].val \in during'[k]
               /\ k # w.key => cur'[k] = cur[k]
    BY <1>1, <2>1, <2>2
  <2>4. ~scan.astray => Reports(file, lost, scan, during') BY <1>1, <2>3, ReportsMore
  <2>5. Len(file) # 0 BY <1>1, <2>2, SMT
  <2>6. Val(file, Len(file)) = file[Len(file)].val BY <2>5 DEF Val
  <2>7. ~scan.astray => Current(file, cur', scan, during') BY <1>1, <2>3, <2>6 DEF Current
  <2> QED BY <2>1, <2>4, <2>7 DEF Reporting
<1>9. CASE ScanStart \/ ScanSmall \/ ScanSlot \/ ScanChain \/ ScanFails
  BY <1>9, StartReports, SmallReports, SlotReports, ChainReports, FailsReports
<1>10. CASE ScanMisreads \/ ScanAstray BY <1>3, <1>10, AstrayIs
<1>11. CASE CompactStart \/ (\E k \in Keys : CompactCopy(k)) \/ CompactFails \/ CompactRename \/ CompactClose
  BY <1>2, <1>11 DEF CompactStart, CompactCopy, CompactFails, CompactRename, CompactClose,
     fileVars, history
<1>12. CASE CompactReopen
  <2>1. CASE scan.pc \in Running BY <1>1, <1>3, <1>12, <2>1, ReopenScan
  <2>2. CASE scan.pc \notin Running
    <3>1. /\ scan'.pc = scan.pc /\ scan'.out = scan.out /\ scan'.astray = scan.astray
          /\ during' = during
      BY <1>1, <1>12, <2>2, ReopenScan DEF CompactReopen
    <3> QED BY <1>1, <2>2, <3>1 DEF Reporting, Reports, Current, Running
  <2> QED BY <2>1, <2>2
<1>13. CASE Crash \/ Close BY <1>3, <1>13, IdleScanTyped DEF Crash, Close, Halt
<1>14. CASE Open
  <2>1. scan'.pc = "idle" BY <1>1, <1>14 DEF Open
  <2> QED BY <1>3, <2>1
<1> QED
  BY <1>4, <1>5, <1>6, <1>7, <1>8, <1>9, <1>10, <1>11, <1>12, <1>13, <1>14 DEF Next

\* ScanRegular, for any keys, slots, hash and threshold, whatever writers, Compact
\* and crashes do beside the scan: although ForEach takes no lock, it reports for
\* every key a value the key had while the scan ran, by either strategy, unless it
\* came to half an entry or Compact swapped the file under it.
THEOREM ScansAreRegular == Spec => []ScanRegular
<1> DEFINE Inv == IndexInv /\ ScanSound /\ Reporting
<1>1. Init => Reporting
  <2>1. Init => scan.pc = "idle" BY IdleScanTyped DEF Init
  <2> QED BY <2>1 DEF Reporting, Reports, Current, Running
<1>2. Inv /\ [Next]_vars => Reporting' BY ReportingKept DEF ScanSound
<1>3. Inv => ScanRegular BY DEF ScanRegular, Reporting, Reports
<1> QED BY <1>1, <1>2, <1>3, InitIndexInv, NextIndexInv, InitScanSound, NextScanSound, PTL DEF Spec
=============================================================================
