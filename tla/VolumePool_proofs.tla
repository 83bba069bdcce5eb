-------------------------- MODULE VolumePool_proofs --------------------------
(* Proofs about VolumePool, for any number of writers, drives and servers:       *)
(* volumes only grow, so addresses stay good (AddressesStable), and what Write   *)
(* acknowledges reads back from the primary (ReadBack) and, under the conditions *)
(* of AnyMember, from every member of the group.                                 *)
EXTENDS VolumePool, TLAPS

\* A leaf is Zenon's unless it names another prover.
USE Zenon

Cell == ({"hdr"} \X Nat) \cup ({"data"} \X Nat)

-----------------------------------------------------------------------------
(* Cells *)

LEMMA ExtendedIs ==
  ASSUME NEW f \in Seq(Cell), NEW c \in Seq(Cell)
  PROVE  /\ Extended(f, c) \in Seq(Cell) /\ Len(Extended(f, c)) = Len(f) + Len(c)
         /\ \A i \in 1..Len(f) : Extended(f, c)[i] = f[i]
         /\ \A i \in 1..Len(c) : Extended(f, c)[Len(f) + i] = c[i]
  BY SMT DEF Extended

LEMMA CellsAre ==
  ASSUME NEW blob \in Nat, NEW size \in Nat
  PROVE  /\ Cells(blob, size) \in Seq(Cell) /\ Len(Cells(blob, size)) = 1 + size
         /\ Cells(blob, size)[1] = <<"hdr", size>>
         /\ \A i \in 2..(1 + size) : Cells(blob, size)[i] = <<"data", blob>>
<1> DEFINE h == <<<<"hdr", size>>>>
           d == [i \in 1..size |-> <<"data", blob>>]
<1>1. <<"hdr", size>> \in Cell /\ <<"data", blob>> \in Cell
  BY DEF Cell
<1>2. h \in Seq(Cell) /\ Len(h) = 1 /\ h[1] = <<"hdr", size>>
  BY <1>1, SMT
<1> USE <1>2
<1>3. d \in Seq(Cell) /\ Len(d) = size /\ \A i \in 1..size : d[i] = <<"data", blob>>
  BY <1>1, SMT
<1> USE <1>3
<1> HIDE DEF h, d
<1>4. Cells(blob, size) = h \o d
  BY DEF Cells, h, d
<1>5. /\ h \o d \in Seq(Cell) /\ Len(h \o d) = Len(h) + Len(d)
      /\ \A i \in 1..Len(h) : (h \o d)[i] = h[i]
      /\ \A i \in 1..Len(d) : (h \o d)[Len(h) + i] = d[i]
  BY ExtendedIs DEF Extended
<1>6. (h \o d)[1] = h[1] /\ Len(h \o d) = 1 + size
  BY <1>5, SMT
<1>7. ASSUME NEW i \in 2..(1 + size) PROVE (h \o d)[i] = d[i - 1] /\ i - 1 \in 1..size
  <2>1. i - 1 \in 1..size /\ 1 + (i - 1) = i
    BY SMT
  <2> QED
    BY <1>5, <2>1, SMT
<1> QED
  BY <1>4, <1>5, <1>6, <1>7

\* The cells of the blob at address a are in f.
Holds(f, a) ==
  /\ a.off + 1 + a.size <= Len(f)
  /\ f[a.off + 1] = <<"hdr", a.size>>
  /\ \A i \in (a.off + 2)..(a.off + 1 + a.size) : f[i] = <<"data", a.blob>>

\* An address as Write returns it.
Address1 == [vol : Ids, off : Nat, size : Nat \ {0}, blob : Nat \ {0}]

\* ReadAt of a file f at a member that has the volumes E.
ReadOf(f, E, a) ==
  IF a.vol \notin E \/ a.off + 1 + a.size > Len(f) THEN None
  ELSE IF f[a.off + 1] # <<"hdr", a.size>> THEN None
  ELSE LET cells == {f[i] : i \in (a.off + 2) .. (a.off + 1 + a.size)} IN
       IF cells = {<<"data", a.blob>>} THEN a.blob ELSE 0

LEMMA ReadsBlob ==
  ASSUME NEW f \in Seq(Cell), NEW E, NEW a \in Address1
  PROVE  ReadOf(f, E, a) = a.blob <=> a.vol \in E /\ Holds(f, a)
<1>1. a.off \in Nat /\ a.size \in Nat \ {0} /\ a.blob \in Nat \ {0} /\ Len(f) \in Nat
  BY SMT DEF Address1
<1> DEFINE I == (a.off + 2)..(a.off + 1 + a.size)
           cells == {f[i] : i \in I}
<1>2. a.off + 2 \in I
  BY <1>1, SMTT(30)
<1>3. cells = {<<"data", a.blob>>} <=> \A i \in I : f[i] = <<"data", a.blob>>
  <2> HIDE DEF I
  <2> QED
    BY <1>2
<1>4. None # a.blob /\ 0 # a.blob
  BY <1>1, SMT DEF None
<1>5. a.off + 1 + a.size > Len(f) <=> ~(a.off + 1 + a.size <= Len(f))
  BY <1>1, SMT
<1>6. Holds(f, a) <=> /\ a.off + 1 + a.size <= Len(f) /\ f[a.off + 1] = <<"hdr", a.size>>
                      /\ \A i \in I : f[i] = <<"data", a.blob>>
  BY DEF Holds
<1>7. ReadOf(f, E, a) =
        IF a.vol \notin E \/ a.off + 1 + a.size > Len(f) THEN None
        ELSE IF f[a.off + 1] # <<"hdr", a.size>> THEN None
        ELSE IF cells = {<<"data", a.blob>>} THEN a.blob ELSE 0
  BY DEF ReadOf
<1> HIDE DEF cells, I
<1> QED
  BY <1>3, <1>4, <1>5, <1>6, <1>7

\* Where the cells of a blob are: inside the file, and in the cells appended to it.
LEMMA Inside ==
  \A off, size, len \in Nat : off + 1 + size <= len /\ size # 0 =>
    off + 1 \in 1..len /\ \A i \in (off + 2)..(off + 1 + size) : i \in 1..len
BY SMT

LEMMA Shifted ==
  \A off, size \in Nat : \A i \in (off + 2)..(off + 1 + size) :
    i - off \in 2..(1 + size) /\ i - off \in 1..(1 + size) /\ i = off + (i - off)
BY SMT

LEMMA HoldsOn ==
  ASSUME NEW f \in Seq(Cell), NEW c \in Seq(Cell), NEW a \in Address1, Holds(f, a)
  PROVE  Holds(Extended(f, c), a)
<1> DEFINE g == Extended(f, c)
<1>1. a.off \in Nat /\ a.size \in Nat \ {0} /\ Len(f) \in Nat /\ Len(c) \in Nat
  BY SMT DEF Address1
<1>2. Len(g) = Len(f) + Len(c) /\ \A i \in 1..Len(f) : g[i] = f[i]
  BY ExtendedIs
<1> HIDE DEF g
<1>3. a.off + 1 + a.size <= Len(f) /\ a.off + 1 + a.size <= Len(g)
  BY <1>1, <1>2, SMT DEF Holds
<1>4. a.off + 1 \in 1..Len(f) /\ \A i \in (a.off + 2)..(a.off + 1 + a.size) : i \in 1..Len(f)
  BY <1>1, <1>3, Inside
<1>5. Holds(g, a)
  BY <1>2, <1>3, <1>4 DEF Holds
<1> QED
  BY <1>5 DEF g

\* A blob appended is at the address that was the file's end.
LEMMA HoldsNew ==
  ASSUME NEW f \in Seq(Cell), NEW a \in Address1, a.off = Len(f)
  PROVE  Holds(Extended(f, Cells(a.blob, a.size)), a)
<1> DEFINE c == Cells(a.blob, a.size)
           g == Extended(f, c)
<1>1. a.off \in Nat /\ a.size \in Nat \ {0} /\ a.blob \in Nat
  BY DEF Address1
<1> USE <1>1
<1>2. /\ c \in Seq(Cell) /\ Len(c) = 1 + a.size /\ c[1] = <<"hdr", a.size>>
      /\ \A i \in 2..(1 + a.size) : c[i] = <<"data", a.blob>>
  BY CellsAre
<1> USE <1>2
<1> HIDE DEF c
<1>3. Len(g) = Len(f) + Len(c) /\ \A i \in 1..Len(c) : g[Len(f) + i] = c[i]
  BY ExtendedIs
<1> HIDE DEF g
<1>4. a.off + 1 + a.size <= Len(g) /\ g[a.off + 1] = <<"hdr", a.size>>
  <2>1. 1 \in 1..Len(c) /\ a.off + 1 = Len(f) + 1 /\ Len(f) \in Nat
    BY SMT
  <2>2. g[Len(f) + 1] = c[1]
    BY <1>3, <2>1
  <2>3. a.off + 1 + a.size <= Len(g)
    BY <1>3, <2>1, SMTT(30)
  <2> QED
    BY <2>1, <2>2, <2>3
<1>5. ASSUME NEW i \in (a.off + 2)..(a.off + 1 + a.size) PROVE g[i] = <<"data", a.blob>>
  <2>1. i - Len(f) \in 2..(1 + a.size) /\ i - Len(f) \in 1..Len(c) /\ i = Len(f) + (i - Len(f))
    BY Shifted
  <2> QED
    BY <1>3, <2>1
<1>6. Holds(g, a)
  BY <1>4, <1>5 DEF Holds
<1> QED
  BY <1>6 DEF c, g

-----------------------------------------------------------------------------
(* The inductive invariant *)

Tasks ==
  [pc : {"idle", "primary", "pick", "stream", "replicas"}, blob : Nat, size : Nat,
   vol : Int, off : Nat, wait : SUBSET Members]
Busy(t) == t.pc # "idle" => t.vol \in Ids /\ t.size # 0 /\ t.blob # 0

DiskTyped ==
  /\ files \in [Members -> [Ids -> Seq(Cell)]]
  /\ exists \in [Members -> SUBSET Ids]
  /\ ends \in [Members -> [Ids -> Nat]]

Typed ==
  /\ DiskTyped
  /\ nblobs \in Nat
  /\ w \in [Writers -> Tasks] /\ \A p \in Writers : Busy(w[p])
  /\ requests \subseteq [to : Members, addr : Address1]
  /\ \A x \in acked : x.addr \in Address1
  /\ registry \in [Ids -> Seq(Members)] /\ savedReg \in [Ids -> Seq(Members)]
  /\ replicationFactor \in Factors

\* The local manager is the primary of every group.
LocalFirst(reg) == \A i \in Ids : reg[i] # <<>> => reg[i][1] = Local

\* The cells of address a are in its volume at member m.
Good(m, a) == a.vol \in exists[m] /\ Holds(files[m][a.vol], a)

DownIdle == ~up => \A p \in Writers : w[p].pc = "idle"

\* v.end is the end of the file, but where a write failed half way.
EndsAgree == up => \A v \in Ids \ short : ends[Local][v] = Len(files[Local][v])

\* A writer that waits for its replicas has its blob in the local volume.
Pending ==
  \A p \in Writers : w[p].pc = "replicas" /\ w[p].vol \notin short => Good(Local, Address(p))

Whole == \A x \in acked : x.whole => Good(Local, x.addr)

PoolInv ==
  /\ Typed /\ LocalFirst(registry) /\ LocalFirst(savedReg)
  /\ DownIdle /\ EndsAgree /\ Pending /\ Whole

LEMMA ConstantFacts ==
  /\ Local \in Members
  /\ Ids \subseteq Nat /\ 0 \in Ids /\ 0 .. (NumDrives - 1) \subseteq Ids
  /\ Sizes \subseteq Nat \ {0} /\ Factors \subseteq Nat \ {0}
  BY PoolConstants, SMT DEF Members, Ids

LEMMA AddressTyped ==
  ASSUME Typed, NEW p \in Writers, w[p].pc # "idle", NEW off \in Nat
  PROVE  AddressAt(p, off) \in Address1
<1>1. w[p] \in Tasks /\ Busy(w[p])
  BY DEF Typed
<1>2. w[p].vol \in Ids /\ w[p].size \in Nat \ {0} /\ w[p].blob \in Nat \ {0}
  BY <1>1 DEF Tasks, Busy
<1> QED
  BY <1>2 DEF AddressAt, Address1

LEMMA TaskFacts ==
  ASSUME Typed, NEW p \in Writers
  PROVE  /\ w[p].blob \in Nat /\ w[p].size \in Nat /\ w[p].vol \in Int /\ w[p].off \in Nat
         /\ w[p].wait \subseteq Members
         /\ w[p].pc # "idle" => w[p].vol \in Ids /\ w[p].size \in Nat \ {0} /\ w[p].blob \in Nat \ {0}
<1>1. w[p] \in Tasks /\ Busy(w[p])
  BY DEF Typed
<1> QED
  BY <1>1 DEF Tasks, Busy

LEMMA GroupMembersFacts ==
  ASSUME Typed
  PROVE  GroupMembers \in Seq(Members) /\ GroupMembers[1] = Local
<1> DEFINE R == {Remotes[i] : i \in DOMAIN Remotes}
           all == <<Local>> \o Remotes
           n == Min2(replicationFactor, 1 + Len(Remotes))
<1>1. Remotes \in Seq(Members) /\ Len(Remotes) \in Nat /\ Local \in Members
  <2>1. Remotes \in Seq(R) /\ R \subseteq Members
    BY PoolConstants DEF Members
  <2> QED
    BY <2>1, SMT DEF Members
<1>2. all \in Seq(Members) /\ Len(all) = 1 + Len(Remotes) /\ all[1] = Local
  BY <1>1, SMT
<1>3. replicationFactor \in Nat \ {0}
  BY PoolConstants DEF Typed
<1>4. n \in 1..Len(all)
  BY <1>1, <1>2, <1>3, SMT DEF Min2
<1> HIDE DEF all, n
<1>5. SubSeq(all, 1, n) \in Seq(Members) /\ SubSeq(all, 1, n)[1] = all[1]
  BY <1>2, <1>4, SMT
<1> QED
  BY <1>2, <1>5 DEF GroupMembers, all, n

-----------------------------------------------------------------------------
(* Volumes only grow *)

Longer(f, g) == g = f \/ \E c \in Seq(Cell) : g = Extended(f, c)

Grown ==
  /\ files' \in [Members -> [Ids -> Seq(Cell)]] /\ exists' \in [Members -> SUBSET Ids]
  /\ \A m \in Members : exists[m] \subseteq exists'[m]
  /\ \A m \in Members, v \in Ids : Longer(files[m][v], files'[m][v])

LEMMA AppendGrows ==
  ASSUME DiskTyped, NEW m \in Members, NEW vol \in Ids, NEW c \in Seq(Cell),
         files' = [files EXCEPT ![m][vol] = Extended(@, c)],
         exists' = [exists EXCEPT ![m] = @ \cup {vol}]
  PROVE  /\ Grown /\ vol \in exists'[m]
         /\ files'[m][vol] = Extended(files[m][vol], c)
         /\ \A m2 \in Members, v \in Ids : <<m2, v>> # <<m, vol>> => files'[m2][v] = files[m2][v]
<1>1. files \in [Members -> [Ids -> Seq(Cell)]] /\ exists \in [Members -> SUBSET Ids]
  BY DEF DiskTyped
<1> USE <1>1
<1>2. Extended(files[m][vol], c) \in Seq(Cell)
  BY ExtendedIs, SMT
<1>3. files' \in [Members -> [Ids -> Seq(Cell)]] /\ exists' \in [Members -> SUBSET Ids]
  BY <1>2
<1>4. files'[m][vol] = Extended(files[m][vol], c)
  OBVIOUS
<1>5. \A m2 \in Members, v \in Ids : <<m2, v>> # <<m, vol>> => files'[m2][v] = files[m2][v]
  OBVIOUS
<1>6. (\A m2 \in Members : exists[m2] \subseteq exists'[m2]) /\ vol \in exists'[m]
  OBVIOUS
<1>7. ASSUME NEW m2 \in Members, NEW v \in Ids PROVE Longer(files[m2][v], files'[m2][v])
  BY <1>4, <1>5 DEF Longer
<1> QED
  BY <1>3, <1>4, <1>5, <1>6, <1>7 DEF Grown

LEMMA PartTyped ==
  ASSUME NEW blob \in Nat, NEW size \in Nat, NEW n \in 0 .. (2 + size)
  PROVE  SubSeq(Cells(blob, size) \o <<<<"data", blob>>>>, 1, n) \in Seq(Cell)
<1> DEFINE c == Cells(blob, size)
           d == <<<<"data", blob>>>>
<1>1. c \in Seq(Cell) /\ Len(c) = 1 + size
  BY CellsAre
<1>2. <<"data", blob>> \in Cell
  BY DEF Cell
<1>3. d \in Seq(Cell) /\ Len(d) = 1
  BY <1>2, SMT
<1> HIDE DEF c, d
<1>4. c \o d \in Seq(Cell) /\ Len(c \o d) = Len(c) + Len(d)
  BY <1>1, <1>3, ExtendedIs DEF Extended
<1> DEFINE e == c \o d
<1>5. e \in Seq(Cell) /\ Len(e) = 2 + size
  BY <1>1, <1>3, <1>4, SMT
<1> HIDE DEF e
<1>6. SubSeq(e, 1, n) \in Seq(Cell)
  BY <1>5, SMT
<1> QED
  BY <1>6 DEF c, d, e

LEMMA WholeGrows ==
  ASSUME DiskTyped, NEW m \in Members, NEW vol \in Ids, NEW blob \in Nat, NEW size \in Nat,
         Append1(m, vol, blob, size)
  PROVE  /\ Grown /\ vol \in exists'[m]
         /\ files'[m][vol] = Extended(files[m][vol], Cells(blob, size))
         /\ \A m2 \in Members, v \in Ids : <<m2, v>> # <<m, vol>> => files'[m2][v] = files[m2][v]
<1>1. Cells(blob, size) \in Seq(Cell)
  BY CellsAre
<1>2. /\ files' = [files EXCEPT ![m][vol] = Extended(@, Cells(blob, size))]
      /\ exists' = [exists EXCEPT ![m] = @ \cup {vol}]
  BY DEF Append1
<1> QED
  BY <1>1, <1>2, AppendGrows

LEMMA PartGrows ==
  ASSUME DiskTyped, NEW m \in Members, NEW vol \in Ids, NEW blob \in Nat, NEW size \in Nat,
         NEW n \in 0 .. (2 + size), AppendPart(m, vol, blob, size, n)
  PROVE  /\ Grown /\ UNCHANGED ends
         /\ \A m2 \in Members, v \in Ids : <<m2, v>> # <<m, vol>> => files'[m2][v] = files[m2][v]
         /\ n = 0 => files'[m][vol] = files[m][vol]
<1> DEFINE c == SubSeq(Cells(blob, size) \o <<<<"data", blob>>>>, 1, n)
<1>1. c \in Seq(Cell)
  BY PartTyped
<1>2. /\ files' = [files EXCEPT ![m][vol] = Extended(@, c)] /\ UNCHANGED ends
      /\ exists' = [exists EXCEPT ![m] = @ \cup {vol}]
  BY DEF AppendPart
<1>3. n = 0 => c = <<>>
  BY SMT
<1> HIDE DEF c
<1>4. files[m][vol] \in Seq(Cell)
  BY DEF DiskTyped
<1>5. n = 0 => Extended(files[m][vol], c) = files[m][vol]
  BY <1>3, <1>4, SMT DEF Extended
<1>6. /\ Grown /\ files'[m][vol] = Extended(files[m][vol], c)
      /\ \A m2 \in Members, v \in Ids : <<m2, v>> # <<m, vol>> => files'[m2][v] = files[m2][v]
  BY <1>1, <1>2, AppendGrows
<1> QED
  BY <1>2, <1>5, <1>6

\* A crash leaves at most the whole blob.
LEMMA CrashPart ==
  \A size \in Nat : \A n \in 0 .. (1 + size) : n \in 0 .. (2 + size)
  BY SMT

\* A local write that fails leaves a part of its cells, or one too many, and then the
\* volume is in short, or it leaves nothing.
LEMMA FailParts ==
  ASSUME NEW p \in Writers, LocalWriteFails(p), w[p].size \in Nat
  PROVE  \E n \in 0 .. (2 + w[p].size) :
           /\ AppendPart(Local, w[p].vol, w[p].blob, w[p].size, n)
           /\ n = 0 => short' = short
           /\ n # 0 => short' = short \cup {w[p].vol}
<1>1. PICK n \in 0 .. w[p].size \cup {m \in {2 + w[p].size} : ShortStreams /\ w[p].pc = "stream"} :
        /\ AppendPart(Local, w[p].vol, w[p].blob, w[p].size, n)
        /\ short' = IF n = 0 THEN short ELSE short \cup {w[p].vol}
  BY DEF LocalWriteFails
<1>2. n \in 0 .. w[p].size \/ n = 2 + w[p].size
  BY <1>1
<1>3. n \in 0 .. (2 + w[p].size)
  BY <1>2, SMT
<1> QED
  BY <1>1, <1>3

\* The group WriteStream makes for itself, and leaves empty.
LEMMA BufferIs ==
  ASSUME NEW p \in Writers, BufferStream(p)
  PROVE  /\ up /\ up' /\ nextID' = nextID + 1 /\ activeGroup' = nextID /\ nblobs' = nblobs + 1
         /\ registry' = [registry EXCEPT ![nextID] = GroupMembers] /\ savedReg' = registry'
         /\ UNCHANGED <<files, exists, ends, drive, vm, replicationFactor, w, requests, replies, acked,
                        ncrashes, apart, short>>
  BY DEF BufferStream, getOrCreateGroup, disk, history

\* Every step extends files, if it changes them at all.
LEMMA StepGrows ==
  Typed /\ [Next]_vars => Grown
<1>SameGrows. DiskTyped /\ UNCHANGED <<files, exists>> => Grown
    BY DEF DiskTyped, Grown, Longer
<1> SUFFICES ASSUME Typed, [Next]_vars
             PROVE  Grown
  OBVIOUS
<1>0. DiskTyped
  BY DEF Typed
<1> USE <1>0
<1>1. CASE UNCHANGED vars
  BY <1>1, <1>SameGrows DEF vars
<1>2. ASSUME NEW p \in Writers, Write(p) \/ GroupUnsaved(p) \/ BufferStream(p) PROVE Grown
  BY <1>2, <1>SameGrows DEF Write, GroupUnsaved, BufferStream, disk
<1>3. ASSUME NEW p \in Writers, PickDrive(p) PROVE Grown
  <2>1. PICK id \in Ids : exists' = [exists EXCEPT ![Local] = @ \cup {id}]
    BY <1>3 DEF PickDrive
  <2>2. UNCHANGED files
    BY <1>3 DEF PickDrive
  <2> QED
    BY <2>1, <2>2, ZenonT(30) DEF Grown, DiskTyped, Longer
<1>4. ASSUME NEW p \in Writers, LocalWrite(p) PROVE Grown
  <2>1. w[p].pc # "idle" /\ Append1(Local, w[p].vol, w[p].blob, w[p].size)
    BY <1>4 DEF LocalWrite
  <2>2. w[p].vol \in Ids /\ w[p].blob \in Nat /\ w[p].size \in Nat
    BY <2>1, TaskFacts
  <2> QED
    BY <2>1, <2>2, WholeGrows, ConstantFacts
<1>5. ASSUME NEW p \in Writers, LocalWriteFails(p) PROVE Grown
  <2>1. w[p].pc # "idle"
    BY <1>5 DEF LocalWriteFails
  <2>2. w[p].vol \in Ids /\ w[p].blob \in Nat /\ w[p].size \in Nat
    BY <2>1, TaskFacts
  <2>3. PICK n \in 0 .. (2 + w[p].size) : AppendPart(Local, w[p].vol, w[p].blob, w[p].size, n)
    BY <1>5, <2>2, FailParts
  <2> QED
    BY <2>2, <2>3, PartGrows, ConstantFacts
<1>6. ASSUME NEW p \in Writers, NEW m \in Members, ReplicaDone(p, m) \/ ReplicaFails(p, m) PROVE Grown
  BY <1>6, <1>SameGrows DEF ReplicaDone, ReplicaFails, disk
<1>7. ASSUME NEW r \in requests, RemoteWrite(r) PROVE Grown
  <2>1. r.to \in Members /\ r.addr \in Address1
    BY DEF Typed
  <2>2. r.addr.vol \in Ids /\ r.addr.blob \in Nat /\ r.addr.size \in Nat
    BY <2>1 DEF Address1
  <2>3. Append1(r.to, r.addr.vol, r.addr.blob, r.addr.size)
    BY <1>7 DEF RemoteWrite
  <2> QED
    BY <2>1, <2>2, <2>3, WholeGrows
<1>8. CASE Crash
  <2>1. CASE UNCHANGED <<files, exists, ends>>
    BY <2>1, <1>SameGrows
  <2>2. ASSUME NEW p \in Writers, w[p].pc \in {"primary", "stream"}, NEW n \in 0 .. (1 + w[p].size),
               AppendPart(Local, w[p].vol, w[p].blob, w[p].size, n)
        PROVE  Grown
    <3>1. w[p].vol \in Ids /\ w[p].blob \in Nat /\ w[p].size \in Nat
      BY <2>2, TaskFacts
    <3>2. n \in 0 .. (2 + w[p].size)
      BY <2>2, <3>1, CrashPart
    <3> QED
      BY <2>2, <3>1, <3>2, PartGrows, ConstantFacts
  <2> QED
    BY <1>8, <2>1, <2>2 DEF Crash
<1>9. CASE Close \/ Open
  BY <1>9, <1>SameGrows DEF Close, Open, disk
<1> QED
  BY <1>1, <1>2, <1>3, <1>4, <1>5, <1>6, <1>7, <1>8, <1>9 DEF Next

\* What is in a volume stays in it.
LEMMA GoodStays ==
  ASSUME DiskTyped, Grown, NEW m \in Members, NEW a \in Address1, Good(m, a)
  PROVE  a.vol \in exists'[m] /\ Holds(files'[m][a.vol], a)
<1>1. a.vol \in Ids /\ files[m][a.vol] \in Seq(Cell)
  BY DEF Address1, DiskTyped
<1>2. Longer(files[m][a.vol], files'[m][a.vol]) /\ a.vol \in exists'[m]
  BY <1>1 DEF Grown, Good
<1> QED
  BY <1>1, <1>2, HoldsOn DEF Longer, Good

LEMMA ReadIsGood ==
  ASSUME DiskTyped, NEW m \in Members, NEW a \in Address1
  PROVE  ReadAt(m, a) = a.blob <=> Good(m, a)
<1>1. files[m][a.vol] \in Seq(Cell)
  BY SMT DEF Address1, DiskTyped
<1>2. ReadAt(m, a) = ReadOf(files[m][a.vol], exists[m], a)
  BY DEF ReadAt, ReadOf
<1> QED
  BY <1>1, <1>2, ReadsBlob DEF Good

-----------------------------------------------------------------------------
(* Idle requests *)

LEMMA IdleTyped == Idle \in Tasks /\ Busy(Idle) /\ Idle.pc = "idle"
  BY SMT DEF Idle, Task, Tasks, Busy, None

LEMMA ReplicasTyped ==
  ASSUME Typed, NEW g \in Ids
  PROVE  Replicas(g) \subseteq Members
<1>1. registry[g] \in Seq(Members)
  BY DEF Typed
<1> QED
  BY <1>1, SMT DEF Replicas

TasksOK == w \in [Writers -> Tasks] /\ \A p \in Writers : Busy(w[p])

-----------------------------------------------------------------------------
(* The local manager is the first member of every group *)

RegOK(reg) == reg \in [Ids -> Seq(Members)] /\ LocalFirst(reg)

-----------------------------------------------------------------------------
(* The theorems *)

LEMMA InitPoolInv == Init => PoolInv
<1> SUFFICES ASSUME Init PROVE PoolInv
  OBVIOUS
<1>1. <<>> \in Seq(Cell) /\ Len(<<>>) = 0 /\ <<>> \in Seq(Members)
  BY SMT
<1>2. DiskTyped
  BY <1>1, ConstantFacts DEF Init, DiskTyped
<1>3. TasksOK /\ \A p \in Writers : w[p].pc = "idle"
  BY IdleTyped DEF Init, TasksOK
<1>4. <<Local>> \in Seq(Members) /\ <<Local>>[1] = Local
  BY ConstantFacts, SMT
<1>5. RegOK(registry) /\ RegOK(savedReg)
  BY <1>1, <1>4 DEF Init, RegOK, LocalFirst
<1>6. Typed
  BY <1>2, <1>3, <1>5 DEF Init, Typed, TasksOK, RegOK
<1>7. EndsAgree
  BY <1>1, ConstantFacts DEF Init, EndsAgree
<1> QED
  BY <1>3, <1>5, <1>6, <1>7 DEF Init, PoolInv, RegOK, DownIdle, Pending, Whole

LEMMA NextPoolInv == PoolInv /\ [Next]_vars => PoolInv'
<1>AppendEnds.
    ASSUME DiskTyped, NEW m \in Members, NEW vol \in Ids, NEW blob \in Nat, NEW size \in Nat,
           Append1(m, vol, blob, size)
    PROVE  /\ ends' \in [Members -> [Ids -> Nat]]
           /\ \A v \in Ids : ends[Local][v] = Len(files[Local][v])
                               => ends'[Local][v] = Len(files'[Local][v])
  <2> USE <1>AppendEnds
  <2>1. files \in [Members -> [Ids -> Seq(Cell)]] /\ ends \in [Members -> [Ids -> Nat]]
    BY DEF DiskTyped
  <2>2. ends' = [ends EXCEPT ![m][vol] = @ + 1 + size]
    BY DEF Append1
  <2>3. ends' \in [Members -> [Ids -> Nat]]
    BY <2>1, <2>2, SMT
  <2>4. /\ files'[m][vol] = Extended(files[m][vol], Cells(blob, size))
        /\ \A m2 \in Members, v \in Ids : <<m2, v>> # <<m, vol>> => files'[m2][v] = files[m2][v]
    BY WholeGrows, SMT
  <2>5. Cells(blob, size) \in Seq(Cell) /\ Len(Cells(blob, size)) = 1 + size
    BY CellsAre
  <2>6. Len(files'[m][vol]) = Len(files[m][vol]) + (1 + size) /\ Len(files[m][vol]) \in Nat
    <3> DEFINE f == files[m][vol]
               c == Cells(blob, size)
    <3>1. f \in Seq(Cell)
      BY <2>1
    <3>2. c \in Seq(Cell) /\ Len(c) = 1 + size
      BY <2>5
    <3>3. Len(Extended(f, c)) = Len(f) + Len(c)
      BY <3>1, <3>2, ExtendedIs
    <3>4. Len(f) \in Nat
      BY <3>1, SMT
    <3> QED
      BY <2>4, <3>2, <3>3, <3>4
  <2>7. ends'[m][vol] = ends[m][vol] + 1 + size /\ ends[m][vol] \in Nat
    BY <2>1, <2>2
  <2>8. ASSUME NEW v \in Ids, ends[Local][v] = Len(files[Local][v])
        PROVE  ends'[Local][v] = Len(files'[Local][v])
    <3>1. CASE m = Local /\ v = vol
      <4>1. ends'[m][vol] = Len(files[m][vol]) + 1 + size
        BY <2>7, <2>8, <3>1
      <4>2. \A a, b \in Nat : a + 1 + b = a + (1 + b)
        BY SMT
      <4>3. ends'[m][vol] = Len(files'[m][vol])
        BY <2>6, <4>1, <4>2
      <4> QED
        BY <3>1, <4>3
    <3>2. CASE ~(m = Local /\ v = vol)
      <4>1. <<Local, v>> # <<m, vol>> /\ Local \in Members
        BY <3>2, ConstantFacts
      <4>2. files'[Local][v] = files[Local][v]
        BY <2>4, <4>1
      <4>3. ends'[Local][v] = ends[Local][v]
        BY <2>1, <2>2, <3>2, <4>1
      <4> QED
        BY <2>8, <4>2, <4>3
    <3> QED
      BY <3>1, <3>2
  <2> QED
    BY <2>3, <2>8

\* v.end stays the end of the file, in every volume where no write fails half way.
<1>EndsStep.
    ASSUME PoolInv, [Next]_vars
    PROVE  ends' \in [Members -> [Ids -> Nat]] /\ EndsAgree'
  <2> USE <1>EndsStep
  <2>0. /\ Typed /\ DiskTyped /\ EndsAgree /\ Local \in Members
        /\ files \in [Members -> [Ids -> Seq(Cell)]] /\ ends \in [Members -> [Ids -> Nat]]
    BY ConstantFacts DEF PoolInv, Typed, DiskTyped
  <2> USE <2>0
  <2>1. CASE UNCHANGED <<up, files, ends, short>>
    BY <2>1 DEF EndsAgree
  <2>2. CASE UNCHANGED vars
    BY <2>1, <2>2 DEF vars
  <2>3. ASSUME NEW p \in Writers, Write(p) \/ GroupUnsaved(p) \/ BufferStream(p) \/ PickDrive(p)
        PROVE  UNCHANGED <<up, files, ends, short>>
    BY <2>3 DEF Write, GroupUnsaved, BufferStream, PickDrive, disk, history
  <2>4. ASSUME NEW m \in Members, NEW vol \in Ids, NEW blob \in Nat, NEW size \in Nat,
               Append1(m, vol, blob, size), UNCHANGED <<up, short>>
        PROVE  ends' \in [Members -> [Ids -> Nat]] /\ EndsAgree'
    <3>1. /\ ends' \in [Members -> [Ids -> Nat]]
          /\ \A v \in Ids : ends[Local][v] = Len(files[Local][v])
                              => ends'[Local][v] = Len(files'[Local][v])
      BY <2>4, <1>AppendEnds
    <3> QED
      BY <2>4, <3>1 DEF EndsAgree
  <2>5. ASSUME NEW p \in Writers, LocalWrite(p)
        PROVE  ends' \in [Members -> [Ids -> Nat]] /\ EndsAgree'
    <3>1. w[p].pc # "idle" /\ Append1(Local, w[p].vol, w[p].blob, w[p].size) /\ UNCHANGED <<up, short>>
      BY <2>5, ZenonT(30) DEF LocalWrite
    <3> QED
      BY <2>4, <3>1, TaskFacts
  <2>6. ASSUME NEW r \in requests, RemoteWrite(r)
        PROVE  ends' \in [Members -> [Ids -> Nat]] /\ EndsAgree'
    <3>1. r.to \in Members /\ r.addr \in Address1
      BY DEF Typed
    <3>2. r.addr.vol \in Ids /\ r.addr.blob \in Nat /\ r.addr.size \in Nat
      BY <3>1 DEF Address1
    <3>3. Append1(r.to, r.addr.vol, r.addr.blob, r.addr.size) /\ UNCHANGED <<up, short>>
      BY <2>6 DEF RemoteWrite, history
    <3> QED
      BY <2>4, <3>1, <3>2, <3>3
  <2>7. ASSUME NEW p \in Writers, LocalWriteFails(p)
        PROVE  ends' \in [Members -> [Ids -> Nat]] /\ EndsAgree'
    <3>1. w[p].pc # "idle" /\ up
      BY <2>7 DEF LocalWriteFails
    <3>2. w[p].vol \in Ids /\ w[p].blob \in Nat /\ w[p].size \in Nat
      BY <3>1, TaskFacts
    <3>3. PICK n \in 0 .. (2 + w[p].size) :
            /\ AppendPart(Local, w[p].vol, w[p].blob, w[p].size, n)
            /\ n = 0 => short' = short
            /\ n # 0 => short' = short \cup {w[p].vol}
      BY <2>7, <3>2, FailParts
    <3>5. /\ UNCHANGED ends
          /\ \A m2 \in Members, v \in Ids : <<m2, v>> # <<Local, w[p].vol>> => files'[m2][v] = files[m2][v]
          /\ n = 0 => files'[Local][w[p].vol] = files[Local][w[p].vol]
      BY <3>2, <3>3, PartGrows
    <3>6. \A v \in Ids \ short' : v \notin short /\ files'[Local][v] = files[Local][v]
      BY <3>3, <3>5
    <3> QED
      BY <3>1, <3>5, <3>6 DEF EndsAgree
  <2>8. ASSUME NEW p \in Writers, NEW m \in Members, ReplicaDone(p, m) \/ ReplicaFails(p, m)
        PROVE  UNCHANGED <<up, files, ends, short>>
    BY <2>8 DEF ReplicaDone, ReplicaFails, disk, history
  <2>9. CASE Crash \/ Close
    <3>1. up' = FALSE /\ UNCHANGED ends
      BY <2>9 DEF Crash, Close, disk, AppendPart
    <3> QED
      BY <3>1 DEF EndsAgree
  <2>10. CASE Open
    <3>1. /\ ends' = [ends EXCEPT ![Local] = [i \in Ids |-> EndOnOpen(files[Local][i])]]
          /\ UNCHANGED files
      BY <2>10 DEF Open
    <3>2. \A i \in Ids : EndOnOpen(files[Local][i]) = Len(files[Local][i]) /\ Len(files[Local][i]) \in Nat
      BY SMT DEF EndOnOpen
    <3>3. ends' \in [Members -> [Ids -> Nat]]
      BY <3>1, <3>2
    <3>4. \A v \in Ids : ends'[Local][v] = Len(files'[Local][v])
      BY <3>1, <3>2
    <3> QED
      BY <3>3, <3>4 DEF EndsAgree
  <2> QED
    BY <2>1, <2>2, <2>3, <2>5, <2>6, <2>7, <2>8, <2>9, <2>10 DEF Next

<1>TaskTyped.
    ASSUME NEW pc \in {"idle", "primary", "pick", "stream", "replicas"}, NEW blob \in Nat \ {0},
           NEW size \in Nat \ {0}, NEW vol \in Ids, NEW off \in Nat, NEW wait \in SUBSET Members
    PROVE  Task(pc, blob, size, vol, off, wait) \in Tasks /\ Busy(Task(pc, blob, size, vol, off, wait))
  <2>1. vol \in Int
    BY ConstantFacts, SMT
  <2> QED
    BY <2>1 DEF Task, Tasks, Busy

<1>TaskStep.
    ASSUME TasksOK, NEW p \in Writers, NEW t \in Tasks, Busy(t), w' = [w EXCEPT ![p] = t]
    PROVE  TasksOK'
    BY <1>TaskStep DEF TasksOK

\* The writers, the requests to replicas and the addresses returned keep their types.
<1>WritersStep.
    ASSUME Typed, [Next]_vars
    PROVE  /\ TasksOK' /\ nblobs' \in Nat
           /\ requests' \subseteq [to : Members, addr : Address1]
           /\ \A x \in acked' : x.addr \in Address1
  <2> USE <1>WritersStep
  <2> DEFINE Goal == /\ TasksOK' /\ nblobs' \in Nat
                     /\ requests' \subseteq [to : Members, addr : Address1]
                     /\ \A x \in acked' : x.addr \in Address1
  <2>0. /\ TasksOK /\ nblobs \in Nat /\ Local \in Members
        /\ requests \subseteq [to : Members, addr : Address1]
        /\ \A x \in acked : x.addr \in Address1
        /\ ends \in [Members -> [Ids -> Nat]]
    BY ConstantFacts DEF Typed, TasksOK, DiskTyped
  <2> USE <2>0
  <2>1. CASE UNCHANGED <<w, nblobs, requests, acked>>
    BY <2>1 DEF TasksOK
  <2>2. CASE UNCHANGED vars
    BY <2>1, <2>2 DEF vars
  <2>3. ASSUME NEW p \in Writers, Write(p) PROVE Goal
    <3>1. PICK size \in Sizes, g \in Ids, pc \in {"pick", "primary"} :
            w' = [w EXCEPT ![p] = Task(pc, nblobs + 1, size, g, 0, {})]
      BY <2>3 DEF Write
    <3>2. nblobs + 1 \in Nat \ {0} /\ size \in Nat \ {0}
      BY ConstantFacts, SMT
    <3>3. Task(pc, nblobs + 1, size, g, 0, {}) \in Tasks /\ Busy(Task(pc, nblobs + 1, size, g, 0, {}))
      BY <3>2, <1>TaskTyped
    <3>4. TasksOK'
      BY <3>1, <3>3, <1>TaskStep, ZenonT(30)
    <3>5. nblobs' = nblobs + 1 /\ UNCHANGED <<requests, acked>>
      BY <2>3 DEF Write
    <3> QED
      BY <3>2, <3>4, <3>5
  <2>4. ASSUME NEW p \in Writers, GroupUnsaved(p) \/ BufferStream(p) PROVE Goal
    <3>1. nblobs' = nblobs + 1 /\ UNCHANGED <<w, requests, acked>>
      BY <2>4, BufferIs DEF GroupUnsaved
    <3> QED
      BY <3>1, SMT DEF TasksOK
  <2>5. ASSUME NEW p \in Writers, PickDrive(p) PROVE Goal
    <3>1. PICK id \in Ids : w' = [w EXCEPT ![p] = Task("stream", w[p].blob, w[p].size, id, 0, {})]
      BY <2>5, ZenonT(30) DEF PickDrive
    <3>2. w[p].blob \in Nat \ {0} /\ w[p].size \in Nat \ {0}
      BY <2>5, TaskFacts, ZenonT(30) DEF PickDrive
    <3> DEFINE t == Task("stream", w[p].blob, w[p].size, id, 0, {})
    <3>3. t \in Tasks /\ Busy(t)
      BY <3>2, <1>TaskTyped
    <3> HIDE DEF t
    <3>4. TasksOK'
      BY <3>1, <3>3, <1>TaskStep DEF t
    <3>5. UNCHANGED <<requests, acked, nblobs>>
      BY <2>5 DEF PickDrive
    <3> QED
      BY <3>4, <3>5
  <2>6. ASSUME NEW p \in Writers, NEW a \in Address1, Acknowledge(p, a), UNCHANGED nblobs,
               requests' \subseteq [to : Members, addr : Address1]
        PROVE  Goal
    <3>1. w' = [w EXCEPT ![p] = Idle] /\ \A x \in acked' : x \in acked \/ x.addr = a
      BY <2>6, SMT DEF Acknowledge
    <3>2. TasksOK'
      BY <3>1, <1>TaskStep, IdleTyped, ZenonT(30)
    <3> QED
      BY <2>6, <3>1, <3>2
  <2>7. ASSUME NEW p \in Writers, LocalWrite(p) PROVE Goal
    <3> DEFINE vol == w[p].vol
               a == AddressAt(p, ends[Local][vol])
               targets == IF w[p].pc = "primary" THEN Replicas(vol) ELSE {}
               t == Task("replicas", a.blob, a.size, vol, a.off, targets)
    <3>1. w[p].pc # "idle" /\ UNCHANGED nblobs
      BY <2>7 DEF LocalWrite
    <3>2. vol \in Ids /\ w[p].blob \in Nat \ {0} /\ w[p].size \in Nat \ {0}
      BY <3>1, TaskFacts
    <3>3. ends[Local][vol] \in Nat
      BY <3>2
    <3>4. a \in Address1
      BY <3>1, <3>3, AddressTyped
    <3>5. targets \in SUBSET Members
      BY <3>2, ReplicasTyped
    <3>6. requests' = requests \cup {[to |-> m, addr |-> a] : m \in targets}
      BY <2>7, ZenonT(30) DEF LocalWrite
    <3>7. IF targets = {} THEN Acknowledge(p, a) ELSE w' = [w EXCEPT ![p] = t] /\ UNCHANGED acked
      BY <2>7, ZenonT(30) DEF LocalWrite
    <3>8. t \in Tasks /\ Busy(t)
      <4>1. a.blob \in Nat \ {0} /\ a.size \in Nat \ {0} /\ a.off \in Nat
        BY <3>4 DEF Address1
      <4> HIDE DEF a, targets, vol
      <4> QED
        BY <3>2, <3>5, <4>1, <1>TaskTyped
    <3> HIDE DEF a, targets, t, vol
    <3>9. requests' \subseteq [to : Members, addr : Address1]
      BY <3>4, <3>5, <3>6, SMTT(30)
    <3>10. CASE targets = {}
      BY <2>6, <3>1, <3>4, <3>7, <3>9, <3>10
    <3>11. CASE targets # {}
      <4>1. TasksOK'
        BY <3>7, <3>8, <3>11, <1>TaskStep
      <4> QED
        BY <3>1, <3>7, <3>9, <3>11, <4>1
    <3> QED
      BY <3>10, <3>11
  <2>8. ASSUME NEW p \in Writers, LocalWriteFails(p) PROVE Goal
    <3>1. w' = [w EXCEPT ![p] = Idle] /\ UNCHANGED <<requests, acked, nblobs>>
      BY <2>8 DEF LocalWriteFails
    <3>2. TasksOK'
      BY <3>1, <1>TaskStep, IdleTyped, ZenonT(30)
    <3> QED
      BY <3>1, <3>2
  <2>9. ASSUME NEW p \in Writers, NEW m \in Members, ReplicaDone(p, m) PROVE Goal
    <3>1. w[p].pc # "idle" /\ UNCHANGED <<requests, nblobs>>
      BY <2>9 DEF ReplicaDone
    <3>2. Result(p, m) \in Address1
      BY <3>1, TaskFacts, AddressTyped DEF Result, Address
    <3>3. CASE w[p].wait = {m}
      <4>1. Acknowledge(p, Result(p, m))
        BY <2>9, <3>3 DEF ReplicaDone
      <4> QED
        BY <2>6, <3>1, <3>2, <4>1
    <3>4. CASE w[p].wait # {m}
      <4>1. w' = [w EXCEPT ![p].wait = @ \ {m}] /\ UNCHANGED acked
        BY <2>9, <3>4 DEF ReplicaDone
      <4>2. TasksOK'
        <5> DEFINE t == [w[p] EXCEPT !.wait = @ \ {m}]
        <5>1. w[p] \in Tasks /\ Busy(w[p]) /\ TasksOK
          BY DEF TasksOK
        <5>2. t \in Tasks /\ t.pc = w[p].pc /\ t.vol = w[p].vol /\ t.size = w[p].size /\ t.blob = w[p].blob
          BY <5>1, SMT DEF Tasks
        <5>3. w' = [w EXCEPT ![p] = t]
          BY <4>1
        <5> HIDE DEF t
        <5> QED
          BY <5>1, <5>2, <5>3, <1>TaskStep DEF Busy
      <4> QED
        BY <3>1, <4>1, <4>2
    <3> QED
      BY <3>3, <3>4
  <2>10. ASSUME NEW p \in Writers, NEW m \in Members, ReplicaFails(p, m) PROVE Goal
    <3>1. w' = [w EXCEPT ![p] = Idle] /\ UNCHANGED <<requests, acked, nblobs>>
      BY <2>10 DEF ReplicaFails
    <3>2. TasksOK'
      BY <3>1, <1>TaskStep, IdleTyped
    <3> QED
      BY <3>1, <3>2
  <2>11. ASSUME NEW r \in requests, RemoteWrite(r) PROVE Goal
    BY <2>11 DEF RemoteWrite, TasksOK
  <2>12. CASE Crash \/ Close
    <3>1. w' = [p \in Writers |-> Idle] /\ UNCHANGED <<requests, acked, nblobs>>
      BY <2>12 DEF Crash, Close
    <3>2. TasksOK'
      BY <3>1, IdleTyped DEF TasksOK
    <3> QED
      BY <3>1, <3>2
  <2>13. CASE Open
    BY <2>1, <2>13 DEF Open
  <2> QED
    BY <2>1, <2>2, <2>3, <2>4, <2>5, <2>7, <2>8, <2>9, <2>10, <2>11, <2>12, <2>13 DEF Next

<1>RegStep.
    ASSUME Typed, NEW reg, RegOK(reg), NEW g
    PROVE  RegOK([reg EXCEPT ![g] = GroupMembers])
  <2> USE <1>RegStep
  <2> DEFINE G == GroupMembers
  <2>1. G \in Seq(Members) /\ G[1] = Local
    BY GroupMembersFacts
  <2> HIDE DEF G
  <2> QED
    BY <2>1 DEF RegOK, LocalFirst, G

<1>RegistryStep.
    ASSUME PoolInv, [Next]_vars
    PROVE  RegOK(registry') /\ RegOK(savedReg') /\ replicationFactor' \in Factors
  <2> USE <1>RegistryStep
  <2>0. /\ Typed /\ RegOK(registry) /\ RegOK(savedReg) /\ replicationFactor \in Factors
        /\ Local \in Members
    BY ConstantFacts DEF PoolInv, Typed, RegOK
  <2> USE <2>0
  <2>1. CASE UNCHANGED <<registry, savedReg, replicationFactor>>
    BY <2>1
  <2>2. CASE UNCHANGED vars
    BY <2>1, <2>2 DEF vars
  <2>3. ASSUME NEW p \in Writers, Write(p)
        PROVE  RegOK(registry') /\ RegOK(savedReg') /\ replicationFactor' \in Factors
    <3>1. PICK g \in Ids : getOrCreateGroup(g)
      BY <2>3 DEF Write
    <3>2. \/ UNCHANGED <<registry, savedReg>>
          \/ registry' = [registry EXCEPT ![g] = GroupMembers] /\ savedReg' = registry'
      BY <3>1 DEF getOrCreateGroup, pool
    <3>3. UNCHANGED replicationFactor
      BY <2>3 DEF Write
    <3> QED
      BY <3>2, <3>3, <1>RegStep, SMT
  <2>4. ASSUME NEW p \in Writers, GroupUnsaved(p)
        PROVE  RegOK(registry') /\ RegOK(savedReg') /\ replicationFactor' \in Factors
    BY <2>4, <1>RegStep DEF GroupUnsaved
  <2>b. ASSUME NEW p \in Writers, BufferStream(p)
        PROVE  RegOK(registry') /\ RegOK(savedReg') /\ replicationFactor' \in Factors
    <3>1. /\ registry' = [registry EXCEPT ![nextID] = GroupMembers] /\ savedReg' = registry'
          /\ UNCHANGED replicationFactor
      BY <2>b, BufferIs
    <3> QED
      BY <3>1, <1>RegStep
  <2>5. ASSUME NEW p \in Writers, PickDrive(p) \/ LocalWrite(p) \/ LocalWriteFails(p)
        PROVE  UNCHANGED <<registry, savedReg, replicationFactor>>
    BY <2>5 DEF PickDrive, LocalWrite, LocalWriteFails, pool
  <2>6. ASSUME NEW p \in Writers, NEW m \in Members, ReplicaDone(p, m) \/ ReplicaFails(p, m)
        PROVE  UNCHANGED <<registry, savedReg, replicationFactor>>
    BY <2>6 DEF ReplicaDone, ReplicaFails, pool
  <2>7. ASSUME NEW r \in requests, RemoteWrite(r)
        PROVE  UNCHANGED <<registry, savedReg, replicationFactor>>
    BY <2>7 DEF RemoteWrite, pool
  <2>8. CASE Crash
    BY <2>1, <2>8 DEF Crash, pool
  <2>9. CASE Close
    BY <2>9 DEF Close
  <2>10. CASE Open
    <3>1. /\ registry' = [i \in Ids |-> IF savedReg[i] = <<>> /\ i \in exists[Local] THEN <<Local>>
                                        ELSE savedReg[i]]
          /\ UNCHANGED savedReg /\ replicationFactor' \in Factors
      BY <2>10 DEF Open
    <3>2. <<Local>> \in Seq(Members) /\ <<Local>>[1] = Local
      BY SMTT(30)
    <3> QED
      BY <3>1, <3>2 DEF RegOK, LocalFirst
  <2> QED
    BY <2>1, <2>2, <2>3, <2>4, <2>b, <2>5, <2>6, <2>7, <2>8, <2>9, <2>10 DEF Next

\* A task that is not w[p] in the next state keeps its blob where it is.
<1>PendingStays.
    ASSUME PoolInv, Grown, NEW q \in Writers, w[q].pc = "replicas", w[q].vol \notin short,
           w'[q].vol = w[q].vol, w'[q].off = w[q].off, w'[q].size = w[q].size, w'[q].blob = w[q].blob
    PROVE  Good(Local, Address(q))'
  <2> USE <1>PendingStays
  <2>1. Typed /\ DiskTyped /\ Local \in Members /\ Good(Local, Address(q))
    BY ConstantFacts, ZenonT(30) DEF PoolInv, Typed, Pending
  <2>2. Address(q) \in Address1
    BY <2>1, TaskFacts, AddressTyped, ZenonT(30) DEF Address
  <2>3. Address(q)' = Address(q)
    BY DEF Address, AddressAt
  <2> DEFINE a == Address(q)
  <2>4. a.vol \in exists'[Local] /\ Holds(files'[Local][a.vol], a)
    <3> HIDE DEF a
    <3>1. a \in Address1 /\ Good(Local, a)
      BY <2>1, <2>2, ZenonT(30) DEF a
    <3> QED
      BY <2>1, <3>1, GoodStays, ZenonT(30)
  <2> QED
    BY <2>3, <2>4, ZenonT(30) DEF Good

<1>WholeStays.
    ASSUME PoolInv, Grown, NEW x \in acked, x.whole
    PROVE  Good(Local, x.addr)'
  <2> USE <1>WholeStays
  <2>1. DiskTyped /\ Local \in Members /\ x.addr \in Address1 /\ Good(Local, x.addr)
    BY ConstantFacts DEF PoolInv, Typed, Whole
  <2>2. x.addr.vol \in exists'[Local] /\ Holds(files'[Local][x.addr.vol], x.addr)
    BY <2>1, GoodStays
  <2> QED
    BY <2>2 DEF Good

\* The local write puts the blob where the address says.
<1>LocalWriteGood.
    ASSUME PoolInv, NEW p \in Writers, LocalWrite(p), w[p].vol \notin short
    PROVE  LET a == AddressAt(p, ends[Local][w[p].vol])
           IN  a.vol \in exists'[Local] /\ Holds(files'[Local][a.vol], a)
  <2> USE <1>LocalWriteGood
  <2> DEFINE vol == w[p].vol
             a == AddressAt(p, ends[Local][vol])
  <2>1. /\ Typed /\ DiskTyped /\ EndsAgree /\ Local \in Members /\ up /\ w[p].pc # "idle"
        /\ Append1(Local, vol, w[p].blob, w[p].size)
    BY ConstantFacts, ZenonT(30) DEF PoolInv, Typed, LocalWrite
  <2> USE <2>1
  <2>2. vol \in Ids /\ w[p].blob \in Nat /\ w[p].size \in Nat
    BY TaskFacts, ZenonT(30)
  <2>3. /\ vol \in exists'[Local]
        /\ files'[Local][vol] = Extended(files[Local][vol], Cells(w[p].blob, w[p].size))
    BY <2>2, WholeGrows, SMT
  <2>4. ends[Local][vol] \in Nat /\ files[Local][vol] \in Seq(Cell)
    BY <2>2 DEF DiskTyped
  <2>5. a \in Address1
    BY <2>4, AddressTyped
  <2>6. a.vol = vol /\ a.off = Len(files[Local][vol]) /\ a.blob = w[p].blob /\ a.size = w[p].size
    BY <2>2 DEF EndsAgree, AddressAt
  <2> HIDE DEF a, vol
  <2>7. Holds(files'[Local][a.vol], a)
    BY <2>3, <2>4, <2>5, <2>6, HoldsNew
  <2> QED
    BY <2>3, <2>6, <2>7, ZenonT(30) DEF a, vol

<1>AddressesStep.
    ASSUME PoolInv, [Next]_vars
    PROVE  DownIdle' /\ Pending' /\ Whole'
  <2> USE <1>AddressesStep
  <2>0. /\ PoolInv /\ Typed /\ DownIdle /\ Pending /\ Whole /\ Grown
        /\ w \in [Writers -> Tasks]
    BY StepGrows DEF PoolInv, Typed
  <2>a. ASSUME acked' = acked PROVE Whole'
    BY <2>0, <2>a, <1>WholeStays DEF Whole
  <2>b. ASSUME NEW p \in Writers, NEW t, w' = [w EXCEPT ![p] = t], t.pc # "replicas",
               short \subseteq short'
        PROVE  Pending'
    <3> SUFFICES ASSUME NEW q \in Writers, w'[q].pc = "replicas", w'[q].vol \notin short'
                 PROVE  Good(Local, Address(q))'
      BY DEF Pending
    <3>1. q # p /\ w'[q] = w[q]
      BY <2>0, <2>b
    <3> QED
      BY <2>0, <2>b, <3>1, <1>PendingStays
  <2>c. ASSUME UNCHANGED <<w, short>> PROVE Pending'
    BY <2>0, <2>c, <1>PendingStays DEF Pending
  <2>1. CASE UNCHANGED vars
    BY <2>0, <2>1, <2>a, <2>c DEF vars, DownIdle
  <2>2. ASSUME NEW p \in Writers, Write(p) PROVE DownIdle' /\ Pending' /\ Whole'
    <3>1. PICK size \in Sizes, g \in Ids, pc \in {"pick", "primary"} :
            w' = [w EXCEPT ![p] = Task(pc, nblobs + 1, size, g, 0, {})]
      BY <2>2 DEF Write
    <3>2. Task(pc, nblobs + 1, size, g, 0, {}).pc # "replicas"
      BY DEF Task
    <3>3. up' /\ UNCHANGED <<acked, short>>
      BY <2>2 DEF Write, history
    <3> QED
      BY <2>a, <2>b, <3>1, <3>2, <3>3 DEF DownIdle
  <2>3. ASSUME NEW p \in Writers, GroupUnsaved(p) \/ BufferStream(p) PROVE DownIdle' /\ Pending' /\ Whole'
    BY <2>0, <2>3, <2>a, <2>c DEF GroupUnsaved, BufferStream, history, DownIdle
  <2>4. ASSUME NEW p \in Writers, PickDrive(p) PROVE DownIdle' /\ Pending' /\ Whole'
    <3>1. PICK id \in Ids : w' = [w EXCEPT ![p] = Task("stream", w[p].blob, w[p].size, id, 0, {})]
      BY <2>4 DEF PickDrive
    <3>2. Task("stream", w[p].blob, w[p].size, id, 0, {}).pc # "replicas"
      BY DEF Task
    <3>3. up' /\ UNCHANGED <<acked, short>>
      BY <2>4, ZenonT(30) DEF PickDrive, history
    <3> QED
      BY <2>a, <2>b, <3>1, <3>2, <3>3 DEF DownIdle
  <2>5. ASSUME NEW p \in Writers, NEW a, Acknowledge(p, a), UNCHANGED short, up',
               a.vol \notin short => a.vol \in exists'[Local] /\ Holds(files'[Local][a.vol], a)
        PROVE  DownIdle' /\ Pending' /\ Whole'
    <3>1. w' = [w EXCEPT ![p] = Idle]
      BY <2>5 DEF Acknowledge
    <3>2. Pending'
      BY <2>5, <2>b, <3>1, IdleTyped
    <3>3. \A x \in acked' : x \in acked \/ (x.addr = a /\ (x.whole => a.vol \notin short))
      <4> DEFINE whole == a.vol \notin short
                 alike == a.vol \notin apart /\ (w[p].pc = "stream" => Replicas(a.vol) = {})
                 r == [addr |-> a, whole |-> whole, alike |-> whole /\ alike]
      <4>1. acked' = acked \cup {r}
        BY <2>5 DEF Acknowledge
      <4>2. r.addr = a /\ r.whole = whole
        OBVIOUS
      <4>3. r.whole => a.vol \notin short
        BY <4>2, ZenonT(30)
      <4> HIDE DEF r
      <4> QED
        BY <4>1, <4>2, <4>3
    <3>4. \A x \in acked' : x.whole => Good(Local, x.addr)'
      BY <2>0, <2>5, <3>3, <1>WholeStays DEF Good
    <3> QED
      BY <2>5, <3>2, <3>4 DEF DownIdle, Whole
  <2>6. ASSUME NEW p \in Writers, LocalWrite(p) PROVE DownIdle' /\ Pending' /\ Whole'
    <3> DEFINE a == AddressAt(p, ends[Local][w[p].vol])
               targets == IF w[p].pc = "primary" THEN Replicas(w[p].vol) ELSE {}
               t == Task("replicas", a.blob, a.size, w[p].vol, a.off, targets)
    <3>1. up' /\ UNCHANGED short
      BY <2>6, ZenonT(30) DEF LocalWrite
    <3>2. w[p].vol \notin short => a.vol \in exists'[Local] /\ Holds(files'[Local][a.vol], a)
      BY <2>0, <2>6, <1>LocalWriteGood
    <3>3. a.vol = w[p].vol
      BY DEF AddressAt
    <3>4. IF targets = {} THEN Acknowledge(p, a) ELSE w' = [w EXCEPT ![p] = t] /\ UNCHANGED acked
      BY <2>6, ZenonT(30) DEF LocalWrite
    <3>5. a = [vol |-> w[p].vol, off |-> a.off, size |-> a.size, blob |-> a.blob]
      BY ZenonT(30) DEF AddressAt
    <3> HIDE DEF a, targets
    <3>6. CASE targets = {}
      BY <2>5, <3>1, <3>2, <3>3, <3>4, <3>6
    <3>7. CASE targets # {}
      <4>1. w' = [w EXCEPT ![p] = t] /\ UNCHANGED acked
        BY <3>4, <3>7
      <4>2. ASSUME NEW q \in Writers, w'[q].pc = "replicas", w'[q].vol \notin short'
            PROVE  Good(Local, Address(q))'
        <5>1. CASE q # p
          <6>1. w'[q] = w[q]
            BY <2>0, <4>1, <5>1
          <6> QED
            BY <2>0, <3>1, <4>2, <6>1, <1>PendingStays
        <5>2. CASE q = p
          <6>1. w'[p] = t
            BY <2>0, <4>1
          <6>2. Address(p)' = a
            BY <6>1, <3>5, SMTT(30) DEF Address, AddressAt, Task
          <6>3. w[p].vol \notin short
            BY <3>1, <4>2, <5>2, <6>1, SMT DEF Task
          <6> QED
            BY <3>2, <5>2, <6>2, <6>3 DEF Good
        <5> QED
          BY <5>1, <5>2
      <4> QED
        BY <2>a, <3>1, <4>1, <4>2 DEF Pending, DownIdle
    <3> QED
      BY <3>6, <3>7
  <2>7. ASSUME NEW p \in Writers, LocalWriteFails(p) PROVE DownIdle' /\ Pending' /\ Whole'
    <3>1. /\ up' /\ w' = [w EXCEPT ![p] = Idle] /\ short \subseteq short' /\ UNCHANGED acked
      BY <2>7 DEF LocalWriteFails
    <3> QED
      BY <2>a, <2>b, <3>1, IdleTyped DEF DownIdle
  <2>8. ASSUME NEW p \in Writers, NEW m \in Members, ReplicaDone(p, m)
        PROVE  DownIdle' /\ Pending' /\ Whole'
    <3>1. /\ up' /\ w[p].pc = "replicas" /\ UNCHANGED <<short, files, exists>>
      BY <2>8 DEF ReplicaDone, history, disk
    <3> USE <3>1
    <3>2. CASE w[p].wait = {m}
      <4> DEFINE a == Address(p)
      <4>1. Acknowledge(p, a)
        BY <2>8, <3>2 DEF ReplicaDone, Result
      <4>2. a.vol = w[p].vol
        BY DEF Address, AddressAt
      <4>3. a.vol \notin short => Good(Local, a)
        BY <2>0, <4>2 DEF Pending
      <4> HIDE DEF a
      <4>4. a.vol \notin short => a.vol \in exists'[Local] /\ Holds(files'[Local][a.vol], a)
        BY <4>3 DEF Good
      <4> QED
        BY <2>5, <4>1, <4>4
    <3>3. CASE w[p].wait # {m}
      <4>1. w' = [w EXCEPT ![p].wait = @ \ {m}] /\ UNCHANGED acked
        BY <2>8, <3>3 DEF ReplicaDone
      <4>2. \A q \in Writers : /\ w'[q].pc = w[q].pc /\ w'[q].vol = w[q].vol /\ w'[q].off = w[q].off
                               /\ w'[q].size = w[q].size /\ w'[q].blob = w[q].blob
        BY <2>0, <4>1 DEF Tasks
      <4>3. Pending'
        BY <2>0, <4>2, <1>PendingStays DEF Pending
      <4> QED
        BY <2>a, <4>1, <4>3 DEF DownIdle
    <3> QED
      BY <3>2, <3>3
  <2>9. ASSUME NEW p \in Writers, NEW m \in Members, ReplicaFails(p, m)
        PROVE  DownIdle' /\ Pending' /\ Whole'
    <3>1. up' /\ w' = [w EXCEPT ![p] = Idle] /\ UNCHANGED <<short, acked>>
      BY <2>9 DEF ReplicaFails
    <3> QED
      BY <2>a, <2>b, <3>1, IdleTyped DEF DownIdle
  <2>10. ASSUME NEW r \in requests, RemoteWrite(r) PROVE DownIdle' /\ Pending' /\ Whole'
    BY <2>0, <2>10, <2>a, <2>c DEF RemoteWrite, history, DownIdle
  <2>11. CASE Crash \/ Close
    <3>1. w' = [p \in Writers |-> Idle] /\ UNCHANGED acked
      BY <2>11 DEF Crash, Close
    <3>2. \A q \in Writers : w'[q].pc = "idle"
      BY <3>1, IdleTyped
    <3> QED
      BY <2>a, <3>1, <3>2 DEF DownIdle, Pending
  <2>12. CASE Open
    <3>1. ~up /\ up' /\ UNCHANGED <<w, acked>>
      BY <2>12 DEF Open
    <3>2. \A q \in Writers : w'[q].pc = "idle"
      BY <2>0, <3>1 DEF DownIdle
    <3> QED
      BY <2>a, <3>1, <3>2 DEF DownIdle, Pending
  <2> QED
    BY <2>1, <2>2, <2>3, <2>4, <2>6, <2>7, <2>8, <2>9, <2>10, <2>11, <2>12 DEF Next
<1> SUFFICES ASSUME PoolInv, [Next]_vars PROVE PoolInv'
  OBVIOUS
<1>1. Typed
  BY DEF PoolInv
<1>2. Grown
  BY <1>1, StepGrows
<1>3. ends' \in [Members -> [Ids -> Nat]] /\ EndsAgree'
  BY <1>EndsStep
<1>4. DiskTyped'
  BY <1>2, <1>3 DEF DiskTyped, Grown
<1>5. /\ TasksOK' /\ nblobs' \in Nat
      /\ requests' \subseteq [to : Members, addr : Address1]
      /\ \A x \in acked' : x.addr \in Address1
  BY <1>1, <1>WritersStep
<1>6. RegOK(registry') /\ RegOK(savedReg') /\ replicationFactor' \in Factors
  BY <1>RegistryStep
<1>7. Typed'
  BY <1>4, <1>5, <1>6 DEF Typed, TasksOK, RegOK
<1>8. DownIdle' /\ Pending' /\ Whole'
  BY <1>AddressesStep
<1> QED
  BY <1>3, <1>6, <1>7, <1>8 DEF PoolInv, RegOK

\* The volumes, the writers and the registry keep the invariant above.
THEOREM PoolInvHolds == Spec => []PoolInv
<1> QED
  BY InitPoolInv, NextPoolInv, PTL DEF Spec

LEMMA InvReadBack == PoolInv => ReadBack
<1> SUFFICES ASSUME PoolInv, NEW x \in acked, x.whole
             PROVE  ReadAt(ReadFrom(x.addr)[1], x.addr) = x.addr.blob
  BY DEF ReadBack
<1>1. /\ DiskTyped /\ Local \in Members /\ x.addr \in Address1 /\ Good(Local, x.addr)
      /\ LocalFirst(registry)
  BY ConstantFacts DEF PoolInv, Typed, Whole
<1>2. x.addr.vol \in Ids
  BY <1>1 DEF Address1
<1>3. ReadFrom(x.addr)[1] = Local
  BY <1>1, <1>2 DEF ReadFrom, LocalFirst
<1>4. ReadAt(Local, x.addr) = x.addr.blob
  BY <1>1, ReadIsGood
<1> QED
  BY <1>3, <1>4

\* For any number of writers, drives, remote servers and blobs: an address that
\* Write or WriteStream has returned reads back from the primary the blob that was
\* written (volume.write's offset and volume.read's header check agree), but in a
\* volume in which a write failed half way since it was opened.
THEOREM WritesReadBack == Spec => []ReadBack
<1> QED
  BY PoolInvHolds, InvReadBack, PTL

LEMMA StepStable ==
  PoolInv /\ [Next]_vars =>
    \A x \in acked, m \in Members :
      ReadAt(m, x.addr) = x.addr.blob => ReadAt(m, x.addr)' = x.addr.blob
<1> SUFFICES ASSUME PoolInv, [Next]_vars, NEW x \in acked, NEW m \in Members,
                    ReadAt(m, x.addr) = x.addr.blob
             PROVE  ReadAt(m, x.addr)' = x.addr.blob
  OBVIOUS
<1>1. Typed /\ DiskTyped /\ x.addr \in Address1 /\ Grown
  BY StepGrows DEF PoolInv, Typed
<1> USE <1>1
<1>2. Good(m, x.addr)
  BY ReadIsGood
<1>3. x.addr.vol \in exists'[m] /\ Holds(files'[m][x.addr.vol], x.addr)
  BY <1>2, GoodStays
<1>4. files'[m][x.addr.vol] \in Seq(Cell)
  BY DEF Grown, Address1
<1>5. ReadOf(files'[m][x.addr.vol], exists'[m], x.addr) = x.addr.blob
  BY <1>3, <1>4, ReadsBlob
<1>6. ReadAt(m, x.addr)' = ReadOf(files'[m][x.addr.vol], exists'[m], x.addr)
  BY DEF ReadAt, ReadOf
<1> QED
  BY <1>5, <1>6

\* For any number of writers, drives and members: a blob that can be read at an
\* address, at any member, can be read there ever after, whatever writes fail and
\* whenever the process restarts (every write goes to the end of a volume file).
THEOREM AddressesStayGood == Spec => AddressesStable
<1>1. PoolInv /\ [Next]_vars =>
        [\A x \in acked, m \in Members :
           ReadAt(m, x.addr) = x.addr.blob => ReadAt(m, x.addr)' = x.addr.blob]_vars
  BY StepStable
<1> QED
  BY <1>1, PoolInvHolds, PTL DEF Spec, AddressesStable

-----------------------------------------------------------------------------
(* Every member of the group *)

\* Something may still be written to group g.
Live(g) ==
  up /\ \/ g = activeGroup
        \/ \E p \in Writers : w[p].pc \in {"primary", "replicas"} /\ w[p].vol = g

Alone == Len(GroupMembers) = 1
NoLocal(reg) == \A i \in Ids : \A j \in 2 .. Len(reg[i]) : reg[i][j] # Local
Remote == Members \ {Local}

\* A new group has a fresh id: no other group has it and, if there are replicas, no
\* local volume.
Fresh ==
  /\ nextID \in Nat
  /\ \A i \in Ids : registry[i] # <<>> => i < nextID
  /\ Alone \/ \A i \in exists[Local] : i < nextID
  /\ \A i \in Ids : files[Local][i] # <<>> => i \in exists[Local]

\* What remote servers hold, or are sent, belongs to a group that is saved.
Saved ==
  /\ NoLocal(registry)
  /\ \A i \in Ids : savedReg[i] # <<>> => registry[i] = savedReg[i]
  /\ \A m \in Remote, i \in Ids : files[m][i] # <<>> => savedReg[i] # <<>>
  /\ \A r \in requests : r.to # Local /\ savedReg[r.addr.vol] # <<>>

\* The replication factor is fixed while the process runs: either the groups that
\* are written have replicas and no stream goes to a volume, or none has.
Session ==
  /\ \A g \in Ids : Live(g) => registry[g] = GroupMembers
  /\ \A p \in Writers : w[p].pc \in {"pick", "stream"} => Alone
  /\ Alone \/ \A p \in Writers : w[p].pc \in {"primary", "replicas"} => savedReg[w[p].vol] # <<>>
  /\ Alone \/ (activeGroup \in exists[Local] => savedReg[activeGroup] # <<>>)

\* A replica's file has the length of the primary's, or what is missing is the one
\* request on its way.
Sent(m, g) == {r \in requests : r.to = m /\ r.addr.vol = g}
InStep(m, g) ==
  \/ Sent(m, g) = {} /\ Len(files[m][g]) = Len(files[Local][g])
  \/ \E r \in Sent(m, g) : /\ Sent(m, g) = {r} /\ Len(files[m][g]) = r.addr.off
                           /\ Len(files[Local][g]) = r.addr.off + 1 + r.addr.size

Aligned == \A g \in Ids \ (apart \cup short) : Live(g) => \A m \in Replicas(g) : InStep(m, g)

\* A replica that has answered, or whose answer is on its way, has the blob.
Answered ==
  \A p \in Writers : w[p].pc = "replicas" /\ w[p].vol \notin apart \cup short =>
    \A m \in Replicas(w[p].vol) :
      m \notin w[p].wait \/ [to |-> m, addr |-> Address(p)] \in replies => Good(m, Address(p))

Alike ==
  \A x \in acked : x.alike => x.whole /\ \A m \in Replicas(x.addr.vol) : Good(m, x.addr)

MemberInv == Fresh /\ Saved /\ Session /\ Aligned /\ Answered /\ Alike

-----------------------------------------------------------------------------
(* What a step may do to the groups, the files and the requests *)

Quiet ==
  /\ UNCHANGED <<files, exists, pool, replicationFactor, requests>>
  /\ apart \subseteq apart' /\ short \subseteq short' /\ (up' => up)

NewGroup ==
  /\ up /\ up' /\ nextID' = nextID + 1 /\ activeGroup' = nextID
  /\ registry' = [registry EXCEPT ![nextID] = GroupMembers]
  /\ savedReg' \in {savedReg, registry'}
  /\ UNCHANGED <<files, exists, replicationFactor, requests, apart, short>>

LocalAppend(p) ==
  /\ up /\ w[p].pc \in {"primary", "stream"} /\ w[p].vol \in Ids
  /\ exists' = [exists EXCEPT ![Local] = @ \cup {w[p].vol}]
  /\ \A m \in Members, v \in Ids : <<m, v>> # <<Local, w[p].vol>> => files'[m][v] = files[m][v]
  /\ \A r \in requests' :
       r \in requests \/ /\ w[p].pc = "primary" /\ r.addr.vol = w[p].vol
                         /\ r.to \in Replicas(w[p].vol)
  /\ UNCHANGED <<pool, replicationFactor>>

LEMMA WriteKind ==
  ASSUME NEW p \in Writers, Write(p)
  PROVE  /\ w[p].pc = "idle"
         /\ \E size \in Sizes, pc \in {"pick", "primary"} :
              /\ w' = [w EXCEPT ![p] = Task(pc, nblobs + 1, size, activeGroup', 0, {})]
              /\ pc = "pick" => Alone
         /\ \/ Quiet /\ HasRoom
            \/ NewGroup /\ savedReg' = registry' /\ nextID \in Ids
<1>1. PICK size \in Sizes, g \in Ids, stream \in BOOLEAN :
        /\ getOrCreateGroup(g)
        /\ w' = [w EXCEPT ![p] =
                   Task(IF stream /\ Len(GroupMembers) = 1 THEN "pick" ELSE "primary",
                        nblobs + 1, size, g, 0, {})]
  BY DEF Write
<1>2. /\ w[p].pc = "idle" /\ up /\ up'
      /\ UNCHANGED <<files, exists, replicationFactor, requests, apart, short>>
  BY DEF Write, disk, history
<1>3. /\ activeGroup' = g
      /\ \/ HasRoom /\ UNCHANGED pool
         \/ /\ nextID' = nextID + 1 /\ g = nextID /\ savedReg' = registry'
            /\ registry' = [registry EXCEPT ![g] = GroupMembers]
  BY <1>1 DEF getOrCreateGroup, pool
<1>4. (Quiet /\ HasRoom) \/ (NewGroup /\ savedReg' = registry' /\ nextID \in Ids)
  BY <1>2, <1>3 DEF Quiet, NewGroup
<1>5. PICK pc \in {"pick", "primary"} :
        /\ w' = [w EXCEPT ![p] = Task(pc, nblobs + 1, size, g, 0, {})]
        /\ pc = "pick" => Alone
  BY <1>1 DEF Alone
<1> QED
  BY <1>2, <1>3, <1>4, <1>5

LEMMA LocalWriteKind ==
  ASSUME PoolInv, NEW p \in Writers, LocalWrite(p)
  PROVE  LocalAppend(p)
<1> DEFINE a == AddressAt(p, ends[Local][w[p].vol])
           targets == IF w[p].pc = "primary" THEN Replicas(w[p].vol) ELSE {}
<1>1. /\ up /\ w[p].pc \in {"primary", "stream"} /\ UNCHANGED <<pool, replicationFactor>>
      /\ Append1(Local, w[p].vol, w[p].blob, w[p].size)
      /\ requests' = requests \cup {[to |-> m, addr |-> a] : m \in targets}
  BY DEF LocalWrite
<1> USE <1>1
<1>2. Typed /\ DiskTyped /\ Local \in Members
  BY ConstantFacts DEF PoolInv, Typed
<1>3. w[p].vol \in Ids /\ w[p].blob \in Nat /\ w[p].size \in Nat
  BY <1>2, TaskFacts
<1>4. \A m \in Members, v \in Ids : <<m, v>> # <<Local, w[p].vol>> => files'[m][v] = files[m][v]
  BY <1>2, <1>3, WholeGrows
<1>5. exists' = [exists EXCEPT ![Local] = @ \cup {w[p].vol}]
  BY DEF Append1
<1>6. a.vol = w[p].vol
  BY DEF AddressAt
<1> HIDE DEF a
<1>7. \A r \in requests' : r \in requests \/ /\ w[p].pc = "primary" /\ r.addr.vol = w[p].vol
                                             /\ r.to \in Replicas(w[p].vol)
  <2> SUFFICES ASSUME NEW r \in requests', r \notin requests
               PROVE  w[p].pc = "primary" /\ r.addr.vol = w[p].vol /\ r.to \in Replicas(w[p].vol)
    OBVIOUS
  <2>1. PICK m \in targets : r = [to |-> m, addr |-> a]
    OBVIOUS
  <2>2. w[p].pc = "primary" /\ m \in Replicas(w[p].vol)
    BY <2>1
  <2>3. r.to = m /\ r.addr = a
    BY <2>1
  <2> QED
    BY <1>6, <2>2, <2>3
<1> QED
  BY <1>3, <1>4, <1>5, <1>7 DEF LocalAppend

LEMMA PartKind ==
  ASSUME PoolInv, NEW p \in Writers, up, w[p].pc \in {"primary", "stream"},
         NEW n \in 0 .. (2 + w[p].size), AppendPart(Local, w[p].vol, w[p].blob, w[p].size, n),
         UNCHANGED <<pool, replicationFactor, requests>>
  PROVE  LocalAppend(p)
<1>1. Typed /\ DiskTyped /\ Local \in Members
  BY ConstantFacts DEF PoolInv, Typed
<1>2. w[p].vol \in Ids /\ w[p].blob \in Nat /\ w[p].size \in Nat
  BY <1>1, TaskFacts
<1>3. \A m \in Members, v \in Ids : <<m, v>> # <<Local, w[p].vol>> => files'[m][v] = files[m][v]
  BY <1>1, <1>2, PartGrows
<1>4. exists' = [exists EXCEPT ![Local] = @ \cup {w[p].vol}]
  BY DEF AppendPart
<1> QED
  BY <1>2, <1>3, <1>4 DEF LocalAppend

LEMMA FailKind ==
  ASSUME PoolInv, NEW p \in Writers, LocalWriteFails(p)
  PROVE  /\ LocalAppend(p) /\ UNCHANGED <<up, apart, requests>>
         /\ \/ short' = short \cup {w[p].vol}
            \/ short' = short /\ files'[Local][w[p].vol] = files[Local][w[p].vol]
<1>1. /\ up /\ w[p].pc \in {"primary", "stream"} /\ UNCHANGED <<pool, replicationFactor, requests>>
      /\ UNCHANGED <<up, apart>>
  BY DEF LocalWriteFails
<1>2. Typed /\ DiskTyped /\ Local \in Members
  BY ConstantFacts DEF PoolInv, Typed
<1>3. w[p].vol \in Ids /\ w[p].blob \in Nat /\ w[p].size \in Nat
  BY <1>1, <1>2, TaskFacts
<1>4. PICK n \in 0 .. (2 + w[p].size) :
        /\ AppendPart(Local, w[p].vol, w[p].blob, w[p].size, n)
        /\ n = 0 => short' = short
        /\ n # 0 => short' = short \cup {w[p].vol}
  BY <1>3, FailParts
<1>5. n = 0 => files'[Local][w[p].vol] = files[Local][w[p].vol]
  BY <1>2, <1>3, <1>4, PartGrows
<1>6. LocalAppend(p)
  BY <1>1, <1>4, PartKind
<1> QED
  BY <1>1, <1>4, <1>5, <1>6

LEMMA StepCases ==
  ASSUME [Next]_vars
  PROVE  \/ Quiet \/ NewGroup \/ Crash \/ Close \/ Open
         \/ \E p \in Writers : PickDrive(p) \/ LocalWrite(p) \/ LocalWriteFails(p)
         \/ \E r \in requests : RemoteWrite(r)
<1>1. CASE UNCHANGED vars
  BY <1>1 DEF vars, Quiet, pool
<1>2. ASSUME NEW p \in Writers, GroupUnsaved(p) \/ BufferStream(p) PROVE NewGroup
  <2>1. CASE GroupUnsaved(p)
    BY <2>1 DEF GroupUnsaved, NewGroup, disk, history
  <2>2. CASE BufferStream(p)
    BY <2>2, BufferIs DEF NewGroup
  <2> QED
    BY <1>2, <2>1, <2>2
<1>3. ASSUME NEW p \in Writers, NEW m \in Members, ReplicaDone(p, m) \/ ReplicaFails(p, m) PROVE Quiet
  BY <1>3 DEF ReplicaDone, ReplicaFails, Quiet, disk, history
<1> QED
  BY <1>1, <1>2, <1>3, WriteKind DEF Next

\* Every step is of one of these kinds.
LEMMA StepKinds ==
  ASSUME PoolInv, [Next]_vars
  PROVE  \/ Quiet \/ NewGroup \/ Close \/ Open
         \/ \E p \in Writers : PickDrive(p) \/ LocalAppend(p)
         \/ \E r \in requests : RemoteWrite(r)
<1>1. CASE Crash
  <2>1. /\ up /\ ~up' /\ UNCHANGED <<pool, replicationFactor, requests>>
        /\ UNCHANGED <<apart, short>>
    BY <1>1 DEF Crash, history
  <2>2. CASE UNCHANGED <<files, exists, ends>>
    BY <2>1, <2>2 DEF Quiet
  <2>3. ASSUME NEW p \in Writers, w[p].pc \in {"primary", "stream"}, NEW n \in 0 .. (1 + w[p].size),
               AppendPart(Local, w[p].vol, w[p].blob, w[p].size, n)
        PROVE  LocalAppend(p)
    <3>1. w[p].size \in Nat
      BY <2>3, TaskFacts DEF PoolInv
    <3>2. n \in 0 .. (2 + w[p].size)
      BY <2>3, <3>1, CrashPart
    <3> QED
      BY <2>1, <2>3, <3>2, PartKind
  <2> QED
    BY <1>1, <2>2, <2>3 DEF Crash
<1> QED
  BY <1>1, StepCases, LocalWriteKind, FailKind

\* A writer gets a group from Write only, and then it is the active one.
LEMMA TasksMove ==
  ASSUME PoolInv, [Next]_vars, NEW q \in Writers
  PROVE  /\ w'[q].pc \in {"primary", "replicas"} =>
              \/ w[q].pc \in {"primary", "replicas"} /\ w'[q].vol = w[q].vol
              \/ Write(q) /\ w'[q].vol = activeGroup'
         /\ w'[q].pc \in {"pick", "stream"} => w[q].pc \in {"pick", "stream"} \/ (Write(q) /\ Alone)
<1> DEFINE Moves ==
         /\ w'[q].pc \in {"primary", "replicas"} =>
              \/ w[q].pc \in {"primary", "replicas"} /\ w'[q].vol = w[q].vol
              \/ Write(q) /\ w'[q].vol = activeGroup'
         /\ w'[q].pc \in {"pick", "stream"} => w[q].pc \in {"pick", "stream"} \/ (Write(q) /\ Alone)
<1>0. w \in [Writers -> Tasks]
  BY DEF PoolInv, Typed
<1>a. CASE w'[q] = w[q] \/ w'[q].pc = "idle"
  BY <1>a
<1>b. ASSUME NEW p \in Writers, NEW t, w' = [w EXCEPT ![p] = t] PROVE w'[q] = w[q] \/ (p = q /\ w'[q] = t)
  BY <1>0, <1>b
<1>1. CASE UNCHANGED w
  BY <1>1, <1>a
<1>2. ASSUME NEW p \in Writers, Write(p) PROVE Moves
  <2>1. PICK size \in Sizes, pc \in {"pick", "primary"} :
              /\ w' = [w EXCEPT ![p] = Task(pc, nblobs + 1, size, activeGroup', 0, {})]
              /\ pc = "pick" => Alone
    BY <1>2, WriteKind
  <2> DEFINE t == Task(pc, nblobs + 1, size, activeGroup', 0, {})
  <2>2. t.pc = pc /\ t.vol = activeGroup'
    BY DEF Task
  <2> HIDE DEF t
  <2>3. w'[q] = w[q] \/ (p = q /\ w'[q] = t)
    BY <1>b, <2>1 DEF t
  <2> QED
    BY <1>2, <1>a, <2>1, <2>2, <2>3
<1>3. ASSUME NEW p \in Writers, PickDrive(p) PROVE Moves
  <2>1. PICK t : w' = [w EXCEPT ![p] = t] /\ t.pc = "stream"
    <3>1. PICK id : w' = [w EXCEPT ![p] = Task("stream", w[p].blob, w[p].size, id, 0, {})]
      BY <1>3 DEF PickDrive
    <3>2. Task("stream", w[p].blob, w[p].size, id, 0, {}).pc = "stream"
      BY DEF Task
    <3> QED
      BY <3>1, <3>2
  <2>2. w[p].pc = "pick"
    BY <1>3 DEF PickDrive
  <2> QED
    BY <1>a, <1>b, <2>1, <2>2
<1>4. ASSUME NEW p \in Writers, w' = [w EXCEPT ![p] = Idle] PROVE Moves
  BY <1>4, <1>a, <1>b, IdleTyped
<1>5. ASSUME NEW p \in Writers, LocalWrite(p) PROVE Moves
  <2>1. \/ w' = [w EXCEPT ![p] = Idle]
        \/ /\ w[p].pc = "primary"
           /\ \E b, s, o, T : w' = [w EXCEPT ![p] = Task("replicas", b, s, w[p].vol, o, T)]
    BY <1>5, ZenonT(30) DEF LocalWrite, Acknowledge
  <2>2. ASSUME w[p].pc = "primary", NEW b, NEW s, NEW o, NEW T,
               w' = [w EXCEPT ![p] = Task("replicas", b, s, w[p].vol, o, T)]
        PROVE  Moves
    <3>1. Task("replicas", b, s, w[p].vol, o, T).pc = "replicas"
          /\ Task("replicas", b, s, w[p].vol, o, T).vol = w[p].vol
      BY DEF Task
    <3>2. w'[q] = w[q] \/ (p = q /\ w'[q] = Task("replicas", b, s, w[p].vol, o, T))
      BY <1>b, <2>2
    <3> QED
      BY <1>a, <2>2, <3>1, <3>2
  <2> HIDE DEF Moves
  <2> QED
    BY <1>4, <2>1, <2>2
<1>6. ASSUME NEW p \in Writers, NEW m \in Members, ReplicaDone(p, m) PROVE Moves
  <2>1. \/ w' = [w EXCEPT ![p] = Idle]
        \/ w' = [w EXCEPT ![p].wait = @ \ {m}]
    BY <1>6 DEF ReplicaDone, Acknowledge
  <2>2. CASE w' = [w EXCEPT ![p].wait = @ \ {m}]
    <3>1. w'[q].pc = w[q].pc /\ w'[q].vol = w[q].vol
      BY <1>0, <2>2 DEF Tasks
    <3> QED
      BY <3>1
  <2> QED
    BY <1>4, <2>1, <2>2
<1>7. ASSUME NEW p \in Writers, NEW m \in Members, ReplicaFails(p, m) PROVE Moves
  BY <1>4, <1>7 DEF ReplicaFails
<1>8. CASE Crash \/ Close
  <2>1. w' = [p \in Writers |-> Idle]
    BY <1>8 DEF Crash, Close
  <2> QED
    BY <1>a, <2>1, IdleTyped
<1>9. ASSUME NEW p \in Writers, GroupUnsaved(p) \/ BufferStream(p) PROVE Moves
  BY <1>1, <1>9 DEF GroupUnsaved, BufferStream
<1>10. ASSUME NEW r \in requests, RemoteWrite(r) PROVE Moves
  BY <1>1, <1>10 DEF RemoteWrite
<1>11. CASE Open \/ UNCHANGED vars
  BY <1>1, <1>11 DEF Open, vars
<1>12. ASSUME NEW p \in Writers, LocalWriteFails(p) PROVE Moves
  BY <1>4, <1>12 DEF LocalWriteFails
<1> QED
  BY <1>2, <1>3, <1>5, <1>6, <1>7, <1>8, <1>9, <1>10, <1>11, <1>12 DEF Next

-----------------------------------------------------------------------------
(* The invariant is kept: ids, registries and sessions *)

LEMMA MembersFacts ==
  ASSUME Typed
  PROVE  /\ GroupMembers # <<>> /\ Len(GroupMembers) \in Nat \ {0}
         /\ \A j \in 2 .. Len(GroupMembers) : GroupMembers[j] # Local
<1> DEFINE R == {Remotes[i] : i \in DOMAIN Remotes}
           all == <<Local>> \o Remotes
           n == Min2(replicationFactor, 1 + Len(Remotes))
<1>1. Remotes \in Seq(R) /\ Local \notin R
  BY PoolConstants
<1> HIDE DEF R
<1>2. Len(all) = 1 + Len(Remotes) /\ Len(Remotes) \in Nat /\ \A j \in 2 .. Len(all) : all[j] \in R
  BY <1>1, SMT
<1> USE <1>2
<1>3. all \in Seq({Local} \cup R)
  BY <1>1, SMT
<1>4. replicationFactor \in Nat \ {0}
  BY PoolConstants DEF Typed
<1>5. n \in 1..Len(all)
  BY <1>4, SMT DEF Min2
<1> HIDE DEF all, n
<1>6. Len(SubSeq(all, 1, n)) = n /\ \A j \in 1 .. n : SubSeq(all, 1, n)[j] = all[j]
  BY <1>3, <1>5, SMT
<1>7. \A j \in 2 .. n : j \in 2 .. Len(all) /\ j \in 1 .. n
  BY <1>5, SMT
<1>8. GroupMembers = SubSeq(all, 1, n)
  BY DEF GroupMembers, all, n
<1>9. \A j \in 2 .. Len(GroupMembers) : GroupMembers[j] # Local
  BY <1>1, <1>6, <1>7, <1>8
<1>10. Len(GroupMembers) \in Nat \ {0}
  BY <1>5, <1>6, <1>8, SMT
<1> QED
  BY <1>9, <1>10, SMT

LEMMA MembersStay == UNCHANGED replicationFactor => GroupMembers' = GroupMembers /\ (Alone' <=> Alone)
<1> SUFFICES ASSUME UNCHANGED replicationFactor PROVE GroupMembers' = GroupMembers
  BY DEF Alone
<1> QED
  BY DEF GroupMembers

\* A volume that a writer writes to has an id below the next group's, or nothing
\* is replicated.
LEMMA WrittenBelow ==
  ASSUME PoolInv, Fresh, Session, NEW p \in Writers, up, w[p].pc \in {"primary", "stream"}, ~Alone
  PROVE  w[p].vol \in Ids /\ w[p].vol < nextID /\ w[p].pc = "primary" /\ savedReg[w[p].vol] # <<>>
<1>1. Typed
  BY DEF PoolInv
<1>2. w[p].vol \in Ids
  BY <1>1, TaskFacts
<1>3. w[p].pc = "primary" /\ savedReg[w[p].vol] # <<>>
  BY DEF Session
<1>4. Live(w[p].vol)
  BY <1>3 DEF Live
<1>5. registry[w[p].vol] # <<>>
  BY <1>1, <1>2, <1>4, MembersFacts DEF Session
<1> QED
  BY <1>2, <1>3, <1>5 DEF Fresh

LEMMA ReplicaIsRemote ==
  ASSUME Typed, NoLocal(registry), NEW g \in Ids, NEW m \in Replicas(g)
  PROVE  m \in Members /\ m # Local
<1>1. m \in Members
  BY ReplicasTyped
<1>2. PICK i \in 2 .. Len(registry[g]) : m = registry[g][i]
  BY DEF Replicas
<1> QED
  BY <1>1, <1>2 DEF NoLocal

LEMMA ReplicasMeanTwo ==
  ASSUME Session, NEW g \in Ids, Live(g), NEW m \in Replicas(g)
  PROVE  ~Alone
<1>1. PICK i : i \in 2 .. Len(registry[g])
  BY DEF Replicas
<1>2. registry[g] = GroupMembers
  BY DEF Session
<1>3. ASSUME Len(GroupMembers) = 1 PROVE FALSE
  BY <1>1, <1>2, <1>3, SMT
<1> QED
  BY <1>3 DEF Alone

LEMMA SavedStep ==
  ASSUME PoolInv, Fresh, Saved, Session, [Next]_vars
  PROVE  Saved'
<1>0. /\ Typed /\ DiskTyped /\ Local \in Members
      /\ files \in [Members -> [Ids -> Seq(Cell)]] /\ exists \in [Members -> SUBSET Ids]
      /\ registry \in [Ids -> Seq(Members)] /\ savedReg \in [Ids -> Seq(Members)]
      /\ requests \subseteq [to : Members, addr : Address1]
  BY ConstantFacts DEF PoolInv, Typed, DiskTyped
<1>a. \A r \in requests : r.to \in Members /\ r.addr.vol \in Ids
  BY <1>0 DEF Address1
<1>1. CASE Quiet
  <2>1. UNCHANGED <<files, registry, savedReg, requests>>
    BY <1>1 DEF Quiet, pool
  <2> QED
    BY <2>1 DEF Saved, NoLocal
<1>2. CASE NewGroup
  <2>1. /\ UNCHANGED <<files, requests>> /\ savedReg' \in {savedReg, registry'}
        /\ \A i \in Ids : registry'[i] = IF i = nextID THEN GroupMembers ELSE registry[i]
    BY <1>0, <1>2 DEF NewGroup
  <2> USE <2>1
  <2>2. \A i \in Ids : savedReg[i] # <<>> => i # nextID
    <3>1. ~(nextID < nextID)
      BY SMT DEF Fresh
    <3> QED
      BY <3>1 DEF Fresh, Saved
  <2>3. \A i \in Ids : savedReg[i] # <<>> => registry'[i] = savedReg[i] /\ savedReg'[i] = savedReg[i]
    BY <2>2 DEF Saved
  <2>4. \A i \in Ids : savedReg'[i] # <<>> => registry'[i] = savedReg'[i]
    BY <2>3
  <2>5. NoLocal(registry')
    <3> SUFFICES ASSUME NEW i \in Ids PROVE \A j \in 2 .. Len(registry'[i]) : registry'[i][j] # Local
      BY DEF NoLocal
    <3>1. CASE i = nextID
      <4>1. registry'[i] = GroupMembers
        BY <3>1
      <4>2. \A j \in 2 .. Len(GroupMembers) : GroupMembers[j] # Local
        BY <1>0, MembersFacts
      <4> QED
        BY <4>1, <4>2
    <3>2. CASE i # nextID
      <4>1. registry'[i] = registry[i]
        BY <3>2
      <4>2. \A j \in 2 .. Len(registry[i]) : registry[i][j] # Local
        BY DEF Saved, NoLocal
      <4> QED
        BY <4>1, <4>2
    <3> QED
      BY <3>1, <3>2
  <2>6. \A i \in Ids : savedReg[i] # <<>> => savedReg'[i] # <<>>
    BY <2>3
  <2>7. \A m \in Remote, i \in Ids : files'[m][i] # <<>> => savedReg'[i] # <<>>
    BY <2>6 DEF Saved
  <2>8. \A r \in requests' : r.to # Local /\ savedReg'[r.addr.vol] # <<>>
    BY <1>a, <2>6 DEF Saved
  <2> QED
    BY <2>4, <2>5, <2>7, <2>8 DEF Saved, Remote
<1>3. CASE Close
  <2>1. savedReg' = registry /\ UNCHANGED <<files, requests, registry>>
    BY <1>3 DEF Close, disk
  <2> USE <2>1
  <2>2. \A i \in Ids : savedReg[i] # <<>> => savedReg'[i] # <<>>
    BY DEF Saved
  <2>3. \A m \in Remote, i \in Ids : files'[m][i] # <<>> => savedReg'[i] # <<>>
    BY <2>2 DEF Saved
  <2>4. \A r \in requests' : r.to # Local /\ savedReg'[r.addr.vol] # <<>>
    BY <1>a, <2>2 DEF Saved
  <2> QED
    BY <2>3, <2>4 DEF Saved, Remote
<1>4. ASSUME NEW p \in Writers, PickDrive(p) PROVE Saved'
  <2>1. UNCHANGED <<files, registry, savedReg, requests>>
    BY <1>4 DEF PickDrive, pool
  <2> QED
    BY <2>1 DEF Saved, NoLocal
<1>5. ASSUME NEW p \in Writers, LocalAppend(p) PROVE Saved'
  <2>1. /\ up /\ w[p].pc \in {"primary", "stream"} /\ w[p].vol \in Ids
        /\ UNCHANGED <<registry, savedReg>>
        /\ \A m \in Remote, v \in Ids : files'[m][v] = files[m][v]
        /\ \A r \in requests' :
             r \in requests \/ /\ w[p].pc = "primary" /\ r.addr.vol = w[p].vol
                               /\ r.to \in Replicas(w[p].vol)
    BY <1>0, <1>5 DEF LocalAppend, pool, Remote
  <2> USE <2>1
  <2>2. ASSUME w[p].pc = "primary", NEW m \in Replicas(w[p].vol)
        PROVE  m # Local /\ savedReg[w[p].vol] # <<>>
    <3>1. Live(w[p].vol)
      BY <2>2 DEF Live
    <3>2. m # Local
      BY <1>0, ReplicaIsRemote DEF Saved
    <3>3. ~Alone
      BY <2>2, <3>1, ReplicasMeanTwo
    <3> QED
      BY <3>2, <3>3, WrittenBelow
  <2>3. \A r \in requests' : r.to # Local /\ savedReg'[r.addr.vol] # <<>>
    <3> SUFFICES ASSUME NEW r \in requests' PROVE r.to # Local /\ savedReg[r.addr.vol] # <<>>
      OBVIOUS
    <3>1. CASE r \in requests
      BY <3>1 DEF Saved
    <3>2. CASE r \notin requests
      BY <2>2, <3>2
    <3> QED
      BY <3>1, <3>2
  <2>4. \A m \in Remote, i \in Ids : files'[m][i] # <<>> => savedReg'[i] # <<>>
    <3> SUFFICES ASSUME NEW m \in Remote, NEW i \in Ids, files'[m][i] # <<>> PROVE savedReg[i] # <<>>
      OBVIOUS
    <3>1. files[m][i] # <<>>
      OBVIOUS
    <3> QED
      BY <3>1 DEF Saved
  <2> QED
    BY <2>3, <2>4 DEF Saved, NoLocal, Remote
<1>6. ASSUME NEW r \in requests, RemoteWrite(r) PROVE Saved'
  <2>1. /\ UNCHANGED <<registry, savedReg>> /\ requests' \subseteq requests
        /\ Append1(r.to, r.addr.vol, r.addr.blob, r.addr.size)
    BY <1>6 DEF RemoteWrite, pool
  <2>2. savedReg[r.addr.vol] # <<>> /\ r.to \in Members /\ r.addr.vol \in Ids
    BY <1>a DEF Saved
  <2>3. r.addr.blob \in Nat /\ r.addr.size \in Nat
    BY <1>0 DEF Address1
  <2>4. \A m \in Members, v \in Ids : <<m, v>> # <<r.to, r.addr.vol>> => files'[m][v] = files[m][v]
    BY <1>0, <2>1, <2>2, <2>3, WholeGrows
  <2>5. \A m \in Remote, i \in Ids : files'[m][i] # <<>> => savedReg'[i] # <<>>
    <3> SUFFICES ASSUME NEW m \in Remote, NEW i \in Ids, files'[m][i] # <<>>, i # r.addr.vol
                 PROVE  savedReg[i] # <<>>
      BY <2>1, <2>2
    <3>1. files'[m][i] = files[m][i]
      BY <2>4 DEF Remote
    <3> QED
      BY <3>1 DEF Saved
  <2> QED
    BY <2>1, <2>5 DEF Saved, NoLocal, Remote
<1>7. CASE Open
  <2>1. /\ UNCHANGED <<files, savedReg, requests>>
        /\ \A i \in Ids : registry'[i] = IF savedReg[i] = <<>> /\ i \in exists[Local] THEN <<Local>>
                                         ELSE savedReg[i]
    BY <1>7 DEF Open
  <2>2. NoLocal(registry')
    <3> SUFFICES ASSUME NEW i \in Ids, NEW j \in 2 .. Len(registry'[i]) PROVE registry'[i][j] # Local
      BY DEF NoLocal
    <3>1. registry'[i] # <<>> /\ registry'[i] # <<Local>>
      <4>1. Len(<<>>) = 0 /\ Len(<<Local>>) = 1 /\ 2 .. 0 = {} /\ 2 .. 1 = {}
        BY SMT
      <4> QED
        BY <4>1
    <3>2. registry'[i] = registry[i]
      BY <2>1, <3>1 DEF Saved
    <3> QED
      BY <3>2, SMT DEF Saved, NoLocal
  <2>3. \A i \in Ids : savedReg'[i] # <<>> => registry'[i] = savedReg'[i]
    BY <2>1
  <2> QED
    BY <2>1, <2>2, <2>3 DEF Saved, Remote
<1> QED
  BY <1>1, <1>2, <1>3, <1>4, <1>5, <1>6, <1>7, StepKinds

LEMMA LiveWas ==
  ASSUME PoolInv, [Next]_vars, NEW g, Live(g)', ~Open
  PROVE  g = activeGroup' \/ Live(g)
<1>1. up' /\ up
  <2>1. up'
    BY DEF Live
  <2>2. ASSUME ~up PROVE FALSE
    <3>1. up' = up \/ up
      BY ZenonT(60) DEF Next, vars, Write, GroupUnsaved, BufferStream, PickDrive, LocalWrite, LocalWriteFails,
         ReplicaDone, ReplicaFails, RemoteWrite, Crash, Close
    <3> QED
      BY <2>1, <2>2, <3>1
  <2> QED
    BY <2>1, <2>2
<1>2. CASE g = activeGroup'
  BY <1>2
<1>3. CASE g # activeGroup'
  <2>1. PICK q \in Writers : w'[q].pc \in {"primary", "replicas"} /\ w'[q].vol = g
    BY <1>3 DEF Live
  <2>2. w[q].pc \in {"primary", "replicas"} /\ w'[q].vol = w[q].vol
    BY <1>3, <2>1, TasksMove
  <2> QED
    BY <1>1, <2>1, <2>2 DEF Live
<1> QED
  BY <1>2, <1>3

LEMMA GroupsMove ==
  ASSUME PoolInv, [Next]_vars, ~Open
  PROVE  /\ UNCHANGED replicationFactor
         /\ NewGroup \/ (UNCHANGED <<registry, activeGroup>> /\ savedReg' \in {savedReg, registry})
<1>1. UNCHANGED replicationFactor
  BY ZenonT(60) DEF Next, vars, Write, GroupUnsaved, BufferStream, PickDrive, LocalWrite, LocalWriteFails,
     ReplicaDone, ReplicaFails, RemoteWrite, Crash, Close
<1>2. CASE Quiet
  BY <1>1, <1>2 DEF Quiet, pool
<1>3. CASE Close
  BY <1>1, <1>3 DEF Close
<1>4. ASSUME NEW p \in Writers, PickDrive(p) PROVE UNCHANGED <<registry, activeGroup, savedReg>>
  BY <1>4 DEF PickDrive, pool
<1>5. ASSUME NEW p \in Writers, LocalAppend(p) PROVE UNCHANGED <<registry, activeGroup, savedReg>>
  BY <1>5 DEF LocalAppend, pool
<1>6. ASSUME NEW r \in requests, RemoteWrite(r) PROVE UNCHANGED <<registry, activeGroup, savedReg>>
  BY <1>6 DEF RemoteWrite, pool
<1> QED
  BY <1>1, <1>2, <1>3, <1>4, <1>5, <1>6, StepKinds

LEMMA SessionStep ==
  PoolInv /\ Fresh /\ Saved /\ Session /\ [Next]_vars => Session'
<1>SavedGrows.
    ASSUME PoolInv, Fresh, Saved, [Next]_vars, NEW i \in Ids, savedReg[i] # <<>>
    PROVE  savedReg'[i] # <<>>
  <2> USE <1>SavedGrows
  <2>1. CASE Open
    BY <2>1 DEF Open
  <2>2. CASE NewGroup
    <3>1. i # nextID
      <4>1. ~(nextID < nextID)
        BY SMT DEF Fresh
      <4> QED
        BY <4>1 DEF Fresh, Saved
    <3>2. registry \in [Ids -> Seq(Members)]
      BY DEF PoolInv, Typed
    <3>3. registry'[i] = registry[i] /\ registry[i] = savedReg[i]
      BY <2>2, <3>1, <3>2 DEF NewGroup, Saved
    <3> QED
      BY <2>2, <3>3 DEF NewGroup
  <2>3. CASE savedReg' \in {savedReg, registry}
    BY <2>3 DEF Saved
  <2> QED
    BY <2>1, <2>2, <2>3, GroupsMove
<1> SUFFICES ASSUME PoolInv, Fresh, Saved, Session, [Next]_vars
             PROVE  Session'
  OBVIOUS
<1>0. /\ Typed /\ DownIdle /\ registry \in [Ids -> Seq(Members)] /\ exists \in [Members -> SUBSET Ids]
      /\ Local \in Members
  BY ConstantFacts DEF PoolInv, Typed, DiskTyped
<1>1. CASE Open
  <2>1. ~up /\ activeGroup' = None /\ UNCHANGED <<w, exists>>
    BY <1>1 DEF Open, ActiveOnOpen
  <2>2. \A p \in Writers : w'[p].pc = "idle"
    BY <1>0, <2>1 DEF DownIdle
  <2>3. None \notin Ids
    BY ConstantFacts, SMT DEF None
  <2>4. activeGroup' \notin exists'[Local]
    BY <1>0, <2>1, <2>3
  <2>5. \A g \in Ids : ~Live(g)'
    BY <2>1, <2>2, <2>3 DEF Live
  <2> QED
    BY <2>2, <2>4, <2>5 DEF Session
<1>2. CASE ~Open
  <2>1. GroupMembers' = GroupMembers /\ (Alone' <=> Alone)
    BY <1>2, GroupsMove, MembersStay
  <2>2. NewGroup \/ (UNCHANGED <<registry, activeGroup>> /\ savedReg' \in {savedReg, registry})
    BY <1>2, GroupsMove
  <2>3. ASSUME NEW g \in Ids, Live(g)' PROVE registry'[g] = GroupMembers
    <3>1. g = activeGroup' \/ Live(g)
      BY <1>2, <2>3, LiveWas
    <3>2. CASE NewGroup
      <4>1. activeGroup' = nextID /\ registry' = [registry EXCEPT ![nextID] = GroupMembers]
        BY <3>2 DEF NewGroup
      <4> QED
        BY <1>0, <3>1, <4>1 DEF Session
    <3>3. CASE UNCHANGED <<registry, activeGroup>>
      <4>1. Live(g)
        <5>1. CASE Live(g)
          BY <5>1
        <5>2. CASE g = activeGroup
          <6>1. up
            <7>1. up' /\ (up' = up \/ up)
              BY <1>2, <2>3, ZenonT(60) DEF Live, Next, vars, Write, GroupUnsaved, BufferStream, PickDrive, LocalWrite,
                 LocalWriteFails, ReplicaDone, ReplicaFails, RemoteWrite, Crash, Close
            <7> QED
              BY <7>1
          <6> QED
            BY <5>2, <6>1 DEF Live
        <5> QED
          BY <3>1, <3>3, <5>1, <5>2
      <4> QED
        BY <3>3, <4>1 DEF Session
    <3> QED
      BY <2>2, <3>2, <3>3
  <2>4. \A q \in Writers : w'[q].pc \in {"pick", "stream"} => Alone
    BY TasksMove DEF Session
  <2>5. ASSUME ~Alone, NEW q \in Writers, w'[q].pc \in {"primary", "replicas"}
        PROVE  savedReg'[w'[q].vol] # <<>>
    <3>1. CASE w[q].pc \in {"primary", "replicas"} /\ w'[q].vol = w[q].vol
      <4>1. w[q].vol \in Ids /\ savedReg[w[q].vol] # <<>>
        BY <1>0, <2>5, <3>1, TaskFacts DEF Session
      <4> QED
        BY <3>1, <4>1, <1>SavedGrows
    <3>2. CASE Write(q) /\ w'[q].vol = activeGroup'
      <4>1. CASE Quiet /\ HasRoom
        <5>1. activeGroup \in exists[Local] /\ UNCHANGED <<activeGroup, savedReg>>
          BY <4>1 DEF Quiet, HasRoom, pool
        <5> QED
          BY <2>5, <3>2, <5>1 DEF Session
      <4>2. CASE NewGroup /\ savedReg' = registry' /\ nextID \in Ids
        <5>1. savedReg'[activeGroup'] = GroupMembers
          BY <1>0, <4>2 DEF NewGroup
        <5> QED
          BY <1>0, <3>2, <5>1, MembersFacts
      <4> QED
        BY <3>2, <4>1, <4>2, WriteKind
    <3> QED
      BY <2>5, <3>1, <3>2, TasksMove
  <2>6. ASSUME ~Alone, activeGroup' \in exists'[Local] PROVE savedReg'[activeGroup'] # <<>>
    <3>1. CASE NewGroup
      <4>1. nextID \in exists[Local]
        BY <2>6, <3>1 DEF NewGroup
      <4>2. nextID < nextID
        BY <2>6, <4>1 DEF Fresh
      <4>3. ~(nextID < nextID)
        BY SMT DEF Fresh
      <4> QED
        BY <4>2, <4>3
    <3>2. CASE UNCHANGED activeGroup /\ activeGroup \in exists[Local]
      <4>1. activeGroup \in Ids /\ savedReg[activeGroup] # <<>>
        BY <1>0, <2>6, <3>2 DEF Session
      <4> QED
        BY <3>2, <4>1, <1>SavedGrows
    <3>3. CASE UNCHANGED activeGroup /\ activeGroup \notin exists[Local]
      <4>1. exists'[Local] # exists[Local]
        BY <2>6, <3>3
      <4>2. ~Quiet /\ ~Close
        BY <4>1 DEF Quiet, Close, disk
      <4>3. ASSUME NEW p \in Writers, PickDrive(p) PROVE FALSE
        BY <2>6, <4>3 DEF PickDrive, Session
      <4>4. ASSUME NEW r \in requests, RemoteWrite(r) PROVE FALSE
        <5>1. r.to # Local /\ Append1(r.to, r.addr.vol, r.addr.blob, r.addr.size)
          BY <4>4 DEF RemoteWrite, Saved
        <5> QED
          BY <1>0, <4>1, <5>1 DEF Append1
      <4>5. ASSUME NEW p \in Writers, LocalAppend(p) PROVE savedReg'[activeGroup'] # <<>>
        <5>1. /\ up /\ w[p].pc \in {"primary", "stream"}
              /\ exists' = [exists EXCEPT ![Local] = @ \cup {w[p].vol}]
          BY <4>5 DEF LocalAppend
        <5>2. activeGroup = w[p].vol
          BY <1>0, <2>6, <3>3, <5>1
        <5>3. w[p].vol \in Ids /\ savedReg[w[p].vol] # <<>>
          BY <2>6, <5>1, WrittenBelow
        <5> QED
          BY <3>3, <5>2, <5>3, <1>SavedGrows
      <4>6. CASE NewGroup
        BY <3>1, <4>6
      <4> QED
        BY <1>2, <4>2, <4>3, <4>4, <4>5, <4>6, StepKinds
    <3> QED
      BY <2>2, <3>1, <3>2, <3>3
  <2> QED
    BY <2>1, <2>3, <2>4, <2>5, <2>6 DEF Session
<1> QED
  BY <1>1, <1>2

-----------------------------------------------------------------------------
(* The invariant is kept: the replicas' files *)

\* After a restart nothing is written to the groups of before.
LEMMA OpenIdle ==
  ASSUME PoolInv, Open, NEW g \in Ids
  PROVE  ~Live(g)' /\ \A p \in Writers : w'[p].pc = "idle"
<1>1. ~up /\ activeGroup' = None /\ UNCHANGED w /\ DownIdle
  BY DEF Open, ActiveOnOpen, PoolInv
<1>2. \A p \in Writers : w'[p].pc = "idle"
  BY <1>1 DEF DownIdle
<1>3. None \notin Ids
  BY ConstantFacts, SMT DEF None
<1> QED
  BY <1>1, <1>2, <1>3 DEF Live

LEMMA HistoryGrows == [Next]_vars /\ ~Open => apart \subseteq apart' /\ short \subseteq short' /\ (up' => up)
<1> SUFFICES ASSUME [Next]_vars, ~Open
             PROVE  apart \subseteq apart' /\ short \subseteq short' /\ (up' => up)
  OBVIOUS
<1>1. CASE Quiet \/ NewGroup
  BY <1>1 DEF Quiet, NewGroup
<1>2. CASE Crash \/ Close
  BY <1>2 DEF Crash, Close, history
<1>3. ASSUME NEW p \in Writers, PickDrive(p) \/ LocalWrite(p) \/ LocalWriteFails(p)
      PROVE  apart \subseteq apart' /\ short \subseteq short' /\ (up' => up)
  BY <1>3 DEF PickDrive, LocalWrite, LocalWriteFails, history
<1>4. ASSUME NEW r \in requests, RemoteWrite(r)
      PROVE  apart \subseteq apart' /\ short \subseteq short' /\ (up' => up)
  BY <1>4 DEF RemoteWrite, history
<1> QED
  BY <1>1, <1>2, <1>3, <1>4, StepCases

LEMMA AlignedStep ==
  PoolInv /\ Fresh /\ Saved /\ Session /\ Aligned /\ [Next]_vars => Aligned'
<1>LiveStill.
    ASSUME PoolInv, [Next]_vars, ~Open, UNCHANGED activeGroup, NEW g, Live(g)'
    PROVE  Live(g)
  <2> USE <1>LiveStill
  <2>1. up' /\ up
    BY HistoryGrows DEF Live
  <2>2. g = activeGroup \/ Live(g)
    BY LiveWas
  <2> QED
    BY <2>1, <2>2 DEF Live

\* What a whole append does to lengths.
<1>AppendLength.
    ASSUME DiskTyped, NEW m \in Members, NEW vol \in Ids, NEW blob \in Nat, NEW size \in Nat,
           Append1(m, vol, blob, size)
    PROVE  Len(files'[m][vol]) = Len(files[m][vol]) + 1 + size
  <2> USE <1>AppendLength
  <2>1. files'[m][vol] = Extended(files[m][vol], Cells(blob, size))
    BY WholeGrows
  <2> DEFINE f == files[m][vol]
             c == Cells(blob, size)
  <2>2. f \in Seq(Cell)
    BY DEF DiskTyped
  <2>3. c \in Seq(Cell) /\ Len(c) = 1 + size
    BY CellsAre
  <2>4. Len(Extended(f, c)) = Len(f) + Len(c)
    BY <2>2, <2>3, ExtendedIs
  <2>5. Len(f) \in Nat
    BY <2>2, SMT
  <2>6. \A a, b \in Nat : a + 1 + b = a + (1 + b)
    BY SMT
  <2> QED
    BY <2>1, <2>3, <2>4, <2>5, <2>6

\* A replica whose file, whose primary's file and whose requests stay is in step.
<1>InStepStays.
    ASSUME NEW g, NEW m, InStep(m, g), Sent(m, g)' = Sent(m, g),
           Len(files'[m][g]) = Len(files[m][g]), Len(files'[Local][g]) = Len(files[Local][g])
    PROVE  InStep(m, g)'
    BY <1>InStepStays DEF InStep

<1>NewGroupInStep.
    ASSUME PoolInv, Fresh, Saved, Session, NewGroup, NEW g \in Ids, g = nextID, NEW m \in Replicas(g)'
    PROVE  InStep(m, g)'
  <2> USE <1>NewGroupInStep
  <2>0. /\ Typed /\ registry \in [Ids -> Seq(Members)] /\ savedReg \in [Ids -> Seq(Members)]
    BY DEF PoolInv, Typed
  <2>1. /\ registry'[g] = GroupMembers /\ UNCHANGED <<files, requests, replicationFactor>>
    BY <2>0 DEF NewGroup
  <2>2. PICK j \in 2 .. Len(GroupMembers) : m = GroupMembers[j]
    BY <2>1 DEF Replicas
  <2>3. ~Alone
    <3>1. Len(GroupMembers) # 1
      BY <2>2, SMT
    <3> QED
      BY <3>1 DEF Alone
  <2>4. m \in Remote
    <3>1. m # Local
      BY <2>0, <2>2, MembersFacts
    <3>2. GroupMembers \in Seq(Members) /\ j \in DOMAIN GroupMembers
      <4>1. GroupMembers \in Seq(Members)
        BY <2>0, GroupMembersFacts
      <4> QED
        BY <2>2, <4>1, SMT
    <3>3. m \in Members
      BY <2>2, <3>2, SMT
    <3> QED
      BY <3>1, <3>3 DEF Remote
  <2>5. ~(g < nextID)
    BY SMT DEF Fresh
  <2>6. savedReg[g] = <<>>
    BY <2>5 DEF Fresh, Saved
  <2>7. files[m][g] = <<>>
    BY <2>4, <2>6 DEF Saved
  <2>8. files[Local][g] = <<>>
    BY <2>3, <2>5 DEF Fresh
  <2>9. Sent(m, g)' = {}
    BY <2>1, <2>6 DEF Sent, Saved
  <2> QED
    BY <2>1, <2>7, <2>8, <2>9 DEF InStep

<1>RemoteInStep.
    ASSUME PoolInv, Saved, NEW r \in requests, RemoteWrite(r), NEW g \in Ids, NEW m \in Members,
           m # Local, InStep(m, g)
    PROVE  InStep(m, g)'
  <2> USE <1>RemoteInStep
  <2>0. /\ DiskTyped /\ Local \in Members /\ files \in [Members -> [Ids -> Seq(Cell)]]
        /\ r.to \in Members /\ r.addr.vol \in Ids /\ r.addr.blob \in Nat /\ r.addr.size \in Nat
        /\ r.addr.off \in Nat
    BY ConstantFacts DEF PoolInv, Typed, DiskTyped, Address1
  <2>1. /\ Append1(r.to, r.addr.vol, r.addr.blob, r.addr.size) /\ requests' = requests \ {r}
        /\ r.to # Local
    BY DEF RemoteWrite, Saved
  <2> USE <2>1
  <2>2. \A m2 \in Members, v \in Ids : <<m2, v>> # <<r.to, r.addr.vol>> => files'[m2][v] = files[m2][v]
    BY <2>0, WholeGrows
  <2>3. files'[Local][g] = files[Local][g]
    BY <2>0, <2>2
  <2>4. CASE r.to = m /\ r.addr.vol = g
    <3>1. r \in Sent(m, g)
      BY <2>4 DEF Sent
    <3>2. /\ Sent(m, g) = {r} /\ Len(files[m][g]) = r.addr.off
          /\ Len(files[Local][g]) = r.addr.off + 1 + r.addr.size
      BY <3>1 DEF InStep
    <3>3. Len(files'[m][g]) = Len(files[m][g]) + 1 + r.addr.size
      BY <2>0, <2>4, <1>AppendLength
    <3>4. Sent(m, g)' = {}
      BY <3>2 DEF Sent
    <3> QED
      BY <2>3, <3>2, <3>3, <3>4 DEF InStep
  <2>5. CASE ~(r.to = m /\ r.addr.vol = g)
    <3>1. files'[m][g] = files[m][g]
      BY <2>2, <2>5
    <3>2. Sent(m, g)' = Sent(m, g)
      BY <2>5 DEF Sent
    <3> QED
      BY <2>3, <3>1, <3>2, <1>InStepStays
  <2> QED
    BY <2>4, <2>5

<1>LocalInStep.
    ASSUME PoolInv, Session, NEW p \in Writers, LocalWrite(p), NEW g \in Ids, g \notin apart', g \notin short,
           Live(g), NEW m \in Replicas(g), m \in Members, m # Local, InStep(m, g)
    PROVE  InStep(m, g)'
  <2> USE <1>LocalInStep
  <2> DEFINE vol == w[p].vol
             a == AddressAt(p, ends[Local][vol])
             targets == IF w[p].pc = "primary" THEN Replicas(vol) ELSE {}
  <2>1. /\ up /\ w[p].pc \in {"primary", "stream"}
        /\ Append1(Local, vol, w[p].blob, w[p].size)
        /\ requests' = requests \cup {[to |-> x, addr |-> a] : x \in targets}
        /\ apart' = apart \cup {v \in {vol} : \E r \in requests \cup replies : r.addr.vol = v}
    BY DEF LocalWrite
  <2>2. /\ Typed /\ DiskTyped /\ Local \in Members /\ EndsAgree
        /\ files \in [Members -> [Ids -> Seq(Cell)]]
    BY ConstantFacts DEF PoolInv, Typed, DiskTyped
  <2>3. vol \in Ids /\ w[p].blob \in Nat /\ w[p].size \in Nat
    BY <2>1, <2>2, TaskFacts
  <2>4. \A m2 \in Members, v \in Ids : <<m2, v>> # <<Local, vol>> => files'[m2][v] = files[m2][v]
    BY <2>1, <2>2, <2>3, WholeGrows
  <2>5. files'[m][g] = files[m][g]
    BY <2>4
  <2>6. a.vol = vol /\ a.off = ends[Local][vol] /\ a.size = w[p].size
    BY DEF AddressAt
  <2> HIDE DEF a
  <2>7. CASE vol # g
    <3>1. files'[Local][g] = files[Local][g]
      BY <2>2, <2>4, <2>7
    <3>2. Sent(m, g)' = Sent(m, g)
      <4>1. ASSUME NEW r \in requests', r \notin requests PROVE r.addr.vol # g
        <5>1. PICK x \in targets : r = [to |-> x, addr |-> a]
          BY <2>1, <4>1
        <5>2. r.addr = a
          BY <5>1
        <5> QED
          BY <2>6, <2>7, <5>2
      <4>2. requests \subseteq requests'
        BY <2>1
      <4> QED
        BY <4>1, <4>2 DEF Sent
    <3> QED
      BY <2>5, <3>1, <3>2, <1>InStepStays
  <2>8. CASE vol = g
    <3>1. \A r \in requests : r.addr.vol # g
      BY <2>1, <2>8
    <3>2. Sent(m, g) = {} /\ Len(files[m][g]) = Len(files[Local][g])
      BY <3>1 DEF Sent, InStep
    <3>3. w[p].pc = "primary"
      <4>1. ~Alone
        BY ReplicasMeanTwo
      <4> QED
        BY <2>1, <4>1 DEF Session
    <3> DEFINE n == [to |-> m, addr |-> a]
    <3>4. n \in requests' /\ n.to = m /\ n.addr = a
      BY <2>1, <2>8, <3>3
    <3>5. ASSUME NEW r \in requests', r.to = m, r.addr.vol = g PROVE r = n
      <4>1. r \notin requests
        BY <3>1, <3>5
      <4>2. PICK x \in targets : r = [to |-> x, addr |-> a]
        BY <2>1, <4>1
      <4>3. r.to = x
        BY <4>2
      <4> QED
        BY <3>5, <4>2, <4>3
    <3> HIDE DEF n
    <3>6. Sent(m, g)' = {n}
      BY <2>6, <2>8, <3>4, <3>5 DEF Sent
    <3>7. Len(files'[Local][g]) = Len(files[Local][g]) + 1 + w[p].size
      <4>1. Append1(Local, g, w[p].blob, w[p].size)
        BY <2>1, <2>8
      <4> QED
        BY <2>2, <2>3, <4>1, <1>AppendLength
    <3>8. a.off = Len(files[Local][g])
      BY <2>1, <2>2, <2>6, <2>8 DEF EndsAgree
    <3>9. n.addr.off = Len(files[Local][g]) /\ n.addr.size = w[p].size
      BY <2>6, <3>4, <3>8
    <3>10. /\ n \in Sent(m, g)' /\ Len(files'[m][g]) = n.addr.off
           /\ Len(files'[Local][g]) = n.addr.off + 1 + n.addr.size
      BY <2>5, <3>2, <3>6, <3>7, <3>9
    <3> QED
      BY <3>6, <3>10 DEF InStep
  <2> QED
    BY <2>7, <2>8
<1> SUFFICES ASSUME PoolInv, Fresh, Saved, Session, Aligned, [Next]_vars
             PROVE  Aligned'
  OBVIOUS
<1> SUFFICES ASSUME NEW g \in Ids \ (apart \cup short)', Live(g)', NEW m \in Replicas(g)'
             PROVE  InStep(m, g)'
  BY DEF Aligned
<1>0. /\ Typed /\ NoLocal(registry) /\ registry \in [Ids -> Seq(Members)] /\ g \in Ids
      /\ DiskTyped /\ Local \in Members
  BY ConstantFacts DEF PoolInv, Typed, Saved
<1>1. ~Open
  BY <1>0, OpenIdle
<1>2. g \notin apart /\ g \notin short /\ up /\ up'
  BY <1>1, HistoryGrows DEF Live
<1>3. CASE NewGroup
  <2>1. CASE g = nextID
    BY <1>0, <1>3, <2>1, <1>NewGroupInStep
  <2>2. CASE g # nextID
    <3>1. Live(g)
      BY <1>1, <1>3, <2>2, LiveWas DEF NewGroup
    <3>2. registry'[g] = registry[g] /\ UNCHANGED <<files, requests>>
      BY <1>0, <1>3, <2>2 DEF NewGroup
    <3>3. m \in Replicas(g) /\ Sent(m, g)' = Sent(m, g)
      BY <3>2 DEF Replicas, Sent
    <3>4. InStep(m, g)
      BY <1>0, <1>2, <3>1, <3>3 DEF Aligned
    <3> QED
      BY <3>2, <3>3, <3>4, <1>InStepStays
  <2> QED
    BY <2>1, <2>2
<1>4. CASE ~NewGroup
  <2>1. UNCHANGED <<registry, activeGroup>>
    BY <1>1, <1>4, GroupsMove
  <2>2. Live(g)
    BY <1>1, <2>1, <1>LiveStill
  <2>3. m \in Replicas(g)
    BY <2>1 DEF Replicas
  <2>4. InStep(m, g) /\ m \in Members /\ m # Local
    BY <1>0, <1>2, <2>2, <2>3, ReplicaIsRemote DEF Aligned
  <2> USE <2>4
  <2>5. CASE UNCHANGED <<files, requests>>
    <3>1. Sent(m, g)' = Sent(m, g)
      BY <2>5 DEF Sent
    <3> QED
      BY <2>5, <3>1, <1>InStepStays
  <2>6. CASE Quiet
    BY <2>5, <2>6 DEF Quiet
  <2>7. CASE Crash \/ Close
    BY <1>2, <2>7 DEF Crash, Close
  <2>8. ASSUME NEW p \in Writers, PickDrive(p) PROVE UNCHANGED <<files, requests>>
    BY <2>8 DEF PickDrive
  <2>9. ASSUME NEW p \in Writers, LocalWrite(p) PROVE InStep(m, g)'
    BY <1>2, <2>2, <2>3, <2>9, <1>LocalInStep
  <2>10. ASSUME NEW p \in Writers, LocalWriteFails(p) PROVE InStep(m, g)'
    <3>1. /\ LocalAppend(p) /\ UNCHANGED requests
          /\ w[p].vol # g \/ files'[Local][w[p].vol] = files[Local][w[p].vol]
      BY <2>10, FailKind
    <3>3. files'[m][g] = files[m][g] /\ files'[Local][g] = files[Local][g]
      BY <1>0, <3>1 DEF LocalAppend
    <3>4. Sent(m, g)' = Sent(m, g)
      BY <3>1 DEF Sent
    <3> QED
      BY <3>3, <3>4, <1>InStepStays
  <2>11. ASSUME NEW r \in requests, RemoteWrite(r) PROVE InStep(m, g)'
    BY <1>0, <2>11, <1>RemoteInStep
  <2> QED
    BY <1>1, <1>4, <2>5, <2>6, <2>7, <2>8, <2>9, <2>10, <2>11, StepCases
<1> QED
  BY <1>3, <1>4

-----------------------------------------------------------------------------
(* The invariant is kept: what replicas have answered, and acknowledgements *)

LEMMA AnsweredStep ==
  PoolInv /\ Fresh /\ Saved /\ Session /\ Aligned /\ Answered /\ [Next]_vars => Answered'
\* The members of a group stay, while the process runs.
<1>GroupStays.
    ASSUME PoolInv, Fresh, [Next]_vars, ~Open, NEW g \in Ids, registry[g] # <<>>
    PROVE  registry'[g] = registry[g]
  <2> USE <1>GroupStays
  <2>1. CASE NewGroup
    <3>1. registry \in [Ids -> Seq(Members)]
      BY DEF PoolInv, Typed
    <3>2. ~(nextID < nextID)
      BY SMT DEF Fresh
    <3>3. g # nextID
      BY <3>2 DEF Fresh
    <3> QED
      BY <2>1, <3>1, <3>3 DEF NewGroup
  <2> QED
    BY <2>1, GroupsMove

\* How a writer comes to wait for replicas, and goes on waiting.
<1>WaitMoves.
    ASSUME PoolInv, [Next]_vars, NEW q \in Writers, w'[q].pc = "replicas"
    PROVE  \/ /\ w[q].pc = "replicas" /\ Address(q)' = Address(q) /\ w'[q].vol = w[q].vol
              /\ \/ w'[q].wait = w[q].wait
                 \/ \E m \in Members : ReplicaDone(q, m) /\ w'[q].wait = w[q].wait \ {m}
           \/ /\ LocalWrite(q) /\ w[q].pc = "primary" /\ w'[q].vol = w[q].vol
              /\ w'[q].wait = Replicas(w[q].vol)
  <2> USE <1>WaitMoves
  <2> DEFINE Moves ==
           \/ /\ w[q].pc = "replicas" /\ Address(q)' = Address(q) /\ w'[q].vol = w[q].vol
              /\ \/ w'[q].wait = w[q].wait
                 \/ \E m \in Members : ReplicaDone(q, m) /\ w'[q].wait = w[q].wait \ {m}
           \/ /\ LocalWrite(q) /\ w[q].pc = "primary" /\ w'[q].vol = w[q].vol
              /\ w'[q].wait = Replicas(w[q].vol)
  <2>0. w \in [Writers -> Tasks]
    BY DEF PoolInv, Typed
  <2>a. ASSUME w'[q] = w[q] PROVE Moves
    <3>1. Address(q)' = Address(q)
      BY <2>a DEF Address, AddressAt
    <3> QED
      BY <2>a, <3>1
  <2>b. ASSUME NEW p \in Writers, NEW t, w' = [w EXCEPT ![p] = t]
        PROVE  w'[q] = w[q] \/ (p = q /\ w'[q] = t /\ t.pc = "replicas")
    BY <2>0, <2>b
  <2> HIDE DEF Moves
  <2>c. ASSUME UNCHANGED w PROVE Moves
    BY <2>a, <2>c
  <2>d. ASSUME NEW p \in Writers, w' = [w EXCEPT ![p] = Idle] PROVE Moves
    BY <2>a, <2>b, <2>d, IdleTyped
  <2>1. ASSUME NEW p \in Writers, Write(p) PROVE Moves
    <3>1. PICK size \in Sizes, pc \in {"pick", "primary"} :
            /\ w' = [w EXCEPT ![p] = Task(pc, nblobs + 1, size, activeGroup', 0, {})]
            /\ pc = "pick" => Alone
      BY <2>1, WriteKind
    <3> DEFINE t == Task(pc, nblobs + 1, size, activeGroup', 0, {})
    <3>2. t.pc # "replicas"
      BY DEF Task
    <3> HIDE DEF t
    <3>3. w'[q] = w[q]
      BY <2>b, <3>1, <3>2 DEF t
    <3> QED
      BY <2>a, <3>3
  <2>2. ASSUME NEW p \in Writers, PickDrive(p) PROVE Moves
    <3>1. PICK id : w' = [w EXCEPT ![p] = Task("stream", w[p].blob, w[p].size, id, 0, {})]
      BY <2>2 DEF PickDrive
    <3>2. Task("stream", w[p].blob, w[p].size, id, 0, {}).pc # "replicas"
      BY DEF Task
    <3> QED
      BY <2>a, <2>b, <3>1, <3>2
  <2>3. ASSUME NEW p \in Writers, LocalWrite(p) PROVE Moves
    <3> DEFINE targets == IF w[p].pc = "primary" THEN Replicas(w[p].vol) ELSE {}
    <3>1. \/ w' = [w EXCEPT ![p] = Idle]
          \/ /\ targets # {}
             /\ \E b, s, o : w' = [w EXCEPT ![p] = Task("replicas", b, s, w[p].vol, o, targets)]
      BY <2>3, ZenonT(30) DEF LocalWrite, Acknowledge
    <3>2. ASSUME targets # {}, NEW b, NEW s, NEW o,
                 w' = [w EXCEPT ![p] = Task("replicas", b, s, w[p].vol, o, targets)]
          PROVE  Moves
      <4>1. w[p].pc = "primary" /\ targets = Replicas(w[p].vol)
        BY <3>2
      <4> DEFINE t == Task("replicas", b, s, w[p].vol, o, targets)
      <4>2. t.vol = w[p].vol /\ t.wait = targets
        BY DEF Task
      <4> HIDE DEF t, targets
      <4>3. w'[q] = w[q] \/ (p = q /\ w'[q] = t)
        BY <2>b, <3>2 DEF t
      <4> QED
        BY <2>3, <2>a, <4>1, <4>2, <4>3 DEF Moves
    <3> HIDE DEF targets
    <3> QED
      BY <2>d, <3>1, <3>2
  <2>4. ASSUME NEW p \in Writers, NEW m \in Members, ReplicaDone(p, m) PROVE Moves
    <3>1. \/ w' = [w EXCEPT ![p] = Idle]
          \/ w' = [w EXCEPT ![p].wait = @ \ {m}]
      BY <2>4 DEF ReplicaDone, Acknowledge
    <3>2. CASE w' = [w EXCEPT ![p].wait = @ \ {m}]
      <4>1. CASE q # p
        <5>1. w'[q] = w[q]
          BY <2>0, <3>2, <4>1
        <5> QED
          BY <2>a, <5>1 DEF Moves
      <4>2. CASE q = p
        <5>1. w'[q] = [w[q] EXCEPT !.wait = @ \ {m}] /\ w[q] \in Tasks
          BY <2>0, <3>2, <4>2
        <5>2. /\ w'[q].pc = w[q].pc /\ w'[q].vol = w[q].vol /\ w'[q].off = w[q].off
              /\ w'[q].size = w[q].size /\ w'[q].blob = w[q].blob /\ w'[q].wait = w[q].wait \ {m}
          BY <5>1 DEF Tasks
        <5>3. Address(q)' = Address(q)
          BY <5>2 DEF Address, AddressAt
        <5> QED
          BY <2>4, <4>2, <5>2, <5>3 DEF Moves
      <4> QED
        BY <4>1, <4>2
    <3> QED
      BY <2>d, <3>1, <3>2
  <2>5. ASSUME NEW p \in Writers, NEW m \in Members, ReplicaFails(p, m) PROVE Moves
    BY <2>d, <2>5 DEF ReplicaFails
  <2>6. ASSUME NEW p \in Writers, LocalWriteFails(p) PROVE Moves
    BY <2>d, <2>6 DEF LocalWriteFails
  <2>7. ASSUME Crash \/ Close PROVE Moves
    <3>1. w' = [p \in Writers |-> Idle]
      BY <2>7 DEF Crash, Close
    <3>2. w'[q].pc = "idle"
      BY <3>1, IdleTyped
    <3> QED
      BY <3>2
  <2>8. ASSUME NEW p \in Writers, GroupUnsaved(p) \/ BufferStream(p) PROVE Moves
    BY <2>c, <2>8 DEF GroupUnsaved, BufferStream
  <2>9. ASSUME NEW r \in requests, RemoteWrite(r) PROVE Moves
    BY <2>c, <2>9 DEF RemoteWrite
  <2>10. ASSUME Open \/ UNCHANGED vars PROVE Moves
    BY <2>c, <2>10 DEF Open, vars
  <2>11. Moves
    BY <2>1, <2>2, <2>3, <2>4, <2>5, <2>6, <2>7, <2>8, <2>9, <2>10 DEF Next
  <2> QED
    BY <2>11 DEF Moves

<1>RepliesMove.
    ASSUME [Next]_vars, NEW x \in replies', x \notin replies
    PROVE  x \in requests /\ RemoteWrite(x)
  <2> USE <1>RepliesMove
  <2>1. ASSUME NEW r \in requests, RemoteWrite(r) PROVE x = r
    BY <2>1 DEF RemoteWrite
  <2>2. (\E r \in requests : RemoteWrite(r)) \/ replies' \subseteq replies
    BY ZenonT(60) DEF Next, vars, Write, GroupUnsaved, BufferStream, PickDrive, LocalWrite, LocalWriteFails, ReplicaDone,
       ReplicaFails, Crash, Close, Open
  <2> QED
    BY <2>1, <2>2

\* A blob appended where the file has the length its address says is at its address.
<1>AppendedGood.
    ASSUME DiskTyped, NEW m \in Members, NEW a \in Address1, Append1(m, a.vol, a.blob, a.size),
           Len(files[m][a.vol]) = a.off
    PROVE  a.vol \in exists'[m] /\ Holds(files'[m][a.vol], a)
  <2> USE <1>AppendedGood
  <2>1. a.vol \in Ids /\ a.blob \in Nat /\ a.size \in Nat
    BY DEF Address1
  <2>2. a.vol \in exists'[m] /\ files'[m][a.vol] = Extended(files[m][a.vol], Cells(a.blob, a.size))
    BY <2>1, WholeGrows, SMT
  <2>3. files[m][a.vol] \in Seq(Cell)
    BY <2>1 DEF DiskTyped
  <2> QED
    BY <2>2, <2>3, HoldsNew
<1> SUFFICES ASSUME PoolInv, Fresh, Saved, Session, Aligned, Answered, [Next]_vars
             PROVE  Answered'
  OBVIOUS
<1> SUFFICES ASSUME NEW q \in Writers, w'[q].pc = "replicas", NEW g, g = w'[q].vol,
                    g \notin apart', g \notin short', NEW m \in Replicas(g)',
                    m \notin w'[q].wait \/ [to |-> m, addr |-> Address(q)'] \in replies'
             PROVE  Good(m, Address(q))'
  BY DEF Answered, Replicas
<1>0. Typed /\ DiskTyped /\ Grown /\ NoLocal(registry)
  BY StepGrows DEF PoolInv, Typed, Saved
<1>1. ~Open
  BY OpenIdle, ConstantFacts
<1>2. g \notin apart /\ g \notin short /\ (up' => up)
  BY <1>1, HistoryGrows
<1>3. CASE /\ w[q].pc = "replicas" /\ Address(q)' = Address(q) /\ w'[q].vol = w[q].vol
           /\ \/ w'[q].wait = w[q].wait
              \/ \E m0 \in Members : ReplicaDone(q, m0) /\ w'[q].wait = w[q].wait \ {m0}
  <2> DEFINE a == Address(q)
             n == [to |-> m, addr |-> a]
  <2>1. a \in Address1 /\ a.vol = g /\ g \in Ids
    <3>1. w[q].off \in Nat /\ w[q].vol \in Ids
      BY <1>0, <1>3, TaskFacts
    <3>2. a \in Address1
      BY <1>0, <1>3, <3>1, AddressTyped DEF Address
    <3> QED
      BY <1>3, <3>1, <3>2 DEF Address, AddressAt
  <2> USE <2>1
  <2>2. up
    BY <1>3 DEF PoolInv, DownIdle
  <2>3. Live(g)
    BY <1>3, <2>2 DEF Live
  <2>4. registry'[g] = registry[g]
    <3>1. registry[g] # <<>>
      BY <1>0, <2>3, MembersFacts DEF Session
    <3> QED
      BY <1>1, <3>1, <1>GroupStays
  <2>5. m \in Replicas(g) /\ m \in Members /\ m # Local
    <3>1. m \in Replicas(g)
      BY <2>4 DEF Replicas
    <3> QED
      BY <1>0, <3>1, ReplicaIsRemote
  <2>6. ASSUME Good(m, a) PROVE Good(m, Address(q))'
    <3>1. a.vol \in exists'[m] /\ Holds(files'[m][a.vol], a)
      <4> HIDE DEF a
      <4> QED
        BY <1>0, <2>5, <2>6, GoodStays
    <3> QED
      BY <1>3, <3>1 DEF Good
  <2>7. CASE m \notin w[q].wait \/ n \in replies
    BY <1>2, <1>3, <2>5, <2>6, <2>7 DEF Answered
  <2>8. CASE m \in w[q].wait /\ n \notin replies
    <3>1. n \in replies'
      <4>1. ASSUME NEW m0 \in Members, ReplicaDone(q, m0) PROVE m # m0
        BY <2>8, <4>1 DEF ReplicaDone
      <4> QED
        BY <1>3, <2>8, <4>1
    <3>2. n \in requests /\ RemoteWrite(n) /\ n.to = m /\ n.addr = a
      BY <2>8, <3>1, <1>RepliesMove
    <3> HIDE DEF n, a
    <3>3. n \in Sent(m, g)
      BY <3>2 DEF Sent
    <3>4. InStep(m, g)
      BY <1>2, <2>3, <2>5 DEF Aligned
    <3>5. Len(files[m][a.vol]) = a.off
      BY <3>2, <3>3, <3>4 DEF InStep
    <3>6. Append1(m, a.vol, a.blob, a.size)
      BY <3>2 DEF RemoteWrite
    <3>7. a \in Address1
      OBVIOUS
    <3>8. a.vol \in exists'[m] /\ Holds(files'[m][a.vol], a)
      BY <1>0, <2>5, <3>5, <3>6, <3>7, <1>AppendedGood
    <3> QED
      BY <1>3, <3>8 DEF Good, a
  <2> QED
    BY <2>7, <2>8
<1>4. CASE /\ LocalWrite(q) /\ w[q].pc = "primary" /\ w'[q].vol = w[q].vol
           /\ w'[q].wait = Replicas(w[q].vol)
  <2>1. UNCHANGED <<registry, replies>>
        /\ apart' = apart \cup {v \in {w[q].vol} : \E r \in requests \cup replies : r.addr.vol = v}
    BY <1>4 DEF LocalWrite, pool
  <2>2. m \in w'[q].wait
    BY <1>4, <2>1 DEF Replicas
  <2>3. [to |-> m, addr |-> Address(q)'] \in replies
    BY <2>1, <2>2
  <2>4. PICK r \in replies : r.addr = Address(q)'
    BY <2>3
  <2>5. Address(q)'.vol = g
    BY DEF Address, AddressAt
  <2>6. g \in apart'
    BY <1>4, <2>1, <2>4, <2>5
  <2> QED
    BY <2>6
<1> QED
  BY <1>3, <1>4, <1>WaitMoves

LEMMA AlikeStep ==
  PoolInv /\ Fresh /\ Saved /\ Session /\ Aligned /\ Answered /\ Alike /\ [Next]_vars => Alike'
<1>AckNew.
    ASSUME NEW p \in Writers, NEW a, Acknowledge(p, a), NEW x \in acked', x \notin acked, x.alike
    PROVE  /\ x.addr = a /\ x.whole /\ a.vol \notin short /\ a.vol \notin apart
           /\ w[p].pc = "stream" => Replicas(a.vol) = {}
  <2> USE <1>AckNew
  <2> DEFINE whole == a.vol \notin short
             alike == a.vol \notin apart /\ (w[p].pc = "stream" => Replicas(a.vol) = {})
             r == [addr |-> a, whole |-> whole, alike |-> whole /\ alike]
  <2>1. x = r
    BY DEF Acknowledge
  <2>2. r.addr = a /\ r.whole = whole /\ r.alike = (whole /\ alike)
    OBVIOUS
  <2> HIDE DEF r
  <2>3. x.addr = a /\ x.whole = whole /\ (whole /\ alike)
    BY <2>1, <2>2
  <2> QED
    BY <2>3
<1> SUFFICES ASSUME PoolInv, Fresh, Saved, Session, Aligned, Answered, Alike, [Next]_vars
             PROVE  Alike'
  OBVIOUS
<1> SUFFICES ASSUME NEW x \in acked', x.alike
             PROVE  x.whole /\ \A m \in Replicas(x.addr.vol)' : Good(m, x.addr)'
  BY DEF Alike
<1>0. /\ Typed /\ DiskTyped /\ Grown /\ Local \in Members /\ NoLocal(registry)
      /\ registry \in [Ids -> Seq(Members)] /\ exists \in [Members -> SUBSET Ids]
  BY StepGrows, ConstantFacts DEF PoolInv, Typed, Saved, DiskTyped
<1>1. CASE x \in acked
  <2> DEFINE g == x.addr.vol
  <2>1. /\ x.whole /\ x.addr \in Address1 /\ g \in Ids /\ g \in exists[Local]
        /\ \A m \in Replicas(g) : Good(m, x.addr)
    BY <1>1 DEF Alike, PoolInv, Typed, Whole, Good, Address1
  <2> USE <2>1
  <2>2. ASSUME NEW m \in Replicas(g)' PROVE m \in Replicas(g)
    <3>1. PICK j \in 2 .. Len(registry'[g]) : m = registry'[g][j]
      BY <2>2 DEF Replicas
    <3>2. registry'[g] # <<>> /\ registry'[g] # <<Local>> /\ ~(Len(registry'[g]) = 1)
      <4>1. Len(<<>>) = 0 /\ Len(<<Local>>) = 1 /\ 2 .. 0 = {} /\ 2 .. 1 = {}
        BY SMT
      <4> QED
        BY <4>1
    <3>3. registry'[g] = registry[g]
      <4>1. CASE Open
        <5>1. registry'[g] = IF savedReg[g] = <<>> /\ g \in exists[Local] THEN <<Local>> ELSE savedReg[g]
          BY <4>1 DEF Open
        <5> QED
          BY <3>2, <5>1 DEF Saved
      <4>2. CASE NewGroup
        <5>1. registry'[g] = IF g = nextID THEN GroupMembers ELSE registry[g]
          BY <1>0, <4>2 DEF NewGroup
        <5>2. CASE g = nextID
          <6>1. ~Alone
            BY <3>2, <5>1, <5>2 DEF Alone
          <6>2. g < nextID
            BY <6>1 DEF Fresh
          <6>3. ~(nextID < nextID)
            BY SMT DEF Fresh
          <6> QED
            BY <5>2, <6>2, <6>3
        <5> QED
          BY <5>1, <5>2
      <4> QED
        BY <4>1, <4>2, GroupsMove
    <3> QED
      BY <3>1, <3>3 DEF Replicas
  <2>3. ASSUME NEW m \in Replicas(g)' PROVE Good(m, x.addr)'
    <3>1. m \in Replicas(g) /\ m \in Members
      BY <1>0, <2>2, <2>3, ReplicaIsRemote
    <3>2. x.addr.vol \in exists'[m] /\ Holds(files'[m][x.addr.vol], x.addr)
      BY <1>0, <3>1, GoodStays
    <3> QED
      BY <3>2 DEF Good
  <2> QED
    BY <2>3
<1>2. ASSUME x \notin acked, NEW p \in Writers, LocalWrite(p)
      PROVE  x.whole /\ \A m \in Replicas(x.addr.vol)' : Good(m, x.addr)'
  <2> DEFINE a == AddressAt(p, ends[Local][w[p].vol])
             targets == IF w[p].pc = "primary" THEN Replicas(w[p].vol) ELSE {}
  <2>1. /\ w[p].pc \in {"primary", "stream"} /\ UNCHANGED registry
        /\ targets = {} /\ Acknowledge(p, a)
    BY <1>2 DEF LocalWrite, pool
  <2>2. a.vol = w[p].vol
    BY DEF AddressAt
  <2> HIDE DEF a
  <2>3. x.addr = a /\ x.whole /\ (w[p].pc = "stream" => Replicas(a.vol) = {})
    BY <1>2, <2>1, <1>AckNew
  <2>4. Replicas(x.addr.vol) = {}
    BY <2>1, <2>2, <2>3
  <2>5. Replicas(x.addr.vol)' = {}
    BY <2>1, <2>4 DEF Replicas
  <2> QED
    BY <2>3, <2>5
<1>3. ASSUME x \notin acked, NEW p \in Writers, NEW m0 \in Members, ReplicaDone(p, m0)
      PROVE  x.whole /\ \A m \in Replicas(x.addr.vol)' : Good(m, x.addr)'
  <2> DEFINE a == Address(p)
  <2>1. /\ w[p].pc = "replicas" /\ w[p].wait = {m0} /\ [to |-> m0, addr |-> a] \in replies
        /\ UNCHANGED <<registry, files, exists>> /\ Acknowledge(p, a)
    BY <1>3 DEF ReplicaDone, pool, disk, Result
  <2> USE <2>1
  <2>2. a.vol = w[p].vol
    BY DEF Address, AddressAt
  <2>3. ASSUME w[p].vol \notin short, w[p].vol \notin apart, NEW m \in Replicas(w[p].vol)
        PROVE  Good(m, a)
    BY <2>3 DEF Answered
  <2> HIDE DEF a
  <2>4. x.addr = a /\ x.whole /\ a.vol \notin short /\ a.vol \notin apart
    BY <1>3, <1>AckNew
  <2>5. Replicas(x.addr.vol)' = Replicas(w[p].vol)
    BY <2>2, <2>4 DEF Replicas
  <2>6. ASSUME NEW m \in Replicas(w[p].vol) PROVE Good(m, x.addr)'
    <3>1. Good(m, x.addr)
      BY <2>2, <2>3, <2>4, <2>6
    <3> QED
      BY <3>1 DEF Good
  <2> QED
    BY <2>4, <2>5, <2>6
<1>4. \/ x \in acked
      \/ \E p \in Writers : LocalWrite(p) \/ \E m0 \in Members : ReplicaDone(p, m0)
  BY DEF Next, vars, Write, GroupUnsaved, BufferStream, PickDrive, LocalWriteFails, ReplicaFails, RemoteWrite,
     Crash, Close, Open
<1> QED
  BY <1>1, <1>2, <1>3, <1>4

-----------------------------------------------------------------------------
(* Reads from any member *)

LEMMA InitMemberInv == Init => MemberInv
<1> SUFFICES ASSUME Init PROVE MemberInv
  OBVIOUS
<1>0. Local \in Members /\ PoolInv /\ Typed /\ Ids \subseteq Nat /\ 0 .. (NumDrives - 1) \subseteq Ids
  BY InitPoolInv, ConstantFacts DEF PoolInv
<1>1. \A p \in Writers : w[p].pc = "idle"
  BY IdleTyped DEF Init
<1>2. \A i \in Ids : registry[i] # <<>> => i < nextID
  BY DEF Init
<1>3. nextID \in Nat /\ \A i \in exists[Local] : i < nextID
  <2>1. nextID = NumDrives /\ exists[Local] = 0 .. (NumDrives - 1) /\ NumDrives \in Nat
    BY <1>0, PoolConstants DEF Init
  <2> QED
    BY <2>1, SMT
<1>4. Fresh
  BY <1>0, <1>2, <1>3 DEF Init, Fresh
<1>5. NoLocal(registry)
  <2> SUFFICES ASSUME NEW i \in Ids, NEW j \in 2 .. Len(registry[i]) PROVE FALSE
    BY DEF NoLocal
  <2>1. Len(<<>>) = 0 /\ Len(<<Local>>) = 1 /\ 2 .. 0 = {} /\ 2 .. 1 = {}
    BY SMT
  <2>2. registry[i] = <<Local>> \/ registry[i] = <<>>
    BY DEF Init
  <2> QED
    BY <2>1, <2>2
<1>6. Saved
  BY <1>5 DEF Init, Saved, Remote
<1>7. None \notin Ids
  BY <1>0, SMT DEF None
<1>8. \A g \in Ids : ~Live(g)
  BY <1>1, <1>7 DEF Init, Live
<1>9. activeGroup \notin exists[Local]
  BY <1>0, <1>7 DEF Init
<1>10. Session
  BY <1>1, <1>8, <1>9 DEF Session
<1> QED
  BY <1>1, <1>4, <1>6, <1>8, <1>10 DEF Init, MemberInv, Aligned, Answered, Alike

LEMMA InvAnyMember == PoolInv /\ MemberInv => AnyMember
<1> SUFFICES ASSUME PoolInv, MemberInv, NEW x \in acked, x.alike, NEW i \in DOMAIN ReadFrom(x.addr)
             PROVE  ReadAt(ReadFrom(x.addr)[i], x.addr) = x.addr.blob
  BY DEF AnyMember
<1> DEFINE g == x.addr.vol
           m == ReadFrom(x.addr)[i]
<1>1. /\ Typed /\ DiskTyped /\ Local \in Members /\ x.addr \in Address1 /\ g \in Ids
      /\ x.whole /\ Good(Local, x.addr) /\ \A n \in Replicas(g) : Good(n, x.addr)
      /\ LocalFirst(registry) /\ NoLocal(registry) /\ registry \in [Ids -> Seq(Members)]
  BY ConstantFacts DEF PoolInv, Typed, Whole, MemberInv, Alike, Address1, Saved
<1>2. m = Local \/ m \in Replicas(g)
  <2>1. CASE registry[g] = <<>>
    <3>1. ReadFrom(x.addr) = <<Local>>
      BY <2>1 DEF ReadFrom
    <3>2. \A j \in DOMAIN <<Local>> : <<Local>>[j] = Local
      BY SMT
    <3> QED
      BY <3>1, <3>2
  <2>2. CASE registry[g] # <<>>
    <3>1. ReadFrom(x.addr) = registry[g] /\ registry[g] \in Seq(Members)
      BY <1>1, <2>2 DEF ReadFrom
    <3>2. i = 1 \/ i \in 2 .. Len(registry[g])
      <4> DEFINE s == registry[g]
      <4>1. s \in Seq(Members) /\ i \in DOMAIN s
        BY <3>1
      <4> HIDE DEF s
      <4>2. i = 1 \/ i \in 2 .. Len(s)
        BY <4>1, SMT
      <4> QED
        BY <4>2 DEF s
    <3>3. CASE i = 1
      BY <1>1, <2>2, <3>1, <3>3 DEF LocalFirst
    <3>4. CASE i \in 2 .. Len(registry[g])
      BY <3>1, <3>4 DEF Replicas
    <3> QED
      BY <3>2, <3>3, <3>4
  <2> QED
    BY <2>1, <2>2
<1> HIDE DEF m
<1>3. m \in Members /\ Good(m, x.addr)
  BY <1>1, <1>2, ReplicaIsRemote
<1>4. ReadAt(m, x.addr) = x.addr.blob
  BY <1>1, <1>3, ReadIsGood
<1> QED
  BY <1>4 DEF m

-----------------------------------------------------------------------------
(* The volumes of the manager, fresh ids and the types *)

\* v.end is never past the end of the file, and a file that holds something exists.
Stored ==
  \A m \in Members, i \in Ids : /\ files[m][i] # <<>> => i \in exists[m]
                                /\ ends[m][i] <= Len(files[m][i])

\* Every drive has a volume, and a rotated volume gets an id that no file has.
Managed ==
  /\ drive \in [Ids -> Drives]
  /\ vm \in [nextID : Nat, driveIdx : Nat, current : [Drives -> Ids]]
  /\ \A d \in Drives : vm.current[d] \in exists[Local]
  /\ \A d \in Drives : d - 1 \in exists[Local] /\ drive[d - 1] = d
  /\ up => \A i \in exists[Local] : i < vm.nextID

Request == [to : Members, addr : Addr]
Answer == [addr : Addr, whole : BOOLEAN, alike : BOOLEAN]

\* What is written comes from a client's request.
Passed ==
  /\ up \in BOOLEAN /\ activeGroup \in Nat \cup {None} /\ nblobs \in Nat
  /\ \A p \in Writers : w[p].pc # "idle" => w[p].size \in Sizes /\ w[p].blob \in 1 .. MaxBlobs
  /\ requests \subseteq Request /\ replies \subseteq Request
  /\ acked \subseteq Answer
  /\ short \subseteq Ids /\ apart \subseteq Ids

LEMMA StoredStep ==
  PoolInv /\ Stored /\ [Next]_vars => Stored'
<1>DiskMoves.
    ASSUME PoolInv, [Next]_vars
    PROVE  \/ UNCHANGED <<files, ends>>
           \/ \E m \in Members, vol \in Ids, blob \in Nat, size \in Nat : Append1(m, vol, blob, size)
           \/ \E vol \in Ids, blob \in Nat, size \in Nat : \E n \in 0 .. (2 + size) :
                AppendPart(Local, vol, blob, size, n)
           \/ Open
  <2> USE <1>DiskMoves
  <2> DEFINE Part == \E vol \in Ids, blob \in Nat, size \in Nat : \E n \in 0 .. (2 + size) :
                       AppendPart(Local, vol, blob, size, n)
             Whole1 == \E m \in Members, vol \in Ids, blob \in Nat, size \in Nat :
                         Append1(m, vol, blob, size)
  <2>0. Typed /\ Local \in Members
    BY ConstantFacts DEF PoolInv
  <2>1. CASE UNCHANGED vars
    BY <2>1 DEF vars
  <2>2. ASSUME NEW p \in Writers, Write(p) \/ GroupUnsaved(p) \/ BufferStream(p) \/ PickDrive(p)
        PROVE  UNCHANGED <<files, ends>>
    BY <2>2 DEF Write, GroupUnsaved, BufferStream, PickDrive, disk
  <2>3. ASSUME NEW p \in Writers, NEW m \in Members, ReplicaDone(p, m) \/ ReplicaFails(p, m)
        PROVE  UNCHANGED <<files, ends>>
    BY <2>3 DEF ReplicaDone, ReplicaFails, disk
  <2>4. CASE Close
    BY <2>4 DEF Close, disk
  <2>a. ASSUME NEW p \in Writers, w[p].pc \in {"primary", "stream"}
        PROVE  w[p].vol \in Ids /\ w[p].blob \in Nat /\ w[p].size \in Nat
    BY <2>0, <2>a, TaskFacts
  <2>5. ASSUME NEW p \in Writers, LocalWrite(p) PROVE Whole1
    <3>1. w[p].pc \in {"primary", "stream"} /\ Append1(Local, w[p].vol, w[p].blob, w[p].size)
      BY <2>5 DEF LocalWrite
    <3> QED
      BY <2>0, <2>a, <3>1
  <2>6. ASSUME NEW p \in Writers, LocalWriteFails(p) PROVE Part
    <3>1. w[p].pc \in {"primary", "stream"}
      BY <2>6 DEF LocalWriteFails
    <3>2. w[p].vol \in Ids /\ w[p].blob \in Nat /\ w[p].size \in Nat
      BY <2>a, <3>1
    <3>3. PICK n \in 0 .. (2 + w[p].size) : AppendPart(Local, w[p].vol, w[p].blob, w[p].size, n)
      BY <2>6, <3>2, FailParts
    <3> QED
      BY <3>2, <3>3
  <2>7. ASSUME NEW r \in requests, RemoteWrite(r) PROVE Whole1
    <3>1. r.to \in Members /\ r.addr \in Address1
      BY <2>0 DEF Typed
    <3>2. r.addr.vol \in Ids /\ r.addr.blob \in Nat /\ r.addr.size \in Nat
      BY <3>1 DEF Address1
    <3> QED
      BY <2>7, <3>1, <3>2 DEF RemoteWrite
  <2>8. CASE Crash
    <3>1. ASSUME NEW p \in Writers, w[p].pc \in {"primary", "stream"}, NEW n \in 0 .. (1 + w[p].size),
                 AppendPart(Local, w[p].vol, w[p].blob, w[p].size, n)
          PROVE  Part
      <4>1. w[p].vol \in Ids /\ w[p].blob \in Nat /\ w[p].size \in Nat
        BY <2>a, <3>1
      <4>2. n \in 0 .. (2 + w[p].size)
        BY <3>1, <4>1, CrashPart
      <4> QED
        BY <3>1, <4>1, <4>2
    <3> HIDE DEF Part
    <3>2. UNCHANGED <<files, ends>> \/ Part
      BY <2>8, <3>1 DEF Crash
    <3> QED
      BY <3>2 DEF Part
  <2> HIDE DEF Part, Whole1
  <2>9. UNCHANGED <<files, ends>> \/ Whole1 \/ Part \/ Open
    BY <2>1, <2>2, <2>3, <2>4, <2>5, <2>6, <2>7, <2>8 DEF Next, Part, Whole1
  <2> QED
    BY <2>9 DEF Part, Whole1

\* A file that is extended is no shorter, and not empty if something was written.
<1>LongerFacts.
    ASSUME NEW f \in Seq(Cell), NEW g, Longer(f, g)
    PROVE  g \in Seq(Cell) /\ Len(f) \in Nat /\ Len(g) \in Nat /\ Len(f) <= Len(g)
  <2> USE <1>LongerFacts
  <2>1. Len(f) \in Nat
    BY SMT
  <2>2. ASSUME NEW c \in Seq(Cell), g = Extended(f, c)
        PROVE  g \in Seq(Cell) /\ Len(g) \in Nat /\ Len(f) <= Len(g)
    <3>1. g \in Seq(Cell) /\ Len(g) = Len(f) + Len(c) /\ Len(c) \in Nat
      BY <2>2, ExtendedIs, SMT
    <3> QED
      BY <2>1, <3>1, SMT
  <2>3. CASE g = f
    BY <2>1, <2>3, SMT
  <2> QED
    BY <2>1, <2>2, <2>3 DEF Longer
<1> SUFFICES ASSUME PoolInv, Stored, [Next]_vars
             PROVE  Stored'
  OBVIOUS
<1>0. /\ Typed /\ DiskTyped /\ Grown /\ Local \in Members
      /\ files \in [Members -> [Ids -> Seq(Cell)]] /\ ends \in [Members -> [Ids -> Nat]]
      /\ exists \in [Members -> SUBSET Ids]
  BY ConstantFacts, StepGrows DEF PoolInv, Typed, DiskTyped
<1>d. DiskTyped
  BY <1>0
<1> SUFFICES ASSUME NEW m \in Members, NEW i \in Ids
             PROVE  /\ files'[m][i] # <<>> => i \in exists'[m]
                    /\ ends'[m][i] <= Len(files'[m][i])
  BY DEF Stored
<1>1. /\ files[m][i] # <<>> => i \in exists[m]
      /\ ends[m][i] <= Len(files[m][i])
  BY DEF Stored
<1>2. /\ exists[m] \subseteq exists'[m] /\ Longer(files[m][i], files'[m][i])
      /\ files[m][i] \in Seq(Cell) /\ ends[m][i] \in Nat
  BY <1>0 DEF Grown
<1>3. /\ Len(files[m][i]) \in Nat /\ Len(files'[m][i]) \in Nat
      /\ Len(files[m][i]) <= Len(files'[m][i])
  BY <1>2, <1>LongerFacts
<1>4. CASE UNCHANGED <<files, ends>>
  <2>1. files' = files /\ ends' = ends
    BY <1>4
  <2> QED
    BY <1>1, <1>2, <2>1
<1>5. ASSUME NEW k \in Members, NEW vol \in Ids, NEW blob \in Nat, NEW size \in Nat,
             Append1(k, vol, blob, size)
      PROVE  /\ files'[m][i] # <<>> => i \in exists'[m]
             /\ ends'[m][i] <= Len(files'[m][i])
  <2>1. /\ Grown /\ vol \in exists'[k]
        /\ files'[k][vol] = Extended(files[k][vol], Cells(blob, size))
        /\ \A m2 \in Members, v \in Ids : <<m2, v>> # <<k, vol>> => files'[m2][v] = files[m2][v]
    BY <1>d, <1>5, WholeGrows
  <2>2. ends' = [ends EXCEPT ![k][vol] = @ + 1 + size]
    BY <1>5 DEF Append1
  <2>3. CASE m = k /\ i = vol
    <3>1. ends'[m][i] = ends[m][i] + 1 + size
      BY <1>0, <2>2, <2>3
    <3> DEFINE f == files[m][i]
               c == Cells(blob, size)
    <3>2. c \in Seq(Cell) /\ Len(c) = 1 + size
      BY CellsAre
    <3>3. f \in Seq(Cell) /\ Len(f) \in Nat /\ ends[m][i] \in Nat /\ ends[m][i] <= Len(f)
      BY <1>1, <1>2, <1>3
    <3>4. files'[m][i] = Extended(f, c)
      BY <2>1, <2>3
    <3> HIDE DEF f, c
    <3>5. Len(files'[m][i]) = Len(f) + Len(c)
      BY <3>2, <3>3, <3>4, ExtendedIs
    <3>6. ends'[m][i] <= Len(files'[m][i])
      BY <3>1, <3>2, <3>3, <3>5, SMT
    <3> QED
      BY <2>1, <2>3, <3>6
  <2>4. CASE ~(m = k /\ i = vol)
    <3>1. <<m, i>> # <<k, vol>>
      BY <2>4
    <3>2. files'[m][i] = files[m][i]
      BY <2>1, <3>1
    <3>3. ends'[m][i] = ends[m][i]
      BY <1>0, <2>2, <2>4
    <3> QED
      BY <1>1, <1>2, <3>2, <3>3
  <2> QED
    BY <2>3, <2>4
<1>6. ASSUME NEW vol \in Ids, NEW blob \in Nat, NEW size \in Nat, NEW n \in 0 .. (2 + size),
             AppendPart(Local, vol, blob, size, n)
      PROVE  /\ files'[m][i] # <<>> => i \in exists'[m]
             /\ ends'[m][i] <= Len(files'[m][i])
  <2>1. /\ UNCHANGED ends
        /\ \A m2 \in Members, v \in Ids : <<m2, v>> # <<Local, vol>> => files'[m2][v] = files[m2][v]
    BY <1>0, <1>d, <1>6, PartGrows
  <2>2. exists' = [exists EXCEPT ![Local] = @ \cup {vol}]
    BY <1>6 DEF AppendPart
  <2>3. vol \in exists'[Local]
    BY <1>0, <2>2
  <2>4. <<m, i>> # <<Local, vol>> \/ (m = Local /\ i = vol)
    OBVIOUS
  <2>5. files'[m][i] # <<>> => i \in exists'[m]
    BY <1>1, <1>2, <2>1, <2>3, <2>4
  <2>6. ends'[m][i] = ends[m][i]
    BY <2>1
  <2>7. ends'[m][i] <= Len(files'[m][i])
    BY <1>1, <1>2, <1>3, <2>6, SMT
  <2> QED
    BY <2>5, <2>7
<1>7. CASE Open
  <2>1. /\ files' = files /\ exists' = exists
        /\ ends' = [ends EXCEPT ![Local] = [v \in Ids |-> EndOnOpen(files[Local][v])]]
    BY <1>7 DEF Open
  <2>2. ends'[m][i] = ends[m][i] \/ ends'[m][i] = Len(files[m][i])
    BY <1>0, <2>1 DEF EndOnOpen
  <2>3. ends'[m][i] <= Len(files'[m][i])
    BY <1>1, <1>3, <2>1, <2>2
  <2> QED
    BY <1>1, <2>1, <2>3
<1> QED
  BY <1>4, <1>5, <1>6, <1>7, <1>DiskMoves

LEMMA PassedStep ==
  PoolInv /\ Fresh /\ Passed /\ [Next]_vars => Passed'
\* The address of what a writer writes.
<1>PassedAddress.
    ASSUME PoolInv, Passed, NEW p \in Writers, w[p].pc # "idle", NEW off \in Nat
    PROVE  /\ AddressAt(p, off) \in Addr /\ AddressAt(p, off).vol = w[p].vol
           /\ w[p].vol \in Ids /\ w[p].size \in Sizes /\ w[p].blob \in 1 .. MaxBlobs
  <2> USE <1>PassedAddress
  <2>1. Typed
    BY DEF PoolInv
  <2>2. w[p].vol \in Ids /\ w[p].size \in Sizes /\ w[p].blob \in 1 .. MaxBlobs
    BY <2>1, TaskFacts DEF Passed
  <2> QED
    BY <2>2 DEF AddressAt, Addr

<1>PassedTasks.
    ASSUME PoolInv, Passed, [Next]_vars, NEW q \in Writers, w'[q].pc # "idle"
    PROVE  w'[q].size \in Sizes /\ w'[q].blob \in 1 .. MaxBlobs
  <2> USE <1>PassedTasks
  <2> DEFINE Fine(t) == t.pc # "idle" => t.size \in Sizes /\ t.blob \in 1 .. MaxBlobs
  <2>0. w \in [Writers -> Tasks] /\ \A p \in Writers : Fine(w[p])
    BY DEF PoolInv, Typed, Passed
  <2> SUFFICES Fine(w'[q])
    OBVIOUS
  <2>a. ASSUME NEW p \in Writers, NEW t, w' = [w EXCEPT ![p] = t], Fine(t) PROVE Fine(w'[q])
    <3>1. w'[q] = t \/ w'[q] = w[q]
      BY <2>0, <2>a
    <3> QED
      BY <2>0, <2>a, <3>1
  <2>b. Idle.pc = "idle"
    BY IdleTyped
  <2>c. Fine(Idle)
    BY <2>b
  <2>1. CASE UNCHANGED w
    BY <2>0, <2>1
  <2>2. ASSUME NEW p \in Writers, Write(p) PROVE Fine(w'[q])
    <3>1. PICK size \in Sizes, pc \in {"pick", "primary"} :
            w' = [w EXCEPT ![p] = Task(pc, nblobs + 1, size, activeGroup', 0, {})]
      BY <2>2, WriteKind, SMT
    <3>2. nblobs < MaxBlobs /\ nblobs \in Nat /\ MaxBlobs \in Nat
      BY <2>2, PoolConstants DEF Write, Passed
    <3>3. nblobs + 1 \in 1 .. MaxBlobs
      BY <3>2, SMT
    <3> DEFINE t == Task(pc, nblobs + 1, size, activeGroup', 0, {})
    <3>4. t.size = size /\ t.blob = nblobs + 1
      BY DEF Task
    <3> HIDE DEF t
    <3>5. Fine(t)
      BY <3>3, <3>4
    <3>6. w' = [w EXCEPT ![p] = t]
      BY <3>1 DEF t
    <3> QED
      BY <2>a, <3>5, <3>6
  <2>3. ASSUME NEW p \in Writers, PickDrive(p) PROVE Fine(w'[q])
    <3>1. PICK id : w' = [w EXCEPT ![p] = Task("stream", w[p].blob, w[p].size, id, 0, {})]
      BY <2>3 DEF PickDrive
    <3>2. w[p].pc # "idle"
      BY <2>3 DEF PickDrive
    <3> DEFINE t == Task("stream", w[p].blob, w[p].size, id, 0, {})
    <3>3. t.size = w[p].size /\ t.blob = w[p].blob
      BY DEF Task
    <3> HIDE DEF t
    <3>4. Fine(t)
      BY <2>0, <3>2, <3>3
    <3>5. w' = [w EXCEPT ![p] = t]
      BY <3>1 DEF t
    <3> QED
      BY <2>a, <3>4, <3>5
  <2>4. ASSUME NEW p \in Writers, w' = [w EXCEPT ![p] = Idle] PROVE Fine(w'[q])
    BY <2>4, <2>a, <2>c
  <2>5. ASSUME NEW p \in Writers, LocalWrite(p) PROVE Fine(w'[q])
    <3>1. /\ w[p].pc # "idle"
          /\ \/ w' = [w EXCEPT ![p] = Idle]
             \/ \E off, targets : w' = [w EXCEPT ![p] =
                  Task("replicas", w[p].blob, w[p].size, w[p].vol, off, targets)]
      BY <2>5, ZenonT(60) DEF LocalWrite, Acknowledge, AddressAt
    <3>2. ASSUME NEW off, NEW targets,
                 w' = [w EXCEPT ![p] = Task("replicas", w[p].blob, w[p].size, w[p].vol, off, targets)]
          PROVE  Fine(w'[q])
      <4> DEFINE t == Task("replicas", w[p].blob, w[p].size, w[p].vol, off, targets)
      <4>1. t.size = w[p].size /\ t.blob = w[p].blob
        BY DEF Task
      <4> HIDE DEF t
      <4>2. Fine(t)
        BY <2>0, <3>1, <4>1
      <4>3. w' = [w EXCEPT ![p] = t]
        BY <3>2 DEF t
      <4> QED
        BY <2>a, <4>2, <4>3
    <3> QED
      BY <2>4, <3>1, <3>2
  <2>6. ASSUME NEW p \in Writers, NEW m \in Members, ReplicaDone(p, m) PROVE Fine(w'[q])
    <3>1. w' = [w EXCEPT ![p] = Idle] \/ w' = [w EXCEPT ![p].wait = @ \ {m}]
      BY <2>6 DEF ReplicaDone, Acknowledge
    <3>2. ASSUME w' = [w EXCEPT ![p].wait = @ \ {m}] PROVE Fine(w'[q])
      <4>1. w'[q] = w[q] \/ w'[q] = [w[q] EXCEPT !.wait = @ \ {m}]
        BY <2>0, <3>2
      <4>2. w[q] \in Tasks
        BY <2>0
      <4>3. w'[q].pc = w[q].pc /\ w'[q].size = w[q].size /\ w'[q].blob = w[q].blob
        BY <4>1, <4>2 DEF Tasks
      <4> QED
        BY <2>0, <4>3
    <3> QED
      BY <2>4, <3>1, <3>2
  <2>7. ASSUME w' = [p \in Writers |-> Idle] PROVE Fine(w'[q])
    BY <2>7, <2>c
  <2> HIDE DEF Fine
  <2> QED
    BY <2>1, <2>2, <2>3, <2>4, <2>5, <2>6, <2>7
       DEF Next, vars, GroupUnsaved, BufferStream, LocalWriteFails, ReplicaFails, RemoteWrite, Crash, Close, Open
<1> SUFFICES ASSUME PoolInv, Fresh, Passed, [Next]_vars
             PROVE  Passed'
  OBVIOUS
<1> DEFINE Kept == /\ up' \in BOOLEAN /\ activeGroup' \in Nat \cup {None} /\ nblobs' \in Nat
                   /\ requests' \subseteq Request /\ replies' \subseteq Request
                   /\ acked' \subseteq Answer /\ short' \subseteq Ids /\ apart' \subseteq Ids
<1>0. /\ up \in BOOLEAN /\ activeGroup \in Nat \cup {None} /\ nblobs \in Nat
      /\ requests \subseteq Request /\ replies \subseteq Request
      /\ acked \subseteq Answer /\ short \subseteq Ids /\ apart \subseteq Ids
  BY DEF Passed
<1> USE <1>0
<1>a. Ids \subseteq Nat /\ TRUE \in BOOLEAN /\ FALSE \in BOOLEAN /\ nblobs + 1 \in Nat /\ nextID \in Nat
  BY ConstantFacts, SMT DEF Fresh
<1>b. Typed /\ Local \in Members /\ ends \in [Members -> [Ids -> Nat]]
  BY ConstantFacts DEF PoolInv, Typed, DiskTyped
<1>c. ASSUME NEW p \in Writers, NEW a \in Addr, Acknowledge(p, a) PROVE acked' \subseteq Answer
  <2>1. PICK x, y : acked' = acked \cup {[addr |-> a, whole |-> x, alike |-> y]} /\ x \in BOOLEAN /\ y \in BOOLEAN
    <3> DEFINE x == a.vol \notin short
               y == x /\ a.vol \notin apart /\ (w[p].pc = "stream" => Replicas(a.vol) = {})
    <3>1. acked' = acked \cup {[addr |-> a, whole |-> x, alike |-> y]}
      BY <1>c DEF Acknowledge
    <3>2. x \in BOOLEAN /\ y \in BOOLEAN
      OBVIOUS
    <3> HIDE DEF x, y
    <3> QED
      BY <3>1, <3>2
  <2>2. [addr |-> a, whole |-> x, alike |-> y] \in Answer
    BY <2>1 DEF Answer
  <2> QED
    BY <2>1, <2>2
<1>1. ASSUME UNCHANGED vars PROVE Kept
  BY <1>1 DEF vars
<1>2. ASSUME NEW p \in Writers, Write(p) PROVE Kept
  <2>1. /\ UNCHANGED <<up, requests, replies, acked, short, apart>> /\ nblobs' = nblobs + 1
        /\ \E g \in Ids : getOrCreateGroup(g)
    BY <1>2 DEF Write, history
  <2>2. activeGroup' \in Nat \cup {None}
    BY <1>a, <2>1 DEF getOrCreateGroup, pool
  <2> QED
    BY <1>a, <2>1, <2>2
<1>3. ASSUME NEW p \in Writers, GroupUnsaved(p) \/ BufferStream(p) PROVE Kept
  <2>1. /\ UNCHANGED <<up, requests, replies, acked, short, apart>> /\ nblobs' = nblobs + 1
        /\ activeGroup' = nextID
    BY <1>3, BufferIs DEF GroupUnsaved, history
  <2> QED
    BY <1>a, <2>1
<1>4. ASSUME NEW p \in Writers, PickDrive(p) PROVE Kept
  BY <1>4 DEF PickDrive, pool, history
<1>5. ASSUME NEW p \in Writers, LocalWrite(p) PROVE Kept
  <2> DEFINE a == AddressAt(p, ends[Local][w[p].vol])
             targets == IF w[p].pc = "primary" THEN Replicas(w[p].vol) ELSE {}
  <2>1. /\ UNCHANGED <<up, activeGroup, replies, nblobs, short>> /\ w[p].pc # "idle"
        /\ requests' = requests \cup {[to |-> m, addr |-> a] : m \in targets}
        /\ Acknowledge(p, a) \/ UNCHANGED acked
        /\ apart' \subseteq apart \cup {w[p].vol}
    BY <1>5 DEF LocalWrite, pool
  <2> USE <2>1
  <2>2. w[p].vol \in Ids
    BY <1>b, TaskFacts
  <2>3. ends[Local][w[p].vol] \in Nat
    BY <1>b, <2>2
  <2>4. a \in Addr
    BY <2>3, <1>PassedAddress
  <2>5. targets \subseteq Members
    BY <1>b, <2>2, ReplicasTyped
  <2> HIDE DEF a, targets
  <2>6. requests' \subseteq Request
    <3>1. \A m \in targets : [to |-> m, addr |-> a] \in Request
      BY <2>4, <2>5 DEF Request
    <3> QED
      BY <3>1
  <2>7. acked' \subseteq Answer
    BY <1>c, <2>4
  <2>8. apart' \subseteq Ids
    BY <2>2
  <2> QED
    BY <2>6, <2>7, <2>8
<1>6. ASSUME NEW p \in Writers, LocalWriteFails(p) PROVE Kept
  <2>1. /\ UNCHANGED <<up, activeGroup, requests, replies, acked, nblobs, apart>> /\ w[p].pc # "idle"
        /\ short' \subseteq short \cup {w[p].vol}
    BY <1>6 DEF LocalWriteFails, pool
  <2>2. w[p].vol \in Ids
    BY <1>b, <2>1, TaskFacts
  <2> QED
    BY <2>1, <2>2
<1>7. ASSUME NEW p \in Writers, NEW m \in Members, ReplicaDone(p, m) PROVE Kept
  <2>1. /\ UNCHANGED <<up, activeGroup, requests, nblobs, short, apart>> /\ w[p].pc # "idle"
        /\ replies' \subseteq replies /\ (Acknowledge(p, Address(p)) \/ UNCHANGED acked)
    BY <1>7 DEF ReplicaDone, Result, pool, history
  <2>2. w[p].off \in Nat
    BY <1>b, TaskFacts
  <2>3. Address(p) \in Addr
    BY <2>1, <2>2, <1>PassedAddress DEF Address
  <2>4. acked' \subseteq Answer
    BY <1>c, <2>1, <2>3
  <2> QED
    BY <2>1, <2>4
<1>8. ASSUME NEW p \in Writers, NEW m \in Members, ReplicaFails(p, m) PROVE Kept
  <2>1. /\ UNCHANGED <<up, activeGroup, requests, acked, nblobs, short>> /\ w[p].pc # "idle"
        /\ replies' \subseteq replies /\ apart' = apart \cup {w[p].vol}
    BY <1>8 DEF ReplicaFails, pool
  <2>2. w[p].vol \in Ids
    BY <1>b, <2>1, TaskFacts
  <2> QED
    BY <2>1, <2>2
<1>9. ASSUME NEW r \in requests, RemoteWrite(r) PROVE Kept
  <2>1. /\ UNCHANGED <<up, activeGroup, acked, nblobs, short, apart>>
        /\ requests' = requests \ {r} /\ replies' = replies \cup {r}
    BY <1>9 DEF RemoteWrite, pool, history
  <2> QED
    BY <2>1
<1>10. ASSUME Crash \/ Close \/ Open PROVE Kept
  <2>1. /\ UNCHANGED <<requests, acked, nblobs, apart>> /\ up' \in BOOLEAN
        /\ replies' \subseteq replies /\ short' \subseteq short
        /\ activeGroup' = activeGroup \/ activeGroup' = None
    BY <1>10 DEF Crash, Close, Open, ActiveOnOpen, pool, history
  <2> QED
    BY <2>1
<1> HIDE DEF Kept
<1>11. Kept
  BY <1>1, <1>2, <1>3, <1>4, <1>5, <1>6, <1>7, <1>8, <1>9, <1>10 DEF Next
<1>12. \A q \in Writers : w'[q].pc # "idle" => w'[q].size \in Sizes /\ w'[q].blob \in 1 .. MaxBlobs
  BY <1>PassedTasks
<1> QED
  BY <1>11, <1>12 DEF Passed, Kept

LEMMA InitTypes == Init => Stored /\ Managed /\ Passed
<1> SUFFICES ASSUME Init PROVE Stored /\ Managed /\ Passed
  OBVIOUS
<1>1. Local \in Members /\ Ids \subseteq Nat /\ 0 .. (NumDrives - 1) \subseteq Ids
  BY ConstantFacts
<1>2. Stored
  <2> SUFFICES ASSUME NEW m \in Members, NEW i \in Ids
               PROVE  (files[m][i] # <<>> => i \in exists[m]) /\ ends[m][i] <= Len(files[m][i])
    BY DEF Stored
  <2>1. files[m][i] = <<>> /\ ends[m][i] = 0
    BY DEF Init
  <2> QED
    BY <2>1, SMT
<1>3. Managed
  <2>1. exists[Local] = 0 .. (NumDrives - 1)
    BY <1>1 DEF Init
  <2>2. NumDrives \in Nat \ {0}
    BY PoolConstants
  <2> USE <2>2
  <2> DEFINE cur == [d \in Drives |-> d - 1]
  <2>3. \A d \in Drives : d - 1 \in 0 .. (NumDrives - 1) /\ d - 1 < NumDrives /\ (d - 1) + 1 = d
    BY SMT DEF Drives
  <2>4. cur \in [Drives -> Ids] /\ \A d \in Drives : cur[d] \in exists[Local]
    BY <1>1, <2>1, <2>3
  <2>5. vm = [nextID |-> NumDrives, driveIdx |-> 0, current |-> cur] /\ 0 \in Nat
    BY DEF Init
  <2> HIDE DEF cur
  <2>6. vm \in [nextID : Nat, driveIdx : Nat, current : [Drives -> Ids]] /\ vm.current = cur
        /\ vm.nextID = NumDrives
    BY <2>4, <2>5
  <2>7. drive \in [Ids -> Drives]
    <3>1. ASSUME NEW i \in Ids PROVE (IF i < NumDrives THEN i + 1 ELSE 1) \in Drives
      BY <1>1, SMT DEF Drives
    <3> QED
      BY <3>1 DEF Init
  <2>8. ASSUME NEW d \in Drives PROVE d - 1 \in exists[Local] /\ drive[d - 1] = d
    <3> DEFINE i == d - 1
    <3>1. i \in exists[Local] /\ i \in Ids /\ i < NumDrives /\ i + 1 = d
      BY <1>1, <2>1, <2>3
    <3> HIDE DEF i
    <3>2. drive[i] = d
      BY <3>1 DEF Init
    <3> QED
      BY <3>1, <3>2 DEF i
  <2>9. \A i \in exists[Local] : i < vm.nextID
    BY <2>1, <2>6, SMT
  <2> QED
    BY <2>4, <2>6, <2>7, <2>8, <2>9 DEF Managed
<1>4. Passed
  <2>1. \A p \in Writers : w[p].pc = "idle"
    BY IdleTyped DEF Init
  <2>2. up \in BOOLEAN /\ nblobs \in Nat /\ activeGroup = None
    BY DEF Init
  <2> QED
    BY <2>1, <2>2 DEF Init, Passed
<1> QED
  BY <1>2, <1>3, <1>4

LEMMA TypesFollow == PoolInv /\ Fresh /\ Stored /\ Managed /\ Passed => TypeOK
<1> SUFFICES ASSUME PoolInv, Fresh, Stored, Managed, Passed PROVE TypeOK
  OBVIOUS
<1>1. /\ DiskTyped /\ replicationFactor \in Factors
      /\ files \in [Members -> [Ids -> Seq(Cell)]] /\ ends \in [Members -> [Ids -> Nat]]
      /\ exists \in [Members -> SUBSET Ids]
  BY DEF PoolInv, Typed, DiskTyped
<1>2. ASSUME NEW m \in Members, NEW i \in Ids
      PROVE  (files[m][i] # <<>> => i \in exists[m]) /\ ends[m][i] \in 0 .. Len(files[m][i])
  <2>1. files[m][i] \in Seq(Cell) /\ ends[m][i] \in Nat
    BY <1>1
  <2>2. (files[m][i] # <<>> => i \in exists[m]) /\ ends[m][i] <= Len(files[m][i])
    BY DEF Stored
  <2>3. ends[m][i] \in 0 .. Len(files[m][i])
    BY <2>1, <2>2, SMT
  <2> QED
    BY <2>2, <2>3
<1>3. vm.nextID \in Nat /\ vm.driveIdx \in Nat /\ vm.current \in [Drives -> exists[Local]]
  <2>1. vm.nextID \in Nat /\ vm.driveIdx \in Nat /\ vm.current \in [Drives -> Ids]
    BY DEF Managed
  <2>2. \A d \in Drives : vm.current[d] \in exists[Local]
    BY DEF Managed
  <2> QED
    BY <2>1, <2>2
<1>4. \A r \in requests \cup replies : r.addr \in Addr /\ r.to \in Members
  <2> SUFFICES ASSUME NEW r \in requests \cup replies PROVE r.addr \in Addr /\ r.to \in Members
    OBVIOUS
  <2>1. r \in Request
    BY DEF Passed
  <2> QED
    BY <2>1 DEF Request
<1> QED
  BY <1>1, <1>2, <1>3, <1>4 DEF TypeOK, Fresh, Managed, Passed, Answer

-----------------------------------------------------------------------------
(* What rests on a set of volumes having a greatest identifier *)
LOCAL INSTANCE WellFoundedInduction

\* MaxId is the greatest of some ids.
LEMMA MaxIdIs ==
  ASSUME NEW S, S \subseteq Ids
  PROVE  /\ MaxId(S) + 1 \in Nat /\ \A i \in S : i < MaxId(S) + 1
         /\ S # {} => MaxId(S) \in S
<1> DEFINE n == NumDrives + 2 * MaxBlobs
<1>1. n \in Nat /\ S \subseteq 0 .. n
  BY PoolConstants, SMT DEF Ids
<1> HIDE DEF n
<1>2. CASE S = {}
  BY <1>2, SMT DEF MaxId, None
<1>3. CASE S # {}
  <2> DEFINE T == {n - i : i \in S}
             R == OpToRel(<, Nat)
  <2>1. IsWellFoundedOn(R, Nat)
    BY NatLessThanWellFounded
  <2>2. \A x, y \in Nat : x < y => <<x, y>> \in R
    BY DEF OpToRel
  <2> HIDE DEF R
  <2>3. T \subseteq Nat
    BY <1>1, SMT
  <2>4. T # {}
    BY <1>3
  <2> HIDE DEF T
  <2>5. PICK x \in T : \A y \in T : ~(<<y, x>> \in R)
    BY <2>1, <2>3, <2>4, WFMin
  <2>6. \A y \in T : ~(y < x)
    BY <2>2, <2>3, <2>5
  <2>7. PICK i \in S : x = n - i
    BY DEF T
  <2>8. ASSUME NEW j \in S PROVE j <= i
    <3>1. n - j \in T
      BY DEF T
    <3> QED
      BY <1>1, <2>6, <2>7, <3>1, SMT
  <2> DEFINE mx == MaxId(S)
  <2>9. mx \in S /\ \A j \in S : j <= mx
    BY <1>3, <2>8 DEF MaxId
  <2> HIDE DEF mx
  <2>10. mx + 1 \in Nat /\ \A j \in S : j < mx + 1
    BY <1>1, <2>9, SMT
  <2> QED
    BY <2>9, <2>10 DEF mx
<1> QED
  BY <1>2, <1>3

LEMMA FreshStep ==
  ASSUME PoolInv, Fresh, Saved, Session, [Next]_vars
  PROVE  Fresh'
<1>0. /\ Typed /\ DiskTyped /\ Local \in Members /\ exists \in [Members -> SUBSET Ids]
      /\ files \in [Members -> [Ids -> Seq(Cell)]] /\ Ids \subseteq Nat
      /\ registry \in [Ids -> Seq(Members)]
  BY ConstantFacts DEF PoolInv, Typed, DiskTyped
<1>1. CASE Quiet \/ Close
  <2>1. UNCHANGED <<files, exists, registry, nextID, replicationFactor>>
    BY <1>1 DEF Quiet, Close, pool, disk
  <2> QED
    BY <2>1, MembersStay DEF Fresh
<1>2. CASE NewGroup
  <2>1. nextID' = nextID + 1 /\ UNCHANGED <<files, exists, replicationFactor>>
        /\ \A i \in Ids : i # nextID => registry'[i] = registry[i]
    BY <1>0, <1>2 DEF NewGroup
  <2>2. nextID \in Nat /\ nextID' \in Nat /\ nextID < nextID' /\ \A i \in Ids : i < nextID => i < nextID'
    <3>1. \A n \in Nat : n + 1 \in Nat /\ n < n + 1 /\ \A i \in Nat : i < n => i < n + 1
      BY SMT
    <3> QED
      BY <1>0, <2>1, <3>1 DEF Fresh
  <2>3. \A i \in Ids : registry'[i] # <<>> => i < nextID'
    BY <2>1, <2>2 DEF Fresh
  <2>4. Alone \/ \A i \in exists[Local] : i < nextID'
    BY <1>0, <2>2 DEF Fresh
  <2> QED
    BY <2>1, <2>2, <2>3, <2>4, MembersStay DEF Fresh
<1>3. ASSUME NEW p \in Writers, PickDrive(p) PROVE Fresh'
  <2>1. /\ w[p].pc = "pick" /\ UNCHANGED <<files, registry, nextID, replicationFactor>>
        /\ \E id : exists' = [exists EXCEPT ![Local] = @ \cup {id}]
    BY <1>3 DEF PickDrive, pool
  <2>2. Alone
    BY <2>1 DEF Session
  <2>3. exists[Local] \subseteq exists'[Local]
    BY <1>0, <2>1
  <2> QED
    BY <2>1, <2>2, <2>3, MembersStay DEF Fresh
<1>4. ASSUME NEW p \in Writers, LocalAppend(p) PROVE Fresh'
  <2>1. /\ up /\ w[p].pc \in {"primary", "stream"} /\ w[p].vol \in Ids
        /\ UNCHANGED <<registry, nextID, replicationFactor>>
        /\ exists' = [exists EXCEPT ![Local] = @ \cup {w[p].vol}]
        /\ \A v \in Ids : v # w[p].vol => files'[Local][v] = files[Local][v]
    BY <1>0, <1>4 DEF LocalAppend, pool
  <2> USE <2>1
  <2>2. exists'[Local] = exists[Local] \cup {w[p].vol}
    BY <1>0
  <2>3. Alone \/ w[p].vol < nextID
    BY WrittenBelow
  <2>4. \A i \in Ids : files'[Local][i] # <<>> => i \in exists'[Local]
    BY <2>2 DEF Fresh
  <2>5. Alone \/ \A i \in exists'[Local] : i < nextID
    BY <2>2, <2>3 DEF Fresh
  <2> QED
    BY <2>4, <2>5, MembersStay DEF Fresh
<1>5. ASSUME NEW r \in requests, RemoteWrite(r) PROVE Fresh'
  <2>1. /\ UNCHANGED <<registry, nextID, replicationFactor>>
        /\ Append1(r.to, r.addr.vol, r.addr.blob, r.addr.size)
    BY <1>5 DEF RemoteWrite, pool
  <2>2. r.to # Local
    BY DEF Saved
  <2>3. exists'[Local] = exists[Local] /\ files'[Local] = files[Local]
    BY <1>0, <2>1, <2>2 DEF Append1
  <2> QED
    BY <2>1, <2>3, MembersStay DEF Fresh
<1>6. CASE Open
  <2> DEFINE reg == [i \in Ids |-> IF savedReg[i] = <<>> /\ i \in exists[Local] THEN <<Local>>
                                   ELSE savedReg[i]]
             S == exists[Local] \cup {i \in Ids : reg[i] # <<>>}
  <2>1. registry' = reg /\ nextID' = FirstFree(reg) /\ UNCHANGED <<files, exists>>
    BY <1>6 DEF Open
  <2> HIDE DEF reg
  <2>2. S \subseteq Ids
    BY <1>0
  <2>3. nextID' = MaxId(S) + 1
    BY <2>1 DEF FirstFree
  <2>4. (\A i \in Ids : registry'[i] # <<>> => i \in S) /\ (\A i \in exists'[Local] : i \in S)
    BY <2>1
  <2> HIDE DEF S
  <2>5. nextID' \in Nat /\ \A i \in S : i < nextID'
    BY <2>2, <2>3, MaxIdIs
  <2>6. \A i \in Ids : files'[Local][i] # <<>> => i \in exists'[Local]
    BY <2>1 DEF Fresh
  <2> QED
    BY <2>4, <2>5, <2>6 DEF Fresh
<1> QED
  BY <1>1, <1>2, <1>3, <1>4, <1>5, <1>6, StepKinds

\* Groups, registries, sessions and replicas keep the invariant above.
THEOREM MemberInvHolds == Spec => [](PoolInv /\ MemberInv)
<1>1. PoolInv /\ MemberInv /\ [Next]_vars => MemberInv'
  <2> SUFFICES ASSUME PoolInv, MemberInv, [Next]_vars PROVE MemberInv'
    OBVIOUS
  <2>1. Fresh /\ Saved /\ Session /\ Aligned /\ Answered /\ Alike
    BY DEF MemberInv
  <2>2. Fresh' /\ Saved' /\ Session'
    BY <2>1, FreshStep, SavedStep, SessionStep
  <2>3. Aligned' /\ Answered' /\ Alike'
    BY <2>1, AlignedStep, AnsweredStep, AlikeStep
  <2> QED
    BY <2>2, <2>3 DEF MemberInv
<1> QED
  BY <1>1, InitPoolInv, NextPoolInv, InitMemberInv, PTL DEF Spec

\* For any number of writers, drives, remote servers, blobs and crashes: a blob that
\* Write has acknowledged reads back from every member of its group (the replicas'
\* files are as long as the primary's, because a group is written by one process
\* only), unless a request to a replica of the group has failed, two writes of the
\* group have overlapped, a write in the volume failed half way, or a stream went
\* into a volume of an older, replicated group.
THEOREM MembersReadBack == Spec => []AnyMember
<1> QED
  BY MemberInvHolds, InvAnyMember, PTL

LEMMA ManagedStep ==
  PoolInv /\ Saved /\ Managed /\ [Next]_vars => Managed'
\* WriteToVolume makes the manager's next id greater than the volume's.
<1>KnowFacts.
    ASSUME Managed, NEW vol \in Ids, vm' = Know(vol)
    PROVE  /\ vm' \in [nextID : Nat, driveIdx : Nat, current : [Drives -> Ids]]
           /\ vm'.current = vm.current /\ vol < vm'.nextID
           /\ \A i \in Nat : i < vm.nextID => i < vm'.nextID
  <2> USE <1>KnowFacts
  <2>1. vm \in [nextID : Nat, driveIdx : Nat, current : [Drives -> Ids]] /\ vol \in Nat
    BY ConstantFacts DEF Managed
  <2> DEFINE n == IF vol >= vm.nextID THEN vol + 1 ELSE vm.nextID
  <2>2. n \in Nat /\ vol < n /\ \A i \in Nat : i < vm.nextID => i < n
    BY <2>1, SMT
  <2>3. vm' = [vm EXCEPT !.nextID = n]
    BY DEF Know
  <2> HIDE DEF n
  <2>4. vm' \in [nextID : Nat, driveIdx : Nat, current : [Drives -> Ids]] /\ vm'.nextID = n
        /\ vm'.current = vm.current
    BY <2>1, <2>2, <2>3
  <2> QED
    BY <2>2, <2>4

<1>DriveIds. \A d \in Drives : d - 1 \in Ids /\ d \in Nat
    BY PoolConstants, SMT DEF Drives, Ids
<1> SUFFICES ASSUME PoolInv, Saved, Managed, [Next]_vars
             PROVE  Managed'
  OBVIOUS
<1>0. /\ Typed /\ DiskTyped /\ Grown /\ Local \in Members /\ Ids \subseteq Nat
      /\ exists \in [Members -> SUBSET Ids]
  BY ConstantFacts, StepGrows DEF PoolInv, Typed, DiskTyped
<1>1. /\ exists[Local] \subseteq exists'[Local] /\ exists'[Local] \subseteq Ids
      /\ exists[Local] \subseteq Ids
  BY <1>0 DEF Grown
<1>2. /\ drive \in [Ids -> Drives]
      /\ vm \in [nextID : Nat, driveIdx : Nat, current : [Drives -> Ids]]
      /\ \A d \in Drives : vm.current[d] \in exists[Local]
      /\ \A d \in Drives : d - 1 \in exists[Local] /\ drive[d - 1] = d
      /\ up => \A i \in exists[Local] : i < vm.nextID
  BY DEF Managed
<1>3. ASSUME UNCHANGED <<vm, drive>>, up' => up /\ exists'[Local] = exists[Local] PROVE Managed'
  <2>1. vm' = vm /\ drive' = drive
    BY <1>3
  <2>2. up' => \A i \in exists'[Local] : i < vm'.nextID
    BY <1>2, <1>3, <2>1
  <2> QED
    BY <1>1, <1>2, <2>1, <2>2 DEF Managed
<1>4. CASE UNCHANGED vars
  BY <1>3, <1>4 DEF vars
<1>5. ASSUME NEW p \in Writers, Write(p) \/ GroupUnsaved(p) \/ BufferStream(p) PROVE Managed'
  BY <1>3, <1>5 DEF Write, GroupUnsaved, BufferStream, disk
<1>6. ASSUME NEW p \in Writers, NEW m \in Members, ReplicaDone(p, m) \/ ReplicaFails(p, m) PROVE Managed'
  BY <1>3, <1>6 DEF ReplicaDone, ReplicaFails, disk
<1>7. ASSUME NEW r \in requests, RemoteWrite(r) PROVE Managed'
  <2>1. /\ UNCHANGED <<vm, drive, up>> /\ r.to # Local
        /\ exists' = [exists EXCEPT ![r.to] = @ \cup {r.addr.vol}]
    BY <1>7 DEF RemoteWrite, Append1, Saved
  <2>2. exists'[Local] = exists[Local]
    BY <1>0, <2>1
  <2> QED
    BY <1>3, <2>1, <2>2
<1>8. CASE Crash \/ Close
  <2>1. UNCHANGED <<vm, drive>> /\ ~up'
    BY <1>8 DEF Crash, Close, disk
  <2> QED
    BY <1>3, <2>1
<1>9. ASSUME NEW p \in Writers, LocalWrite(p) \/ LocalWriteFails(p) PROVE Managed'
  <2>1. /\ up /\ w[p].pc # "idle" /\ vm' = Know(w[p].vol) /\ UNCHANGED drive
        /\ exists' = [exists EXCEPT ![Local] = @ \cup {w[p].vol}]
    BY <1>9 DEF LocalWrite, LocalWriteFails, Append1, AppendPart
  <2> USE <2>1
  <2>2. w[p].vol \in Ids
    BY <1>0, TaskFacts
  <2>3. /\ vm' \in [nextID : Nat, driveIdx : Nat, current : [Drives -> Ids]]
        /\ vm'.current = vm.current /\ w[p].vol < vm'.nextID
        /\ \A i \in Nat : i < vm.nextID => i < vm'.nextID
    BY <2>2, <1>KnowFacts
  <2>4. exists'[Local] = exists[Local] \cup {w[p].vol}
    BY <1>0
  <2>5. \A i \in exists'[Local] : i < vm'.nextID
    BY <1>0, <1>1, <1>2, <2>3, <2>4
  <2>6. drive' = drive /\ \A d \in Drives : vm'.current[d] \in exists'[Local]
    BY <1>1, <1>2, <2>3
  <2> QED
    BY <1>1, <1>2, <2>3, <2>5, <2>6 DEF Managed
<1>10. ASSUME NEW p \in Writers, PickDrive(p) PROVE Managed'
  <2> DEFINE d == (vm.driveIdx % NumDrives) + 1
             v == vm.current[d]
             full == ends[Local][v] >= MaxVolumeSize
             id == IF full THEN vm.nextID ELSE v
             n == IF full THEN id + 1 ELSE vm.nextID
  <2>1. d \in Drives /\ vm.driveIdx + 1 \in Nat
    <3>1. vm.driveIdx \in Nat /\ NumDrives \in Nat \ {0}
      BY <1>2, PoolConstants
    <3>2. vm.driveIdx % NumDrives \in 0 .. (NumDrives - 1)
      BY <3>1, SMT
    <3> QED
      BY <3>1, <3>2, SMT DEF Drives
  <2> HIDE DEF d
  <2>2. /\ up /\ up' /\ id \in Ids
        /\ vm' = [nextID |-> n, driveIdx |-> vm.driveIdx + 1, current |-> [vm.current EXCEPT ![d] = id]]
        /\ exists' = [exists EXCEPT ![Local] = @ \cup {id}]
        /\ drive' = IF full THEN [drive EXCEPT ![id] = d] ELSE drive
    BY <1>10 DEF PickDrive, d
  <2>3. vm.nextID \in Nat /\ vm.current \in [Drives -> Ids] /\ \A i \in exists[Local] : i < vm.nextID
    BY <1>2, <2>2
  <2>4. n \in Nat /\ \A i \in exists[Local] \cup {id} : i < n
    <3>1. CASE full
      <4>1. id = vm.nextID /\ n = vm.nextID + 1
        BY <3>1
      <4> HIDE DEF id, n
      <4> QED
        BY <1>0, <1>1, <2>3, <4>1, SMT
    <3>2. CASE ~full
      <4>1. id = v /\ n = vm.nextID /\ v \in exists[Local]
        BY <1>2, <2>1, <3>2
      <4> HIDE DEF id, n, v
      <4> QED
        BY <2>3, <4>1
    <3> QED
      BY <3>1, <3>2
  <2>5. full => id \notin exists[Local]
    <3> SUFFICES ASSUME full, id \in exists[Local] PROVE FALSE
      OBVIOUS
    <3>1. vm.nextID \in exists[Local]
      OBVIOUS
    <3>2. vm.nextID < vm.nextID
      BY <2>3, <3>1
    <3> QED
      BY <2>3, <3>2, SMT
  <2> HIDE DEF n, id, full
  <2>6. exists'[Local] = exists[Local] \cup {id}
    BY <1>0, <2>2
  <2>7. /\ vm'.nextID = n /\ vm'.current = [vm.current EXCEPT ![d] = id]
        /\ vm' \in [nextID : Nat, driveIdx : Nat, current : [Drives -> Ids]]
    <3>1. [vm.current EXCEPT ![d] = id] \in [Drives -> Ids]
      BY <2>2, <2>3
    <3> QED
      BY <2>1, <2>2, <2>4, <3>1
  <2>8. \A e \in Drives : vm'.current[e] \in exists'[Local]
    BY <1>1, <1>2, <2>3, <2>6, <2>7
  <2>9. drive' \in [Ids -> Drives]
    BY <1>2, <2>1, <2>2
  <2>10. ASSUME NEW e \in Drives PROVE e - 1 \in exists'[Local] /\ drive'[e - 1] = e
    <3> DEFINE i == e - 1
    <3>1. i \in exists[Local] /\ drive[i] = e /\ i \in Ids
      BY <1>2, <1>DriveIds
    <3> HIDE DEF i
    <3>2. drive'[i] = drive[i]
      BY <1>2, <2>2, <2>5, <3>1
    <3>3. i \in exists'[Local] /\ drive'[i] = e
      BY <1>1, <3>1, <3>2
    <3> QED
      BY <3>3 DEF i
  <2>11. \A i \in exists'[Local] : i < vm'.nextID
    BY <2>4, <2>6, <2>7
  <2> QED
    BY <2>7, <2>8, <2>9, <2>10, <2>11 DEF Managed
<1>11. CASE Open
  <2> DEFINE mine(d) == {i \in exists[Local] : drive[i] = d}
  <2>1. /\ exists' = exists /\ drive' = drive
        /\ vm' = [nextID |-> MaxId(exists[Local]) + 1, driveIdx |-> 0,
                  current |-> [d \in Drives |-> MaxId(mine(d))]]
    BY <1>11 DEF Open
  <2>2. MaxId(exists[Local]) + 1 \in Nat /\ \A i \in exists[Local] : i < MaxId(exists[Local]) + 1
    BY <1>1, MaxIdIs
  <2>3. ASSUME NEW d \in Drives PROVE MaxId(mine(d)) \in exists[Local]
    <3> DEFINE S == mine(d)
    <3>1. S \subseteq Ids /\ S \subseteq exists[Local]
      BY <1>1
    <3>2. d - 1 \in S
      BY <1>2
    <3> HIDE DEF S
    <3>3. MaxId(S) \in S
      BY <3>1, <3>2, MaxIdIs
    <3> QED
      BY <3>1, <3>3 DEF S
  <2> DEFINE cur == [d \in Drives |-> MaxId(mine(d))]
             mx == MaxId(exists[Local]) + 1
  <2>4. cur \in [Drives -> Ids] /\ \A d \in Drives : cur[d] \in exists[Local]
    BY <1>1, <2>3
  <2>5. mx \in Nat /\ \A i \in exists[Local] : i < mx
    BY <2>2
  <2>6. vm' = [nextID |-> mx, driveIdx |-> 0, current |-> cur] /\ 0 \in Nat
    BY <2>1
  <2> HIDE DEF cur, mx
  <2>7. /\ vm'.nextID = mx /\ vm'.current = cur
        /\ vm' \in [nextID : Nat, driveIdx : Nat, current : [Drives -> Ids]]
    BY <2>4, <2>5, <2>6
  <2> QED
    BY <1>2, <2>1, <2>4, <2>5, <2>7 DEF Managed
<1> QED
  BY <1>4, <1>5, <1>6, <1>7, <1>8, <1>9, <1>10, <1>11 DEF Next

\* newVolumeManager, WriteToVolume and the rotation of WriteStream keep the types,
\* for any number of drives, writers and servers: v.end is never past the end of the
\* file, a rotated volume and a new group have ids that nothing else has, every drive
\* has its current volume.
THEOREM TypeCorrect == Spec => []TypeOK
<1> DEFINE Inv == PoolInv /\ MemberInv
           Types == Stored /\ Managed /\ Passed
<1>1. Init => Types
  BY InitTypes
<1>2. Inv /\ Types /\ [Next]_vars => Types'
  BY StoredStep, ManagedStep, PassedStep DEF MemberInv
<1>3. Inv /\ Types => TypeOK
  BY TypesFollow DEF MemberInv
<1>4. Spec => []Inv
  BY MemberInvHolds
<1> HIDE DEF Inv, Types
<1> QED
  BY <1>1, <1>2, <1>3, <1>4, PTL DEF Spec
==============================================================================
