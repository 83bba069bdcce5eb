------------------------------ MODULE HashIndex ------------------------------
(***************************************************************************)
(* hashIndex (pkg/brisedb/hashindex.go): a bucket table in memory and on    *)
(* disk over an append-only region of entries, chained newest first.  Get   *)
(* walks a chain without a lock, Set and Delete hold hi.mu, ForEach scans   *)
(* without a lock, Compact builds index.hash.tmp and renames it.            *)
(*                                                                          *)
(* An entry's offset is its position in the data region, 0 the end of a     *)
(* chain; writePos is therefore Len(file).  A value is the number of the    *)
(* Set that wrote it, 0 for a tombstone or an entry that has expired.  The  *)
(* callers hold the key's lock around Get, Set and Delete and all locks     *)
(* around Compact; Count, Keys, Scan and Snapshot call ForEach with none.   *)
(***************************************************************************)
EXTENDS Naturals, Sequences, FiniteSets

CONSTANTS
  Keys, NumSlots,
  SlotOf,       \* hashSlot: a function from Keys to slots
  Readers,      \* goroutines in Get
  Threshold,    \* forEachThreshold (100,000 in the code)
  DiskFails,    \* may a write to the file return an error?
  MaxWrites, MaxCrashes, MaxScans, \* bounds
  MaxPasses,    \* bound on Compacts and scans together
  NoKey         \* the key of bytes that are no entry

Slots == 0..(NumSlots - 1)

ASSUME IndexConstants ==
  /\ NumSlots \in Nat \ {0} /\ SlotOf \in [Keys -> Slots] /\ NoKey \notin Keys
  /\ Threshold \in Nat
  /\ DiskFails \in BOOLEAN
  /\ IsFiniteSet(Keys) /\ \A K \in SUBSET Keys : Cardinality(K) \in Nat
  /\ MaxWrites \in Nat /\ MaxPasses \in Nat /\ MaxScans \in Nat /\ MaxCrashes \in Nat

VARIABLES
  open,        \* is the index open?
  file, tail,  \* the entries of the data region; are there bytes after them?
  table,       \* the bucket table in the file
  header,      \* the entry count in the file's header
  buckets,     \* the bucket table in memory
  entryCount,
  w,           \* the writer that holds hi.mu
  get,         \* what every reader is doing
  scan,        \* what ForEach is doing
  cpc,         \* control state of Compact
  found,       \* what ForEach yields to Compact: a value for every key, 0 for none
  todo,        \* keys Compact has still to copy
  tmp,         \* index.hash.tmp
  nwrites, ncompacts, nscans, ncrashes,
  cur, sav,    \* history: the newest entry of every key in memory, in the file
  lost,        \* history: entries that no chain holds
  during       \* history: the values a scan may report for each key

fileVars == <<file, tail, table, header>>
memVars == <<buckets, entryCount, w>>
compactVars == <<cpc, found, todo, tmp>>
counters == <<nwrites, ncompacts, nscans, ncrashes>>
history == <<cur, sav, lost, during>>
vars == <<open, fileVars, memVars, get, scan, compactVars, counters, history>>

Entry == [key : Keys \cup {NoKey}, next : Nat, val : Nat]
Val(f, o) == IF o = 0 THEN 0 ELSE f[o].val

\* Bytes that are no entry, and the address that they may be taken for.
Half == [key |-> NoKey, next |-> 0, val |-> 0]
Junk == MaxWrites + 1

Empty == [s \in Slots |-> 0]
Nothing == [k \in Keys |-> 0]
\* left: history, the values in an index.hash.tmp that was there before Compact.
NoTmp == [file |-> <<>>, lost |-> {}, table |-> Empty, count |-> 0, left |-> Nothing]
IdleWriter == [pc |-> "idle", key |-> NoKey]
IdleGet == [pc |-> "idle", key |-> NoKey, off |-> 0, val |-> 0, due |-> 0]
IdleScan == [pc |-> "idle", pos |-> 0, limit |-> 0, slot |-> 0, off |-> 0,
             seen |-> {}, out |-> Nothing, astray |-> FALSE]

Init ==
  /\ open = FALSE /\ file = <<>> /\ tail = FALSE /\ table = Empty /\ header = 0
  /\ buckets = Empty /\ entryCount = 0 /\ w = IdleWriter
  /\ get = [p \in Readers |-> IdleGet] /\ scan = IdleScan
  /\ cpc = "idle" /\ found = Nothing /\ todo = {} /\ tmp = NoTmp
  /\ nwrites = 0 /\ ncompacts = 0 /\ nscans = 0 /\ ncrashes = 0
  /\ cur = Nothing /\ sav = Nothing /\ lost = {}
  /\ during = [k \in Keys |-> {}]

-----------------------------------------------------------------------------
(* Get *)

\* The load of the bucket pointer.
Load(p, k) ==
  /\ open /\ cpc = "idle" /\ get[p].pc = "idle"
  /\ get' = [get EXCEPT ![p] = [pc |-> "walk", key |-> k, off |-> buckets[SlotOf[k]],
                                val |-> 0, due |-> cur[k]]]
  /\ UNCHANGED <<open, fileVars, memVars, scan, compactVars, counters, history>>

Matches(g) == file[g.off].key = g.key

\* Mutant of NextOff: the loop does not advance.
NextOffSame(g) == g.off

NextOff(g) == file[g.off].next

\* One entry of the chain is read.
Walk(p) ==
  LET g == get[p] IN
  /\ g.pc = "walk"
  /\ get' = [get EXCEPT ![p] =
               IF g.off = 0 THEN [g EXCEPT !.pc = "done"]
               ELSE IF Matches(g) THEN [g EXCEPT !.pc = "done", !.val = file[g.off].val]
                                  ELSE [g EXCEPT !.off = NextOff(g)]]
  /\ UNCHANGED <<open, fileVars, memVars, scan, compactVars, counters, history>>

Return(p) ==
  /\ get[p].pc = "done"
  /\ get' = [get EXCEPT ![p] = [IdleGet EXCEPT !.val = get[p].val]]
  /\ UNCHANGED <<open, fileVars, memVars, scan, compactVars, counters, history>>

-----------------------------------------------------------------------------
(* Set and Delete, under hi.mu *)

MayAppend == open /\ w.pc = "idle" /\ cpc = "idle" /\ nwrites < MaxWrites

\* Mutant of NewEntry: the old head is not linked.
NewEntryUnlinked(k, val) == [key |-> k, next |-> 0, val |-> val]

\* The entry points to the head of its chain.
NewEntry(k, val) == [key |-> k, next |-> buckets[SlotOf[k]], val |-> val]

\* The entry is written after the last one, then writePos and entryCount move.
\* Bytes of an earlier failed write may stick out behind a shorter entry.
Append1(k, val, count) ==
  /\ MayAppend
  /\ nwrites' = nwrites + 1
  /\ file' = Append(file, NewEntry(k, val))
  /\ tail' \in {FALSE, tail}
  /\ entryCount' = count
  /\ w' = [pc |-> "written", key |-> k]
  /\ UNCHANGED <<open, table, header, buckets, get, scan, compactVars, ncompacts, nscans,
                 ncrashes, history>>

\* The entry may have expired by the time it is read.
Set(k) == \E val \in {0, nwrites + 1} : Append1(k, val, entryCount + 1)

Delete(k) == Append1(k, 0, IF entryCount > 0 THEN entryCount - 1 ELSE 0)

\* The write of the entry fails, part of it may be in the file.
AppendFails ==
  /\ DiskFails /\ MayAppend
  /\ nwrites' = nwrites + 1
  /\ tail' = TRUE
  /\ UNCHANGED <<open, file, table, header, memVars, get, scan, compactVars, ncompacts, nscans,
                 ncrashes, history>>

\* The bucket pointer is stored in memory: readers see the entry from here on.
Publish ==
  /\ w.pc = "written"
  /\ w' = [w EXCEPT !.pc = "published"]
  /\ buckets' = [buckets EXCEPT ![SlotOf[w.key]] = Len(file)]
  /\ cur' = [cur EXCEPT ![w.key] = Len(file)]
  /\ during' = [during EXCEPT ![w.key] = @ \cup {file[Len(file)].val}]
  /\ UNCHANGED <<open, fileVars, entryCount, get, scan, compactVars, counters, sav, lost>>

\* Mutant of PersistBucket: the bucket is not written to the file.
PersistBucketSkipped ==
  /\ w.pc = "published"
  /\ w' = IdleWriter
  /\ UNCHANGED table
  /\ sav' = [k \in Keys |-> IF SlotOf[k] = SlotOf[w.key] THEN cur[k] ELSE sav[k]]
  /\ UNCHANGED <<open, file, tail, header, buckets, entryCount, get, scan, compactVars, counters,
                 cur, lost, during>>

\* ... and then in the file; the call returns.  An error is returned too.
PersistBucket ==
  /\ w.pc = "published"
  /\ w' = IdleWriter
  /\ \/ /\ table' = [table EXCEPT ![SlotOf[w.key]] = buckets[SlotOf[w.key]]]
        /\ sav' = [k \in Keys |-> IF SlotOf[k] = SlotOf[w.key] THEN cur[k] ELSE sav[k]]
     \/ DiskFails /\ UNCHANGED <<table, sav>>
  /\ UNCHANGED <<open, file, tail, header, buckets, entryCount, get, scan, compactVars, counters,
                 cur, lost, during>>

-----------------------------------------------------------------------------
(* ForEach *)

Running == {"small", "slot", "chain"}
Sequential == entryCount < Threshold

\* The values of a Set or Delete that a crash cut short before its bucket was
\* saved: Get does not see them, the data region holds them behind k's newest entry.
Undone(k) == {file[o].val : o \in {p \in lost : file[p].key = k /\ p > cur[k]}}

\* The count decides between the two strategies.
ScanStart ==
  /\ open /\ scan.pc \notin Running
  /\ nscans < MaxScans /\ nscans + ncompacts < MaxPasses /\ nscans' = nscans + 1
  /\ scan' = [IdleScan EXCEPT !.pc = IF Sequential THEN "small" ELSE "slot",
                              !.pos = 1, !.limit = Len(file)]
  /\ during' = [k \in Keys |-> {Val(file, cur[k])}
                  \cup (IF w.pc = "written" /\ w.key = k THEN {file[Len(file)].val} ELSE {})
                  \cup (IF Sequential THEN Undone(k) ELSE {})]
  /\ UNCHANGED <<open, fileVars, memVars, get, compactVars, nwrites, ncompacts, ncrashes, cur, sav, lost>>

\* ForEach is over.
Ended(pc, out) == [IdleScan EXCEPT !.pc = pc, !.out = out, !.astray = scan.astray]

AtHalf == scan.pc = "small" /\ ~scan.astray /\ scan.pos <= scan.limit /\ file[scan.pos].key = NoKey

\* forEachSmall: the last entry of a key up to the limit wins.
ScanSmall ==
  /\ scan.pc = "small" /\ ~scan.astray /\ cpc # "closed" /\ ~AtHalf
  /\ scan' = IF scan.pos > scan.limit
               THEN Ended("done", scan.out)
               ELSE LET e == file[scan.pos]
                    IN  [scan EXCEPT !.pos = @ + 1, !.out[e.key] = e.val]
  /\ UNCHANGED <<open, fileVars, memVars, get, compactVars, counters, history>>

\* readEntryAt takes half an entry and the bytes behind it for a whole one; from
\* there on the scan is not where the entries begin.
ScanMisreads ==
  /\ AtHalf /\ cpc # "closed"
  /\ scan.pos < Len(file) \/ tail
  /\ scan' = [scan EXCEPT !.astray = TRUE]
  /\ UNCHANGED <<open, fileVars, memVars, get, compactVars, counters, history>>

\* forEachLarge: the head of the next slot.
ScanSlot ==
  /\ scan.pc = "slot" /\ ~scan.astray
  /\ scan' = IF scan.slot = NumSlots
               THEN Ended("done", scan.out)
               ELSE [scan EXCEPT !.pc = "chain", !.off = buckets[scan.slot]]
  /\ UNCHANGED <<open, fileVars, memVars, get, compactVars, counters, history>>

\* Mutant of Yield: every version of a key is passed on.
YieldAll(e) == [scan.out EXCEPT ![e.key] = e.val]

\* forEachLarge: the first entry of a key in its chain wins.
Yield(e) == IF e.key \in scan.seen THEN scan.out ELSE [scan.out EXCEPT ![e.key] = e.val]

ScanChain ==
  /\ scan.pc = "chain" /\ ~scan.astray /\ cpc # "closed"
  /\ IF scan.off = 0
       THEN scan' = [scan EXCEPT !.pc = "slot", !.slot = @ + 1]
       ELSE LET e == file[scan.off] IN
            scan' = [scan EXCEPT !.off = e.next,
                                 !.seen = @ \cup {e.key},
                                 !.out = Yield(e)]
  /\ UNCHANGED <<open, fileVars, memVars, get, compactVars, counters, history>>

\* ForEach returns an error: forEachSmall has called fn for nothing by then,
\* forEachLarge for the keys it came by.
Failed(out) == Ended("failed", IF scan.pc = "small" THEN Nothing ELSE out)

\* The file is closed under the scan, or ends within the half entry it reads.
ScanFails ==
  /\ \/ scan.pc \in {"small", "chain"} /\ cpc = "closed"
     \/ AtHalf
  /\ scan' = Failed(scan.out)
  /\ UNCHANGED <<open, fileVars, memVars, get, compactVars, counters, history>>

\* A scan that reads on at offsets which mean nothing in the file ends with an
\* error or without one.  For each key it has an entry of the file, garbage, or
\* what it had before.
ScanAstray ==
  /\ scan.pc \in Running /\ scan.astray /\ cpc # "closed"
  /\ \E out \in [Keys -> 0..Junk] :
       /\ \A k \in Keys : out[k] \in {scan.out[k], 0, Junk}
                                       \cup {file[o].val : o \in {p \in 1..Len(file) : file[p].key = k}}
       /\ scan' \in {Failed(out), Ended("done", out)}
  /\ UNCHANGED <<open, fileVars, memVars, get, compactVars, counters, history>>

-----------------------------------------------------------------------------
(* Compact: the callers' LockAll keeps out Get, Set and Delete. *)

\* The last entry of k among the first n of the data region.
Last(k, n) ==
  LET S == {o \in 1..n : file[o].key = k}
  IN  IF S = {} THEN 0 ELSE CHOOSE o \in S : \A p \in S : p <= o

Halves == {o \in 1..Len(file) : file[o].key = NoKey}

\* What ForEach may yield for k: its newest entry in the chain, or the last in
\* the data region; from the first half entry on it may miss entries, end with
\* another one than the last, or yield garbage under the name of k.
Finds(k) ==
  IF ~Sequential THEN {Val(file, cur[k])}
  ELSE IF Halves = {} THEN {Val(file, Last(k, Len(file)))}
  ELSE LET h == CHOOSE o \in Halves : \A p \in Halves : o <= p
       IN  {Val(file, Last(k, h)), 0, Junk}
             \cup {file[o].val : o \in {p \in h..Len(file) : file[p].key = k}}

\* Half an entry is all there is at the end of the file: the scan must fail.
Unreadable == Sequential /\ Halves = {Len(file)} /\ ~tail
FoundKeys == {k \in Keys : found[k] # 0}

\* The newest entry of k in the new file.
InTmp(k) ==
  LET S == {o \in 1..Len(tmp.file) \ tmp.lost : tmp.file[o].key = k}
  IN  IF S = {} THEN 0 ELSE CHOOSE o \in S : \A p \in S : p <= o

\* Open index.hash.tmp, which is there already if an earlier Compact died.
CompactStart ==
  /\ open /\ cpc = "idle" /\ w.pc = "idle" /\ \A p \in Readers : get[p].pc = "idle"
  /\ nscans + ncompacts < MaxPasses /\ ncompacts' = ncompacts + 1
  /\ cpc' = "copy"
  /\ \E f \in [Keys -> 0..Junk] : (\A k \in Keys : f[k] \in Finds(k)) /\ found' = f
  /\ todo' = {k \in Keys : found'[k] # 0}
  /\ tmp' = [tmp EXCEPT !.left = [k \in Keys |-> Val(tmp.file, InTmp(k))]]
  /\ UNCHANGED <<open, fileVars, memVars, get, scan, nwrites, nscans, ncrashes, history>>

TmpEntry(k) == [key |-> k, next |-> tmp.table[SlotOf[k]], val |-> found[k]]

\* newHI.Set of one live entry.
CompactCopy(k) ==
  /\ cpc = "copy" /\ ~Unreadable /\ k \in todo
  /\ todo' = todo \ {k}
  /\ tmp' = [tmp EXCEPT !.file = Append(@, TmpEntry(k)),
                        !.table[SlotOf[k]] = Len(tmp.file) + 1,
                        !.count = @ + 1]
  /\ UNCHANGED <<open, fileVars, memVars, get, scan, cpc, found, counters, history>>

\* The scan, a write, the sync or the rename fails: the new file is removed.
CompactFails ==
  /\ cpc = "copy" /\ (DiskFails \/ (Sequential /\ Halves # {}))
  /\ cpc' = "idle" /\ found' = Nothing /\ todo' = {} /\ tmp' = NoTmp
  /\ UNCHANGED <<open, fileVars, memVars, get, scan, counters, history>>

\* Sync, close (which writes the count) and rename.
CompactRename ==
  /\ cpc = "copy" /\ ~Unreadable /\ todo = {}
  /\ cpc' = "renamed"
  /\ sav' = [k \in Keys |-> InTmp(k)]
  /\ UNCHANGED <<open, fileVars, memVars, get, scan, found, todo, tmp, counters, cur, lost, during>>

CompactClose ==
  /\ cpc = "renamed"
  /\ cpc' = "closed"
  /\ UNCHANGED <<open, fileVars, memVars, get, scan, found, todo, tmp, counters, history>>

\* A scan in progress goes on in the new file.
CompactReopen ==
  /\ cpc = "closed"
  /\ cpc' = "idle"
  /\ file' = tmp.file /\ table' = tmp.table /\ header' = tmp.count /\ tail' = FALSE
  /\ buckets' = tmp.table /\ entryCount' = Cardinality(FoundKeys)
  /\ found' = Nothing /\ tmp' = NoTmp /\ cur' = sav /\ lost' = tmp.lost
  /\ scan' = [scan EXCEPT !.astray = scan.astray \/ scan.pc \in Running]
  /\ UNCHANGED <<open, w, get, todo, counters, sav, during>>

-----------------------------------------------------------------------------
(* Close, crash, open *)

\* What a Compact that dies leaves in index.hash.tmp: its entries, with the count
\* in the header if it was closed; and the bytes of one more, whole or not, if it
\* died inside newHI.Set.
TmpLeft ==
  LET With(e) == [tmp EXCEPT !.file = Append(@, e), !.lost = @ \cup {Len(tmp.file) + 1}, !.count = 0]
  IN  IF cpc # "copy" THEN {tmp}
      ELSE {[tmp EXCEPT !.count = 0]} \cup (IF todo = {} THEN {tmp} ELSE {With(Half)})
             \cup {With(TmpEntry(k)) : k \in todo}

\* The process is gone; index.hash is the new file if Compact had renamed it.
Halt(count) ==
  LET new == cpc \in {"renamed", "closed"} IN
  /\ open /\ open' = FALSE
  /\ ncrashes < MaxCrashes /\ ncrashes' = ncrashes + 1
  /\ file' = IF new THEN tmp.file ELSE file
  /\ table' = IF new THEN tmp.table ELSE table
  /\ header' = IF new THEN tmp.count ELSE count
  /\ tail' = IF new THEN FALSE ELSE tail
  /\ buckets' = table' /\ entryCount' = 0 /\ w' = IdleWriter
  /\ get' = [p \in Readers |-> IdleGet] /\ scan' = IdleScan
  /\ cpc' = "idle" /\ found' = Nothing /\ todo' = {}
  /\ IF new THEN tmp' = NoTmp ELSE tmp' \in TmpLeft
  /\ cur' = sav
  /\ lost' = IF new THEN tmp.lost
             ELSE lost \cup {o \in 1..Len(file) : file[o].key # NoKey /\ o > table[SlotOf[file[o].key]]}
  /\ UNCHANGED <<nwrites, ncompacts, nscans, sav, during>>

\* The process dies anywhere, inside Set, Delete and Compact too.
Crash == Halt(header)

Close == /\ w.pc = "idle" /\ cpc = "idle" /\ scan.pc \notin Running
         /\ \A p \in Readers : get[p].pc = "idle"
         /\ Halt(entryCount)

\* openHashIndex: writePos is the file's size, whatever its last bytes are.
Open ==
  /\ ~open /\ open' = TRUE
  /\ entryCount' = header
  /\ IF tail THEN /\ file' = Append(file, Half)
                  /\ lost' = lost \cup {Len(file) + 1}
             ELSE UNCHANGED <<file, lost>>
  /\ tail' = FALSE
  /\ UNCHANGED <<table, header, buckets, w, get, scan, compactVars, counters, cur, sav, during>>

-----------------------------------------------------------------------------
Next ==
  \/ \E p \in Readers : (\E k \in Keys : Load(p, k)) \/ Walk(p) \/ Return(p)
  \/ \E k \in Keys : Set(k) \/ Delete(k)
  \/ AppendFails \/ Publish \/ PersistBucket
  \/ ScanStart \/ ScanSmall \/ ScanMisreads \/ ScanSlot \/ ScanChain \/ ScanFails \/ ScanAstray
  \/ CompactStart \/ (\E k \in Keys : CompactCopy(k)) \/ CompactFails
  \/ CompactRename \/ CompactClose \/ CompactReopen
  \/ Crash \/ Close \/ Open

Spec == Init /\ [][Next]_vars

\* A goroutine in Get is scheduled again and again.
FairSpec == Spec /\ \A p \in Readers : WF_vars(Walk(p))

-----------------------------------------------------------------------------
(* Properties *)

Scans == [pc : {"idle", "small", "slot", "chain", "done", "failed"}, pos : Nat, limit : Nat,
          slot : Nat, off : Nat, seen : SUBSET Keys, out : [Keys -> Nat], astray : BOOLEAN]
Tmps == [file : Seq(Entry), lost : SUBSET Nat, table : [Slots -> Nat], count : Nat,
         left : [Keys -> Nat]]

\* Every variable keeps its type.
TypeOK ==
  /\ open \in BOOLEAN /\ file \in Seq(Entry) /\ tail \in BOOLEAN
  /\ table \in [Slots -> Nat] /\ buckets \in [Slots -> Nat]
  /\ header \in Nat /\ entryCount \in Nat
  /\ w \in [pc : {"idle", "written", "published"}, key : Keys \cup {NoKey}]
  /\ get \in [Readers -> [pc : {"idle", "walk", "done"}, key : Keys \cup {NoKey}, off : Nat,
                          val : Nat, due : Nat]]
  /\ scan \in Scans
  /\ cpc \in {"idle", "copy", "renamed", "closed"} /\ todo \in SUBSET Keys
  /\ found \in [Keys -> Nat] /\ tmp \in Tmps
  /\ nwrites \in Nat /\ ncompacts \in Nat /\ nscans \in Nat /\ ncrashes \in Nat
  /\ cur \in [Keys -> Nat] /\ sav \in [Keys -> Nat] /\ lost \in SUBSET Nat
  /\ during \in [Keys -> SUBSET Nat]

\* The file the next process will open.
Saved == IF cpc \in {"renamed", "closed"} THEN tmp.file ELSE file

\* What Compact may put in the place of k's value: by the sequential scan, the
\* value of a write that a crash undid, and anything once there is half an entry
\* in the file; where it finds no entry, the one of an index.hash.tmp left behind.
Strays(k) ==
  LET read == IF ~Sequential THEN {} ELSE IF Halves = {} THEN Undone(k) ELSE Nat
  IN  read \cup (IF 0 \in read \cup {Val(file, cur[k])} THEN {tmp.left[k]} ELSE {})

Map == INSTANCE IndexSpec
         WITH map <- [k \in Keys |-> Val(file, cur[k])],
              saved <- [k \in Keys |-> Val(Saved, sav[k])],
              answer <- [p \in Readers |-> IF get[p].pc = "walk" THEN Val(file, get[p].due)
                                                                 ELSE get[p].val],
              strays <- [k \in Keys |-> Strays(k)]

\* Get, Set and Delete are atomic although Get takes no lock and reads one entry
\* at a time: it answers what the key held when it loaded the bucket.  A crash
\* undoes at most what was not persisted (the publication pattern of the type
\* comment).  Compact changes a key only to one of its Strays, so none at all in
\* a file without half entries and undone writes and with no old index.hash.tmp.
AtomicMap == Map!Spec

\* Every chain runs from newest to oldest through exactly the entries of its
\* slot that were linked, and the table in the file lags behind, never ahead.
Follows(o, n) == LET Older == {p \in 1..(o - 1) : /\ p \notin lost
                                                  /\ SlotOf[file[p].key] = SlotOf[file[o].key]}
                 IN  IF Older = {} THEN n = 0 ELSE n \in Older /\ \A p \in Older : p <= n

ChainOrder ==
  /\ \A o \in 1..Len(file) \ lost : Follows(o, file[o].next)
  /\ \A s \in Slots : table[s] <= buckets[s] /\ buckets[s] <= Len(file)

\* Get ends: a chain has no cycle.
GetEnds == \A p \in Readers : get[p].pc = "walk" ~> get[p].pc # "walk"

\* A scan that ends without an error reports every key with a value it had while
\* the scan ran, and a key that was absent throughout not at all ("ForEach calls fn
\* for every live, non-expired entry in the index"); one that Compact's close of
\* the file cuts short reports no other values either.  The sequential scan may
\* report a write that a crash undid.  Nothing is said of a scan that has read
\* half an entry, or that went on in Compact's new file.
ScanRegular ==
  ~scan.astray => \A k \in Keys : /\ scan.pc = "done" => scan.out[k] \in during[k]
                                  /\ scan.pc = "failed" => scan.out[k] \in during[k] \cup {0}

\* ForEach: "concurrent writes that arrive during iteration are not observed".
ScanSnapshot == scan.pc = "chain" => scan.off <= scan.limit

\* Compact swaps the file under "LockAll ... ensuring no concurrent reads or
\* writes are in flight".
SwapAlone == cpc = "closed" => scan.pc \notin Running

\* Compact removes "tombstones and stale versions" and changes nothing else.
CompactKeeps == [][cpc = "closed" /\ open' =>
                     \A k \in Keys : Val(file', cur'[k]) = Val(file, cur[k])]_vars

\* "size returns the number of live entries."
SizeIsLive == open /\ w.pc = "idle" => entryCount = Cardinality({k \in Keys : Val(file, cur[k]) # 0})
=============================================================================
