-------------------------------- MODULE Store --------------------------------
(***************************************************************************)
(* The shared store of pkg/brisedb: the hash index, the TTL cache, the WAL  *)
(* queue and file, the sessions that write through them, the eviction       *)
(* sweep, Compact, Close, a crash at any point and the recovery that        *)
(* NewBriseDB runs (brise.go and the non-transactional paths of session.go).*)
(*                                                                          *)
(* A value is the number of the operation that wrote it (`ver'): volumes    *)
(* are append-only, so an address stands for one write.  Every key has a    *)
(* lock of its own (a shard shared by two keys only locks more), taken all  *)
(* at once by lockShards and LockAll; KeyedMutex-level ordering is not      *)
(* modelled here.  walCh is drained by the flusher of WalFlusher, of which  *)
(* this module keeps only what it promises: lines reach the file in order,  *)
(* and with FsyncAlways a caller waits for its line.                        *)
(***************************************************************************)
EXTENDS Naturals, Sequences, FiniteSets

CONSTANTS
  Keys, Sessions,
  MayWrite,     \* which session writes which key: a subset of Sessions \X Keys
  Kinds,        \* operations in play: subset of AllKinds
  TTLs,         \* time-to-live values offered to writers; 0 is "no TTL"
  MaxOps,       \* bound: write operations in a behaviour
  MaxTime,      \* bound: clock ticks in a behaviour
  MaxCompacts,  \* bound: Compact calls
  MaxCrashes,   \* bound: crashes and clean shutdowns
  WalCap,       \* capacity of walCh (1024 in the code)
  FsyncAlways,  \* does writeWAL wait for the flusher?
  IndexFails,   \* may a write to index.hash or wal.log return an error (disk full)?
  PowerFails,   \* may the machine die, and lose what was never fsynced?
  QuietHalts,   \* does the process only die while no session and no Compact is at work?
  BusyClose,    \* may Close run while they are at work, as main of cmd/server lets it?
  NsPerSec,     \* nanoseconds in a second
  Garbage,      \* a line of wal.log that does not parse
  Swap          \* the hand-over message of Compact

AllKinds == {"set", "blob", "delete", "commit", "repl", "persist"}

Entry == [ver : Nat, live : BOOLEAN, exp : Nat]
Line == [key : Keys, ver : Nat, live : BOOLEAN, exp : Nat]

ASSUME StoreConstants ==
  /\ IsFiniteSet(Keys) /\ \A K \in SUBSET Keys : Cardinality(K) \in Nat
  /\ MayWrite \subseteq Sessions \X Keys
  /\ Kinds \subseteq AllKinds
  /\ TTLs \subseteq Nat
  /\ MaxOps \in Nat /\ MaxTime \in Nat /\ MaxCompacts \in Nat /\ MaxCrashes \in Nat
  /\ WalCap \in Nat \ {0}
  /\ FsyncAlways \in BOOLEAN /\ IndexFails \in BOOLEAN /\ PowerFails \in BOOLEAN
  /\ QuietHalts \in BOOLEAN /\ BusyClose \in BOOLEAN
  /\ NsPerSec \in Nat /\ NsPerSec > MaxTime
  /\ Garbage \notin Line
  /\ Swap \notin [from : Sessions, line : Line]

VARIABLES
  status,      \* "down" | "replay" | "recovered" | "up"
  now,         \* the clock
  index,       \* index.hash as Get sees it (its page-cache contents)
  header,      \* the entry count in the file's header
  entryCount,  \* hi.entryCount
  expiry,      \* db.expiry: 0 is "no entry"
  op,          \* what every session is doing
  walCh, wal,  \* the queue and the lines of wal.log
  rpos,        \* the next line replayWAL reads
  cpc,         \* control state of Compact
  disk,        \* what a power loss leaves of index.hash
  nops, ncompacts, ncrashes,  \* counters for the bounds
  maybe,       \* history: what each key may hold (see SettledSurvives)
  commits,     \* history: the transactions committed
  torn         \* history: a line of wal.log was overwritten or written in part

volatile == <<entryCount, expiry, op, walCh, rpos, cpc>>
files == <<index, header, wal, disk>>
counters == <<nops, ncompacts, ncrashes>>
history == <<maybe, commits, torn>>
vars == <<status, now, volatile, files, counters, history>>

NoEntry == [ver |-> 0, live |-> FALSE, exp |-> 0]
IdleOp == [pc |-> "idle", kind |-> "none", ver |-> 0, keys |-> {}, todo |-> <<>>, log |-> <<>>]

\* Mutant of EntryOf: the expiry is not stored with the entry.
EntryOfNoExpiry(l) == [ver |-> l.ver, live |-> l.live, exp |-> 0]

EntryOf(l) == [ver |-> l.ver, live |-> l.live, exp |-> l.exp]
LineOf(k, v, e) == [key |-> k, ver |-> v, live |-> TRUE, exp |-> e]
DeleteOf(k, v) == [key |-> k, ver |-> v, live |-> FALSE, exp |-> 0]
Expired(e, t) == e.exp > 0 /\ t > e.exp

\* What Get answers for an entry at time t.
View(e, t) == IF e.live /\ ~Expired(e, t) THEN <<e.ver, e.exp>> ELSE <<0, 0>>

Init ==
  /\ status = "down" /\ now = 0
  /\ index = [k \in Keys |-> NoEntry] /\ header = 0 /\ wal = <<>>
  /\ disk = [index |-> index, header |-> 0]
  /\ entryCount = 0 /\ expiry = [k \in Keys |-> 0]
  /\ op = [s \in Sessions |-> IdleOp]
  /\ walCh = <<>> /\ rpos = 1 /\ cpc = "idle"
  /\ nops = 0 /\ ncompacts = 0 /\ ncrashes = 0
  /\ maybe = [k \in Keys |-> {NoEntry}] /\ commits = {} /\ torn = FALSE

-----------------------------------------------------------------------------
(* Locks: a session holds the locks of its keys while it is "locked", Compact
   holds all of them until its hand-over is answered. *)

InFlight(k, S) == \E s \in S : op[s].pc # "idle" /\ k \in op[s].keys
Locked(K) == \/ cpc # "idle"
             \/ \E s \in Sessions : op[s].pc = "locked" /\ op[s].keys \cap K # {}

\* s owns the locks of its keys, or gets them with the first update it makes.
HoldsLocks(s) == \/ op[s].pc = "locked"
                 \/ op[s].pc = "lock" /\ ~Locked(op[s].keys)

MayUpdate(s) == op[s].todo # <<>> /\ HoldsLocks(s)

-----------------------------------------------------------------------------
(* Write operations.  Each starts by writing its values to a volume, outside
   the locks; then it locks, updates index and TTL cache, unlocks, logs. *)

Begin(s, kind, K, todo, log) ==
  /\ status = "up" /\ op[s].pc = "idle"
  /\ \A k \in K : <<s, k>> \in MayWrite
  /\ nops < MaxOps
  /\ nops' = nops + 1
  /\ op' = [op EXCEPT ![s] = [pc |-> IF todo = <<>> THEN "log" ELSE "lock", kind |-> kind, ver |-> nops + 1,
                              keys |-> K, todo |-> todo, log |-> log]]
  /\ maybe' = [k \in Keys |->
                 maybe[k] \cup {EntryOf(todo[i]) : i \in {j \in DOMAIN todo : todo[j].key = k}}]
  /\ UNCHANGED <<status, now, entryCount, expiry, walCh, rpos, cpc, files, ncompacts, ncrashes, torn>>

ExpiresAt(ttl) == IF ttl > 0 THEN now + ttl ELSE 0

\* Set and SetEX ("set"), SetBlob and SetBlobStream ("blob"), and
\* ApplyReplicationEntry of a SET ("repl").
BeginSet(s, kind, k, ttl) ==
  LET q == <<LineOf(k, nops + 1, ExpiresAt(ttl))>>
  IN  Begin(s, kind, {k}, q, q) /\ UNCHANGED commits

\* Delete, and ApplyReplicationEntry of a DELETE.
BeginDelete(s, kind, k) ==
  LET q == <<DeleteOf(k, nops + 1)>>
  IN  Begin(s, kind, {k}, q, q) /\ UNCHANGED commits

Orders(S) == {q \in [1..Cardinality(S) -> S] : \A x \in S : \E i \in DOMAIN q : q[i] = x}

\* CommitTransaction of an outermost transaction.  The sets are applied and
\* logged in one map-iteration order; the deletes are iterated twice.
BeginCommit(s, sets, dels, ttl) ==
  /\ status = "up" /\ op[s].pc = "idle"
  /\ \E a \in Orders(sets), d, e \in Orders(dels) :
       LET ver == nops + 1
           pending == [i \in DOMAIN a |-> LineOf(a[i], ver, ExpiresAt(ttl))]
           Dels(q) == [i \in DOMAIN q |-> DeleteOf(q[i], ver)]
       IN  Begin(s, "commit", sets \cup dels, pending \o Dels(d), pending \o Dels(e))
  /\ commits' = commits \cup {[ver |-> nops + 1, keys |-> sets]}

\* hindex.Set on the live counter.
CountSet == entryCount' = entryCount + 1

\* hindex.Delete on the live counter.
CountDelete == entryCount' = IF entryCount > 0 THEN entryCount - 1 ELSE entryCount

Applied(s) ==
  op' = [op EXCEPT ![s].todo = Tail(op[s].todo),
                   ![s].pc = IF Len(op[s].todo) = 1 THEN "log" ELSE "locked"]

\* An operation is over and no other one works on its keys: they have settled.
Settle(s, idx) ==
  maybe' = [k \in Keys |-> IF k \in op[s].keys /\ ~InFlight(k, Sessions \ {s})
                             THEN {idx[k]} ELSE maybe[k]]

Finished(s) == op' = [op EXCEPT ![s] = IdleOp]

\* One index update under the locks, with its TTL-cache update.
ApplySet(s) ==
  LET l == Head(op[s].todo) IN
  /\ MayUpdate(s) /\ l.live
  /\ index' = [index EXCEPT ![l.key] = EntryOf(l)]
  /\ expiry' = [expiry EXCEPT ![l.key] = l.exp]
  /\ CountSet
  /\ Applied(s)
  /\ UNCHANGED <<status, now, walCh, rpos, cpc, header, wal, disk, counters, history>>

\* Delete writes and logs nothing when the key is absent; a commit logs the
\* DELETE anyway, and replication writes the tombstone as well.
ApplyDelete(s) ==
  LET l == Head(op[s].todo)
      exists == index[l.key].live
      writes == exists \/ op[s].kind = "repl"
      noop == ~exists /\ op[s].kind = "delete"
  IN
  /\ MayUpdate(s) /\ ~l.live
  /\ index' = IF writes THEN [index EXCEPT ![l.key] = EntryOf(l)] ELSE index
  /\ IF writes THEN CountDelete ELSE UNCHANGED entryCount
  /\ expiry' = IF noop THEN expiry ELSE [expiry EXCEPT ![l.key] = 0]
  /\ IF noop THEN Finished(s) /\ Settle(s, index) ELSE Applied(s) /\ UNCHANGED maybe
  /\ UNCHANGED <<status, now, walCh, rpos, cpc, header, wal, disk, counters, commits, torn>>

\* Mutant of AfterError: nobody looks at the error.
AfterErrorIgnored(s) == Applied(s)

\* Replication ignores the error of an index write; the others return it.
AfterError(s) == IF op[s].kind = "repl" THEN Applied(s) ELSE Finished(s)

\* The index write fails: nothing reached the file, or the entry is published
\* and only its bucket could not be persisted.  SetBlob, commit and
\* applyEntry touch the TTL cache before they learn of it, Set and SetEX after.
\* (An entry that is published only would be lost in a crash: see HashIndex.)
ApplyFails(s) ==
  LET l == Head(op[s].todo)
      k == l.key
      early == op[s].kind \in {"blob", "commit", "repl"}
  IN
  /\ IndexFails
  /\ MayUpdate(s)
  /\ l.live \/ index[k].live \/ op[s].kind = "repl"
  /\ \/ UNCHANGED <<index, entryCount>>
     \/ /\ index' = [index EXCEPT ![k] = EntryOf(l)]
        /\ IF l.live THEN CountSet ELSE CountDelete
  /\ expiry' = IF (l.live /\ early) \/ op[s].kind = "repl"
                 THEN [expiry EXCEPT ![k] = l.exp] ELSE expiry
  /\ AfterError(s)
  /\ UNCHANGED <<status, now, walCh, rpos, cpc, header, wal, disk, counters, history>>

\* Mutant of AfterLog: FsyncAlways does not wait for the flusher.
AfterLogAtOnce == "log"

\* FsyncAlways waits until the line is on the disk, the other modes go on.
AfterLog == IF FsyncAlways THEN "await" ELSE "log"

\* The next line enters the queue, which may be full.
Enqueue(s) ==
  /\ Len(walCh) < WalCap
  /\ walCh' = Append(walCh, [from |-> s, line |-> Head(op[s].log)])
  /\ op' = [op EXCEPT ![s].log = Tail(op[s].log),
                      ![s].pc = AfterLog]

\* writeWAL of the next line.  Without FsyncAlways it may find the error of an earlier
\* flush instead (WalFlusher says when): the operation returns it, and logs neither
\* this line nor the others.
Log(s) ==
  /\ op[s].pc = "log" /\ op[s].log # <<>>
  /\ \/ Enqueue(s)
     \/ IndexFails /\ ~FsyncAlways /\ Finished(s) /\ UNCHANGED walCh
  /\ UNCHANGED <<status, now, entryCount, expiry, rpos, cpc, files, counters, history>>

\* The operation returns nil to its client.
Finish(s) ==
  /\ op[s].pc = "log" /\ op[s].log = <<>>
  /\ Finished(s)
  /\ Settle(s, index)
  /\ UNCHANGED <<status, now, entryCount, expiry, walCh, rpos, cpc, files, counters, commits, torn>>

\* Persist: under the lock, no WAL line, no replication.
Persist(s, k) ==
  /\ status = "up" /\ op[s].pc = "idle" /\ "persist" \in Kinds /\ <<s, k>> \in MayWrite
  /\ ~Locked({k})
  /\ index[k].live /\ index[k].exp # 0
  /\ LET new == [index EXCEPT ![k].exp = 0] IN
     /\ \/ index' = new /\ CountSet
        \/ IndexFails /\ UNCHANGED <<index, entryCount>>
     /\ maybe' = [maybe EXCEPT ![k] = IF InFlight(k, Sessions)
                                        THEN @ \cup {[e EXCEPT !.exp = 0] : e \in @}
                                        ELSE {new[k]}]
  /\ expiry' = [expiry EXCEPT ![k] = 0]
  /\ UNCHANGED <<status, now, op, walCh, rpos, cpc, header, wal, disk, counters, commits, torn>>

-----------------------------------------------------------------------------
(* The WAL flusher, as WalFlusher specifies it. *)

\* A batch of n lines is written (and, with FsyncAlways, synced); the callers
\* that wait for one of them go on.
Flush(n) ==
  /\ status = "up"
  /\ n \in 1..Len(walCh) /\ \A i \in 1..n : walCh[i] # Swap
  /\ wal' = wal \o [i \in 1..n |-> walCh[i].line]
  /\ walCh' = SubSeq(walCh, n + 1, Len(walCh))
  /\ op' = [s \in Sessions |->
              IF op[s].pc = "await" /\ \E i \in 1..n : walCh[i].from = s
                THEN [op[s] EXCEPT !.pc = "log"] ELSE op[s]]
  /\ UNCHANGED <<status, now, entryCount, expiry, rpos, cpc, index, header, disk, counters, history>>

\* The batch is written in part, or not synced; the callers that wait for one of its
\* lines return the error and log nothing more.
FlushFails(n) ==
  /\ IndexFails
  /\ status = "up"
  /\ n \in 1..Len(walCh) /\ \A i \in 1..n : walCh[i] # Swap
  /\ \E m \in 0..n :
       LET part == wal \o [i \in 1..m |-> walCh[i].line] IN
       \/ wal' = part /\ UNCHANGED torn
       \/ m < n /\ wal' = Append(part, Garbage) /\ torn' = TRUE
  /\ walCh' = SubSeq(walCh, n + 1, Len(walCh))
  /\ op' = [s \in Sessions |->
              IF op[s].pc = "await" /\ \E i \in 1..n : walCh[i].from = s THEN IdleOp ELSE op[s]]
  /\ UNCHANGED <<status, now, entryCount, expiry, rpos, cpc, index, header, disk, counters, maybe, commits>>

\* The hand-over: Compact gets its answer, replaces db.walFile and unlocks.
FlushSwap ==
  /\ status = "up"
  /\ walCh # <<>> /\ Head(walCh) = Swap
  /\ walCh' = Tail(walCh)
  /\ cpc' = "idle"
  /\ UNCHANGED <<status, now, entryCount, expiry, op, rpos, files, counters, history>>

-----------------------------------------------------------------------------
(* Time and the eviction sweep. *)

Tick ==
  /\ now < MaxTime
  /\ now' = now + 1
  /\ UNCHANGED <<status, volatile, files, counters, history>>

\* evictExpired: under LockAll, every key whose cached expiry has passed is
\* deleted from the index, present or not, and from the cache.  An error of the
\* index is ignored.
EvictExpired ==
  LET gone == {k \in Keys : expiry[k] > 0 /\ now > expiry[k]} IN
  /\ status = "up" /\ ~Locked(Keys)
  /\ gone # {}
  /\ \E done \in SUBSET gone :
       /\ IndexFails \/ done = gone
       /\ index' = [k \in Keys |-> IF k \in done THEN [index[k] EXCEPT !.live = FALSE] ELSE index[k]]
       /\ entryCount' = IF entryCount > Cardinality(done) THEN entryCount - Cardinality(done) ELSE 0
  /\ expiry' = [k \in Keys |-> IF k \in gone THEN 0 ELSE expiry[k]]
  /\ UNCHANGED <<status, now, op, walCh, rpos, cpc, header, wal, disk, counters, history>>

-----------------------------------------------------------------------------
(* Compact, all locks held. *)

\* The index is rewritten without tombstones and expired entries; the new
\* file's header counts them.  The TTL cache is left as it is.  The new file was
\* synced before its header got the count.
CompactIndex ==
  LET kept == {k \in Keys : index[k].live /\ ~Expired(index[k], now)} IN
  /\ status = "up" /\ ~Locked(Keys)
  /\ ncompacts < MaxCompacts
  /\ ncompacts' = ncompacts + 1
  /\ index' = [k \in Keys |-> IF k \in kept THEN index[k] ELSE [index[k] EXCEPT !.live = FALSE]]
  /\ header' = Cardinality(kept) /\ entryCount' = Cardinality(kept)
  /\ disk' = IF PowerFails THEN [index |-> index', header |-> 0] ELSE disk
  /\ cpc' = "truncate"
  /\ UNCHANGED <<status, now, expiry, op, walCh, rpos, wal, nops, ncrashes, history>>

\* wal.log is truncated in place: the flusher still appends to the same file.
CompactTruncate ==
  /\ cpc = "truncate"
  /\ wal' = <<>>
  /\ cpc' = "rewrite"
  /\ UNCHANGED <<status, now, entryCount, expiry, op, walCh, rpos, index, header, disk, counters, history>>

\* The live entries are written from offset 0 over whatever the flusher appended
\* meanwhile: the write ends between two of its lines, or inside one.
CompactRewrite ==
  LET m == Len(wal) IN
  /\ cpc = "rewrite"
  /\ \E q \in Orders({k \in Keys : index[k].live}) :
       LET lines == [i \in DOMAIN q |-> LineOf(q[i], index[q[i]].ver, index[q[i]].exp)] IN
       \/ /\ q = <<>> \/ m = 0
          /\ wal' = lines \o wal
          /\ UNCHANGED torn
       \/ /\ q # <<>>
          /\ \E j \in 1..m :
               \/ wal' = lines \o SubSeq(wal, j + 1, m) /\ UNCHANGED torn
               \/ wal' = lines \o <<Garbage>> \o SubSeq(wal, j + 1, m) /\ torn' = TRUE
  /\ cpc' = "swap"
  /\ UNCHANGED <<status, now, entryCount, expiry, op, walCh, rpos, index, header, disk, counters, maybe, commits>>

CompactSwap ==
  /\ cpc = "swap"
  /\ Len(walCh) < WalCap
  /\ walCh' = Append(walCh, Swap)
  /\ cpc' = "await"
  /\ UNCHANGED <<status, now, entryCount, expiry, op, rpos, files, counters, history>>

\* Mutant of CompactFails: the locks are not released on the error path.
CompactFailsLocked ==
  /\ IndexFails
  /\ cpc \in {"truncate", "rewrite"}
  /\ \/ UNCHANGED <<wal, torn>>
     \/ cpc = "rewrite" /\ wal' = <<Garbage>> \o wal /\ torn' = TRUE
  /\ cpc' = "await"
  /\ UNCHANGED <<status, now, entryCount, expiry, op, walCh, rpos, index, header, disk, counters, maybe, commits>>

\* wal.log cannot be opened, or its rewrite fails half way: Compact returns the
\* error and unlocks; the flusher goes on with its old file handle.
CompactFails ==
  /\ IndexFails
  /\ cpc \in {"truncate", "rewrite"}
  /\ \/ UNCHANGED <<wal, torn>>
     \/ cpc = "rewrite" /\ wal' = <<Garbage>> \o wal /\ torn' = TRUE
  /\ cpc' = "idle"
  /\ UNCHANGED <<status, now, entryCount, expiry, op, walCh, rpos, index, header, disk, counters, maybe, commits>>

-----------------------------------------------------------------------------
(* Shutdown, crash and recovery. *)

\* The process is gone, and everything it held in memory.
Halt ==
  /\ status' = "down"
  /\ op' = [s \in Sessions |-> IdleOp]
  /\ walCh' = <<>> /\ cpc' = "idle" /\ rpos' = 1
  /\ entryCount' = 0 /\ expiry' = [k \in Keys |-> 0]
  /\ UNCHANGED <<now, nops, ncompacts, commits>>

Quiet == cpc = "idle" /\ \A s \in Sessions : op[s].pc = "idle"

CountedHalt ==
  /\ ncrashes < MaxCrashes
  /\ QuietHalts => Quiet
  /\ ncrashes' = ncrashes + 1
  /\ Halt

\* Close: the flusher drains walCh, the index persists its entry count.  If sessions
\* are at work, the drain is the Flush and FlushSwap steps before this one, and what
\* was queued after the flusher ended is lost.
Close ==
  /\ status = "up"
  /\ \/ Quiet /\ wal' = wal \o [i \in 1..Len(walCh) |-> walCh[i].line]
     \/ BusyClose /\ ~Quiet /\ UNCHANGED wal
  /\ header' = entryCount
  /\ CountedHalt
  /\ UNCHANGED <<index, disk, maybe, torn>>

\* What a halt in the middle of a flush leaves of the first line not yet written: a
\* batch larger than the flusher's buffer reaches the file in several writes.
TornTail ==
  \/ UNCHANGED <<wal, torn>>
  \/ /\ walCh # <<>> /\ Head(walCh) # Swap
     /\ wal' = Append(wal, Garbage) /\ torn' = TRUE

\* The process dies: page-cache contents survive.
Crash ==
  /\ status # "down"
  /\ TornTail
  /\ CountedHalt
  /\ UNCHANGED <<index, header, disk, maybe>>

\* The machine dies: index.hash is what the kernel had written back.  If its
\* header counts entries it will be trusted, however old it is.  (A file system that
\* commits renames and truncations in order: the renamed index is there if the
\* truncated WAL is.  Of the WAL that Compact rewrites without a sync, either nothing
\* is left, after CompactTruncate, or all.)
PowerLoss ==
  /\ status # "down"
  /\ PowerFails
  /\ TornTail
  /\ index' = disk.index /\ header' = disk.header
  /\ maybe' = [k \in Keys |-> maybe[k] \cup {e \in {disk.index[k]} : disk.header > 0}]
  /\ CountedHalt
  /\ UNCHANGED disk

WriteBack ==
  /\ PowerFails
  /\ disk' = [index |-> index, header |-> header]
  /\ UNCHANGED <<status, now, volatile, index, header, wal, counters, history>>

\* NewBriseDB: replay the WAL if the header counts no entries, else trust the
\* index and rebuild the TTL cache from its unexpired entries.
Open ==
  /\ status = "down"
  /\ entryCount' = header
  /\ IF header = 0
       THEN status' = "replay" /\ UNCHANGED expiry
       ELSE /\ status' = "recovered"
            /\ expiry' = [k \in Keys |-> IF index[k].live /\ ~Expired(index[k], now)
                                           THEN index[k].exp ELSE 0]
  /\ UNCHANGED <<now, op, walCh, rpos, cpc, files, counters, history>>

\* Mutant of ReplaySkips: the units agree, and a skipped SET is just ignored.
ReplaySkipsInSeconds(l) == l.live /\ l.exp > 0 /\ l.exp < now

\* The test of replayWAL for an expired SET reads nanoseconds as seconds.
ReplaySkips(l) == l.live /\ l.exp > 0 /\ l.exp * NsPerSec < now

\* replayWAL, one line: applyEntry, which ignores an error of the index.
ReplayLine ==
  LET l == wal[rpos] IN
  /\ status = "replay" /\ rpos <= Len(wal) /\ l # Garbage
  /\ rpos' = rpos + 1
  /\ IF ReplaySkips(l)
       THEN UNCHANGED <<index, entryCount, expiry>>
       ELSE /\ \/ /\ index' = [index EXCEPT ![l.key] = EntryOf(l)]
                  /\ IF l.live THEN CountSet ELSE CountDelete
               \/ IndexFails /\ UNCHANGED <<index, entryCount>>
            /\ expiry' = [expiry EXCEPT ![l.key] = l.exp]
  /\ UNCHANGED <<status, now, op, walCh, cpc, header, wal, disk, counters, history>>

\* A line that does not parse: NewBriseDB returns an error, after closing the
\* index (which persists the count reached so far).
ReplayFails ==
  /\ status = "replay" /\ rpos <= Len(wal) /\ wal[rpos] = Garbage
  /\ header' = entryCount
  /\ Halt
  /\ UNCHANGED <<index, wal, disk, ncrashes, maybe, torn>>

ReplayEnd ==
  /\ status = "replay" /\ rpos > Len(wal)
  /\ status' = "recovered"
  /\ UNCHANGED <<now, volatile, files, counters, history>>

\* NewBriseDB starts the background goroutines and returns: what the store holds
\* now is what its clients see.
Serve ==
  /\ status = "recovered"
  /\ status' = "up"
  /\ maybe' = [k \in Keys |-> {index[k]}]
  /\ UNCHANGED <<now, volatile, files, counters, commits, torn>>

-----------------------------------------------------------------------------
Next ==
  \/ \E s \in Sessions, k \in Keys :
       \/ \E kind \in Kinds \cap {"set", "blob", "repl"}, ttl \in TTLs : BeginSet(s, kind, k, ttl)
       \/ \E kind \in Kinds \cap {"delete", "repl"} : BeginDelete(s, kind, k)
       \/ Persist(s, k)
  \/ \E kind \in Kinds \cap {"commit"}, s \in Sessions, ttl \in TTLs, sets, dels \in SUBSET Keys :
       sets \cap dels = {} /\ BeginCommit(s, sets, dels, ttl)
  \/ \E s \in Sessions :
       \/ ApplySet(s) \/ ApplyDelete(s) \/ ApplyFails(s) \/ Log(s) \/ Finish(s)
  \/ \E n \in 1..WalCap : Flush(n) \/ FlushFails(n)
  \/ FlushSwap \/ Tick \/ EvictExpired
  \/ CompactIndex \/ CompactTruncate \/ CompactRewrite \/ CompactFails \/ CompactSwap
  \/ Close \/ Crash \/ PowerLoss \/ WriteBack
  \/ Open \/ ReplayLine \/ ReplayFails \/ ReplayEnd \/ Serve

Spec == Init /\ [][Next]_vars

\* Every runnable goroutine runs, and a goroutine waiting for a lock gets it:
\* sync.RWMutex admits a waiting writer before later readers and writers.
Fairness ==
  /\ \A s \in Sessions : /\ SF_vars(ApplySet(s) \/ ApplyDelete(s) \/ ApplyFails(s))
                         /\ SF_vars(Log(s)) /\ WF_vars(Finish(s))
  /\ WF_vars(\E n \in 1..WalCap : Flush(n) \/ FlushFails(n)) /\ WF_vars(FlushSwap)
  /\ WF_vars(CompactTruncate) /\ WF_vars(CompactRewrite \/ CompactFails) /\ SF_vars(CompactSwap)
  /\ SF_vars(EvictExpired)
  /\ WF_vars(Open) /\ WF_vars(ReplayLine) /\ WF_vars(ReplayEnd) /\ WF_vars(Serve)

FairSpec == Spec /\ Fairness

-----------------------------------------------------------------------------
(* Properties *)

OpRecord == [pc : {"idle", "lock", "locked", "log", "await"}, kind : AllKinds \cup {"none"},
             ver : Nat, keys : SUBSET Keys, todo : Seq(Line), log : Seq(Line)]

\* Every variable keeps its type.
TypeOK ==
  /\ status \in {"down", "replay", "recovered", "up"}
  /\ now \in Nat
  /\ index \in [Keys -> Entry] /\ header \in Nat /\ entryCount \in Nat
  /\ expiry \in [Keys -> Nat]
  /\ op \in [Sessions -> OpRecord]
  /\ walCh \in Seq([from : Sessions, line : Line] \cup {Swap})
  /\ wal \in Seq(Line \cup {Garbage})
  /\ rpos \in Nat
  /\ cpc \in {"idle", "truncate", "rewrite", "swap", "await"}
  /\ disk \in [index : [Keys -> Entry], header : Nat]
  /\ nops \in Nat /\ ncompacts \in Nat /\ ncrashes \in Nat
  /\ maybe \in [Keys -> SUBSET Entry]
  /\ commits \in SUBSET [ver : Nat, keys : SUBSET Keys]
  /\ torn \in BOOLEAN

\* The TTL cache never dooms a key that the index holds without that expiry:
\* whatever evictExpired would delete now has expired (evictExpired trusts
\* db.expiry alone; Set, SetEX, SetBlob, Persist, Commit, Compact, replay and
\* rebuildExpiry all have to keep it in step with the index).
EvictionSafe ==
  \A k \in Keys : expiry[k] > 0 /\ now > expiry[k] /\ index[k].live => Expired(index[k], now)

\* What a client was told about a key outlives every crash, shutdown and
\* recovery: once an operation returned and no other was under way on the key,
\* the store shows the state it had then, or what a later operation writes.
\* (FsyncAlways: "zero data loss on crash".  Recovery replays the WAL over the
\* index or ignores it, by the header's count alone.)  One exception is what the
\* code does and part of `maybe': a power loss takes an index whose header counts
\* entries back to what was written of it, whatever the synced WAL says.
SettledSurvives ==
  status \in {"recovered", "up"} /\ ~torn =>
    \A k \in Keys : \E e \in maybe[k] : View(index[k], now) = View(e, now)

\* The WAL is never ahead of the index: a line is queued or logged only once the
\* index holds that update or a later one of the key.  An operation whose index
\* write failed logs nothing, so no replay brings back what its caller was told
\* has failed, and recovery may prefer the index to the WAL.
LogBehindIndex ==
  status = "up" =>
    \A k \in Keys :
      /\ \A i \in DOMAIN wal : wal[i] # Garbage /\ wal[i].key = k => wal[i].ver <= index[k].ver
      /\ \A i \in DOMAIN walCh :
           walCh[i] # Swap /\ walCh[i].line.key = k => walCh[i].line.ver <= index[k].ver

\* A committed transaction is in the store whole or not at all (README: COMMIT
\* "writes to volumes + WAL atomically").
CommitWhole ==
  status = "up" =>
    \A c \in commits :
      (\A s \in Sessions : op[s].pc = "idle" \/ op[s].ver # c.ver) =>
        \A k, j \in c.keys : index[k].ver = c.ver => index[j].ver >= c.ver

\* The WAL can be replayed when it is needed: no line of it fails to parse.
ReplaySucceeds == ~(status = "replay" /\ rpos <= Len(wal) /\ wal[rpos] = Garbage)

\* Every operation ends, with a result or an error, unless the process dies:
\* Compact waits for the flusher with all locks held, writers wait for Compact's
\* locks and for room in walCh, and nobody waits for a writer in vain.
OpsFinish == \A s \in Sessions : op[s].pc # "idle" ~> op[s].pc = "idle"

\* A key that has expired is removed ("evictionLoop ... removes expired keys
\* every second"), if the store stays up.
ExpiredEvicted ==
  \A k \in Keys : (status = "up" /\ index[k].live /\ Expired(index[k], now))
                    ~> (status # "up" \/ ~index[k].live \/ ~Expired(index[k], now))

\* replayWAL: "Expired SET entries are skipped."
ReplaySkipsExpired ==
  [][\A k \in Keys : status = "replay" /\ index'[k] # index[k]
                       => ~(index'[k].live /\ Expired(index'[k], now))]_vars
=============================================================================
