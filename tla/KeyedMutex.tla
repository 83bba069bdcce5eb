----------------------------- MODULE KeyedMutex -----------------------------
(***************************************************************************)
(* keyedMutex (pkg/brisedb/keyedmu.go): single-key Lock and RLock, the      *)
(* ordered multi-shard lockShards of a commit, LockAll of Compact and       *)
(* evictExpired.  A shard is a sync.RWMutex: a writer first takes its turn  *)
(* (`turn', which keeps new readers out), then waits for the readers inside.*)
(***************************************************************************)
EXTENDS Integers

CONSTANTS
  Procs,       \* goroutines
  Keys,
  NumShards,   \* 64 in the code
  ShardIndex,  \* the FNV hash: a function from Keys to shards
  NoProc

Shards == 0..(NumShards - 1)

ASSUME MutexConstants ==
  /\ NumShards \in Nat \ {0}
  /\ ShardIndex \in [Keys -> Shards]
  /\ NoProc \notin Procs

VARIABLES
  phase,  \* "idle" | "acquire" | "in" | "release"
  mode,   \* "none" | "read" | "write"
  want,   \* the shards a process is to lock
  held,   \* the shards it has locked
  turn    \* the process whose turn it is to write-lock a shard

mutexVars == <<phase, mode, want, held, turn>>

MutexInit ==
  /\ phase = [p \in Procs |-> "idle"]
  /\ mode = [p \in Procs |-> "none"]
  /\ want = [p \in Procs |-> {}]
  /\ held = [p \in Procs |-> {}]
  /\ turn = [i \in Shards |-> NoProc]

-----------------------------------------------------------------------------
Start(p, m, S) ==
  /\ phase[p] = "idle"
  /\ phase' = [phase EXCEPT ![p] = IF S = {} THEN "in" ELSE "acquire"]
  /\ mode' = [mode EXCEPT ![p] = m]
  /\ want' = [want EXCEPT ![p] = S]
  /\ UNCHANGED <<held, turn>>

Lock(p, k) == Start(p, "write", {ShardIndex[k]})
RLock(p, k) == Start(p, "read", {ShardIndex[k]})

\* An empty transaction locks nothing.
lockShards(p, K) == Start(p, "write", {ShardIndex[k] : k \in K})

LockAll(p) == Start(p, "write", Shards)

\* Mutant of IsNext: the shards are not sorted.
IsNextUnsorted(p, i) == phase[p] = "acquire" /\ i \in want[p] \ held[p]

\* The next shard in index order.
IsNext(p, i) == /\ phase[p] = "acquire"
                /\ i \in want[p] \ held[p]
                /\ \A j \in want[p] \ held[p] : i <= j

Readers(i) == {p \in Procs : mode[p] = "read" /\ i \in held[p]}

\* Mutant of Got: the loop over the shards ends after the first.
GotFirst(p, i) ==
  /\ held' = [held EXCEPT ![p] = @ \cup {i}]
  /\ phase' = [phase EXCEPT ![p] = "in"]

Got(p, i) ==
  /\ held' = [held EXCEPT ![p] = @ \cup {i}]
  /\ phase' = [phase EXCEPT ![p] = IF want[p] = held[p] \cup {i} THEN "in" ELSE "acquire"]

\* sync.RWMutex.Lock, first half.
TakeTurn(p, i) ==
  /\ IsNext(p, i) /\ mode[p] = "write"
  /\ turn[i] = NoProc
  /\ turn' = [turn EXCEPT ![i] = p]
  /\ UNCHANGED <<phase, mode, want, held>>

\* sync.RWMutex.Lock, second half: the readers have left.
WriteLock(p, i) ==
  /\ IsNext(p, i) /\ mode[p] = "write"
  /\ turn[i] = p /\ Readers(i) = {}
  /\ Got(p, i)
  /\ UNCHANGED <<mode, want, turn>>

\* Mutant of ReadLock: readers do not give way to a waiting writer.
ReadLockBarging(p, i) ==
  /\ IsNext(p, i) /\ mode[p] = "read"
  /\ \A q \in Procs : turn[i] = q => i \notin held[q]
  /\ Got(p, i)
  /\ UNCHANGED <<mode, want, turn>>

\* sync.RWMutex.RLock.
ReadLock(p, i) ==
  /\ IsNext(p, i) /\ mode[p] = "read"
  /\ turn[i] = NoProc
  /\ Got(p, i)
  /\ UNCHANGED <<mode, want, turn>>

\* Unlock, RUnlock, unlockShards, UnlockAll: one shard, the highest first.
Unlock(p) ==
  /\ phase[p] \in {"in", "release"}
  /\ \/ /\ held[p] = {}
        /\ phase' = [phase EXCEPT ![p] = "idle"]
        /\ UNCHANGED <<held, turn>>
     \/ \E i \in held[p] :
          /\ \A j \in held[p] : j <= i
          /\ held' = [held EXCEPT ![p] = @ \ {i}]
          /\ turn' = IF mode[p] = "write" THEN [turn EXCEPT ![i] = NoProc] ELSE turn
          /\ phase' = [phase EXCEPT ![p] = IF held[p] = {i} THEN "idle" ELSE "release"]
  /\ UNCHANGED <<mode, want>>

MutexNext ==
  \E p \in Procs :
    \/ \E k \in Keys : Lock(p, k) \/ RLock(p, k)
    \/ \E K \in SUBSET Keys : lockShards(p, K)
    \/ LockAll(p)
    \/ \E i \in Shards : TakeTurn(p, i) \/ WriteLock(p, i) \/ ReadLock(p, i)
    \/ Unlock(p)

MutexSpec == MutexInit /\ [][MutexNext]_mutexVars

Acquire(p) == \E i \in Shards : TakeTurn(p, i) \/ WriteLock(p, i) \/ ReadLock(p, i)

\* A holder works and unlocks.  A process that waits for a shard gets it: a
\* sync.Mutex hands itself over to a waiter that has starved, and the readers
\* waiting when a writer unlocks go before the next writer.
MutexFairness == \A p \in Procs : WF_mutexVars(Unlock(p)) /\ SF_mutexVars(Acquire(p))

MutexFairSpec == MutexSpec /\ MutexFairness

-----------------------------------------------------------------------------
(* Properties *)

\* Every variable keeps its type.
MutexTypeOK ==
  /\ phase \in [Procs -> {"idle", "acquire", "in", "release"}]
  /\ mode \in [Procs -> {"none", "read", "write"}]
  /\ want \in [Procs -> SUBSET Shards]
  /\ held \in [Procs -> SUBSET Shards]
  /\ turn \in [Shards -> Procs \cup {NoProc}]

section == [p \in Procs |-> IF phase[p] = "in" THEN [mode |-> mode[p], shards |-> want[p]]
                                               ELSE [mode |-> "none", shards |-> {}]]
Locks == INSTANCE LockSpec WITH inside <- section

\* Shard-by-shard locking looks like one atomic step: while somebody is between
\* the first lock and the last unlock of its call, nobody conflicting is.
AtomicLocks == Locks!Spec

\* Nobody waits for a shard below one it holds ("in sorted index order to
\* prevent deadlocks"): a cycle of waiting processes is impossible.
OrderedWaiting ==
  \A p \in Procs : phase[p] = "acquire" =>
    \A i \in held[p], j \in want[p] \ held[p] : i < j

\* Every call that locks returns, whatever the others lock.
LocksGranted == \A p \in Procs : phase[p] = "acquire" ~> phase[p] = "in"
=============================================================================
