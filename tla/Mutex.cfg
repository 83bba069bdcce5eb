SPECIFICATION MutexFairSpec
CONSTANTS
  p1 = p1
  p2 = p2
  p3 = p3
  ka = ka
  kb = kb
  kc = kc
  NoProc = NoProc
  Procs <- MCProcs
  Keys <- MCKeys
  NumShards = 3
  ShardIndex <- MCShardIndex
INVARIANTS OrderedWaiting
PROPERTIES AtomicLocks LocksGranted
