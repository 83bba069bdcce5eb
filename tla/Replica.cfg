CONSTANTS
  k1 = k1  k2 = k2  s1 = s1  s2 = s2  r1 = r1
  NoOne = NoOne
  Keys <- TwoKeys
  Sessions <- TwoSessions
  Replicas <- OneReplica
  Clients <- BothClients
  ChanCap = 1
  WireCap = 1
  QueueCap = 1
  MaxOps = 2
  MaxTime = 1
  MaxDials = 2
SPECIFICATION Spec
INVARIANTS ReplicaTracks QuietInSync NeverStuck
SYMMETRY Symmetry
CHECK_DEADLOCK FALSE
