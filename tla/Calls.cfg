CONSTANTS
  c1 = c1
  c2 = c2
  t1 = t1
  t2 = t2
  None = None
  Conns <- OneConn
  Threads <- TwoThreads
  Listers <- OneLister
  ClientOf <- Shared
  Kinds <- OnlyGo
  Counts <- ZeroOrOne
  Name <- Names
  Patterns <- SomePatterns
  WireCap = 1
  MaxCalls = 1
  MaxChanges = 1
SPECIFICATION FairSpec
INVARIANTS OwnReply WalkTracks ShutdownWaits
PROPERTIES CallEnds ShutdownEnds
CHECK_DEADLOCK FALSE
