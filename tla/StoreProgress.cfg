SPECIFICATION FairSpec
CONSTANTS
  s1 = s1
  s2 = s2
  a = a
  b = b
  Garbage = Garbage
  Swap = Swap
  NsPerSec = 1000
  Keys <- TwoKeys
  Sessions <- TwoSessions
  MayWrite <- OwnKeys
  Kinds = {"set", "delete", "blob", "persist"}
  TTLs = {1}
  MaxOps = 2
  MaxTime = 0
  MaxCompacts = 1
  MaxCrashes = 0
  WalCap = 1
  FsyncAlways = TRUE
  IndexFails = TRUE
  PowerFails = FALSE
  QuietHalts = TRUE
  BusyClose = TRUE
INVARIANTS LogBehindIndex
PROPERTIES OpsFinish
CHECK_DEADLOCK FALSE
