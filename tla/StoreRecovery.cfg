SPECIFICATION Spec
CONSTANTS
  s1 = s1
  s2 = s2
  a = a
  b = b
  Garbage = Garbage
  Swap = Swap
  NsPerSec = 1000
  Keys <- TwoKeys
  Sessions <- TwoSessions
  MayWrite <- OwnKeys
  Kinds = {"set", "delete"}
  TTLs = {0}
  MaxOps = 3
  MaxTime = 0
  MaxCompacts = 1
  MaxCrashes = 1
  WalCap = 2
  FsyncAlways = TRUE
  IndexFails = FALSE
  PowerFails = TRUE
  QuietHalts = FALSE
  BusyClose = TRUE
INVARIANTS SettledSurvives
CHECK_DEADLOCK FALSE
