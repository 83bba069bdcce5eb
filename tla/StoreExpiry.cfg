SPECIFICATION Spec
CONSTANTS
  s1 = s1
  s2 = s2
  a = a
  b = b
  Garbage = Garbage
  Swap = Swap
  NsPerSec = 1000
  Keys <- TwoKeys
  Sessions <- TwoSessions
  MayWrite <- OneSession
  Kinds = {"set", "delete", "commit", "repl"}
  TTLs = {0, 1}
  MaxOps = 2
  MaxTime = 2
  MaxCompacts = 0
  MaxCrashes = 2
  WalCap = 1
  FsyncAlways = TRUE
  IndexFails = FALSE
  PowerFails = FALSE
  QuietHalts = FALSE
  BusyClose = FALSE
INVARIANTS EvictionSafe SettledSurvives
CHECK_DEADLOCK FALSE
