SPECIFICATION FairSpec
CONSTANTS
  c1 = c1
  c2 = c2
  compact = compact
  Callers <- MCCallers
  Compactor = compact
  MaxWrites = 2
  MaxCompacts = 1
  WalCap = 1
  MaxBatch = 2
INVARIANTS AckedDurable LogOrder ExitSynced
PROPERTIES CallsAnswered LinesSynced
CHECK_DEADLOCK FALSE
