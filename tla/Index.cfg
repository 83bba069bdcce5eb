SPECIFICATION FairSpec
CONSTANTS
  a = a
  b = b
  c = c
  r1 = r1
  NoKey = NoKey
  Keys <- TwoKeys
  SlotOf <- OneSlot
  NumSlots = 1
  Readers <- OneReader
  Threshold = 1
  DiskFails = TRUE
  MaxWrites = 2
  MaxPasses = 2
  MaxScans = 1
  MaxCrashes = 1
INVARIANTS ChainOrder ScanRegular
PROPERTIES GetEnds AtomicMap
CHECK_DEADLOCK FALSE
