CONSTANTS
  k1 = k1
  p1 = p1
  p2 = p2
  None = None
  Keys <- OneKey
  Requests <- TwoRequests
  Sizes <- SmallSizes
  Ranges <- SomeRanges
  CacheSizes <- Caches
  MaxPuts = 3
SPECIFICATION Spec
INVARIANTS CacheCounts KeepsRecent AnswerWhole RangeExact
SYMMETRY Symmetry
CHECK_DEADLOCK FALSE
