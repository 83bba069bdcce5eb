SPECIFICATION Spec
CONSTANTS
  a = a
  b = b
  s1 = s1
  s2 = s2
  Keys <- TwoKeys
  Sessions <- TwoSessions
  Values = {1, 2}
  MaxDepth = 3
  MaxOps = 6
  MaxTime = 2
INVARIANTS TTLAgrees Isolated
PROPERTIES CommitKeepsView
SYMMETRY Symmetry
CHECK_DEADLOCK FALSE
