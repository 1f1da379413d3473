SPECIFICATION Spec
CONSTANTS
  Workers = {w1, w2}
  k1 = k1
  k2 = k2
  Keys = {k1, k2}
  Garbage = Garbage
  None = None
  Log <- TwoEvents
  Max <- OneRebalance
CHECK_DEADLOCK FALSE
INVARIANT ReprocessingIsSafe
