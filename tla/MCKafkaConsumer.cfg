SPECIFICATION FairSpec
CONSTANTS
  Workers = {w1, w2}
  k1 = k1
  k2 = k2
  Keys = {k1, k2}
  Garbage = Garbage
  None = None
  Log <- LogWithDuplicate
  Max <- MaxAll
CHECK_DEADLOCK FALSE
INVARIANTS
  TypeOK
  ExclusiveHandling
  DoubleEffectNeedsCause
PROPERTIES
  CommitsOnlyDone
  EveryEventHandled
