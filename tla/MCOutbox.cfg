SPECIFICATION FairSpec
CONSTANTS
  e1 = e1
  e2 = e2
  d1 = d1
  d2 = d2
  None = None
  Events = {e1, e2}
  Poison = {e1}
  Dispatchers = {d1, d2}
  Limit = 2
  PublishAttempts = 2
  MaxCopies = 2
  MaxCrashes = 2
  MaxSlow = 2
CHECK_DEADLOCK FALSE
INVARIANTS
  TypeOK
  NoPhantomEvent
  AckedIsInTopic
  DuplicateNeedsCause
PROPERTIES
  OnlyOwnerSettles
  AckIsFinal
  DeliversAtLeastOnce
  EventuallyAcked
