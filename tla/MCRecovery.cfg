\* The breaker, the connection and the thread panel, under their fairness.
SPECIFICATION AllSpec
CONSTANTS
  c1 = c1
  c2 = c2
  c3 = c3
  Callers = {c1, c2, c3}
  Kind <- MixedKinds
  FailureLimit = 2
  ResetTimeout = 3
  MaxAttempts = 3
  OpTimeout = 2
  MaxMounts = 2
  SocketIds = {s1, s2, s3}
  NoSocket = NoSocket
  TopAttempt = 2
  Typists = {other}
  MaxTyping = 2
  Convs = {a, b}
  Parents = {p, q}
  Home <- OneHome
  NoParent = NoParent
  MaxReplies = 1
  MaxCalls = 2
  MaxMoves = 2
CHECK_DEADLOCK FALSE
INVARIANTS
  TypeOK
  HalfOpenIsolated
  ConnectionSound
PROPERTIES
  OpenWindowFixed
  Recovers
  ThreadCatchesUp
  Reconnects
