SPECIFICATION FairSpec
CONSTANTS
  s1 = s1
  c1 = c1
  g1 = g1
  k1 = k1
  None = None
  Sessions = {s1}
  Kinds = {"image"}
  Completers = {c1}
  Goroutines = {g1}
  Cleaners = {k1}
  QueueSize = 1
  MaxAttempts = 2
  MaxCompletes = 1
  MaxTroubles = 0
  Punctual = TRUE
CHECK_DEADLOCK FALSE
PROPERTY QueueIsDurable
