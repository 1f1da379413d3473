SPECIFICATION Spec
CONSTANTS
  s1 = s1
  c1 = c1
  c2 = c2
  g1 = g1
  k1 = k1
  None = None
  Sessions = {s1}
  Kinds = {"image", "other"}
  Completers = {c1, c2}
  Goroutines = {g1}
  Cleaners = {k1}
  QueueSize = 1
  MaxAttempts = 2
  MaxCompletes = 2
  MaxTroubles = 1
  Punctual = FALSE
SYMMETRY CompleterSymmetry
CHECK_DEADLOCK FALSE
INVARIANTS
  TypeOK
  IntactUntilExpiry
  OneAttachment
  AttemptsBounded
  JobsAreAccounted
