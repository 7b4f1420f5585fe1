SPECIFICATION FairSpec
CONSTANTS
  k1 = k1
  f1 = f1
  f2 = f2
  Post = Post
  Keys = {k1}
  Flushes <- MCFlushes
  MaxSaves = 3
  MaxLosses = 1
  MaxEvents = 1
INVARIANTS
  TypeOK
  KeptUntilDelivered
  PostedOnce
  SettlesOnLatest
PROPERTIES
  Drains
CHECK_DEADLOCK FALSE
