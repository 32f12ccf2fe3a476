SPECIFICATION FairSpec
CONSTANTS
  s1 = s1
  s2 = s2
  w1 = w1
  w2 = w2
  None = None
  Ids = {s1}
  Streams = {w1}
  WatchBuffer = 2
  MaxRev = 3
INVARIANTS
  NothingLost
  DeletionReachesReplayed
PROPERTIES
  PublishersNeverWait
  StreamsCatchUp
  ImplementsStreamContract
CHECK_DEADLOCK FALSE
