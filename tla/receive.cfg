SPECIFICATION FairSpec
CONSTANTS
  VersionLength = 2
  HeaderLength = 3
  ClientFrames <- Mixed
  Pipelining = TRUE
  MaxFrames = 2
CHECK_DEADLOCK FALSE
INVARIANTS
  NothingMixed
PROPERTIES
  EveryFrameRead
  
