SPECIFICATION FairSpec
CONSTANTS
  c1 = c1
  c2 = c2
  Conn = {c1, c2}
  MaxFd = 2
  Room = 1
  MaxFrames = 2
  Events = {}
CHECK_DEADLOCK FALSE
PROPERTY EveryFrameArrives
PROPERTY EveryRequestServed
