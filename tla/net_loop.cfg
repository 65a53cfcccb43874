SPECIFICATION Spec
CONSTANTS
  c1 = c1
  c2 = c2
  Conn = {c1, c2}
  MaxFd = 2
  Room = 1
  MaxFrames = 3
  Events = {"bad", "fin", "reset", "stop"}
SYMMETRY Symmetry
CHECK_DEADLOCK FALSE
INVARIANTS
  
  QueuesConsistent
