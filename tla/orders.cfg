SPECIFICATION Spec
CONSTANTS
  p1 = p1
  p2 = p2
  Player = {p1, p2}
  MaxQueue = 1
  MaxOrders = 3
  Turns = 1
  Faults = {"crash", "error"}
SYMMETRY Symmetry
CONSTRAINT Followed
INVARIANTS
  IdsUnique
  GoneStaysGone
  StoredAsHeld
PROPERTY KeepsPromise
