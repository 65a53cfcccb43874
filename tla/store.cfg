SPECIFICATION Spec
CONSTANTS
    NoRow = NoRow
    Absent = Absent
    Null = Null
    MaxId = 2
    MaxTurn = 2
    Vals = {1, 2}
    MaxCrashes = 2
    MaxFails = 1
    MaxOps = 2
CHECK_DEADLOCK FALSE
CONSTRAINT Followed
INVARIANTS
  Recovered
  ObjectsConsistent
  FreshIds
