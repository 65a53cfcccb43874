SPECIFICATION Spec
CONSTANTS
    None = None
    Never = Never
    MaxId = 1
    Known = {0}
    s1 = s1
    s2 = s2
    Sessions = {s1, s2}
    MaxTime = 2
    MaxTurn = 2
    MaxCrashes = 1
    MaxOps = 2
    MaxList = 1
SYMMETRY Symmetric
CHECK_DEADLOCK FALSE
INVARIANTS
  PagesComplete
  ViewsConsistent
  NothingMissed
