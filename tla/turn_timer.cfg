SPECIFICATION Spec
CONSTANTS
  p1 = p1
  p2 = p2
  p3 = p3
  Player = {p1, p2, p3}
  Guest = {p3}
  i1 = i1
  i2 = i2
  i3 = i3
  ImplIds = {i1, i2, i3}
  Thresholds = {0, 50, 100}
  LengthsOver = {0, 1}
  LengthsUnder = {0, 2}
  MinLength = 2
  TurnMod = 2
  Commands = {"threshold", "lengths", "turn-end", "turn-reset"}
  NoTimer = NoTimer
SYMMETRY Symmetry
INVARIANTS
  OneClock
  ThresholdOverLiving
  
