SPECIFICATION FairSpec
CONSTANTS
  p1 = p1
  p2 = p2
  p3 = p3
  Player = {p1, p2, p3}
  Guest = {p3}
  i1 = i1
  i2 = i2
  i3 = i3
  ImplIds = {i1, i2, i3}
  Thresholds = {0, 50, 100}
  LengthsOver = {0, 1, 2}
  LengthsUnder = {0, 1, 3}
  MinLength = 2
  TurnMod = 2
  Commands = {}
  NoTimer = NoTimer
INVARIANT ThresholdShortens
PROPERTY KeepsPromise
PROPERTY TurnComesAround
PROPERTY ThresholdEndsTurn
