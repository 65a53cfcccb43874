SPECIFICATION Spec
CONSTANTS
  a = a
  b = b
  frigate = frigate
  battleship = battleship
  Player = {a, b}
  Nobody = Nobody
  Planet = {1, 2}
  MaxId = 6
  Design = {frigate, battleship}
  Coloniser = {frigate}
  Speed <- MCSpeed
  BuildTime <- MCBuildTime
  Start <- MCStart
  Places = {0, 7}
  Fleets <- MCFleets
  Waits = {2}
  MaxOrders = 3
INVARIANTS
  ObjectsConsistent
  OrdersFromOwner
  ViewsCurrent
  LastOneWins
PROPERTIES
  ShipsKept
