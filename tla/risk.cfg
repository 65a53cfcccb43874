SPECIFICATION Spec
CONSTANTS
  a = a
  b = b
  guest = guest
  Player = {a, b, guest}
  Guest = guest
  Nobody = Nobody
  Planet = {1, 2, 3}
  Adjacent <- MCAdjacent
  Constellations <- MCConstellations
  Word = 64
  MaxPlayers = 2
  RandomlyAssign = FALSE
  DefaultArmies = 2
  RfcStart = 1
  RfcRate = 2
  RfcNumber = 1
  AttackDmg = 1
  Units = {2}
  MaxTargets = 2
  MaxOrders = 3
  MaxTurns = 2
  MaxLimit = 3
INVARIANTS
  
  OrdersFromOwner
PROPERTIES
  
  DominationLasts
