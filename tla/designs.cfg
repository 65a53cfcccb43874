SPECIFICATION Spec
CONSTANTS
  Players = {1, 2}
  MaxDesign = 2
  Components = {1, 2}
  Kits = {{1}, {2}}
  Valid <- MCValid
  Word = 8
  MaxOps = 3
  MaxTurns = 2
  MaxCrashes = 2
  None = None
CHECK_DEADLOCK FALSE
INVARIANTS
  UsableIsThere
  
  DesignsConsistent

  
