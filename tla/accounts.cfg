SPECIFICATION Spec
CONSTANTS
    None = None
    Names = {ann, bob}
    Objects = {o1, o2}
    MaxPlayer = 2
    MaxBoard = 3
    MaxMessage = 4
    MaxPosts = 4
    MaxTurns = 1
    MaxCrashes = 1
    Autoadd = TRUE
SYMMETRY Symmetric
CHECK_DEADLOCK FALSE
INVARIANTS
  EachOwnBoard
  
  PlayersConsistent
