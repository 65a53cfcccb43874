--------------------------- MODULE MCMinisecTurn ---------------------------
EXTENDS MinisecTurn

CONSTANTS a, b, frigate, battleship

F(n, m) == (frigate :> n) @@ (battleship :> m)

\* Planet 1 is a's and planet 2 is free; a's fleets 3 and 4 are at planet 1 and
\* at planet 2, b's fleet 5 is between the planets.
MCStart ==
  (1 :> [owner |-> a, at |-> 0, ships |-> F(0, 0)])
  @@ (2 :> [owner |-> Nobody, at |-> 7, ships |-> F(0, 0)])
  @@ (3 :> [owner |-> a, at |-> 7, ships |-> F(1, 0)])
  @@ (4 :> [owner |-> a, at |-> 7, ships |-> F(1, 1)])
  @@ (5 :> [owner |-> b, at |-> 4, ships |-> F(1, 0)])

MCSpeed == (frigate :> 2) @@ (battleship :> 3)

MCBuildTime == (frigate :> 1) @@ (battleship :> 2)

\* What is built and split off.
MCFleets == {F(1, 0), F(1, 1)}

=============================================================================
