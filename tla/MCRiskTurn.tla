----------------------------- MODULE MCRiskTurn -----------------------------
EXTENDS RiskTurn

CONSTANTS a, b, guest

\* Three planets in a row, the first two a constellation.
MCAdjacent == (1 :> {2}) @@ (2 :> {1, 3}) @@ (3 :> {2})

MCConstellations == {[planets |-> {1, 2}, bonus |-> 1], [planets |-> {3}, bonus |-> 0]}
=============================================================================
