---- MODULE MCTurnStore ----
EXTENDS TurnStore

\* A game created anew, of which no property speaks, is not followed further.
Followed == ~anew
====
