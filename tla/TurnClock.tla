----------------------------- MODULE TurnClock -----------------------------
(***************************************************************************)
(* What the server promises the players about the length of a turn:        *)
(*   - the time left runs down, and nothing a player does adds to it;      *)
(*   - a turn ends when its time is up, or before that at the moment a     *)
(*     living player finishes and the finished are the share of the living *)
(*     that the settings ask for;                                          *)
(*   - a turn starts with nobody finished.                                 *)
(* Only the operator may set the clock otherwise.                          *)
(***************************************************************************)
EXTENDS Integers, FiniteSets

CONSTANTS
  Person,        \* who can play
  Modulus,       \* turn numbers wrap
  OperatorActs   \* whether the operator of this instance gives commands

Forever == -1    \* the turn has no time limit

VARIABLES
  running,       \* whether the game has started
  turn,          \* the number of the turn
  left,          \* seconds left in it, or Forever
  living,        \* those who play and are alive
  ready,         \* those of them who have finished the turn
  share          \* the percentage of the living that ends a turn early

clockVars == <<running, turn, left, living, ready, share>>

NotLonger == left = Forever \/ left' \in 0 .. left

EndTurn ==
  /\ turn' = (turn + 1) % Modulus
  /\ left' \in Nat \cup {Forever}
  /\ living' \in SUBSET living
  /\ ready' = {}
  /\ UNCHANGED running

-----------------------------------------------------------------------------

Init ==
  /\ running = FALSE
  /\ turn = 0
  /\ left = Forever
  /\ living \in SUBSET Person
  /\ ready = {}

Begin ==
  /\ ~running
  /\ running' = TRUE
  /\ left' \in Nat \cup {Forever}
  /\ UNCHANGED <<turn, living, ready, share>>

Join(p) ==
  /\ living' = living \cup {p}
  /\ UNCHANGED <<running, turn, left, ready, share>>

Second ==
  /\ left > 0
  /\ left' = left - 1
  /\ UNCHANGED <<running, turn, living, ready, share>>

TimeUp ==
  /\ running
  /\ left = 0
  /\ EndTurn
  /\ UNCHANGED share

Finish(p) ==
  /\ running
  /\ p \in living
  /\ ready' = ready \cup {p}
  /\ NotLonger
  /\ UNCHANGED <<running, turn, living, share>>

EndEarly(p) ==
  /\ running
  /\ p \in living
  /\ share > 0
  /\ Cardinality(ready \cup {p}) * 100 >= share * Cardinality(living)
  /\ EndTurn
  /\ UNCHANGED share

Operate ==
  /\ OperatorActs
  /\ \/ EndTurn
     \/ UNCHANGED <<running, turn, living, ready>>

Next ==
  \/ Begin
  \/ \E p \in Person : Join(p) \/ Finish(p) \/ EndEarly(p)
  \/ Second
  \/ TimeUp
  \/ Operate

Spec == Init /\ [][Next]_clockVars
=============================================================================
