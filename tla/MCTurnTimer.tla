---------------------------- MODULE MCTurnTimer ----------------------------
(* Small instances of TurnTimer for TLC.  Guests and other players are two  *)
(* classes of interchangeable values, and so are the callback objects.      *)
EXTENDS TurnTimer, TLC

Symmetry ==
  Permutations(Player \ Guest) \cup Permutations(Guest) \cup Permutations(ImplIds)
=============================================================================
