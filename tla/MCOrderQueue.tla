---------------------------- MODULE MCOrderQueue ----------------------------
(* Small instances of OrderQueue for TLC.  The players are interchangeable. *)
EXTENDS OrderQueue, TLC

Symmetry == Permutations(Player)

\* After a refused statement only the ids are told apart, and two orders are
\* enough for those to meet.
Followed == trouble = "error" => given < MaxOrders
=============================================================================
