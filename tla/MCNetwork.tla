----------------------------- MODULE MCNetwork -----------------------------
(* Small instances of Network for TLC.  The objects are interchangeable; the *)
(* descriptors, which order the connections, are not.                       *)
EXTENDS Network, TLC

Symmetry == Permutations(Conn)
=============================================================================
