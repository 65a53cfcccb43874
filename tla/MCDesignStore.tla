--------------------------- MODULE MCDesignStore ---------------------------
(* A small instance of DesignStore for TLC: a design is valid when it has the *)
(* first component.                                                         *)
EXTENDS DesignStore

MCValid == {cs \in SUBSET Components : 1 \in cs}
=============================================================================
