----------------------------- MODULE MCReceive -----------------------------
(* Small instances of Receive for TLC: lengths are counted in units, two to *)
(* the version field and three to a header.                                 *)
EXTENDS Receive, TLC

Shows(v, t, l) == [version |-> v, type |-> t, len |-> l]

\* Connect frames of every kind of version, and what may follow one in the
\* same version or another: a type that does not exist, no body, and a length
\* that no frame has.
Mixed ==
  {Shows("3", "connect", 2), Shows("3", "connect", 0), Shows("4", "connect", 2),
   Shows("3", "unknown", 2), Shows("3", "invalid", 0), Shows("old", "connect", 0),
   Shows("future", "connect", 0), Shows("unknown", "connect", 2)}
=============================================================================
