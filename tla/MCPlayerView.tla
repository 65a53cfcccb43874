---- MODULE MCPlayerView ----
EXTENDS PlayerView, TLC

\* The sessions are alike.
Symmetric == Permutations(Sessions)
====
