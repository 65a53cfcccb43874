---- MODULE MCAccounts ----
EXTENDS Accounts, TLC

\* The objects are alike.
Symmetric == Permutations(Objects)
====
