----------------------------- MODULE OrderList -----------------------------
(***************************************************************************)
(* What an order queue promises to a player, whatever is cached, stored or *)
(* reloaded: a list of orders.  A new order goes in at some place, any     *)
(* order may be taken out, the list may be cleared, and only the first     *)
(* order is worked on, turn after turn.                                    *)
(***************************************************************************)
EXTENDS Naturals, SequencesExt

CONSTANTS
  Key,   \* the lists
  Turns  \* the turns a new order takes

VARIABLES
  list,  \* [Key -> Seq([order : Nat, turns : Nat])]
  given  \* number of orders given so far: orders are numbered

Init ==
  /\ list = [k \in Key |-> <<>>]
  /\ given = 0

Give(k) ==
  /\ given' = given + 1
  /\ \E pos \in 1 .. Len(list[k]) + 1 :
       list' = [list EXCEPT ![k] =
                 InsertAt(@, pos, [order |-> given + 1, turns |-> Turns])]

TakeOut(k) ==
  /\ \E pos \in 1 .. Len(list[k]) : list' = [list EXCEPT ![k] = RemoveAt(@, pos)]
  /\ UNCHANGED given

WorkOnFirst(k) ==
  /\ list[k] # <<>>
  /\ \E left \in 0 .. list[k][1].turns :
       list' = [list EXCEPT ![k][1].turns = left]
  /\ UNCHANGED given

Clear(k) ==
  /\ list' = [list EXCEPT ![k] = <<>>]
  /\ UNCHANGED given

Next == \E k \in Key : Give(k) \/ TakeOut(k) \/ WorkOnFirst(k) \/ Clear(k)

Spec == Init /\ [][Next]_<<list, given>>
=============================================================================
