------------------------------ MODULE RiskTurn ------------------------------
(***************************************************************************)
(* The risk ruleset: the players who join, the orders they give, and the   *)
(* end of a turn, RiskTurn::doTurn.                                        *)
(*                                                                         *)
(* doTurn visits the planets in the order of their ids four times.  The    *)
(* first three times it carries out the orders of one type that are at the *)
(* front of each queue, the last time all that are left; then it hands out *)
(* reinforcements.  An order of several targets is carried out one target  *)
(* at a time, and the ids of the targets still to come are in "doing".     *)
(*                                                                         *)
(* The dice may fall in any way, a map ordered by pointers is visited in   *)
(* any order, and numbers of armies wrap at Word (2^32 in the code).       *)
(* Universe, constellations, systems and wormholes never change: they are  *)
(* the constants Adjacent and Constellations.  Messages, views, names and  *)
(* modification times are left out.                                        *)
(***************************************************************************)
EXTENDS Integers, SequencesExt

CONSTANTS
  Player,          \* everybody who may log in
  Guest,           \* the player called guest
  Nobody,          \* player 0
  Planet,          \* the ids of the planets
  Adjacent,        \* Graph: the planets next to a planet
  Constellations,  \* the planets and the bonus of each
  Word,            \* armies are counted modulo Word
  MaxPlayers,      \* the setting max_players at first
  RandomlyAssign,  \* the setting risk_randomly_assign
  DefaultArmies,   \* the setting risk_default_planet_armies
  RfcStart,        \* the setting risk_rfc_start
  RfcRate,         \* the setting risk_rfc_rate
  RfcNumber,       \* the setting risk_rfc_number
  AttackDmg,       \* the setting risk_attack_dmg
  Units,           \* the numbers that orders ask for
  MaxTargets,      \* bound: targets of an order
  MaxOrders,       \* bound: orders given
  MaxTurns,        \* bound: turns
  MaxLimit         \* bound: how far the guest can raise max_players

ASSUME ConstantsAssumption ==
  /\ Planet \subseteq Nat
  /\ Guest \in Player /\ Nobody \notin Player
  /\ Adjacent \in [Planet -> SUBSET Planet]
  /\ \A p \in Planet : p \notin Adjacent[p]
  /\ \A c \in Constellations : c.planets \subseteq Planet /\ c.bonus \in Nat
  /\ {Word, RfcRate, AttackDmg, DefaultArmies} \subseteq Nat \ {0}
  /\ {RfcStart, RfcNumber, MaxPlayers, MaxTargets, MaxOrders, MaxTurns, MaxLimit} \subseteq Nat
  /\ Units \subseteq 0 .. Word - 1
  /\ RandomlyAssign \in BOOLEAN

VARIABLES
  planet,   \* the planets: owner, armies, and their order queues
  reserve,  \* Risk::reinforcements
  joined,   \* the players of the PlayerManager
  limit,    \* the setting max_players
  phase,    \* which orders doTurn is processing
  at,       \* the planet it has reached
  doing,    \* what is left of the order in progress: targets and units
  winner,   \* who was last announced
  turn,     \* turns done
  given     \* number of orders given

vars == <<planet, reserve, joined, limit, phase, at, doing, winner, turn, given>>

Owner == Player \cup {Nobody}

First == Min(Planet)

Nothing == <<>>

\* What an order asks for: targets, and the units for each.
Lists == {l \in UNION {[S -> Units] : S \in SUBSET Planet} :
            DOMAIN l # {} /\ Cardinality(DOMAIN l) <= MaxTargets}

Order == [type : {"Move", "Colonize"}, by : Player, list : Lists]
         \cup [type : {"Reinforce"}, by : Player, units : Units]

-----------------------------------------------------------------------------
(* Planets *)

\* ResourceListParam: the value that leaves a number as it is.
KeepVal == Word - 1

Minus(a, b) == (a - b + Word) % Word

SetResource(ps, p, armies, minable) ==
  [ps EXCEPT ![p].army = IF armies = KeepVal THEN @ ELSE armies, ![p].minable = minable]

AddResource(ps, p, armies) ==
  SetResource(ps, p, (ps[p].army + armies) % Word, ps[p].minable)

RemoveResource(ps, p, armies) ==
  [ps EXCEPT ![p].army = IF @ >= armies THEN @ - armies ELSE 0]

SetOwner(ps, p, who) ==
  [ps EXCEPT ![p].owner = who, ![p].owners = (@ \ {ps[p].owner}) \cup {who}]

IsBoardClaimed(ps) == \A p \in Planet : ps[p].owner # Nobody

\* Planet::setOrderTypes: whether Colonize is allowed.
OrderTypes(ps) == ~RandomlyAssign /\ ~IsBoardClaimed(ps)

\* How many units may leave a planet: one stays, unless there is none.
\* Mutant: the last one may leave as well.
RestrainedToAll(p, units) == IF units >= planet[p].army THEN planet[p].army ELSE units

Restrained(p, units) ==
  IF units >= planet[p].army /\ planet[p].army > 0 THEN planet[p].army - 1 ELSE units

-----------------------------------------------------------------------------
(* Players join and give orders *)

NewPlanet == [owner |-> Nobody, army |-> 0, minable |-> 0,
              orders |-> <<>>, owners |-> {}, colonize |-> FALSE]

Init ==
  /\ planet = [p \in Planet |-> NewPlanet]
  /\ reserve = [pl \in Player |-> 0]
  /\ joined = {}
  /\ limit = MaxPlayers
  /\ phase = "play" /\ at = First /\ doing = Nothing
  /\ winner = Nobody
  /\ turn = 0 /\ given = 0

\* Risk::randomlyPickPlanets gives the planets one after the other; the last
\* of all finds the board claimed, and so does not allow Colonize.
Given(S, pl, reinforcements, last) ==
  [p \in Planet |->
     IF p \notin S THEN planet[p]
     ELSE [SetResource(SetOwner(planet, p, pl), p, DefaultArmies, reinforcements)[p]
             EXCEPT !.colonize = ~RandomlyAssign /\ p # last]]

RandomlyPickPlanets(pl, number) ==
  LET open == {p \in Planet : planet[p].owner = Nobody}
      size == Min({number, Cardinality(open)})
  IN  \E S \in kSubset(size, open) :
        \E last \in IF S = open THEN S ELSE {Nobody} :
          planet' = Given(S, pl, RfcStart, last)

\* Risk::onAddPlayer, which refuses a player, and Risk::onPlayerAdded.
AddPlayer(pl) ==
  LET raised == IF pl = Guest THEN limit + 1 ELSE limit
      free   == Cardinality(joined) < raised /\ ~IsBoardClaimed(planet)
  IN  /\ phase = "play"
      /\ pl \notin joined
      /\ raised <= MaxLimit
      /\ limit' = raised
      /\ joined' = IF free THEN joined \cup {pl} ELSE joined
      /\ IF free /\ pl # Guest
         THEN /\ reserve' = [reserve EXCEPT ![pl] = RfcStart]
              /\ RandomlyPickPlanets(pl, IF RandomlyAssign
                                         THEN Cardinality(Planet) \div limit ELSE 1)
         ELSE UNCHANGED <<reserve, planet>>
      /\ UNCHANGED <<phase, at, doing, winner, turn, given>>

\* The targets that generateListOptions offers for an order.
Offered(p, type) ==
  IF type = "Move" THEN Adjacent[p] ELSE {q \in Planet : planet[q].owner = Nobody}

\* PlayerAgent::processAddOrder and OrderQueue::addOrder.
GiveOrder(p, order) ==
  /\ phase = "play"
  /\ given < MaxOrders
  /\ order.by \in planet[p].owners
  /\ order.type = "Colonize" => planet[p].colonize
  /\ order.type # "Reinforce" => DOMAIN order.list \subseteq Offered(p, order.type)
  /\ planet' = [planet EXCEPT ![p].orders = Append(@, order)]
  /\ given' = given + 1
  /\ UNCHANGED <<reserve, joined, limit, phase, at, doing, winner, turn>>

-----------------------------------------------------------------------------
(* RiskTurn::processOrdersOfGivenType *)

StartTurn ==
  /\ phase = "play"
  /\ turn < MaxTurns
  /\ turn' = turn + 1
  /\ phase' = "Colonize" /\ at' = First
  /\ UNCHANGED <<planet, reserve, joined, limit, doing, winner, given>>

FirstOrder(p) == Head(planet[p].orders)

\* Planets still to be visited whose first order is of the type.
Ready == {p \in Planet : /\ p >= at
                         /\ planet[p].orders # <<>>
                         /\ phase \in {FirstOrder(p).type, "All"}}

NextPhase ==
  /\ phase \notin {"play", "End"}
  /\ doing = Nothing
  /\ Ready = {}
  /\ phase' = CASE phase = "Colonize" -> "Reinforce"
                [] phase = "Reinforce" -> "Move"
                [] phase = "Move" -> "All"
                [] phase = "All" -> "End"
  /\ at' = First
  /\ UNCHANGED <<planet, reserve, joined, limit, doing, winner, turn, given>>

RemoveOrder(ps, p) == [ps EXCEPT ![p].orders = Tail(@)]

\* Move::doOrder and Colonize::doOrder begin with all their targets.
StartOrder ==
  /\ phase \notin {"play", "End"}
  /\ doing = Nothing
  /\ Ready # {}
  /\ LET p == Min(Ready) IN
       /\ FirstOrder(p).type \in {"Move", "Colonize"}
       /\ at' = p
       /\ doing' = FirstOrder(p).list
  /\ UNCHANGED <<planet, reserve, joined, limit, phase, winner, turn, given>>

\* Reinforce::doOrder
Reinforce ==
  /\ phase \notin {"play", "End"}
  /\ doing = Nothing
  /\ Ready # {}
  /\ LET p == Min(Ready)
         o == FirstOrder(p)
         who == planet[p].owner
         requested == Min({o.units, reserve[who]})
     IN  /\ o.type = "Reinforce"
         /\ at' = p
         /\ planet' = RemoveOrder(AddResource(planet, p, requested), p)
         /\ reserve' = [reserve EXCEPT ![who] = @ - requested]
  /\ UNCHANGED <<joined, limit, phase, doing, winner, turn, given>>

\* A target is done with; after the last one the order is removed.
TargetDone(t, ps) ==
  /\ doing' = IF DOMAIN doing = {t} THEN Nothing ELSE Restrict(doing, DOMAIN doing \ {t})
  /\ planet' = IF DOMAIN doing = {t} THEN RemoveOrder(ps, at) ELSE ps

-----------------------------------------------------------------------------
(* Colonize::doOrder *)

\* The Colonize orders at the front of a queue.
FrontColonize(p) ==
  {i \in 1 .. Len(planet[p].orders) :
     \A j \in 1 .. i : planet[p].orders[j].type = "Colonize"}

Bid(p, t) ==
  SumFunction([i \in {j \in FrontColonize(p) : t \in DOMAIN planet[p].orders[j].list} |->
                 planet[p].orders[i].list[t]])

Bidders(t) ==
  {p \in Planet : \E i \in FrontColonize(p) : t \in DOMAIN planet[p].orders[i].list}

\* Colonize::getTopPlayerAndBid takes the last in a map ordered by pointers.
Colonize(t) ==
  /\ doing # Nothing
  /\ FirstOrder(at).type = "Colonize"
  /\ t \in DOMAIN doing
  /\ IF planet[t].owner = Nobody
     THEN \E top \in Bidders(t) :
            LET bid == Restrained(top, Bid(top, t) % Word)
            IN  TargetDone(t, RemoveResource(
                       AddResource(SetOwner(planet, t, planet[top].owner), t, bid), top, bid))
     ELSE TargetDone(t, planet)
  /\ UNCHANGED <<reserve, joined, limit, phase, at, winner, turn, given>>

-----------------------------------------------------------------------------
(* Move::doOrder *)

\* Move::isTargetAttackingOrigin
IsTargetAttackingOrigin(p, t) ==
  /\ planet[t].army > 1
  /\ \E i \in DOMAIN planet[t].orders :
       planet[t].orders[i].type = "Move" /\ p \in DOMAIN planet[t].orders[i].list

OriginOdds(p) == Min({Minus(planet[p].army, 1) \div AttackDmg, 3})

TargetOdds(p, t) ==
  (IF planet[t].army \div AttackDmg > 2 THEN 2
   ELSE IF OriginOdds(p) # 0 THEN 1
   ELSE planet[t].army \div AttackDmg)
  + (IF IsTargetAttackingOrigin(p, t) THEN 1 ELSE 0)

\* Move::attackRoll: who loses how many of the pairs of dice.
AttackRoll(attacker, defender) ==
  LET pairs == Min({attacker, defender})
  IN  {[first |-> lost, second |-> pairs - lost] : lost \in 0 .. pairs}

\* The queue of a planet is emptied when it is taken.
\* Mutant: it is not.
ConqueredWithOrders(ps, p, t, units) ==
  RemoveResource(SetResource(SetOwner(ps, t, ps[p].owner), t, units, ps[p].minable), p, units)

Conquered(ps, p, t, units) ==
  [RemoveResource(SetResource(SetOwner(ps, t, ps[p].owner), t, units, ps[p].minable), p, units)
     EXCEPT ![t].orders = <<>>]

Attacked(p, t, units, roll) ==
  LET lost == RemoveResource(RemoveResource(planet, p, roll.first * AttackDmg),
                             t, roll.second * AttackDmg)
      left == Minus(units, roll.first * AttackDmg)
  IN  IF lost[t].army = 0 /\ left > 0 THEN Conquered(lost, p, t, left) ELSE lost

\* Mutant: the units stay where they were as well.
CarriedCopied(ps, p, t, units) == AddResource(ps, t, units)

Carried(ps, p, t, units) == AddResource(RemoveResource(ps, p, units), t, units)

\* The targets are visited in the order of their ids.
Move ==
  /\ doing # Nothing
  /\ FirstOrder(at).type = "Move"
  /\ LET t     == Min(DOMAIN doing)
         units == Restrained(at, doing[t])
     IN  \/ /\ planet[t].owner = planet[at].owner
            /\ TargetDone(t, Carried(planet, at, t, units))
         \/ /\ planet[t].owner = Nobody
            /\ TargetDone(t, Carried(SetOwner(planet, t, planet[at].owner), at, t, units))
         \/ /\ planet[t].owner \notin {planet[at].owner, Nobody}
            /\ \E roll \in AttackRoll(OriginOdds(at), TargetOdds(at, t)) :
                 TargetDone(t, Attacked(at, t, units, roll))
  /\ UNCHANGED <<reserve, joined, limit, phase, at, winner, turn, given>>

-----------------------------------------------------------------------------
(* The end of the turn *)

OwnedBy(pl) == {p \in Planet : planet[p].owner = pl}

\* RiskTurn::calculateReinforcements and calculateBonusReinforcements
Reinforcements(pl) ==
  LET whole == {c \in Constellations : c.planets # {} /\ c.planets \subseteq OwnedBy(pl)}
  IN  RfcNumber * (Cardinality(OwnedBy(pl)) \div RfcRate)
      + SumFunction([c \in whole |-> c.bonus])

\* Mutant: the last army does not count.
DoneTooFew(ps, p, reserves) ==
  IF ps[p].owner = Nobody THEN ps
  ELSE LET shown == [ps EXCEPT ![p].minable = reserves[ps[p].owner]]
       IN  IF ps[p].army <= 1 THEN SetOwner(shown, p, Nobody) ELSE shown

\* Planet::doOnceATurn: a planet without armies is nobody's.
Done(ps, p, reserves) ==
  IF ps[p].owner = Nobody THEN ps
  ELSE LET shown == [ps EXCEPT ![p].minable = reserves[ps[p].owner]]
       IN  IF ps[p].army = 0 THEN SetOwner(shown, p, Nobody) ELSE shown

\* The planets are visited in the order of their ids.
DoOnceATurn(reserves) ==
  FoldLeft(LAMBDA ps, p : LET done == Done(ps, p, reserves)
                          IN  [done EXCEPT ![p].colonize = OrderTypes(done)],
           planet, SetToSortSeq(Planet, <))

Owners(ps) == {ps[p].owner : p \in Planet} \ {Nobody}

\* RiskTurn::getWinner
Winner(ps) ==
  IF Cardinality(Owners(ps)) = 1 THEN CHOOSE pl \in Owners(ps) : TRUE ELSE Nobody

EndTurn ==
  /\ phase = "End"
  /\ reserve' = [pl \in Player |-> (reserve[pl] + Reinforcements(pl)) % Word]
  /\ planet' = DoOnceATurn(reserve')
  /\ winner' = Winner(planet')
  /\ phase' = "play"
  /\ UNCHANGED <<joined, limit, at, doing, turn, given>>

DoTurn == NextPhase \/ StartOrder \/ Reinforce \/ (\E t \in Planet : Colonize(t)) \/ Move \/ EndTurn

\* The bounds are reached: nothing else is asked of the game.
Finished == phase = "play" /\ turn = MaxTurns /\ UNCHANGED vars

Next ==
  \/ \E pl \in Player : AddPlayer(pl)
  \/ \E p \in Planet, order \in Order : GiveOrder(p, order)
  \/ StartTurn
  \/ DoTurn
  \/ Finished

Spec == Init /\ [][Next]_vars

-----------------------------------------------------------------------------
(* Properties *)

\* The types of the variables; no count leaves its word.
TypeOK ==
  /\ planet \in [Planet -> [owner : Owner, army : 0 .. Word - 1, minable : Nat,
                            orders : Seq(Order), owners : SUBSET Owner, colonize : BOOLEAN]]
  /\ reserve \in [Player -> 0 .. Word - 1]
  /\ joined \subseteq Player
  /\ limit \in Nat
  /\ phase \in {"play", "Colonize", "Reinforce", "Move", "All", "End"}
  /\ at \in Planet
  /\ doing \in {Nothing} \cup Lists
  /\ winner \in Owner
  /\ turn \in 0 .. MaxTurns
  /\ given \in 0 .. MaxOrders

\* An order is carried out for the player who gave it: whatever planets change
\* hands in a turn, the orders in a queue are those of the planet's owner, and
\* he is the only player to whom the queue answers.
OrdersFromOwner ==
  \A p \in Planet :
    /\ \A i \in DOMAIN planet[p].orders : planet[p].orders[i].by = planet[p].owner
    /\ planet[p].owners \ {Nobody} = {planet[p].owner} \ {Nobody}

\* A planet with orders to carry out has armies to do it with, so that no order
\* is computed from the 0 - 1 that an empty planet has to spare.
ArmedOrders == \A p \in Planet : planet[p].orders # <<>> => planet[p].army > 0

\* Between turns every planet shows the reserve of its owner, from which the
\* options of the next orders are counted.
ShownReserve ==
  phase = "play" =>
    \A p \in Planet : planet[p].owner # Nobody => planet[p].minable = reserve[planet[p].owner]

\* A planet is fit for what is asked of it next: its numbers stay within their
\* words, and it has armies for its orders and shows what it may place.
PlanetsConsistent == TypeOK /\ ArmedOrders /\ ShownReserve

Armies == SumFunction([p \in Planet |-> planet[p].army]) + SumFunction(reserve)

\* Orders only move armies about, place those of the reserve, and destroy them:
\* new ones come at the end of the turn and with new players.
ArmiesNotMade ==
  [][phase \notin {"play", "End"} => Armies' <= Armies]_vars

\* Universal domination is for good: the only player with planets keeps the last
\* of them, and stays the only one, until somebody joins.
DominationLasts ==
  [][Cardinality(Owners(planet)) = 1 /\ joined' = joined => Owners(planet') = Owners(planet)]_vars
=============================================================================
