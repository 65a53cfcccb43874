---------------------------- MODULE MinisecTurn ----------------------------
(***************************************************************************)
(* The end of a turn in the minisec ruleset: MinisecTurn::doTurn, the      *)
(* orders it carries out, and what they do to the objects of the           *)
(* ObjectManager, to the order queues and to the views and the lives of    *)
(* the players.                                                            *)
(*                                                                         *)
(* Between turns the players give orders (phase "play").  The turn goes    *)
(* through its phases in one call: the moves in the order of the object    *)
(* ids ("move"), the battles ("fight"), the other orders, again in the     *)
(* order of ids ("orders"), and the players ("play" again).  Objects that  *)
(* are used up or destroyed stay in the ObjectManager as dead ones until   *)
(* clearRemovedObjects, which runs after the battles and after the orders. *)
(*                                                                         *)
(* Space has one dimension, and the universe stands for every container    *)
(* that is not a planet.  A battle ends in any way: RSPCombat only ever    *)
(* takes ships and planets away, and which is left open here.  Damage,     *)
(* velocity, messages, names and modification times are left out.  The     *)
(* guest is one more player who is dead and owns nothing.                  *)
(***************************************************************************)
EXTENDS Integers, SequencesExt

CONSTANTS
  Player,      \* the players but the guest, all with something at first
  Nobody,      \* player 0
  Planet,      \* the ids of the planets
  MaxId,       \* bound: objects are 0 .. MaxId
  Design,      \* the designs of ships
  Coloniser,   \* designs with the property Colonise
  Speed,       \* the property Speed of a design
  BuildTime,   \* the property BuildTime of a design
  Start,       \* the objects at first: owner, position and ships
  Places,      \* where fleets are sent
  Waits,       \* turns a No Operation is given
  Fleets,      \* the ships that are asked for in a Build or a Split
  MaxOrders    \* bound: orders given

ASSUME ConstantsAssumption ==
  /\ MaxId \in Nat
  /\ Planet \subseteq 1 .. MaxId
  /\ Planet \subseteq DOMAIN Start /\ DOMAIN Start \subseteq 1 .. MaxId
  /\ IsFiniteSet(Player) /\ Nobody \notin Player
  /\ IsFiniteSet(Design)
  /\ Coloniser \subseteq Design
  /\ Speed \in [Design -> Nat \ {0}]
  /\ BuildTime \in [Design -> Nat \ {0}]
  /\ Fleets \subseteq [Design -> Nat]
  /\ Waits \subseteq Nat \ {0} /\ IsFiniteSet(Waits) /\ Waits # {}
  /\ Places \subseteq Int
  /\ MaxOrders \in Nat

VARIABLES
  obj,      \* ObjectManager::objects, with their parents and contents
  nextid,   \* ObjectManager::nextid
  queue,    \* the order queue of each object: orderlist and owner
  owned,    \* PlayerView::ownedObjects
  view,     \* PlayerView::visibleObjects, and those among them that are gone
  living,   \* the players who are alive
  score,    \* Player::score
  phase,    \* what doTurn is doing
  todo,     \* the ids the loop in progress has still to visit
  later,    \* otherorders
  battles,  \* combats that have still to be fought
  given     \* number of orders given

vars == <<obj, nextid, queue, owned, view, living, score, phase, todo, later,
          battles, given>>

Universe == 0

Id == 0 .. MaxId

Ships == [Design -> Nat]

NoShips == [d \in Design |-> 0]

Total(ships) == SumFunction(ships)

\* Mutant: the number of a design that joins replaces the one there was.
PlusReplaced(a, b) == [d \in Design |-> IF b[d] = 0 THEN a[d] ELSE b[d]]

Plus(a, b) == [d \in Design |-> a[d] + b[d]]

Minus(a, b) == [d \in Design |-> a[d] - b[d]]

\* An id that no object has, or has no more.
NoObject == [status |-> "none", owner |-> Nobody, at |-> 0, parent |-> Universe,
             contains |-> {}, ships |-> NoShips, parts |-> 0]

NoQueue == [orders |-> <<>>, owners |-> {}]

Order ==
  [type : {"Move"}, by : Player, dest : Places]
  \cup [type : {"No Operation"}, by : Player, wait : 1 .. Max(Waits)]
  \cup [type : {"Build Fleet", "Split Fleet"}, by : Player, ships : Fleets]
  \cup [type : {"Colonise", "Merge Fleet"}, by : Player]

NewOrder == {o \in Order : o.type = "No Operation" => o.wait \in Waits}

-----------------------------------------------------------------------------
(* Objects *)

InManager(os) == {o \in Id : os[o].status # "none"}

Alive(os) == {o \in Id : os[o].status = "alive"}

IsFleet(o) == o \notin Planet \cup {Universe}

AliveFleets(os) == {o \in Alive(os) : IsFleet(o)}

Distance(a, b) == IF a < b THEN b - a ELSE a - b

\* Planets and fleets have size 2: they meet when half of each reaches the other.
Meet(a, b) == Distance(a, b) <= 1 + 1

\* The planet of the highest id at a position contains what is there.
Container(os, pos) ==
  LET here == {p \in Planet : Meet(os[p].at, pos)}
  IN  IF here = {} THEN Universe ELSE Max(here)

AddToParent(os, o, pid) ==
  [os EXCEPT ![o].parent = pid, ![pid].contains = @ \cup {o}]

\* Mutant: the old container keeps the object.
RemoveFromParentHalf(os, o) == [os EXCEPT ![o].parent = Universe]

RemoveFromParent(os, o) ==
  [os EXCEPT ![os[o].parent].contains = @ \ {o}, ![o].parent = Universe]

Moved(os, o, pos) ==
  LET into == Container(os, pos)
      put  == IF pos = os[o].at \/ into = os[o].parent THEN os
              ELSE AddToParent(RemoveFromParent(os, o), o, into)
  IN  [put EXCEPT ![o].at = pos]

ScheduleRemove(os, S) ==
  [o \in Id |-> IF o \in S THEN [os[o] EXCEPT !.status = "dead"] ELSE os[o]]

ClearRemoved(os) ==
  [o \in Id |->
     IF os[o].status = "dead" THEN NoObject
     ELSE [os[o] EXCEPT !.contains =
             {c \in @ : ~(os[c].status = "dead" /\ os[c].parent = o)}]]

NewFleet(os, n, p, pos, in, ships) ==
  AddToParent([os EXCEPT ![n] = [NoObject EXCEPT !.status = "alive", !.owner = p,
                                                 !.at = pos, !.ships = ships]], n, in)

\* The slowest ship of a fleet decides.
MaxSpeed(ships) == Min({Speed[d] : d \in {e \in Design : ships[e] > 0}})

\* One turn's flight towards a position.
Towards(from, to, s) ==
  IF Distance(from, to) <= s THEN to
  ELSE IF from < to THEN from + s ELSE from - s

-----------------------------------------------------------------------------
(* Between turns *)

\* createStarSystem sets the planets of a star tens of thousands apart, stars are a
\* million apart unless two are put at one place by chance, and onPlayerAdded gives
\* every player a planet and fleets of one ship.
ASSUME StartAssumption ==
  /\ DOMAIN Start # {}
  /\ \A o \in DOMAIN Start :
       /\ Start[o].owner \in Player \cup {Nobody} /\ Start[o].at \in Int /\ Start[o].ships \in Ships
       /\ IsFleet(o) => Start[o].ships # NoShips
  /\ \A p \in Player : \E o \in DOMAIN Start : Start[o].owner = p
  /\ \A p, q \in Planet : p # q => ~ Meet(Start[p].at, Start[q].at)

StartObject(o) ==
  [NoObject EXCEPT !.status = "alive", !.owner = Start[o].owner, !.at = Start[o].at,
                   !.ships = Start[o].ships]

Placed(os) ==
  [o \in Id |->
     [os[o] EXCEPT
        !.parent = IF IsFleet(o) /\ o \in Alive(os) THEN Container(os, os[o].at) ELSE Universe,
        !.contains = {c \in Alive(os) \ {Universe, o} :
                        o = IF IsFleet(c) THEN Container(os, os[c].at) ELSE Universe}]]

Init ==
  /\ obj = Placed([o \in Id |->
                     IF o = Universe THEN [NoObject EXCEPT !.status = "alive"]
                     ELSE IF o \in DOMAIN Start THEN StartObject(o) ELSE NoObject])
  /\ nextid = Max(DOMAIN Start) + 1
  /\ queue = [o \in Id |-> IF o \in DOMAIN Start THEN [NoQueue EXCEPT !.owners = {Start[o].owner}]
                           ELSE NoQueue]
  /\ owned = [p \in Player |-> {o \in DOMAIN Start : Start[o].owner = p}]
  /\ view = [p \in Player |-> [known |-> {Universe} \cup DOMAIN Start, gone |-> {}]]
  /\ living = Player
  /\ score = [p \in Player |-> 0]
  /\ phase = "play"
  /\ todo = {} /\ later = {} /\ battles = <<>>
  /\ given = 0

Allowed(o) ==
  IF IsFleet(o)
  THEN {"No Operation", "Move", "Split Fleet", "Merge Fleet"}
       \cup (IF \E d \in Coloniser : obj[o].ships[d] > 0 THEN {"Colonise"} ELSE {})
  ELSE {"Build Fleet", "No Operation"}

\* Orders that may yet create an object.
Creating == {s \in Id \X (1 .. MaxOrders) :
               /\ s[2] \in DOMAIN queue[s[1]].orders
               /\ queue[s[1]].orders[s[2]].type \in {"Build Fleet", "Split Fleet"}}

\* An owner of the queue of an object adds an order.
GiveOrder(p, o, order) ==
  /\ phase = "play" /\ given < MaxOrders
  /\ o \in Alive(obj) \ {Universe}
  /\ p \in queue[o].owners
  /\ order.by = p
  /\ order.type \in Allowed(o)
  /\ order.type \in {"Build Fleet", "Split Fleet"}
       => nextid + Cardinality(Creating) <= MaxId
  /\ queue' = [queue EXCEPT ![o].orders = Append(@, order)]
  /\ given' = given + 1
  /\ UNCHANGED <<obj, nextid, owned, view, living, score, phase, todo, later, battles>>

-----------------------------------------------------------------------------
(* The turn begins: who has which kind of order first *)

FirstOrder(o) == Head(queue[o].orders)

WithOrders == {o \in Alive(obj) \ {Universe} : queue[o].orders # <<>>}

Movers == {o \in WithOrders : FirstOrder(o).type = "Move"}

StartTurn ==
  /\ phase = "play"
  /\ phase' = "move"
  /\ todo' = Movers
  /\ later' = WithOrders \ Movers
  /\ UNCHANGED <<obj, nextid, queue, owned, view, living, score, battles, given>>

First == Min(todo)

\* The loop goes on; a completed order is taken off its queue.
Finish(o, newQueue) ==
  /\ queue' = [newQueue EXCEPT ![o].orders = Tail(@)]
  /\ todo' = todo \ {o}

Keep(o, order) ==
  /\ queue' = [queue EXCEPT ![o].orders[1] = order]
  /\ todo' = todo \ {o}

Moving(o) ==
  /\ phase = "move" /\ todo # {} /\ o = First
  /\ UNCHANGED <<nextid, owned, view, living, score, phase, later, battles, given>>

\* Move::doOrder.
Move(o) ==
  LET order == FirstOrder(o)
      to    == Towards(obj[o].at, order.dest, MaxSpeed(obj[o].ships))
  IN  /\ Moving(o)
      /\ obj' = Moved(obj, o, to)
      /\ IF to = order.dest THEN Finish(o, queue) ELSE Keep(o, order)

-----------------------------------------------------------------------------
(* Battles *)

\* The first group with a member that is met is joined.
Join(groups, o) ==
  LET met == {i \in DOMAIN groups : \E m \in groups[i] : Meet(obj[m].at, obj[o].at)}
  IN  IF met = {} THEN Append(groups, {o})
      ELSE [groups EXCEPT ![Min(met)] = @ \cup {o}]

Combatants == {o \in Alive(obj) \ {Universe} : obj[o].owner # Nobody}

\* The combatants join in the order of their ids: the last is the greatest.
Groups == MapThenFoldSet(LAMBDA o, groups : Join(groups, o), <<>>, LAMBDA o : o, Max, Combatants)

Sides(group) == {obj[o].owner : o \in group}

\* A group of one player is no battle.
AddBattle(fought, group) ==
  IF Cardinality(Sides(group)) >= 2 THEN Append(fought, group) ELSE fought

TakeSides ==
  /\ phase = "move" /\ todo = {}
  /\ battles' = FoldLeft(AddBattle, <<>>, Groups)
  /\ phase' = "fight"
  /\ UNCHANGED <<obj, nextid, queue, owned, view, living, score, todo, later, given>>

\* What a battle may leave of a fleet.
Leftover(o) == {s \in [Design -> 0 .. Max(Range(obj[o].ships))] :
                  \A d \in Design : s[d] <= obj[o].ships[d]}

Lose(S) == owned' = [p \in Player |-> owned[p] \ S]

\* Mutant: a planet that falls keeps its orders.
DesertedWithOrders(q, p) == [q EXCEPT !.owners = @ \ {p}]

\* The queue of a planet that its owner p has lost.
Deserted(q, p) == [q EXCEPT !.orders = <<>>, !.owners = @ \ {p}]

\* RSPCombat::doCombat and resolveDamage: fleets lose ships, planets fall.
Fight ==
  /\ phase = "fight" /\ battles # <<>>
  /\ LET fleets == {o \in Head(battles) : IsFleet(o)}
     IN  \E fallen \in SUBSET (Head(battles) \ fleets),
            left \in [fleets -> UNION {Leftover(o) : o \in fleets}] :
           /\ \A o \in fleets : left[o] \in Leftover(o)
           /\ LET lost == {o \in fleets : left[o] = NoShips}
              IN  /\ obj' = ScheduleRemove(
                              [o \in Id |->
                                 IF o \in fleets THEN [obj[o] EXCEPT !.ships = left[o]]
                                 ELSE IF o \in fallen THEN [obj[o] EXCEPT !.owner = Nobody]
                                 ELSE obj[o]], lost)
                  /\ queue' = [o \in Id |->
                                 IF o \in fallen THEN Deserted(queue[o], obj[o].owner)
                                 ELSE queue[o]]
                  /\ Lose(lost \cup fallen)
  /\ battles' = Tail(battles)
  /\ UNCHANGED <<nextid, view, living, score, phase, todo, later, given>>

EndFights ==
  /\ phase = "fight" /\ battles = <<>>
  /\ obj' = ClearRemoved(obj)
  /\ phase' = "orders"
  /\ todo' = later /\ later' = {}
  /\ UNCHANGED <<nextid, queue, owned, view, living, score, battles, given>>

-----------------------------------------------------------------------------
(* The other orders *)

Ordered(o) ==
  /\ phase = "orders" /\ todo # {} /\ o = First
  /\ UNCHANGED <<living, score, phase, later, battles, given>>

Carrying(o, type) ==
  /\ Ordered(o)
  /\ obj[o].status # "none" /\ queue[o].orders # <<>>
  /\ FirstOrder(o).type = type

\* A fleet that was destroyed, or a planet that has fallen.
Skip(o) ==
  /\ Ordered(o)
  /\ obj[o].status = "none" \/ queue[o].orders = <<>>
  /\ todo' = todo \ {o}
  /\ UNCHANGED <<obj, nextid, queue, owned, view>>

\* Nop::doOrder.
Nop(o) ==
  /\ Carrying(o, "No Operation")
  /\ LET order == FirstOrder(o)
     IN  IF order.wait <= 1 THEN Finish(o, queue)
         ELSE Keep(o, [order EXCEPT !.wait = @ - 1])
  /\ UNCHANGED <<obj, nextid, owned, view>>

\* createNewObject, addObject and addOwnedObject for a fleet of the owner of o.
Create(o, os, ships, in) ==
  LET p == obj[o].owner
  IN  /\ obj' = NewFleet(os, nextid, p, obj[o].at, in, ships)
      /\ nextid' = nextid + 1
      /\ owned' = [owned EXCEPT ![p] = @ \cup {nextid}]
      /\ view' = [view EXCEPT ![p].known = @ \cup {nextid}]
      /\ Finish(o, [queue EXCEPT ![nextid] = [orders |-> <<>>, owners |-> {p}]])

Cost(ships) == SumFunction([d \in Design |-> ships[d] * BuildTime[d]])

\* Build::doOrder.
Build(o) ==
  LET order == FirstOrder(o)
      parts == obj[o].parts + 1
  IN  /\ Carrying(o, "Build Fleet")
      /\ IF obj[o].owner # Nobody /\ Cost(order.ships) \in 1 .. parts
         THEN Create(o, [obj EXCEPT ![o].parts = parts - Cost(order.ships)], order.ships, o)
         ELSE /\ IF obj[o].owner = Nobody \/ Cost(order.ships) = 0
                 THEN Finish(o, queue) /\ UNCHANGED obj
                 ELSE Keep(o, order) /\ obj' = [obj EXCEPT ![o].parts = parts]
              /\ UNCHANGED <<nextid, owned, view>>

\* Colonise::doOrder.  Of several ships that could, the weakest is used.
Colonise(o) ==
  LET planet == obj[o].parent
      able   == {d \in Coloniser : obj[o].ships[d] > 0}
      p      == obj[o].owner
  IN  /\ Carrying(o, "Colonise")
      /\ UNCHANGED nextid
      /\ IF planet \in Planet /\ obj[planet].owner = Nobody /\ able # {}
         THEN \E d \in able :
                LET ships == [obj[o].ships EXCEPT ![d] = @ - 1]
                    used  == IF ships = NoShips THEN {o} ELSE {}
                IN  /\ obj' = ScheduleRemove([obj EXCEPT ![planet].owner = p,
                                                         ![o].ships = ships], used)
                    /\ owned' = [owned EXCEPT ![p] = (@ \cup {planet}) \ used]
                    /\ view' = [view EXCEPT ![p].known = @ \cup {planet}]
                    /\ Finish(o, [queue EXCEPT ![planet].owners = (@ \ {Nobody}) \cup {p}])
         ELSE Finish(o, queue) /\ UNCHANGED <<obj, owned, view>>

\* The fleets a fleet may merge with; whether they are alive is not looked at.
MergeTargets(o) ==
  {t \in obj[obj[o].parent].contains \ {o} :
     /\ IsFleet(t) /\ obj[t].owner = obj[o].owner
     /\ 2 + 2 > Distance(obj[t].at, obj[o].at)}

\* MergeFleet::doOrder.
Merge(o) ==
  /\ Carrying(o, "Merge Fleet")
  /\ IF MergeTargets(o) = {} THEN UNCHANGED <<obj, owned>>
     ELSE LET t == Min(MergeTargets(o))
              merged == [obj EXCEPT ![t].ships = Plus(@, obj[o].ships)]
          IN  /\ obj' = ScheduleRemove(RemoveFromParent(merged, o), {o})
              /\ Lose({o})
  /\ Finish(o, queue)
  /\ UNCHANGED <<nextid, view>>

\* What removeShips takes of each design: all that is asked for, or nothing.
Taken(o, asked) == [d \in Design |-> IF obj[o].ships[d] >= asked[d] THEN asked[d] ELSE 0]

\* SplitFleet::doOrder.  If no ship is left, all that was asked for is put back.
Split(o) ==
  LET asked == FirstOrder(o).ships
      taken == Taken(o, asked)
      rest  == Minus(obj[o].ships, taken)
  IN  /\ Carrying(o, "Split Fleet")
      /\ IF rest # NoShips /\ taken # NoShips
         THEN Create(o, [obj EXCEPT ![o].ships = rest], taken, obj[o].parent)
         ELSE /\ obj' = [obj EXCEPT ![o].ships = IF rest = NoShips THEN asked ELSE rest]
              /\ Finish(o, queue)
              /\ UNCHANGED <<nextid, owned, view>>

-----------------------------------------------------------------------------
(* The end: views, the eliminated and the winner *)

\* Mutant: objects that are no more are not gone.
SeenNotGone(v, vis) == [v EXCEPT !.known = @ \cup vis]

Seen(v, vis) == [known |-> v.known \cup vis, gone |-> v.gone \cup (v.known \ vis)]

\* Mutant: the guest is not counted.
NumDeadPlayersNoGuest(alive) == Cardinality(Player \ alive)

\* The dead, the guest among them.
NumDeadPlayers(alive) == Cardinality(Player \ alive) + 1

EndTurn ==
  LET os  == ClearRemoved(obj)
      now == {p \in living : owned[p] # {}}
  IN  /\ phase = "orders" /\ todo = {}
      /\ obj' = os
      /\ view' = [p \in Player |-> Seen(view[p], Alive(os))]
      /\ living' = now
      /\ score' = IF Cardinality(now) = 1
                  THEN [p \in Player |-> IF p \in now THEN NumDeadPlayers(now) - 1 ELSE score[p]]
                  ELSE score
      /\ phase' = "play"
      /\ UNCHANGED <<nextid, queue, owned, todo, later, battles, given>>

Next ==
  \/ \E p \in Player, o \in Id, order \in NewOrder : GiveOrder(p, o, order)
  \/ StartTurn \/ TakeSides \/ Fight \/ EndFights \/ EndTurn
  \/ \E o \in todo : \/ Move(o) \/ Skip(o) \/ Nop(o) \/ Build(o)
                    \/ Colonise(o) \/ Merge(o) \/ Split(o)

Spec == Init /\ [][Next]_vars

-----------------------------------------------------------------------------
(* Properties *)

Object ==
  [status : {"none", "alive", "dead"}, owner : Player \cup {Nobody}, at : Int,
   parent : Planet \cup {Universe}, contains : SUBSET Id, ships : Ships, parts : Nat]

\* The types of the variables; dead objects are there only within a turn.
TypeOK ==
  /\ obj \in [Id -> Object]
  /\ nextid \in 1 .. MaxId + 1
  /\ queue \in [Id -> [orders : Seq(Order), owners : SUBSET (Player \cup {Nobody})]]
  /\ owned \in [Player -> SUBSET Id]
  /\ view \in [Player -> [known : SUBSET Id, gone : SUBSET Id]]
  /\ living \subseteq Player
  /\ score \in [Player -> Nat]
  /\ phase \in {"play", "move", "fight", "orders"}
  /\ todo \subseteq Id /\ later \subseteq Id
  /\ battles \in Seq(SUBSET Id)
  /\ given \in 0 .. MaxOrders
  /\ phase = "play" => InManager(obj) = Alive(obj)

\* What the view of a player lists as his own are the living objects whose owner
\* he is: elimination and victory are decided by the one (minisecturn.cpp:286),
\* orders, battles and colonisation by the other, and six places change both.
OwnedHeld ==
  \A p \in Player : owned[p] = {o \in Alive(obj) : obj[o].owner = p}

\* The queue of an object answers to its owner alone and holds only his orders:
\* what the loser of a planet had ordered is not carried out for whom has it next.
OrdersFromOwner ==
  \A o \in Alive(obj) \ {Universe} :
    /\ queue[o].owners \ {Nobody} = {obj[o].owner} \ {Nobody}
    /\ \A i \in DOMAIN queue[o].orders : queue[o].orders[i].by = obj[o].owner

\* Every living object is contained in its parent and nowhere else, a fleet in
\* the planet it is at; nothing contains what is no longer there.
Contained ==
  /\ \A o \in Alive(obj) \ {Universe} :
       /\ {c \in Id : o \in obj[c].contains} = {obj[o].parent}
       /\ IsFleet(o) => obj[o].parent = Container(obj, obj[o].at)
  /\ \A c \in Id : obj[c].contains \subseteq InManager(obj)

\* A living fleet has ships: it has a speed, and can be seen off.
FleetsHaveShips == \A o \in AliveFleets(obj) : obj[o].ships # NoShips

\* The objects, what contains them and who owns them, through moves, battles,
\* colonisations, merges and splits in any order.
ObjectsConsistent == TypeOK /\ OwnedHeld /\ Contained /\ FleetsHaveShips

\* After a turn every player sees every object there is, and those he knew that
\* are no more are gone.
ViewsCurrent ==
  phase = "play" =>
    \A p \in Player : /\ view[p].known \ view[p].gone = Alive(obj)
                      /\ view[p].gone \cap Alive(obj) = {}

\* Between turns the living are those who own something; one who was left alone
\* has the number of the others for a score, nobody else has any, and he keeps
\* his life.
LastOneWins ==
  /\ phase = "play" =>
       /\ living = {p \in Player : \E o \in Alive(obj) : obj[o].owner = p}
       /\ \A p \in Player : living = {p} => score[p] = Cardinality(Player) - 1
  /\ \A p \in Player : score[p] > 0 => living = {p}

LivingShips(os) == SumFunctionOnSet([o \in Id |-> Total(os[o].ships)], AliveFleets(os))

\* A merge and a split hand on the ships they find, also when the order cannot
\* be carried out: none that lives is lost or made.  Two cases are left out: a
\* target that was used up in the same turn takes the ships with it, and a split
\* that would leave no ship puts back what was asked for.
ShipsKept ==
  [][\A o \in todo :
       \/ Merge(o) /\ (MergeTargets(o) = {} \/ Min(MergeTargets(o)) \in Alive(obj))
       \/ Split(o) /\ Taken(o, FirstOrder(o).ships) # obj[o].ships
       => LivingShips(obj') = LivingShips(obj)]_vars
=============================================================================
