----------------------------- MODULE OrderQueue -----------------------------
(***************************************************************************)
(* OrderQueue, OrderManager and the part of MysqlPersistence that keeps    *)
(* them.                                                                   *)
(*                                                                         *)
(* A queue is a list of order ids, retrieved when it is first asked for,   *)
(* and a cache of the orders themselves, each retrieved when it is first   *)
(* looked at.  An operation changes the queue in memory and then sends the *)
(* database its statements one by one, without a transaction: the server   *)
(* can die, or a statement fail, between any two of them.                  *)
(*                                                                         *)
(* An order is its number, for telling orders apart, and the turns it      *)
(* still takes; its type, resources and parameters are written and read    *)
(* with it.  The allowed order types, the flags and the modification time  *)
(* of a queue are left out.                                                *)
(***************************************************************************)
EXTENDS Naturals, FiniteSets, SequencesExt

CONSTANTS
  MaxQueue,   \* bound: queues are 1 .. MaxQueue
  Player,
  MaxOrders,  \* bound: orders given
  Turns,      \* the turns a new order takes
  Faults      \* what goes wrong: "crash", "error"

ASSUME ConstantsAssumption ==
  /\ MaxQueue \in Nat
  /\ MaxOrders \in Nat
  /\ Turns \in Nat

VARIABLES
  held,       \* OrderManager::orderqueues: the queues in memory
  nextQueue,  \* OrderManager::nextOrderQueueId
  stored,     \* the tables orderqueue, orderslot, orderqueueowner, ordertype
  work,       \* statements still to be sent by the operation in progress
  given,      \* number of orders given
  gone,       \* orders that have been removed or completed
  trouble     \* what has gone wrong so far

vars == <<held, nextQueue, stored, work, given, gone, trouble>>

Queue == 1 .. MaxQueue

Order == [order : 1 .. MaxOrders, turns : 0 .. Turns]

Id == Nat \ {0}

\* Orders by their ids: ordercache, and the table ordertype.
IsTable(f) == DOMAIN f \subseteq Id /\ f \in [DOMAIN f -> Order]

\* An OrderQueue: orderlist, ordercache, nextOrderId and owner.
IsHeld(oq) ==
  /\ oq \in [slots : Seq(Id), cache : {oq.cache}, next : Id, owners : SUBSET Player]
  /\ IsTable(oq.cache)

\* The rows of a queue.
IsStored(t) ==
  /\ t \in [exists : BOOLEAN, slots : Seq(Id), owners : SUBSET Player, orders : {t.orders}]
  /\ IsTable(t.orders)

Put(f, x, v) == [y \in DOMAIN f \cup {x} |-> IF y = x THEN v ELSE f[y]]

Without(f, x) == Restrict(f, DOMAIN f \ {x})

-----------------------------------------------------------------------------
(* The database *)

Statement ==
  [do : {"insert queue", "delete slots", "delete owners"}]
  \cup [do : {"insert order", "update order"}, id : Id, order : Order]
  \cup [do : {"delete order"}, id : Id]
  \cup [do : {"insert slots"}, slots : Seq(Id)]
  \cup [do : {"insert owners"}, owners : SUBSET Player]

\* The primary key of ordertype refuses a second order with an id.
Effect(t, s) ==
  CASE s.do = "insert queue" -> [t EXCEPT !.exists = TRUE]
    [] s.do = "delete slots" -> [t EXCEPT !.slots = <<>>]
    [] s.do = "delete owners" -> [t EXCEPT !.owners = {}]
    [] s.do = "insert slots" -> [t EXCEPT !.slots = s.slots]
    [] s.do = "insert owners" -> [t EXCEPT !.owners = s.owners]
    [] s.do = "delete order" -> [t EXCEPT !.orders = Without(@, s.id)]
    [] s.do = "insert order" /\ s.id \notin DOMAIN t.orders ->
         [t EXCEPT !.orders = Put(@, s.id, s.order)]
    [] s.do = "update order" /\ s.id \in DOMAIN t.orders ->
         [t EXCEPT !.orders[s.id] = s.order]
    [] OTHER -> t

\* MysqlPersistence::saveOrderQueue
SaveOrderQueue(oq) ==
  << [do |-> "insert queue"], [do |-> "insert owners", owners |-> oq.owners] >>

\* MysqlPersistence::updateOrderQueue
UpdateOrderQueue(oq) ==
  << [do |-> "delete slots"], [do |-> "delete owners"],
     [do |-> "insert slots", slots |-> oq.slots],
     [do |-> "insert owners", owners |-> oq.owners] >>

\* The first id that retrieveOrderQueue gives out again is in use.
NextOrderIdMax(slots) == Max(ToSet(slots) \cup {1})

\* MysqlPersistence::retrieveOrderQueue counts on from the highest id in use.
NextOrderId(slots) == Max(ToSet(slots) \cup {0}) + 1

Retrieved(t) == [slots |-> t.slots, cache |-> <<>>,
                 next |-> NextOrderId(t.slots), owners |-> t.owners]

-----------------------------------------------------------------------------
(* OrderManager and OrderQueue *)

\* OrderManager::getOrderQueue
Got(q) == IF q \in DOMAIN held THEN held[q] ELSE Retrieved(stored[q])

Exists(q) == q \in DOMAIN held \/ stored[q].exists

\* OrderQueue::getOrder, which puts a retrieved order in the cache; there is
\* none if its row is missing.
HasOrder(q, id) == id \in DOMAIN Got(q).cache \cup DOMAIN stored[q].orders

OrderOf(q, id) == IF id \in DOMAIN Got(q).cache THEN Got(q).cache[id]
                  ELSE stored[q].orders[id]

Cached(q, id) == [Got(q) EXCEPT !.cache = Put(@, id, OrderOf(q, id))]

\* The places of its list where a queue has an order.
There(q) == {i \in DOMAIN Got(q).slots : HasOrder(q, Got(q).slots[i])}

\* What the queue q now lists: those orders, in their order.
ListOf(q) ==
  LET Place(n) == CHOOSE i \in There(q) : Cardinality({j \in There(q) : j <= i}) = n
  IN  [n \in 1 .. Cardinality(There(q)) |-> OrderOf(q, Got(q).slots[Place(n)])]

Numbers(q) == {OrderOf(q, id).order : id \in {i \in ToSet(Got(q).slots) : HasOrder(q, i)}}

Idle == work.steps = <<>>

\* An operation changes q to oq, and ends the orders of ends.
Change(q, oq, steps, ends) ==
  /\ Idle
  /\ held' = Put(held, q, oq)
  /\ work' = [queue |-> q, steps |-> steps, ends |-> ends]

Init ==
  /\ held = <<>>
  /\ nextQueue = 1
  /\ stored = [q \in Queue |-> [exists |-> FALSE, slots |-> <<>>, owners |-> {},
                                orders |-> <<>>]]
  /\ work = [queue |-> 1, steps |-> <<>>, ends |-> {}]
  /\ given = 0
  /\ gone = {}
  /\ trouble = "none"

\* OrderManager::addOrderQueue, for a new planet or fleet.
AddOrderQueue(p) ==
  LET oq == [slots |-> <<>>, cache |-> <<>>, next |-> 1, owners |-> {p}]
  IN
  /\ nextQueue \in Queue
  /\ Change(nextQueue, oq, SaveOrderQueue(oq), {})
  /\ nextQueue' = nextQueue + 1
  /\ UNCHANGED <<stored, given, gone, trouble>>

\* The queue is saved before the order is put in its list.
AddOrderSavesFirst(q, p) ==
  LET oq == Got(q)
      order == [order |-> given + 1, turns |-> Turns]
  IN
  /\ Exists(q)
  /\ p \in oq.owners
  /\ given < MaxOrders
  /\ given' = given + 1
  /\ \E pos \in 1 .. Len(oq.slots) + 1 :
       Change(q, [oq EXCEPT !.slots = InsertAt(@, pos, oq.next),
                            !.cache = Put(@, oq.next, order), !.next = @ + 1],
              << [do |-> "insert order", id |-> oq.next, order |-> order] >>
                \o UpdateOrderQueue(oq), {})
  /\ UNCHANGED <<nextQueue, stored, gone, trouble>>

\* processAddOrder and OrderQueue::addOrder.  A position past the end makes
\* advance() go round the list, which is some place in it.
AddOrder(q, p) ==
  LET oq == Got(q)
      order == [order |-> given + 1, turns |-> Turns]
  IN
  /\ Exists(q)
  /\ p \in oq.owners
  /\ given < MaxOrders
  /\ given' = given + 1
  /\ \E pos \in 1 .. Len(oq.slots) + 1 :
       LET new == [oq EXCEPT !.slots = InsertAt(@, pos, oq.next),
                             !.cache = Put(@, oq.next, order), !.next = @ + 1]
       IN  Change(q, new,
             << [do |-> "insert order", id |-> oq.next, order |-> order] >>
               \o UpdateOrderQueue(new), {})
  /\ UNCHANGED <<nextQueue, stored, gone, trouble>>

\* The row of the order is left.
RemoveOrderKeepsRow(q, p) ==
  \E pos \in DOMAIN Got(q).slots :
    LET oq == Got(q)
        id == oq.slots[pos]
        new == [oq EXCEPT !.slots = RemoveAt(@, pos), !.cache = Without(@, id)]
    IN
    /\ Exists(q)
    /\ p \in oq.owners
    /\ HasOrder(q, id)
    /\ Change(q, new, UpdateOrderQueue(new), {OrderOf(q, id).order})
    /\ UNCHANGED <<nextQueue, stored, given, gone, trouble>>

\* processRemoveOrder and OrderQueue::removeOrder.  The rulesets risk and rfts
\* also remove an order that is completed this way.
RemoveOrder(q, p) ==
  \E pos \in DOMAIN Got(q).slots :
    LET oq == Got(q)
        id == oq.slots[pos]
        new == [oq EXCEPT !.slots = RemoveAt(@, pos), !.cache = Without(@, id)]
    IN
    /\ Exists(q)
    /\ p \in oq.owners
    /\ HasOrder(q, id)
    /\ Change(q, new, << [do |-> "delete order", id |-> id] >> \o UpdateOrderQueue(new),
              {OrderOf(q, id).order})
    /\ UNCHANGED <<nextQueue, stored, given, gone, trouble>>

\* processGetOrder and OrderQueue::getOrder
GetOrder(q, p) ==
  \E id \in ToSet(Got(q).slots) :
    /\ Exists(q)
    /\ p \in Got(q).owners
    /\ HasOrder(q, id)
    /\ Change(q, Cached(q, id), <<>>, {})
    /\ UNCHANGED <<nextQueue, stored, given, gone, trouble>>

\* The order is not written when it is not completed.
DoFirstOrderUnsaved(q) ==
  LET oq == Got(q)
      id == Head(oq.slots)
      done == [Cached(q, id) EXCEPT !.slots = Tail(@)]
  IN
  /\ Exists(q)
  /\ oq.slots # <<>>
  /\ HasOrder(q, id)
  /\ \/ Change(q, done, << [do |-> "delete order", id |-> id] >> \o UpdateOrderQueue(done),
               {OrderOf(q, id).order})
     \/ \E left \in 0 .. OrderOf(q, id).turns :
          LET new == [Cached(q, id) EXCEPT !.cache[id].turns = left]
          IN  Change(q, new, UpdateOrderQueue(new), {})
  /\ UNCHANGED <<nextQueue, stored, given, gone, trouble>>

\* The end of turn does the first order of a queue.  Completed, it is taken off
\* the list, not out of the cache (removeFirstOrder); otherwise it is written
\* back (updateFirstOrder).
DoFirstOrder(q) ==
  LET oq == Got(q)
      id == Head(oq.slots)
      done == [Cached(q, id) EXCEPT !.slots = Tail(@)]
  IN
  /\ Exists(q)
  /\ oq.slots # <<>>
  /\ HasOrder(q, id)
  /\ \/ Change(q, done, << [do |-> "delete order", id |-> id] >> \o UpdateOrderQueue(done),
               {OrderOf(q, id).order})
     \/ \E left \in 0 .. OrderOf(q, id).turns :
          LET new == [Cached(q, id) EXCEPT !.cache[id].turns = left]
          IN  Change(q, new,
                << [do |-> "update order", id |-> id, order |-> new.cache[id]] >>
                  \o UpdateOrderQueue(new), {})
  /\ UNCHANGED <<nextQueue, stored, given, gone, trouble>>

\* A planet is lost or an object removed: its queue may lose an owner, and loses
\* all its orders (removeAllOrders) but not their copies in the cache.
RemoveAllOrders(q) ==
  \E lost \in SUBSET Got(q).owners :
    LET oq == Got(q)
        new == [oq EXCEPT !.slots = <<>>, !.owners = @ \ lost]
    IN
    /\ Exists(q)
    /\ Change(q, new,
         [i \in DOMAIN oq.slots |-> [do |-> "delete order", id |-> oq.slots[i]]]
           \o UpdateOrderQueue(new), Numbers(q))
    /\ UNCHANGED <<nextQueue, stored, given, gone, trouble>>

\* A planet is colonised: its queue has a new owner, in memory only.
Colonise(q, p) ==
  /\ Exists(q)
  /\ Change(q, [Got(q) EXCEPT !.owners = {p}], <<>>, {})
  /\ UNCHANGED <<nextQueue, stored, given, gone, trouble>>

-----------------------------------------------------------------------------
(* Statements, errors and restarts *)

Ended(steps) == IF steps = <<>> THEN work.ends ELSE {}

Execute ==
  /\ ~Idle
  /\ stored' = [stored EXCEPT ![work.queue] = Effect(@, Head(work.steps))]
  /\ work' = [work EXCEPT !.steps = Tail(@)]
  /\ gone' = gone \cup Ended(Tail(work.steps))
  /\ UNCHANGED <<held, nextQueue, given, trouble>>

OfOrder(s) == s.do \in {"insert order", "update order", "delete order"}

\* The database refuses a statement: the rest of the call is skipped, and the
\* caller does not look at the result.
Error ==
  LET left == IF OfOrder(Head(work.steps)) THEN Tail(work.steps) ELSE <<>>
  IN
  /\ "error" \in Faults
  /\ ~Idle
  /\ work' = [work EXCEPT !.steps = left]
  /\ gone' = gone \cup Ended(left)
  /\ trouble' = "error"
  /\ UNCHANGED <<held, nextQueue, stored, given>>

\* The server stops, between two operations or, in a crash, at any point, and
\* starts again (OrderManager::init).
Restart ==
  /\ Idle \/ "crash" \in Faults
  /\ held' = <<>>
  /\ nextQueue' = Max({q \in Queue : stored[q].exists} \cup {0}) + 1
  /\ work' = [work EXCEPT !.steps = <<>>, !.ends = {}]
  /\ trouble' = IF Idle \/ trouble = "error" THEN trouble ELSE "crash"
  /\ UNCHANGED <<stored, given, gone>>

Next ==
  \/ \E p \in Player : AddOrderQueue(p)
  \/ \E q \in Queue : DoFirstOrder(q) \/ RemoveAllOrders(q)
  \/ \E q \in Queue, p \in Player :
       AddOrder(q, p) \/ RemoveOrder(q, p) \/ GetOrder(q, p) \/ Colonise(q, p)
  \/ Execute
  \/ Error
  \/ Restart

Spec == Init /\ [][Next]_vars

Orders == INSTANCE OrderList WITH
  Key <- Queue, list <- [q \in Queue |-> ListOf(q)]

\* A step that shows on no list.
Unlisted == UNCHANGED <<[q \in Queue |-> ListOf(q)], given>>

-----------------------------------------------------------------------------
(* Properties *)

\* The types of the variables.
TypeOK ==
  /\ DOMAIN held \subseteq Queue /\ \A q \in DOMAIN held : IsHeld(held[q])
  /\ nextQueue \in 1 .. MaxQueue + 1
  /\ DOMAIN stored = Queue /\ \A q \in Queue : IsStored(stored[q])
  /\ work \in [queue : Nat, steps : Seq(Statement), ends : SUBSET (1 .. MaxOrders)]
  /\ given \in 0 .. MaxOrders
  /\ gone \in SUBSET (1 .. MaxOrders)
  /\ trouble \in {"none", "error", "crash"}

\* Ids are told apart by the queue and by the tables (orderslot is UNIQUE in
\* queueid and orderid), also after a crash or an error: no id is listed twice,
\* and the next one is neither listed nor that of a cached order.
IdsUnique ==
  \A q \in Queue :
    /\ IsInjective(Got(q).slots)
    /\ IsInjective(stored[q].slots)
    /\ \A id \in ToSet(Got(q).slots) \cup DOMAIN Got(q).cache : id < Got(q).next

\* An order whose removal or completion has come to its end is never listed
\* again, wherever the server crashed before or afterwards.
GoneStaysGone ==
  trouble # "error" => \A q \in Queue : Numbers(q) \cap gone = {}

\* Between two operations the tables hold the list of a queue, and the orders on
\* it as they are in memory, and no others.
StoredAsHeld ==
  trouble = "none" /\ Idle =>
    \A q \in Queue :
      /\ stored[q].slots = Got(q).slots
      /\ DOMAIN stored[q].orders = ToSet(Got(q).slots)
      /\ \A id \in DOMAIN stored[q].orders : OrderOf(q, id) = stored[q].orders[id]

\* Retrieved or not, restarted or not, the queues are lists of orders, for as
\* long as no operation was cut off by a crash or by a refused statement: this
\* is Orders!Spec, with its steps asked for until then.
KeepsPromise ==
  Orders!Init /\ [][trouble' = "none" => Orders!Next \/ Unlisted]_vars
=============================================================================
