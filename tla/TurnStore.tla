----------------------------- MODULE TurnStore -----------------------------
(***************************************************************************)
(* The objects of the game and their rows in the MySQL store               *)
(* (src/tpserver/objectmanager.cpp, object.cpp, game.cpp and               *)
(* src/modules/persistence/mysql/mysqlpersistence.cpp).  Every row carries *)
(* the number of the turn it was written in, and a read takes the newest   *)
(* row that is not of a later turn.  The number of the turn itself is one  *)
(* row, written when the turn is over: a server that dies within a turn    *)
(* starts again from the turn before.  Each statement sent to the database *)
(* is a step, and the server may die between any two.                      *)
(*                                                                         *)
(* An object is reduced to being alive, its parent, what it contains and   *)
(* one value for all its parameters.                                       *)
(***************************************************************************)
EXTENDS Integers, FiniteSets, Sequences, SequencesExt, FiniteSetsExt

CONSTANTS
    MaxId,       \* greatest id of an object, a bound
    MaxTurn,     \* greatest number of a turn, a bound
    Vals,        \* values the parameters of an object take
    NoRow,       \* there is no row
    Absent,      \* not a key of ObjectManager::objects
    Null,        \* a key whose object is not loaded
    MaxCrashes,  \* times the server dies, a bound
    MaxFails,    \* saves the database refuses, a bound
    MaxOps       \* changes made to objects, a bound

ASSUME StoreAssumption ==
    /\ MaxId \in Nat \ {0} /\ MaxTurn \in Nat
    /\ MaxCrashes \in Nat /\ MaxFails \in Nat /\ MaxOps \in Nat /\ Vals # {}

VARIABLES
    info,       \* the row of gameinfo: the number of the turn, or NoRow
    rows,       \* table object: by id and turn
    params,     \* the tables of the parameters: by id and turn
    phase,      \* what the server is doing
    turn,       \* Game::turnNum
    objects,    \* ObjectManager::objects
    nextid,     \* ObjectManager::nextid
    scheduled,  \* ObjectManager::scheduleRemove
    todo,       \* objects still to be saved by the operation under way
    stage,      \* statements of the first of them already carried out
    kept,       \* history: every object as of the last operation or turn that ended
    torn,       \* history: objects whose save a crash or an error cut off
    back,       \* history: objects whose rows of an unfinished turn came back
    anew,       \* history: the ids began again from zero, over an unfinished or an older game
    crashes, fails, ops

disk == <<info, rows, params>>
memory == <<turn, objects, nextid, scheduled>>
history == <<kept, torn, back, anew>>
vars == <<disk, memory, phase, todo, stage, history, crashes, fails, ops>>

Ids == 0 .. MaxId
Turns == 0 .. MaxTurn

Row == [alive : BOOLEAN, parent : Ids]
Object == [alive : BOOLEAN, parent : Ids, children : SUBSET Ids, val : Vals, dirty : BOOLEAN]
Loaded(o) == objects[o] \notin {Absent, Null}

\* What stands for nothing is neither a row nor an object.
ASSUME NothingAssumption ==
    /\ NoRow \notin Row /\ NoRow \notin Vals /\ NoRow \notin [parent : Ids, val : Vals]
    /\ Absent \notin Object /\ Null \notin Object /\ Absent # Null

(***************************************************************************)
(* What the database gives back at turn t.                                 *)
(***************************************************************************)
\* Mutant: the query does not ask for the turn.
WrittenEver(table, o, t) == {u \in Turns : table[o][u] # NoRow}

Written(table, o, t) == {u \in Turns : u <= t /\ table[o][u] # NoRow}

\* ... ORDER BY turnnum DESC LIMIT 1
Newest(table, o, t) ==
    IF Written(table, o, t) = {} THEN NoRow ELSE table[o][Max(Written(table, o, t))]

\* Mutant: any row will do, not the newest one only.
ChildrenEver(o, t) ==
    {c \in Ids \ {o} : \E u \in 0 .. t : rows[c][u] # NoRow /\ rows[c][u].parent = o}

\* The objects whose newest row names o as the parent; o itself is left out.
Children(o, t) ==
    {c \in Ids \ {o} : Newest(rows, c, t) # NoRow /\ Newest(rows, c, t).parent = o}

\* The parameters of a dead object are not read; one of a living object that
\* has no row makes the whole object unreadable.
RetrieveObject(o, t) ==
    LET row == Newest(rows, o, t)
        par == Newest(params, o, t)
    IN  IF row = NoRow \/ (row.alive /\ par = NoRow) THEN Null
        ELSE [alive |-> row.alive, parent |-> row.parent, children |-> Children(o, t),
              val |-> IF row.alive THEN par ELSE CHOOSE v \in Vals : TRUE, dirty |-> FALSE]

GetObject(o) == IF Loaded(o) THEN objects[o] ELSE RetrieveObject(o, turn)

Gist(ob) ==
    IF ob \in {Absent, Null} THEN NoRow
    ELSE IF ~ob.alive THEN NoRow
    ELSE [parent |-> ob.parent, val |-> ob.val]

(***************************************************************************)
(* Starting: a game is read from the store, or created when there is no    *)
(* row of gameinfo.                                                        *)
(***************************************************************************)
Init ==
    /\ info = NoRow
    /\ rows = [o \in Ids |-> [t \in Turns |-> NoRow]]
    /\ params = [o \in Ids |-> [t \in Turns |-> NoRow]]
    /\ phase = "down" /\ turn = 0 /\ nextid = 0 /\ scheduled = {}
    /\ objects = [o \in Ids |-> Absent]
    /\ todo = <<>> /\ stage = 0
    /\ kept = [o \in Ids |-> NoRow] /\ torn = {} /\ back = {} /\ anew = FALSE
    /\ crashes = 0 /\ fails = 0 /\ ops = 0

EveryId == {o \in Ids : \E t \in Turns : rows[o][t] # NoRow}

\* Mutant: only the rows of the turns that ended are looked at.
NextIdOfTurn ==
    LET ended == {o \in Ids : Newest(rows, o, info) # NoRow}
    IN  IF ended \ {0} = {} THEN 0 ELSE Max(ended) + 1

\* ObjectManager::init: zero is taken for "there are none".
NextId == IF EveryId \ {0} = {} THEN 0 ELSE Max(EveryId) + 1

Load ==
    /\ phase = "down" /\ info # NoRow
    /\ phase' = "idle" /\ turn' = info /\ scheduled' = {}
    /\ objects' = [o \in Ids |-> IF o \in EveryId THEN Null ELSE Absent]
    /\ nextid' = NextId
    /\ anew' = (anew \/ NextId = 0)
    /\ UNCHANGED <<disk, todo, stage, kept, torn, back, crashes, fails, ops>>

First == CHOOSE v \in Vals : TRUE

\* The universe and one thing in it; the row of gameinfo comes first.
CreateGame ==
    /\ phase = "down" /\ info = NoRow
    /\ phase' = "create" /\ turn' = 0 /\ info' = 0 /\ nextid' = 2 /\ scheduled' = {}
    /\ objects' = [o \in Ids |->
          IF o > 1 THEN Absent
          ELSE [alive |-> TRUE, parent |-> 0, children |-> {1} \ {o}, val |-> First, dirty |-> TRUE]]
    /\ todo' = <<0, 0, 1>> /\ stage' = 0
    /\ anew' = (anew \/ EveryId # {})
    /\ UNCHANGED <<rows, params, kept, torn, back, crashes, fails, ops>>

(***************************************************************************)
(* MysqlPersistence::saveObject: four statements for each object.          *)
(***************************************************************************)
Commit ==
    [o \in Ids |-> IF Loaded(o) THEN Gist(objects'[o])
                   ELSE IF objects[o] = Absent THEN NoRow
                   ELSE kept[o]]

\* The statement carried out at a stage.
Statement(o) ==
    \/ /\ stage = 0
       /\ rows' = [rows EXCEPT ![o][turn] = NoRow]
       /\ UNCHANGED params
    \/ /\ stage = 1
       /\ rows' = [rows EXCEPT ![o][turn] = [alive |-> objects[o].alive, parent |-> objects[o].parent]]
       /\ UNCHANGED params
    \/ /\ stage = 2
       /\ params' = [params EXCEPT ![o][turn] = NoRow]
       /\ UNCHANGED rows
    \/ /\ stage = 3
       /\ params' = [params EXCEPT ![o][turn] = objects[o].val]
       /\ UNCHANGED rows

LastStage(o) == IF objects[o].alive THEN 3 ELSE 1

\* The operation goes on to the next object, or ends.
Advance ==
    /\ todo' = Tail(todo) /\ stage' = 0
    /\ phase' = IF phase = "create" /\ Len(todo) = 1 THEN "idle" ELSE phase
    /\ kept' = IF Len(todo) = 1 /\ phase \in {"create", "idle"} THEN Commit ELSE kept

Write ==
    /\ phase \in {"create", "idle", "turn"} /\ todo # <<>>
    /\ LET o == Head(todo) IN
       /\ Statement(o)
       /\ IF stage < LastStage(o)
          THEN stage' = stage + 1 /\ UNCHANGED <<objects, todo, phase, kept>>
          ELSE objects' = [objects EXCEPT ![o].dirty = FALSE] /\ Advance
    /\ UNCHANGED <<info, turn, nextid, scheduled, torn, back, anew, crashes, fails, ops>>

\* A statement is refused: the rest of the save is left out, the object stays dirty.
WriteFails ==
    /\ phase \in {"idle", "turn"} /\ todo # <<>> /\ fails < MaxFails
    /\ fails' = fails + 1
    /\ torn' = torn \union {Head(todo)}
    /\ UNCHANGED objects
    /\ Advance
    /\ UNCHANGED <<disk, turn, nextid, scheduled, back, anew, crashes, ops>>

(***************************************************************************)
(* The operations of ObjectManager and IGObject, as a turn uses them or,   *)
(* between turns, a player who joins.                                      *)
(***************************************************************************)
Free == phase \in {"idle", "turn"} /\ todo = <<>>

\* Objects with those of S read in.
Reading(S) == [o \in Ids |-> IF o \in S THEN GetObject(o) ELSE objects[o]]
Readable(o) == GetObject(o) # Null
Alive(o) == Readable(o) /\ GetObject(o).alive

Operation(obs, saves) ==
    /\ objects' = obs /\ todo' = saves /\ stage' = 0
    /\ UNCHANGED <<disk, phase, turn, history, crashes, fails>>

Counted == ops < MaxOps /\ ops' = ops + 1

\* ObjectManager::getObject, for a player who asks.
Ask(o) ==
    /\ Free /\ ~Loaded(o) /\ Readable(o) /\ UNCHANGED ops
    /\ Operation(Reading({o}), <<>>)
    /\ UNCHANGED <<nextid, scheduled>>

\* createNewObject, addToParent and addObject.
Build(p, v) ==
    /\ Free /\ Counted /\ Alive(p) /\ nextid \in Ids
    /\ LET obs == Reading({p}) IN
       Operation([obs EXCEPT
             ![p].children = @ \union {nextid}, ![p].dirty = TRUE,
             ![nextid] = [alive |-> TRUE, parent |-> p, children |-> {}, val |-> v, dirty |-> TRUE]],
          <<p, nextid>>)
    /\ nextid' = nextid + 1
    /\ UNCHANGED scheduled

\* A value is set, which touches the object, and doneWithObject saves it.
Change(o, v) ==
    /\ Free /\ Counted /\ Alive(o)
    /\ Operation([Reading({o}) EXCEPT ![o].val = v, ![o].dirty = TRUE], <<o>>)
    /\ UNCHANGED <<nextid, scheduled>>

\* doneWithObject of an object an earlier save left dirty.
Revisit(o) ==
    /\ Free /\ Loaded(o) /\ objects[o].dirty /\ UNCHANGED ops
    /\ Operation(objects, <<o>>)
    /\ UNCHANGED <<nextid, scheduled>>

\* removeFromParent, addToParent, doneWithObject: both parents are saved first.
Move(o, p) ==
    /\ Free /\ Counted /\ phase = "turn" /\ o # p /\ Alive(o) /\ Alive(p)
    /\ LET q == GetObject(o).parent
           obs == Reading({o, p, q})
       IN  /\ Readable(q) /\ q # p /\ q # o /\ obs[o].children = {}
           /\ Operation([obs EXCEPT ![q].children = @ \ {o}, ![q].dirty = TRUE,
                                    ![p].children = @ \union {o}, ![p].dirty = TRUE,
                                    ![o].parent = p, ![o].dirty = TRUE],
                        <<q, p, o>>)
    /\ UNCHANGED <<nextid, scheduled>>

\* ObjectManager::scheduleRemoveObject: saved as dead at once.
ScheduleRemoveObject(o) ==
    /\ Free /\ Counted /\ phase = "turn" /\ o # 0 /\ Loaded(o) /\ objects[o].alive /\ objects[o].children = {}
    /\ scheduled' = scheduled \union {o}
    /\ Operation([objects EXCEPT ![o].alive = FALSE, ![o].dirty = TRUE], <<o>>)
    /\ UNCHANGED nextid

\* The objects leave their parents, which are saved; they are not saved again.
ClearRemovedObjects ==
    /\ Free /\ phase = "turn" /\ scheduled # {} /\ UNCHANGED ops
    /\ LET parents == {objects[o].parent : o \in scheduled}
           obs == Reading(parents)
       IN  /\ \A p \in parents : Readable(p)
           /\ \E saves \in [1 .. Cardinality(parents \ scheduled) -> parents \ scheduled] :
                /\ \A j, k \in DOMAIN saves : j < k => saves[j] < saves[k]
                /\ Operation([o \in Ids |->
                      IF o \in scheduled THEN Absent
                      ELSE IF o \in parents THEN [obs[o] EXCEPT !.children = @ \ scheduled, !.dirty = TRUE]
                      ELSE obs[o]],
                    saves)
    /\ scheduled' = {}
    /\ UNCHANGED nextid

(***************************************************************************)
(* Game::doEndOfTurn.  The turn begins by asking for every object there    *)
(* is (getAllIds), with the number of the new turn.                        *)
(***************************************************************************)
Leftover(t) == {o \in Ids : rows[o][t] # NoRow \/ params[o][t] # NoRow}

StartTurn ==
    /\ phase = "idle" /\ todo = <<>> /\ turn < MaxTurn
    /\ phase' = "turn" /\ turn' = turn + 1
    /\ objects' = [o \in Ids |-> IF objects[o] = Null THEN RetrieveObject(o, turn + 1) ELSE objects[o]]
    /\ back' = back \union Leftover(turn + 1)
    /\ UNCHANGED <<disk, nextid, scheduled, todo, stage, kept, torn, anew, crashes, fails, ops>>

\* saveGameInfo deletes the row ...
EndTurn ==
    /\ phase = "turn" /\ todo = <<>> /\ scheduled = {}
    /\ phase' = "save" /\ info' = NoRow
    /\ UNCHANGED <<rows, params, memory, todo, stage, history, crashes, fails, ops>>

\* ... and inserts the new one.
InsertGameInfo ==
    /\ phase = "save"
    /\ phase' = "idle" /\ info' = turn
    /\ UNCHANGED objects /\ kept' = Commit
    /\ UNCHANGED <<rows, params, turn, nextid, scheduled, todo, stage, torn, back, anew, crashes, fails, ops>>

(***************************************************************************)
(* The server dies.  Between turns, what was still to be saved is not what *)
(* it was.                                                                 *)
(***************************************************************************)
Crash ==
    /\ phase # "down" /\ crashes < MaxCrashes
    /\ crashes' = crashes + 1
    /\ phase' = "down" /\ objects' = [o \in Ids |-> Absent] /\ todo' = <<>> /\ stage' = 0
    /\ scheduled' = {} /\ nextid' = 0 /\ turn' = 0
    /\ torn' = IF phase = "turn" THEN torn ELSE torn \union Range(todo)
    /\ anew' = (anew \/ phase = "create")
    /\ UNCHANGED <<disk, kept, back, fails, ops>>

Next ==
    \/ Load \/ CreateGame \/ Write \/ WriteFails
    \/ \E o \in Ids : Ask(o) \/ Revisit(o) \/ ScheduleRemoveObject(o)
    \/ \E o \in Ids, v \in Vals : Build(o, v) \/ Change(o, v)
    \/ \E o, p \in Ids : Move(o, p)
    \/ ClearRemovedObjects \/ StartTurn \/ EndTurn \/ InsertGameInfo \/ Crash

Spec == Init /\ [][Next]_vars

(***************************************************************************)
(* Properties.                                                             *)
(***************************************************************************)
\* The type of the state; a server that is down holds nothing.
TypeOK ==
    /\ info \in Turns \union {NoRow}
    /\ \A o \in Ids, t \in Turns : rows[o][t] \in Row \union {NoRow} /\ params[o][t] \in Vals \union {NoRow}
    /\ phase \in {"down", "create", "idle", "turn", "save"}
    /\ turn \in Turns /\ nextid \in 0 .. MaxId + 1 /\ scheduled \subseteq Ids
    /\ \A o \in Ids : objects[o] \in {Absent, Null} \/ objects[o] \in Object
    /\ \A k \in 1 .. Len(todo) : todo[k] \in Ids /\ Loaded(todo[k])
    /\ stage \in 0 .. 3 /\ torn \subseteq Ids /\ back \subseteq Ids /\ anew \in BOOLEAN

\* A server that dies, within a turn or between two, finds every object as
\* the last turn or the last operation that ended left it, whatever it had
\* already written: except for an object whose save was cut off, and for
\* those an earlier unfinished turn had written when its number came again.
Recovered ==
    phase = "down" /\ info # NoRow /\ ~anew =>
        \A o \in Ids \ (torn \union back) : Gist(RetrieveObject(o, info)) = kept[o]

\* When no save is under way, an object that is not dirty is stored as it is
\* held, and what it contains, the dead set aside, is what a restart would
\* find in it: the children are not stored but put together from the rows
\* of the objects that name it as their parent.  The children of an object whose
\* save was cut off are left out: if it never had a row, its id is given again
\* after a restart, and the new object has on disk those of the lost one.
StoredAsHeld ==
    phase \in {"idle", "turn"} /\ todo = <<>> /\ ~anew =>
        \A o \in Ids \ back : Loaded(o) /\ ~objects[o].dirty =>
            LET stored == RetrieveObject(o, turn)
                settled == {c \in Ids \ (torn \union back) : Loaded(c) /\ ~objects[c].dirty /\ objects[c].alive}
            IN  /\ Gist(stored) = Gist(objects[o])
                /\ objects[o].alive /\ o \notin torn =>
                     stored.children \intersect settled = objects[o].children \intersect settled

\* An object in memory is in the list of its parent, and in no other list.
ContainersAgree ==
    todo = <<>> /\ ~anew =>
        \A c, p \in Ids \ (torn \union back) : c # p /\ Loaded(c) /\ Loaded(p) /\ objects[c].alive =>
            (c \in objects[p].children <=> objects[c].parent = p)

\* The objects in memory are whole and as they are stored: no save or removal
\* leaves one that is not.
ObjectsConsistent == TypeOK /\ StoredAsHeld /\ ContainersAgree

\* The next id has never been that of an object, also not of one that an
\* unfinished turn built: its rows, which come back when the number of that
\* turn does, never become those of another object.  An object lost in the
\* middle of its first save is the exception.
FreshIds ==
    phase \in {"idle", "turn"} /\ ~anew =>
        \A o \in nextid .. MaxId : o \in torn \/ (o \notin EveryId /\ kept[o] = NoRow)
=============================================================================
