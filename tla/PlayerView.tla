----------------------------- MODULE PlayerView -----------------------------
(***************************************************************************)
(* What one player sees of the objects, and the lists of ids the player's  *)
(* clients ask for (src/tpserver/playerview.cpp, objectview.cpp, the part  *)
(* of an end of turn that brings the views up to date, and the table       *)
(* playerobjectview of src/modules/persistence/mysql).                     *)
(*                                                                         *)
(* A view says whether its object is gone and in which second it changed.  *)
(* A client asks for the ids of what changed after some second, and reads  *)
(* the list page by page under a sequence number.  All the sessions of a   *)
(* player share the list and the number.  Views are stored by turn, as     *)
(* objects are (TurnStore), and the server may die between any two         *)
(* statements.                                                             *)
(***************************************************************************)
EXTENDS Integers, Sequences, FiniteSetsExt

CONSTANTS
    MaxId,       \* greatest id of an object, a bound
    Known,       \* objects there are at first, which the player knows
    Sessions,    \* connections of the player
    MaxTime,     \* seconds that pass, a bound
    MaxTurn,     \* turns that are played, a bound
    MaxOps,      \* lists made, orders given and players joining, a bound
    MaxCrashes,  \* times the server dies, a bound
    MaxList,     \* MAX_ID_LIST_SIZE
    Never,       \* UINT64_NEG_ONE: a request for what there is now
    None         \* no view, no row, no list

ASSUME ViewAssumption ==
    /\ MaxId \in Nat /\ MaxTime \in Nat /\ MaxTurn \in Nat /\ MaxCrashes \in Nat /\ MaxOps \in Nat /\ MaxList \in Nat
    /\ Known \subseteq 0 .. MaxId

VARIABLES
    now,       \* time(NULL)
    objects,   \* the objects: None, or alive and when they changed
    before,    \* the objects a restart finds
    rows,      \* table playerobjectview: by id and turn
    info,      \* the turn of the row of gameinfo
    phase,     \* "idle", "turn" or "down"
    turn,      \* Game::turnNum
    visible,   \* PlayerView::visibleObjects
    cache,     \* PlayerView::cacheObjects
    seq,       \* PlayerView::currObjSeq
    modlist,   \* PlayerView::modlistObject
    todo,      \* statements still to be sent
    session,   \* how far the list of each session has been read, None between lists
    heard,     \* history: the views as of the last list that was made, and its second
    late,      \* history: views given a time that had passed since then
    back,      \* history: objects whose rows of an unfinished turn came back
    torn,      \* history: objects with a view a crash caught in a change
    joined,    \* history: objects made since the last turn
    crashes, ops

memory == <<visible, cache, seq, modlist>>
world == <<objects, before, info, turn>>
history == <<heard, late, back, torn, joined, crashes>>
vars == <<now, world, rows, phase, memory, todo, session, history, ops>>

Ids == 0 .. MaxId
Turns == 0 .. MaxTurn
Time == 0 .. MaxTime
View == [gone : BOOLEAN, mod : Time]
Object == [alive : BOOLEAN, mod : Time]

ASSUME MissingAssumption == None \notin View \union Object \union Time /\ Never \notin -1 .. MaxTime

\* Sets of ids are gone through in their order: the place of one, and the one at a place.
Place(S, o) == Cardinality({p \in S : p <= o})
Nth(S, k) == CHOOSE o \in S : Place(S, o) = k

(***************************************************************************)
(* Views.                                                                  *)
(***************************************************************************)
\* MysqlPersistence::retrieveObjectView
Newest(o, t) ==
    LET written == {u \in Turns : u <= t /\ rows[o][u] # None}
    IN  IF written = {} THEN None ELSE rows[o][Max(written)]

\* PlayerView::getObjectView
ViewAt(o, t) ==
    IF o \notin visible THEN None
    ELSE IF cache[o] # None THEN cache[o] ELSE Newest(o, t)

ViewOf(o) == ViewAt(o, turn)

\* Mutant: the row of the turn before is deleted.
SaveObjectViewOnly(o, t, view) ==
    <<[id |-> o, turn |-> IF t = 0 THEN 0 ELSE t - 1, row |-> None], [id |-> o, turn |-> t, row |-> view]>>

\* MysqlPersistence::saveObjectView: the row of the turn is deleted, and a new one inserted.
SaveObjectView(o, t, view) ==
    <<[id |-> o, turn |-> t, row |-> None], [id |-> o, turn |-> t, row |-> view]>>

Send ==
    /\ phase # "down" /\ todo # <<>>
    /\ rows' = [rows EXCEPT ![Head(todo).id][Head(todo).turn] = Head(todo).row]
    /\ todo' = Tail(todo)
    /\ UNCHANGED <<now, world, phase, memory, session, history, ops>>

Free == phase = "idle" /\ todo = <<>>
Alive(o) == objects[o] # None /\ objects[o].alive
Exists(o) == objects[o] # None
Counted == ops < MaxOps /\ ops' = ops + 1

(***************************************************************************)
(* Between turns.                                                          *)
(***************************************************************************)
\* Another player joins: objects are made and changed, and the sequence
\* number goes up; the view is not brought up to date.
PlayerJoins(new, touched) ==
    /\ Free /\ Counted /\ new \union touched # {}
    /\ \A o \in new : ~Exists(o)
    /\ \A o \in touched : Alive(o)
    /\ objects' = [o \in Ids |-> IF o \in new \union touched THEN [alive |-> TRUE, mod |-> now] ELSE objects[o]]
    /\ before' = objects'
    /\ seq' = seq + 1 /\ joined' = joined \union new
    /\ UNCHANGED <<now, rows, info, phase, turn, visible, cache, modlist, todo, session,
                   heard, late, back, torn, crashes>>

\* An order is added to or removed from the queue of an object.
GiveOrder(o) ==
    /\ Free /\ Counted /\ Alive(o) /\ ViewOf(o) # None
    /\ LET view == [ViewOf(o) EXCEPT !.mod = now] IN
       /\ cache' = [cache EXCEPT ![o] = view]
       /\ todo' = SaveObjectView(o, turn, view)
    /\ late' = late \ {o}
    /\ UNCHANGED <<now, world, rows, phase, visible, seq, modlist, session, heard, back, torn, joined, crashes>>

(***************************************************************************)
(* PlayerView::processGetObjectIds.                                        *)
(***************************************************************************)
Listed(view, from) == IF from = Never THEN ~view.gone ELSE view.mod > from

InList(list) == {o \in Ids : list[o] # None}
NoList == [o \in Ids |-> None]

Wanted(from) == {o \in visible : Listed(ViewOf(o), from)}

\* Mutant: what is on the list already stays on it.
NewListOnTop(from) == [o \in Ids |-> IF o \in Wanted(from) THEN ViewOf(o).mod ELSE modlist[o]]

NewList(from) == [o \in Ids |-> IF o \in Wanted(from) THEN ViewOf(o).mod ELSE None]

\* The ids of a page of n, from place start on.
Page(list, start, n) ==
    {o \in InList(list) : Place(InList(list), o) \in start + 1 .. start + n}

PageSize(list, start, n) == Min({n, Cardinality(InList(list)) - start})

\* When the list is another one, the other sessions find it under the number
\* they were given.
Disturbed(s, list) ==
    [r \in Sessions |-> IF list = modlist \/ r = s \/ session[r] = None THEN session[r]
                        ELSE [session[r] EXCEPT !.disturbed = TRUE]]

\* A page is sent, or refused, after which the session has to begin again.
Answer(s, progress, list, n) ==
    LET start == Cardinality(progress.got)
        some == PageSize(list, start, n)
    IN  session' = [Disturbed(s, list) EXCEPT ![s] =
            IF start > Cardinality(InList(list)) \/ some > MaxList THEN None
            ELSE [progress EXCEPT !.got = @ \union Page(list, start, some),
                                  !.left = Cardinality(InList(list)) - start - some]]

Unreadable == {o \in visible : ViewOf(o) = None}

\* A new list is made.
Ask(s, from, n) ==
    /\ Free /\ Counted /\ Unreadable = {}
    /\ modlist' = NewList(from)
    /\ Answer(s, [seq |-> seq, all |-> Wanted(from), got |-> {}, left |-> 0, disturbed |-> FALSE],
              NewList(from), n)
    /\ cache' = [o \in Ids |-> IF o \in visible THEN ViewOf(o) ELSE cache[o]]
    /\ heard' = [at |-> now, views |-> [o \in Ids |-> ViewOf(o)]] /\ late' = {}
    /\ UNCHANGED <<now, world, rows, phase, visible, seq, todo, back, torn, joined, crashes>>

\* The next page, under the sequence number of the first.
Continue(s, n) ==
    /\ Free /\ session[s] # None
    /\ IF session[s].seq # seq
       THEN modlist' = NoList /\ session' = [Disturbed(s, NoList) EXCEPT ![s] = None]
       ELSE Answer(s, session[s], modlist, n) /\ UNCHANGED modlist
    /\ UNCHANGED <<now, world, rows, phase, visible, cache, seq, todo, history, ops>>

\* A view that cannot be read is used all the same: the null pointer ends the server.
AskForUnreadable ==
    /\ Free /\ Unreadable # {}
    /\ phase' = "down"
    /\ session' = [s \in Sessions |-> None]
    /\ UNCHANGED <<now, world, rows, memory, todo, history, ops>>

(***************************************************************************)
(* The end of turn: MinisecTurn::doTurn and Game::doEndOfTurn.             *)
(***************************************************************************)
Fates == {"same", "changes", "dies", "is made"}

\* Mutant: that an object is gone does not touch the view.
GoneUntouched(view) == [view EXCEPT !.gone = TRUE]

Gone(view) == IF view.gone THEN view ELSE [gone |-> TRUE, mod |-> now]

StartTurn(fate) ==
    LET t == turn + 1
        obs == [o \in Ids |-> CASE fate[o] = "same" -> objects[o]
                                [] fate[o] = "dies" -> [objects[o] EXCEPT !.alive = FALSE]
                                [] OTHER -> [alive |-> TRUE, mod |-> now]]
        vis == {o \in Ids : obs[o] # None /\ obs[o].alive}
        new == {o \in vis : ViewAt(o, t) = None}
        updated == {o \in vis \ new : obs[o].mod > ViewAt(o, t).mod}
        gone == {o \in visible \ vis : ~ViewAt(o, t).gone}
        view == [o \in Ids |->
                    IF o \in new THEN [gone |-> FALSE, mod |-> now]
                    ELSE IF o \in updated THEN [ViewAt(o, t) EXCEPT !.mod = obs[o].mod]
                    ELSE IF o \in gone THEN Gone(ViewAt(o, t))
                    ELSE ViewAt(o, t)]
        saves(S) == [k \in 1 .. 2 * Cardinality(S) |->
                        LET o == Nth(S, (k + 1) \div 2) IN SaveObjectView(o, t, view[o])[2 - (k % 2)]]
    IN  /\ Free /\ turn < MaxTurn
        /\ \A o \in Ids : CASE fate[o] = "same" -> TRUE
                            [] fate[o] = "is made" -> ~Exists(o)
                            [] OTHER -> Alive(o)
        /\ phase' = "turn" /\ turn' = t
        /\ objects' = obs
        /\ visible' = visible \union new
        /\ cache' = view
        /\ seq' = seq + Cardinality(new)
        /\ todo' = saves(new \union updated) \o saves(gone)
        /\ late' = late \union {o \in updated : obs[o].mod # now}
        /\ back' = back \union {o \in Ids : rows[o][t] # None
                                   /\ (cache[o] = None \/ o \notin new \union updated \union gone)}
        /\ UNCHANGED <<now, before, rows, info, modlist, session, heard, torn, joined, crashes, ops>>

EndTurn ==
    /\ phase = "turn" /\ todo = <<>>
    /\ phase' = "idle" /\ info' = turn /\ before' = objects
    /\ seq' = seq + 1 /\ joined' = {}
    /\ UNCHANGED <<now, objects, turn, rows, visible, cache, modlist, todo, session,
                   heard, late, back, torn, crashes, ops>>

(***************************************************************************)
(* Time, crashes and restarts.                                             *)
(***************************************************************************)
Init ==
    /\ now = 0 /\ info = 0 /\ turn = 0 /\ phase = "idle"
    /\ objects = [o \in Ids |-> IF o \in Known THEN [alive |-> TRUE, mod |-> 0] ELSE None]
    /\ before = objects
    /\ rows = [o \in Ids |-> [t \in Turns |->
                  IF o \in Known /\ t = 0 THEN [gone |-> FALSE, mod |-> 0] ELSE None]]
    /\ visible = Known /\ cache = [o \in Ids |-> rows[o][0]] /\ seq = 0 /\ modlist = NoList
    /\ todo = <<>> /\ session = [s \in Sessions |-> None]
    /\ heard = None /\ late = {} /\ back = {} /\ torn = {} /\ joined = {} /\ crashes = 0 /\ ops = 0

\* A second passes; within an operation it makes no difference.
Tick ==
    /\ todo = <<>> /\ phase # "turn" /\ now < MaxTime
    /\ now' = now + 1
    /\ UNCHANGED <<world, rows, phase, memory, todo, session, history, ops>>

Crash ==
    /\ phase # "down" /\ crashes < MaxCrashes
    /\ phase' = "down" /\ todo' = <<>> /\ crashes' = crashes + 1
    /\ session' = [s \in Sessions |-> None]
    /\ torn' = IF phase = "idle" THEN torn \union {todo[k].id : k \in 1 .. Len(todo)} ELSE torn
    /\ UNCHANGED <<now, world, rows, memory, heard, late, back, joined, ops>>

\* MysqlPersistence::retrievePlayer: every object that has a row, of whatever
\* turn, is visible.
Restart ==
    /\ phase = "down"
    /\ phase' = "idle" /\ turn' = info /\ objects' = before
    /\ visible' = {o \in Ids : \E t \in Turns : rows[o][t] # None}
    /\ cache' = [o \in Ids |-> None] /\ seq' = 0 /\ modlist' = NoList
    /\ UNCHANGED <<now, before, info, rows, todo, session, history, ops>>

Next ==
    \/ Send \/ EndTurn \/ Tick \/ Crash \/ Restart \/ AskForUnreadable
    \/ \E new, touched \in SUBSET Ids : PlayerJoins(new, touched)
    \/ \E o \in Ids : GiveOrder(o)
    \/ \E s \in Sessions, n \in 0 .. MaxList + 1 :
          \/ Continue(s, n)
          \/ \E from \in {Never} \union (IF heard = None THEN {} ELSE {heard.at}) : Ask(s, from, n)
    \/ \E fate \in [Ids -> Fates] : StartTurn(fate)

Spec == Init /\ [][Next]_vars

(***************************************************************************)
(* Properties.                                                             *)
(***************************************************************************)
\* The type of the state.
TypeOK ==
    /\ now \in Time /\ info \in Turns /\ turn \in Turns /\ phase \in {"idle", "turn", "down"}
    /\ \A o \in Ids : objects[o] \in Object \union {None}
    /\ \A o \in Ids, t \in Turns : rows[o][t] \in View \union {None}
    /\ visible \subseteq Ids /\ seq \in Nat
    /\ \A o \in Ids : cache[o] \in View \union {None} /\ modlist[o] \in Time \union {None}
    /\ \A s \in Sessions : session[s] # None =>
          session[s].got \subseteq Ids /\ session[s].left \in 0 .. MaxId + 1

\* A client that has read a list to its end under one sequence number has
\* the ids that were on it when it was made, whatever changed in between, and
\* at every page what it has and what is said to be left add up: unless
\* another session of the same player asked for a list of its own.
PagesComplete ==
    \A s \in Sessions : session[s] # None /\ ~session[s].disturbed =>
        /\ session[s].got \subseteq session[s].all
        /\ Cardinality(session[s].got) + session[s].left = Cardinality(session[s].all)

\* A client that asks again for what changed after the second before its last
\* list misses nothing, neither that an object is gone nor what changed in
\* the same second, nor what a restart made of it.
\* Except for views that were given the time of their object, which had changed
\* between turns, those for which a row of an unfinished turn came back, and
\* those a crash caught in a change.
NothingMissed ==
    phase = "idle" /\ todo = <<>> /\ heard # None =>
        \A o \in visible \ (late \union back \union torn) :
            ViewOf(o) # None /\ ViewOf(o) # heard.views[o] => Listed(ViewOf(o), heard.at - 1)

\* The player sees the living and no others, whenever a turn was cut off and
\* played again: except for objects made since, views a crash caught in a
\* change, and those for which a row of an unfinished turn came back.
LivingShown ==
    phase = "idle" /\ todo = <<>> =>
        \A o \in Ids \ (back \union torn \union joined) :
            Alive(o) <=> ViewOf(o) # None /\ ~ViewOf(o).gone

\* A visible object has a view that can be read: the only exception are
\* objects first seen in a turn that was not finished, for which the next
\* request for a list ends the server.
ViewsReadable ==
    phase = "idle" /\ todo = <<>> =>
        \A o \in Unreadable : \A t \in Turns : rows[o][t] # None => t > info

\* The views in memory and in the table can be used, and show who lives.
ViewsConsistent == TypeOK /\ ViewsReadable /\ LivingShown
=============================================================================
