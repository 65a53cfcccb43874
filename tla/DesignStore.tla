---------------------------- MODULE DesignStore ----------------------------
(***************************************************************************)
(* The designs of ships, the players who may use them and the counts of    *)
(* the ships that are built after them (src/tpserver/designstore.cpp,      *)
(* design.cpp, playerview.cpp, the frames of playeragent.cpp, the build    *)
(* order and the combat of src/modules/games/minisec, and the tables of    *)
(* src/modules/persistence/mysql/mysqlpersistence.cpp).                    *)
(*                                                                         *)
(* A design is reduced to its owner, its components, its two counts and    *)
(* whether it is valid; which designs are is decided by the Scheme         *)
(* interpreter from the components alone.  The ships and the orders are    *)
(* those of MinisecTurn and OrderQueue, here only counted by design.  The  *)
(* server is one thread: an operation changes the memory at once and its   *)
(* statements wait in todo; the server may die between any two of them.    *)
(***************************************************************************)
EXTENDS Integers, FiniteSets, Sequences, SequencesExt, FiniteSetsExt

CONSTANTS
    Players,
    MaxDesign,   \* greatest id of a design, a bound
    Components,  \* ids of components
    Kits,        \* sets of components that frames name and rulesets give
    Valid,       \* the sets of components that make a valid design
    Word,        \* counts are kept modulo Word
    MaxOps,      \* changes and orders of the players, and gifts of the ruleset, a bound
    MaxTurns,    \* turns that are played, a bound
    MaxCrashes,  \* times the server dies between two statements, a bound
    None         \* no row, no entry

ASSUME DesignStoreAssumption ==
    /\ Players \subseteq Nat /\ MaxDesign \in Nat \ {0} /\ Components \subseteq Nat
    /\ Kits \subseteq SUBSET Components /\ Valid \subseteq SUBSET Components
    /\ Word \in Nat \ {0} /\ MaxOps \in Nat /\ MaxTurns \in Nat /\ MaxCrashes \in Nat

VARIABLES
    row, parts,          \* tables design and designcomponent
    seen,                \* table playerdesignview
    usable,              \* tables playerdesignusable and playercomponentusable
    orders, fleets,      \* stored: ships that orders ask for, ships that fleets have
    known,               \* the keys of DesignStore::designs
    designs,             \* DesignStore::designs: None where the entry is NULL
    components,          \* ids whose entry in DesignStore::components is not NULL
    next_designid,
    usableDesigns, usableComponents, visibleDesigns,  \* PlayerView, by player
    asked, ships,        \* in memory: ships that orders ask for, ships that fleets have
    todo,                \* statements still to be sent
    torn,                \* history: designs, players and ships a crash caught in a change
    ops, turns, crashes

tables == <<row, parts, seen, usable, orders, fleets>>
store == <<known, designs, components, next_designid>>
views == <<usableDesigns, usableComponents, visibleDesigns>>
bounds == <<ops, turns, crashes>>
vars == <<tables, store, views, asked, ships, todo, torn, bounds>>

Ids == 1 .. MaxDesign
Counts == 0 .. Word - 1
Row == [owner : Players, inuse : Counts, exist : Counts, valid : BOOLEAN]
Design == [owner : Players, parts : SUBSET Components, inuse : Counts, exist : Counts, valid : BOOLEAN]

(***************************************************************************)
(* Statements.                                                             *)
(***************************************************************************)
Sql(table, id, value) == [table |-> table, id |-> id, value |-> value]

RowOf(x) == [owner |-> x.owner, inuse |-> x.inuse, exist |-> x.exist, valid |-> x.valid]
SaveDesign(d, x) == <<Sql("row", d, RowOf(x)), Sql("parts", d, x.parts)>>
UpdateDesign(d, x) == <<Sql("row", d, RowOf(x)), Sql("parts", d, {}), Sql("parts", d, x.parts)>>
SaveDesignView(p, d) == <<Sql("seen", <<p, d>>, FALSE), Sql("seen", <<p, d>>, TRUE)>>

\* MysqlPersistence::updatePlayer: everything is deleted, then inserted.
UpdatePlayer(p, ds, cs) ==
    <<Sql("usable", p, [designs |-> {}, components |-> {}]), Sql("usable", p, [designs |-> ds, components |-> cs])>>

\* The tables after the first n of the statements of todo.
Carried(n) ==
    LET About(name, i) == {k \in 1 .. n : todo[k].table = name /\ todo[k].id = i}
        Rows(table, name) ==
            [i \in DOMAIN table |-> IF About(name, i) = {} THEN table[i] ELSE todo[Max(About(name, i))].value]
        All(table, name) ==
            LET ks == {k \in 1 .. n : todo[k].table = name}
            IN  IF ks = {} THEN table ELSE todo[Max(ks)].value
    IN  /\ row' = Rows(row, "row") /\ parts' = Rows(parts, "parts")
        /\ seen' = Rows(seen, "seen") /\ usable' = Rows(usable, "usable")
        /\ orders' = All(orders, "orders") /\ fleets' = All(fleets, "fleets")

Save ==
    /\ todo # <<>> /\ Carried(Len(todo))
    /\ todo' = <<>>
    /\ UNCHANGED <<store, views, asked, ships, torn, bounds>>

(***************************************************************************)
(* Designs, read from the tables when they are first asked for.            *)
(***************************************************************************)
\* MysqlPersistence::retrieveDesign
Stored(d) ==
    IF row[d] = None THEN None
    ELSE [owner |-> row[d].owner, parts |-> parts[d], inuse |-> row[d].inuse,
          exist |-> row[d].exist, valid |-> row[d].valid]

GetDesign(d) == IF d \notin known THEN None ELSE IF designs[d] = None THEN Stored(d) ELSE designs[d]

Reading(ds) == [d \in Ids |-> IF d \in ds THEN GetDesign(d) ELSE designs[d]]

Free == todo = <<>>
Change == Free /\ ops < MaxOps /\ ops' = ops + 1

\* MysqlPersistence::getMaxDesignId
NextDesignId == Max({0} \union {d \in Ids : row[d] # None}) + 1

\* DesignStore::init and the players as they are read: nothing else happens
\* until the server runs again, so that it does within the step it dies in.
StartsAnew ==
    /\ known' = {d \in Ids : row'[d] # None}
    /\ designs' = [d \in Ids |-> None] /\ components' = {} /\ next_designid' = NextDesignId'
    /\ usableDesigns' = [p \in Players |-> usable'[p].designs]
    /\ usableComponents' = [p \in Players |-> usable'[p].components]
    /\ visibleDesigns' = [p \in Players |-> {d \in Ids : seen'[<<p, d>>]}]
    /\ asked' = orders' /\ ships' = fleets'

\* A null pointer is used, and the server dies, where no statement was sent.
Dies == UNCHANGED <<tables, todo, torn, turns, crashes>> /\ StartsAnew

\* Frame GetDesign for a design that is on the player's list.
ShowDesign(p, d) ==
    /\ Free /\ d \in visibleDesigns[p]
    /\ IF GetDesign(d) = None THEN Dies /\ UNCHANGED ops
       ELSE /\ designs' = Reading({d})
            /\ UNCHANGED <<tables, known, components, next_designid, views, asked, ships, todo, torn, bounds>>

\* Frame GetComponent.
ShowComponent(c) ==
    /\ Free /\ components' = components \union {c}
    /\ UNCHANGED <<tables, known, designs, next_designid, views, asked, ships, todo, torn, bounds>>

(***************************************************************************)
(* Frames AddDesign and ModifyDesign.                                      *)
(***************************************************************************)
\* A new design as the frame makes it, and what the interpreter says of it.
NewDesign(p, cs) == [owner |-> p, parts |-> cs, inuse |-> 0, exist |-> 0, valid |-> cs \in Valid]

\* A component the player may not use: those before it are read, the id is spent.
AddRefused(p, cs) ==
    /\ Change /\ next_designid \in Ids /\ ~(cs \subseteq usableComponents[p])
    /\ components' = components \union {c \in cs : c < Min(cs \ usableComponents[p])}
    /\ next_designid' = next_designid + 1
    /\ UNCHANGED <<tables, known, designs, views, asked, ships, todo, torn, turns, crashes>>

\* Mutant: the player is not saved after the design was added.
AddDesignUnsaved(p, cs) ==
    /\ Change /\ next_designid \in Ids /\ cs \subseteq usableComponents[p]
    /\ LET d == next_designid
           x == NewDesign(p, cs)
       IN  /\ known' = known \union {d} /\ designs' = [designs EXCEPT ![d] = x]
           /\ usableDesigns' = IF x.valid THEN [usableDesigns EXCEPT ![p] = @ \union {d}] ELSE usableDesigns
           /\ visibleDesigns' = [visibleDesigns EXCEPT ![p] = @ \union {d}]
           /\ todo' = SaveDesignView(p, d) \o SaveDesign(d, x)
    /\ components' = components \union cs /\ next_designid' = next_designid + 1
    /\ UNCHANGED <<tables, usableComponents, asked, ships, torn, turns, crashes>>

\* DesignStore::addDesign: the player is saved before the design.
AddDesign(p, cs) ==
    /\ Change /\ next_designid \in Ids /\ cs \subseteq usableComponents[p]
    /\ LET d == next_designid
           x == NewDesign(p, cs)
       IN  /\ known' = known \union {d} /\ designs' = [designs EXCEPT ![d] = x]
           /\ usableDesigns' = IF x.valid THEN [usableDesigns EXCEPT ![p] = @ \union {d}] ELSE usableDesigns
           /\ visibleDesigns' = [visibleDesigns EXCEPT ![p] = @ \union {d}]
           /\ todo' = SaveDesignView(p, d) \o UpdatePlayer(p, usableDesigns'[p], usableComponents[p])
                      \o SaveDesign(d, x)
    /\ components' = components \union cs /\ next_designid' = next_designid + 1
    /\ UNCHANGED <<tables, usableComponents, asked, ships, torn, turns, crashes>>

\* Mutant: only the count of ships in use is looked at.
ChangeableUnused(p, d) ==
    designs[d] # None /\ designs[d].owner = p /\ designs[d].inuse = 0

\* The design is in memory, the player's own, and has never been built.
Changeable(p, d) ==
    designs[d] # None /\ designs[d].owner = p /\ designs[d].exist = 0 /\ designs[d].inuse = 0

\* Mutant: a design that is changed stays usable.
TakenStays(p, d) == usableDesigns

Taken(p, d) == [usableDesigns EXCEPT ![p] = @ \ {d}]

\* Looking an unknown id up with [] makes it a key.
ModifyRefused(p, d) ==
    /\ Change /\ ~Changeable(p, d)
    /\ known' = known \union {d}
    /\ UNCHANGED <<tables, designs, components, next_designid, views, asked, ships, todo, torn, turns, crashes>>

\* A component of the design was not read since the server started.
ModifyDies(p, d) ==
    /\ Change /\ Changeable(p, d) /\ ~(designs[d].parts \subseteq components)
    /\ Dies

\* A component of the design can no longer be used by the player: the design
\* is refused after it was taken off the usable ones, which is not saved.
ModifyWithheld(p, d) ==
    /\ Change /\ Changeable(p, d) /\ designs[d].parts \subseteq components
    /\ ~(designs[d].parts \subseteq usableComponents[p])
    /\ usableDesigns' = Taken(p, d)
    /\ UNCHANGED <<tables, store, usableComponents, visibleDesigns, asked, ships, todo, torn, turns, crashes>>

\* DesignStore::modifyDesign
ModifyDesign(p, d, cs) ==
    /\ Change /\ Changeable(p, d)
    /\ designs[d].parts \subseteq components \intersect usableComponents[p]
    /\ LET x == NewDesign(p, cs)
       IN  /\ designs' = [designs EXCEPT ![d] = x]
           /\ usableDesigns' = IF x.valid THEN [usableDesigns EXCEPT ![p] = @ \union {d}] ELSE Taken(p, d)
           /\ visibleDesigns' = IF x.valid THEN [visibleDesigns EXCEPT ![p] = @ \union {d}] ELSE visibleDesigns
           /\ todo' = (IF x.valid THEN SaveDesignView(p, d) ELSE <<>>)
                      \o UpdatePlayer(p, usableDesigns'[p], usableComponents[p]) \o UpdateDesign(d, x)
    /\ components' = components \union cs
    /\ UNCHANGED <<tables, known, next_designid, usableComponents, asked, ships, torn, turns, crashes>>

\* The ruleset changes what the player may use.
Provide(p, cs) ==
    /\ Change /\ usableComponents' = [usableComponents EXCEPT ![p] = cs]
    /\ todo' = UpdatePlayer(p, usableDesigns[p], cs)
    /\ UNCHANGED <<tables, store, usableDesigns, visibleDesigns, asked, ships, torn, turns, crashes>>

\* The ruleset shows the designs there are to a player.
ShowOthers(p) ==
    /\ Change /\ ~(known \subseteq visibleDesigns[p])
    /\ visibleDesigns' = [visibleDesigns EXCEPT ![p] = @ \union known]
    /\ LET new == SetToSortSeq(known \ visibleDesigns[p], <)
       IN  todo' = FlattenSeq([k \in 1 .. Len(new) |-> SaveDesignView(p, new[k])])
    /\ UNCHANGED <<tables, store, usableDesigns, usableComponents, asked, ships, torn, turns, crashes>>

(***************************************************************************)
(* Ships: the build order, the end of the turn.                            *)
(***************************************************************************)
Plus(n, k) == (n + k) % Word

\* The designs of the list up to the first the player may not use.
Counted(p, ds) == {d \in ds : \A e \in ds \ usableDesigns[p] : d < e}

UnderConstruction(ds) ==
    [d \in Ids |-> IF d \in ds THEN [GetDesign(d) EXCEPT !.inuse = Plus(@, 1)] ELSE designs[d]]

Ascending(ds) == SetToSortSeq(ds, <)

\* Mutant: the counts are changed in memory only.
CountsInMemory(ds, now) == <<>>

\* DesignStore::designCountsUpdated for each of the designs.
CountsUpdated(ds, now) ==
    FlattenSeq([k \in 1 .. Cardinality(ds) |-> UpdateDesign(Ascending(ds)[k], now[Ascending(ds)[k]])])

\* Build::inputFrame: a ship of every design of the list is counted as under
\* construction before it is known whether the order is to be.
Input(p, ds) ==
    /\ Change /\ \A d \in Counted(p, ds) : GetDesign(d) # None
    /\ designs' = UnderConstruction(Counted(p, ds))
    /\ UNCHANGED <<tables, known, components, next_designid, views, ships, torn, turns, crashes>>

\* Frame AddOrder.
AskFor(p, ds) ==
    /\ Input(p, ds) /\ ds \subseteq usableDesigns[p]
    /\ asked' = [d \in Ids |-> asked[d] + IF d \in ds THEN 1 ELSE 0]
    /\ todo' = CountsUpdated(ds, designs') \o <<Sql("orders", 0, asked')>>

\* Frame ProbeOrder, or a frame AddOrder that is refused.
Probe(p, ds) ==
    /\ Input(p, ds) /\ Counted(p, ds) # {}
    /\ todo' = CountsUpdated(Counted(p, ds), designs')
    /\ UNCHANGED asked

\* A usable design that has no row is looked up.
AskDies(p, ds) ==
    /\ Change /\ \E d \in Counted(p, ds) : GetDesign(d) = None
    /\ Dies

\* Frame RemoveOrder: nothing is counted back.
Withdraw(d) ==
    /\ Free /\ asked[d] > 0
    /\ asked' = [asked EXCEPT ![d] = @ - 1]
    /\ todo' = <<Sql("orders", 0, asked')>>
    /\ UNCHANGED <<tables, store, views, ships, torn, bounds>>

\* The ships a turn leaves: one more of each of built, one less of each of lost.
ShipsAfter(built, lost) ==
    [d \in Ids |-> ships[d] + (IF d \in built THEN 1 ELSE 0) - (IF d \in lost THEN 1 ELSE 0)]

\* Design::addComplete and Design::removeDestroyed.
CountsAfter(built, lost) ==
    [d \in Ids |-> IF d \in built \union lost
        THEN [GetDesign(d) EXCEPT !.exist = Plus(@, IF d \in built THEN 1 ELSE 0),
                                  !.inuse = Plus(@, IF d \in lost THEN -1 ELSE 0)]
        ELSE designs[d]]

\* Build::doOrder for some of the orders, then the ships lost in combat, then
\* PlayerManager::updateAll; the fleets are those of this turn once it is over.
Turn(built, lost) ==
    /\ Free /\ turns < MaxTurns /\ turns' = turns + 1
    /\ \A d \in built : asked[d] > 0
    /\ \A d \in lost : ships[d] > 0 \/ d \in built
    /\ \A d \in built \union lost : GetDesign(d) # None
    /\ ships' = ShipsAfter(built, lost)
    /\ asked' = [d \in Ids |-> asked[d] - IF d \in built THEN 1 ELSE 0]
    /\ designs' = CountsAfter(built, lost)
    /\ LET done == CountsAfter(built, {})
           left(b) == [d \in Ids |-> asked[d] - IF d \in built /\ d <= b THEN 1 ELSE 0]
           Built(b) == UpdateDesign(b, done[b]) \o <<Sql("orders", 0, left(b))>>
           Saved(p) == UpdatePlayer(p, usableDesigns[p], usableComponents[p])
           InOrder(ds, Of(_)) == FlattenSeq([k \in 1 .. Cardinality(ds) |-> Of(Ascending(ds)[k])])
       IN  todo' = InOrder(built, Built) \o CountsUpdated(lost, designs')
                   \o InOrder(Players, Saved)
                   \o <<Sql("fleets", lost, ships')>>
    /\ UNCHANGED <<tables, known, components, next_designid, views, torn, ops, crashes>>

(***************************************************************************)
(* Starting and dying.                                                     *)
(***************************************************************************)
\* The tables are empty but for what the ruleset gave the players.
Init ==
    /\ row = [d \in Ids |-> None] /\ parts = [d \in Ids |-> {}]
    /\ seen = [x \in Players \X Ids |-> FALSE]
    /\ usable = [p \in Players |-> [designs |-> {}, components |-> Components]]
    /\ orders = [d \in Ids |-> 0] /\ fleets = [d \in Ids |-> 0]
    /\ known = {} /\ designs = [d \in Ids |-> None] /\ components = Components /\ next_designid = 1
    /\ usableDesigns = [p \in Players |-> {}] /\ visibleDesigns = usableDesigns
    /\ usableComponents = [p \in Players |-> Components]
    /\ asked = orders /\ ships = fleets
    /\ todo = <<>> /\ torn = [designs |-> {}, players |-> {}, ships |-> {}]
    /\ ops = 0 /\ turns = 0 /\ crashes = 0

\* What the statements after the first n are about.
Pending(table, n) == {todo[k].id : k \in {j \in n + 1 .. Len(todo) : todo[j].table = table}}

Crash(n) ==
    /\ n < Len(todo) /\ crashes < MaxCrashes /\ Carried(n)
    /\ StartsAnew /\ todo' = <<>> /\ crashes' = crashes + 1
    /\ torn' = [designs |-> torn.designs \union Pending("row", n) \union Pending("parts", n)
                            \union {x[2] : x \in Pending("seen", n)},
                players |-> torn.players \union Pending("usable", n),
                ships |-> torn.ships \union UNION Pending("fleets", n)]
    /\ UNCHANGED <<ops, turns>>

\* The server is stopped, or dies between two operations.
Stop == Free /\ UNCHANGED <<tables, todo, torn, bounds>> /\ StartsAnew

Next ==
    \/ Save \/ Stop
    \/ \E n \in 0 .. Len(todo) - 1 : Crash(n)
    \/ \E c \in Components : ShowComponent(c)
    \/ \E d \in Ids : Withdraw(d)
    \/ \E p \in Players :
          \/ ShowOthers(p)
          \/ \E d \in Ids : ShowDesign(p, d)
          \/ \E cs \in Kits : AddRefused(p, cs) \/ AddDesign(p, cs) \/ Provide(p, cs)
          \/ \E d \in visibleDesigns[p] :
                \/ ModifyRefused(p, d) \/ ModifyDies(p, d) \/ ModifyWithheld(p, d)
                \/ \E cs \in Kits : ModifyDesign(p, d, cs)
          \/ \E ds \in SUBSET Ids \ {{}} : AskFor(p, ds) \/ Probe(p, ds) \/ AskDies(p, ds)
    \/ \E built, lost \in SUBSET Ids : Turn(built, lost)

Spec == Init /\ [][Next]_vars

(***************************************************************************)
(* Properties.                                                             *)
(***************************************************************************)
\* The type of the state.
TypeOK ==
    /\ \A d \in Ids : row[d] \in Row \union {None} /\ parts[d] \subseteq Components
    /\ \A d \in Ids : designs[d] \in Design \union {None}
    /\ \A p \in Players : usable[p].designs \union usableDesigns[p] \union visibleDesigns[p] \subseteq Ids
    /\ \A p \in Players : usable[p].components \union usableComponents[p] \subseteq Components
    /\ known \subseteq Ids /\ components \subseteq Components /\ next_designid \in 1 .. MaxDesign + 1
    /\ \A d \in Ids : {asked[d], ships[d], orders[d], fleets[d]} \subseteq Nat

\* What a design is, in memory or to be read.
Drawn(d) ==
    LET x == IF designs[d] # None THEN designs[d] ELSE Stored(d)
    IN  IF x = None THEN None ELSE [owner |-> x.owner, parts |-> x.parts]

\* A design that has ships, or is asked for by an order, stays as it is: the
\* ships of a player never become others, whatever crashes, refused orders
\* and lost ships there were, and no other design is given its id.  Except
\* for the design that was being saved when the server died.
BuiltStaysAsBuilt ==
    [][\A d \in Ids \ torn'.designs : ships[d] + asked[d] > 0 => Drawn(d)' = Drawn(d)]_vars

\* What a player may use, or is shown, is there when it is looked up, and what
\* he may use is his own and valid: the list of a build order and the frame of
\* a design follow the pointer they are given without looking.  Except for the
\* designs that were being saved when the server died.
UsableIsThere ==
    \A p \in Players :
        /\ \A d \in usableDesigns[p] \ torn.designs :
              GetDesign(d) # None /\ GetDesign(d).owner = p /\ GetDesign(d).valid
        /\ \A d \in visibleDesigns[p] \ torn.designs : GetDesign(d) # None

\* No ship is missing in the counts of its design: as many as there are in
\* fleets and in orders are in use, and as many as there are were built.
\* Except for designs of which ships were lost in a turn that was cut off, and
\* are there again.
ShipsCounted ==
    todo = <<>> =>
        \A d \in Ids \ torn.ships :
            ships[d] + asked[d] > 0 =>
                GetDesign(d) # None /\ GetDesign(d).inuse >= ships[d] + asked[d] /\ GetDesign(d).exist >= ships[d]

\* Between two operations a design in memory is as it is stored, and what a
\* player may use he can still use when the server starts anew.
DesignsKept ==
    todo = <<>> =>
        /\ \A d \in Ids \ torn.designs : designs[d] # None => designs[d] = Stored(d)
        /\ \A p \in Players \ torn.players : usableDesigns[p] \subseteq usable[p].designs

\* Designs are well formed, and stored as they are held.
DesignsConsistent == TypeOK /\ DesignsKept
=============================================================================
