-------------------------- MODULE TurnStoreProofs --------------------------
(***************************************************************************)
(* What the store promises whatever crashes and refused saves there are,   *)
(* and however many objects and turns.  An id is never that of two         *)
(* objects: not while both live, and not through the rows that a turn      *)
(* which was cut off left in the tables.  A server that dies finds every   *)
(* object as the last turn or operation that ended left it.  And objects   *)
(* in memory are as they are stored, each in the list of its parent only.  *)
(***************************************************************************)
EXTENDS TurnStore, SequencesExt, SequenceTheorems, FiniteSetTheorems,
        WellFoundedInduction, TLAPS

-----------------------------------------------------------------------------
(* Natural numbers and finite sets *)

LessThan == {p \in Nat \X Nat : p[1] < p[2]}

LEMMA LessThanWellFounded == IsWellFoundedOn(LessThan, Nat)
  BY NatLessThanWellFounded DEF OpToRel, LessThan

\* A set of naturals that is not empty has a least element.
LEMMA LeastElement ==
  ASSUME NEW T, T \subseteq Nat, T # {}
  PROVE  \E x \in T : \A y \in T : x <= y
<1>1. PICK x \in T : \A y \in T : ~ (<<y, x>> \in LessThan)
  BY LessThanWellFounded, WFMin
<1>2. \A y \in T : ~ (y < x)
  BY <1>1 DEF LessThan
<1>3. QED BY <1>2

\* A bounded set of naturals that is not empty has a greatest element: Max.
LEMMA MaxBounded ==
  ASSUME NEW S, S \subseteq Nat, S # {}, NEW b \in Nat, \A x \in S : x <= b
  PROVE  Max(S) \in S /\ \A x \in S : x <= Max(S)
<1> DEFINE Bound == {n \in Nat : \A x \in S : x <= n}
<1>1. PICK m \in Bound : \A n \in Bound : m <= n
  <2>1. Bound \subseteq Nat /\ b \in Bound
    OBVIOUS
  <2>2. QED BY <2>1, LeastElement
<1>2. m \in Nat /\ \A x \in S : x <= m
  BY <1>1
<1>3. m \in S
  <2>1. SUFFICES ASSUME m \notin S PROVE FALSE
    OBVIOUS
  <2>2. \A x \in S : x <= m - 1
    BY <1>2, <2>1
  <2>3. m - 1 \in Nat
    <3>1. PICK x \in S : x <= m - 1
      BY <2>2
    <3>2. x \in Nat
      OBVIOUS
    <3>3. QED BY <1>2, <3>1, <3>2
  <2>4. m - 1 \in Bound
    BY <2>2, <2>3
  <2>5. QED BY <1>1, <1>2, <2>4
<1>4. \E x \in S : \A y \in S : x >= y
  BY <1>2, <1>3
<1>5. Max(S) \in S /\ \A y \in S : Max(S) >= y
  BY <1>4 DEF Max
<1>6. QED BY <1>5

-----------------------------------------------------------------------------
(* The inductive invariant *)

Entry == Object \union {Absent, Null}
Loads(ob) == ob \notin {Absent, Null}

\* An object has a row that can be read at turn t.
HasRow(o, t) == \E u \in Turns : u <= t /\ rows[o][u] # NoRow

\* It is still to be saved by the operation under way.
Queued(o) == \E k \in 1 .. Len(todo) : todo[k] = o

Typing ==
  /\ info \in Turns \union {NoRow}
  /\ rows \in [Ids -> [Turns -> Row \union {NoRow}]]
  /\ params \in [Ids -> [Turns -> Vals \union {NoRow}]]
  /\ phase \in {"down", "create", "idle", "turn", "save"}
  /\ turn \in Turns /\ nextid \in 0 .. MaxId + 1
  /\ objects \in [Ids -> Entry]
  /\ scheduled \subseteq Ids /\ \A o \in scheduled : Loads(objects[o])
  /\ todo \in Seq(Ids) /\ \A k \in 1 .. Len(todo) : Loads(objects[todo[k]])
  /\ stage \in 0 .. 3
  /\ torn \subseteq Ids /\ back \subseteq Ids /\ anew \in BOOLEAN

\* The row of gameinfo says which turn ended last.
TurnOfInfo ==
  /\ phase \in {"create", "idle"} => info = turn
  /\ phase = "turn" => info \in Turns /\ turn = info + 1
  /\ phase = "save" => info = NoRow /\ todo = <<>> /\ turn > 0
  /\ todo # <<>> => phase \in {"create", "idle", "turn"}

\* When the parameters are written, the row of the object has been.
RowBeforeParams ==
  stage \in {2, 3} => todo # <<>> /\ rows[Head(todo)][turn] # NoRow

\* The turn a restart would go back to.
EndedTurn ==
  IF phase = "down" THEN (IF info = NoRow THEN MaxTurn ELSE info)
  ELSE IF phase \in {"turn", "save"} THEN turn - 1 ELSE turn

\* The next id is above those that have a row and those held in memory.
IdsBelow ==
  phase # "down" => \A o \in Ids :
    (objects[o] # Absent \/ \E u \in Turns : rows[o][u] # NoRow) => o < nextid

\* What is in memory has a row, or is about to be given one.
HeldHasRow ==
  phase # "down" => \A o \in Ids :
    Loads(objects[o]) => o \in torn \/ HasRow(o, turn) \/ Queued(o)

\* What was there when the last turn or operation ended has a row that a
\* restart finds, or is being saved.
KeptHasRow ==
  \A o \in Ids :
    kept[o] # NoRow =>
      \/ o \in torn
      \/ HasRow(o, EndedTurn)
      \/ phase \in {"create", "idle"} /\ Queued(o)

Rows == IdsBelow /\ HeldHasRow /\ KeptHasRow

IInv == Typing /\ TurnOfInfo /\ RowBeforeParams /\ (anew \/ Rows)

LEMMA InitIsGood == Init => IInv
<1> SUFFICES ASSUME Init PROVE IInv
  OBVIOUS
<1> USE StoreAssumption, NothingAssumption
<1>1. Typing
  <2>1. info \in Turns \union {NoRow} /\ phase \in {"down", "create", "idle", "turn", "save"}
    BY DEF Init
  <2>2. turn \in Turns /\ nextid \in 0 .. MaxId + 1 /\ stage \in 0 .. 3
    BY DEF Init, Turns
  <2>3. rows \in [Ids -> [Turns -> Row \union {NoRow}]] /\ params \in [Ids -> [Turns -> Vals \union {NoRow}]]
    BY DEF Init
  <2>4. objects \in [Ids -> Entry]
    BY DEF Init, Entry
  <2>5. scheduled = {} /\ torn \subseteq Ids /\ back \subseteq Ids
    BY DEF Init
  <2>6. todo \in Seq(Ids) /\ Len(todo) = 0
    BY DEF Init
  <2>7. anew \in BOOLEAN
    BY Zenon DEF Init
  <2>8. QED BY <2>1, <2>2, <2>3, <2>4, <2>5, <2>6, <2>7 DEF Typing
<1>2. TurnOfInfo /\ RowBeforeParams
  BY DEF Init, TurnOfInfo, RowBeforeParams
<1>3. Rows
  BY DEF Init, Rows, IdsBelow, HeldHasRow, KeptHasRow
<1>4. QED BY <1>1, <1>2, <1>3 DEF IInv

-----------------------------------------------------------------------------
(* Reading *)

\* What is read back is an object, and has a row.
LEMMA Retrieved ==
  ASSUME Typing, NEW o \in Ids, NEW t \in Turns
  PROVE  /\ RetrieveObject(o, t) \in Object \union {Null}
         /\ RetrieveObject(o, t) # Null => HasRow(o, t)
<1> USE StoreAssumption, NothingAssumption
<1>1. ASSUME NEW table, NEW S, table \in [Ids -> [Turns -> S \union {NoRow}]], Newest(table, o, t) # NoRow
      PROVE  Newest(table, o, t) \in S /\ Written(table, o, t) # {}
  <2>1. Written(table, o, t) # {} /\ Newest(table, o, t) = table[o][Max(Written(table, o, t))]
    BY <1>1 DEF Newest
  <2>2. Written(table, o, t) \subseteq Nat /\ t \in Nat /\ \A u \in Written(table, o, t) : u <= t
    BY DEF Written, Turns
  <2>3. Max(Written(table, o, t)) \in Written(table, o, t)
    BY <2>1, <2>2, MaxBounded
  <2>4. Max(Written(table, o, t)) \in Turns
    BY <2>3 DEF Written
  <2>5. QED BY <1>1, <2>1, <2>4
<1>2. ASSUME Newest(rows, o, t) # NoRow PROVE Newest(rows, o, t) \in Row /\ Written(rows, o, t) # {}
  BY <1>1, <1>2 DEF Typing
<1>3. ASSUME Newest(params, o, t) # NoRow PROVE Newest(params, o, t) \in Vals
  BY <1>1, <1>3 DEF Typing
<1>4. Children(o, t) \in SUBSET Ids
  BY DEF Children
<1>5. (CHOOSE v \in Vals : TRUE) \in Vals
  OBVIOUS
<1>6. CASE Newest(rows, o, t) = NoRow \/ (Newest(rows, o, t).alive /\ Newest(params, o, t) = NoRow)
  BY <1>6 DEF RetrieveObject
<1>7. CASE ~(Newest(rows, o, t) = NoRow \/ (Newest(rows, o, t).alive /\ Newest(params, o, t) = NoRow))
  <2>1. Newest(rows, o, t) \in Row /\ HasRow(o, t)
    BY <1>2, <1>7 DEF Written, HasRow
  <2>2. (IF Newest(rows, o, t).alive THEN Newest(params, o, t) ELSE CHOOSE v \in Vals : TRUE) \in Vals
    BY <1>3, <1>5, <1>7
  <2>3. RetrieveObject(o, t) =
          [alive |-> Newest(rows, o, t).alive, parent |-> Newest(rows, o, t).parent, children |-> Children(o, t),
           val |-> IF Newest(rows, o, t).alive THEN Newest(params, o, t) ELSE CHOOSE v \in Vals : TRUE,
           dirty |-> FALSE]
    BY <1>7 DEF RetrieveObject
  <2>4. QED BY <1>4, <2>1, <2>2, <2>3 DEF Object, Row
<1>8. QED BY <1>6, <1>7

LEMMA Got ==
  ASSUME Typing, NEW o \in Ids
  PROVE  /\ GetObject(o) \in Object \union {Null}
         /\ GetObject(o) # Null => Loads(objects[o]) \/ HasRow(o, turn)
         /\ Loads(objects[o]) => GetObject(o) = objects[o]
  BY Retrieved, NothingAssumption DEF GetObject, Loaded, Loads, Typing, Entry

-----------------------------------------------------------------------------
(* The operations on objects *)

\* What every operation of ObjectManager does: the objects it leaves in memory
\* were there, were read, or have the new id, and what it does not save was
\* there or was read.
Sound(obs, saves) ==
  /\ obs \in [Ids -> Entry]
  /\ saves \in Seq(Ids) /\ \A k \in 1 .. Len(saves) : Loads(obs[saves[k]])
  /\ nextid' \in 0 .. MaxId + 1 /\ nextid <= nextid'
  /\ scheduled' \subseteq Ids /\ \A o \in scheduled' : Loads(obs[o])
  /\ \A o \in Ids : obs[o] # Absent => objects[o] # Absent \/ HasRow(o, turn) \/ o < nextid'
  /\ \A o \in Ids : Loads(obs[o]) =>
        Loads(objects[o]) \/ HasRow(o, turn) \/ \E k \in 1 .. Len(saves) : saves[k] = o

LEMMA OperationKeeps ==
  ASSUME IInv, Free, NEW obs, NEW saves, Operation(obs, saves), Sound(obs, saves)
  PROVE  IInv'
<1> USE StoreAssumption, NothingAssumption
<1>1. /\ objects' = obs /\ todo' = saves /\ stage' = 0
      /\ UNCHANGED <<info, rows, params, phase, turn, kept, torn, back>>
      /\ phase \in {"idle", "turn"} /\ todo = <<>>
  BY DEF Operation, Free, disk, history
<1>2. anew' = anew
  BY Zenon DEF Operation, history
<1>3. Typing /\ TurnOfInfo /\ (anew \/ Rows)
  BY DEF IInv
<1>4. Typing'
  <2>1. anew' \in BOOLEAN
    BY Zenon, <1>2, <1>3 DEF Typing
  <2>2. QED BY <1>1, <1>3, <2>1 DEF Typing, Sound
<1>5. TurnOfInfo'
  BY <1>1, <1>3 DEF TurnOfInfo
<1>6. RowBeforeParams'
  BY <1>1 DEF RowBeforeParams
<1>7. ASSUME Rows PROVE Rows'
  <2>1. IdsBelow /\ HeldHasRow /\ KeptHasRow
    BY <1>7 DEF Rows
  <2>2. nextid \in Nat /\ nextid' \in Nat /\ nextid <= nextid' /\ Ids \subseteq Nat
    BY <1>3 DEF Typing, Ids, Sound
  <2>3. ASSUME NEW o \in Ids PROVE ~Queued(o) /\ HasRow(o, turn)' = HasRow(o, turn)
    BY <1>1 DEF Queued, HasRow
  <2>4. IdsBelow'
    <3> SUFFICES ASSUME NEW o \in Ids, objects'[o] # Absent \/ \E u \in Turns : rows'[o][u] # NoRow
                 PROVE  o < nextid'
      BY DEF IdsBelow
    <3>1. CASE o < nextid'
      BY <3>1
    <3>2. CASE objects[o] # Absent \/ \E u \in Turns : rows[o][u] # NoRow
      <4>1. o < nextid
        BY <1>1, <2>1, <3>2 DEF IdsBelow
      <4>2. QED BY <2>2, <4>1
    <3>3. obs[o] # Absent => objects[o] # Absent \/ HasRow(o, turn) \/ o < nextid'
      BY DEF Sound
    <3>4. QED BY <1>1, <3>1, <3>2, <3>3 DEF HasRow
  <2>5. HeldHasRow'
    <3> SUFFICES ASSUME NEW o \in Ids, Loads(objects'[o])
                 PROVE  o \in torn' \/ HasRow(o, turn)' \/ Queued(o)'
      BY DEF HeldHasRow, Loads
    <3>1. CASE Loads(objects[o]) \/ HasRow(o, turn)
      BY <1>1, <2>1, <2>3, <3>1 DEF HeldHasRow
    <3>2. CASE \E k \in 1 .. Len(saves) : saves[k] = o
      BY <1>1, <3>2 DEF Queued
    <3>3. QED BY <1>1, <3>1, <3>2 DEF Sound
  <2>6. KeptHasRow'
    BY <1>1, <2>1, <2>3 DEF KeptHasRow, HasRow, EndedTurn
  <2>7. QED BY <2>4, <2>5, <2>6 DEF Rows
<1>8. anew' \/ Rows'
  <2>1. anew \/ Rows'
    BY <1>3, <1>7
  <2>2. QED BY Zenon, <1>2, <2>1
<1>9. QED BY <1>4, <1>5, <1>6, <1>8 DEF IInv

\* Objects that are read in.
LEMMA ReadingIsGood ==
  ASSUME Typing, NEW S \in SUBSET Ids, \A o \in S : Readable(o)
  PROVE  /\ Reading(S) \in [Ids -> Entry]
         /\ \A o \in S : Reading(S)[o] = GetObject(o) /\ Reading(S)[o] \in Object
         /\ \A o \in Ids \ S : Reading(S)[o] = objects[o]
         /\ \A o \in Ids : Loads(objects[o]) => Reading(S)[o] = objects[o]
         /\ \A o \in Ids : Reading(S)[o] # Absent => objects[o] # Absent \/ HasRow(o, turn)
         /\ \A o \in Ids : Loads(Reading(S)[o]) => Loads(objects[o]) \/ HasRow(o, turn)
<1> USE NothingAssumption
<1>1. \A o \in S : GetObject(o) \in Object
  BY Got DEF Readable
<1>2. \A o \in Ids : Reading(S)[o] = IF o \in S THEN GetObject(o) ELSE objects[o]
  BY DEF Reading
<1>3. Reading(S) \in [Ids -> Entry]
  BY <1>1 DEF Reading, Typing, Entry
<1>4. ASSUME NEW o \in Ids
      PROVE  /\ Loads(objects[o]) => Reading(S)[o] = objects[o]
             /\ Reading(S)[o] # Absent => objects[o] # Absent \/ HasRow(o, turn)
             /\ Loads(Reading(S)[o]) => Loads(objects[o]) \/ HasRow(o, turn)
  <2>1. CASE o \in S
    BY <1>1, <1>2, <2>1, Got DEF Loads
  <2>2. CASE o \notin S
    BY <1>2, <2>2 DEF Loads
  <2>3. QED BY <2>1, <2>2
<1>5. QED BY <1>1, <1>2, <1>3, <1>4

\* One field of an object changes.
LEMMA Fields ==
  ASSUME NEW ob \in Object, NEW v \in Vals, NEW p \in Ids, NEW c \in SUBSET Ids, NEW b \in BOOLEAN
  PROVE  /\ [ob EXCEPT !.val = v] \in Object
         /\ [ob EXCEPT !.parent = p] \in Object
         /\ [ob EXCEPT !.children = c] \in Object
         /\ [ob EXCEPT !.dirty = b] \in Object
         /\ [ob EXCEPT !.alive = b] \in Object
  BY DEF Object

LEMMA AskKeeps ==
  ASSUME IInv, NEW o \in Ids, Ask(o)
  PROVE  IInv'
<1> DEFINE obs == Reading({o})
           saves == <<>>
<1>1. Typing
  BY DEF IInv
<1>2. Free /\ Readable(o) /\ Operation(obs, saves) /\ UNCHANGED <<nextid, scheduled>>
  BY DEF Ask
<1>3. /\ obs \in [Ids -> Entry]
      /\ \A q \in Ids : Loads(objects[q]) => obs[q] = objects[q]
      /\ \A q \in Ids : obs[q] # Absent => objects[q] # Absent \/ HasRow(q, turn)
      /\ \A q \in Ids : Loads(obs[q]) => Loads(objects[q]) \/ HasRow(q, turn)
  BY <1>1, <1>2, ReadingIsGood
<1>4. saves \in Seq(Ids) /\ Len(saves) = 0
  OBVIOUS
<1> HIDE DEF obs, saves
<1>5. Sound(obs, saves)
  BY <1>1, <1>2, <1>3, <1>4, StoreAssumption DEF Sound, Typing
<1>6. QED BY <1>2, <1>5, OperationKeeps

LEMMA RevisitKeeps ==
  ASSUME IInv, NEW o \in Ids, Revisit(o)
  PROVE  IInv'
<1> DEFINE saves == <<o>>
<1>1. Typing
  BY DEF IInv
<1>2. Free /\ Loads(objects[o]) /\ Operation(objects, saves) /\ UNCHANGED <<nextid, scheduled>>
  BY DEF Revisit, Loaded, Loads
<1>3. saves \in Seq(Ids) /\ \A k \in 1 .. Len(saves) : saves[k] = o
  OBVIOUS
<1> HIDE DEF saves
<1>4. Sound(objects, saves)
  BY <1>1, <1>2, <1>3, StoreAssumption DEF Sound, Typing
<1>5. QED BY <1>2, <1>4, OperationKeeps

LEMMA ChangeKeeps ==
  ASSUME IInv, NEW o \in Ids, NEW v \in Vals, Change(o, v)
  PROVE  IInv'
<1> DEFINE read == Reading({o})
           obs  == [read EXCEPT ![o].val = v, ![o].dirty = TRUE]
           saves == <<o>>
<1>1. Typing
  BY DEF IInv
<1>2. Free /\ Readable(o) /\ Operation(obs, saves) /\ UNCHANGED <<nextid, scheduled>>
  BY DEF Change, Alive
<1>3. /\ read \in [Ids -> Entry] /\ read[o] \in Object
      /\ \A q \in Ids : Loads(objects[q]) => read[q] = objects[q]
      /\ \A q \in Ids : read[q] # Absent => objects[q] # Absent \/ HasRow(q, turn)
      /\ \A q \in Ids : Loads(read[q]) => Loads(objects[q]) \/ HasRow(q, turn)
  BY <1>1, <1>2, ReadingIsGood
<1>4. obs \in [Ids -> Entry] /\ Loads(obs[o]) /\ \A q \in Ids \ {o} : obs[q] = read[q]
  <2> HIDE DEF read
  <2>1. [[read[o] EXCEPT !.val = v] EXCEPT !.dirty = TRUE] \in Object
    BY <1>3, Fields
  <2>2. /\ obs[o] = [[read[o] EXCEPT !.val = v] EXCEPT !.dirty = TRUE]
        /\ obs = [q \in Ids |-> obs[q]] /\ \A q \in Ids \ {o} : obs[q] = read[q]
    BY <1>3
  <2> HIDE DEF obs
  <2>3. obs \in [Ids -> Entry]
    <3>1. \A q \in Ids : obs[q] \in Entry
      BY <1>3, <2>1, <2>2 DEF Entry
    <3>2. QED BY <2>2, <3>1
  <2>4. QED BY <2>1, <2>2, <2>3, NothingAssumption DEF Loads
<1>5. saves \in Seq(Ids) /\ \A k \in 1 .. Len(saves) : saves[k] = o
  OBVIOUS
<1>6. Len(saves) = 1 /\ saves[1] = o
  OBVIOUS
<1> HIDE DEF read, obs, saves
<1>7. Sound(obs, saves)
  <2>1. \A q \in scheduled : Loads(obs[q])
    BY <1>1, <1>3, <1>4 DEF Typing
  <2>2. \A q \in Ids : obs[q] # Absent => objects[q] # Absent \/ HasRow(q, turn) \/ q < nextid'
    BY <1>3, <1>4, NothingAssumption
  <2>3. QED BY <1>1, <1>2, <1>3, <1>4, <1>5, <1>6, <2>1, <2>2, StoreAssumption DEF Sound, Typing
<1>8. QED BY <1>2, <1>7, OperationKeeps

LEMMA ScheduleRemoveKeeps ==
  ASSUME IInv, NEW o \in Ids, ScheduleRemoveObject(o)
  PROVE  IInv'
<1> DEFINE obs == [objects EXCEPT ![o].alive = FALSE, ![o].dirty = TRUE]
           saves == <<o>>
<1>1. Typing
  BY DEF IInv
<1>2. /\ Free /\ Loads(objects[o]) /\ Operation(obs, saves)
      /\ nextid' = nextid /\ scheduled' = scheduled \union {o}
  BY DEF ScheduleRemoveObject, Loaded, Loads
<1>3. objects \in [Ids -> Entry] /\ objects[o] \in Object
  BY <1>1, <1>2 DEF Typing, Entry, Loads
<1>4. obs \in [Ids -> Entry] /\ Loads(obs[o]) /\ \A q \in Ids \ {o} : obs[q] = objects[q]
  <2>1. [[objects[o] EXCEPT !.alive = FALSE] EXCEPT !.dirty = TRUE] \in Object
    BY <1>3 DEF Object
  <2>2. /\ obs[o] = [[objects[o] EXCEPT !.alive = FALSE] EXCEPT !.dirty = TRUE]
        /\ obs = [q \in Ids |-> obs[q]] /\ \A q \in Ids \ {o} : obs[q] = objects[q]
    BY <1>3
  <2> HIDE DEF obs
  <2>3. obs \in [Ids -> Entry]
    <3>1. \A q \in Ids : obs[q] \in Entry
      BY <1>3, <2>1, <2>2 DEF Entry
    <3>2. QED BY <2>2, <3>1
  <2>4. QED BY <2>1, <2>2, <2>3, NothingAssumption DEF Loads
<1>5. saves \in Seq(Ids) /\ \A k \in 1 .. Len(saves) : saves[k] = o
  OBVIOUS
<1> HIDE DEF obs, saves
<1>6. Sound(obs, saves)
  <2>1. scheduled' \subseteq Ids /\ \A q \in scheduled' : Loads(obs[q])
    BY <1>1, <1>2, <1>4 DEF Typing
  <2>2. \A q \in Ids : obs[q] # Absent => objects[q] # Absent
    BY <1>2, <1>4 DEF Loads
  <2>3. QED BY <1>1, <1>2, <1>4, <1>5, <2>1, <2>2, StoreAssumption DEF Sound, Typing
<1>7. QED BY <1>2, <1>6, OperationKeeps

LEMMA BuildKeeps ==
  ASSUME IInv, NEW p \in Ids, NEW v \in Vals, Build(p, v)
  PROVE  IInv'
<1> DEFINE read == Reading({p})
           new == [alive |-> TRUE, parent |-> p, children |-> {}, val |-> v, dirty |-> TRUE]
           obs == [read EXCEPT ![p].children = @ \union {nextid}, ![p].dirty = TRUE, ![nextid] = new]
           saves == <<p, nextid>>
<1>1. Typing
  BY DEF IInv
<1>2. /\ Free /\ Readable(p) /\ nextid \in Ids /\ Operation(obs, saves)
      /\ nextid' = nextid + 1 /\ scheduled' = scheduled
  BY DEF Build, Alive
<1>3. /\ read \in [Ids -> Entry] /\ read[p] \in Object
      /\ \A q \in Ids : Loads(objects[q]) => read[q] = objects[q]
      /\ \A q \in Ids : read[q] # Absent => objects[q] # Absent \/ HasRow(q, turn)
      /\ \A q \in Ids : Loads(read[q]) => Loads(objects[q]) \/ HasRow(q, turn)
  BY <1>1, <1>2, ReadingIsGood
<1>4. /\ obs \in [Ids -> Entry] /\ Loads(obs[p]) /\ Loads(obs[nextid])
      /\ \A q \in Ids \ {p, nextid} : obs[q] = read[q]
  <2> DEFINE mid == [read EXCEPT ![p].children = @ \union {nextid}, ![p].dirty = TRUE]
  <2>1. new \in Object
    BY DEF Object
  <2> HIDE DEF read, new
  <2>2. [[read[p] EXCEPT !.children = @ \union {nextid}] EXCEPT !.dirty = TRUE] \in Object
    BY <1>2, <1>3 DEF Object
  <2>3. /\ mid[p] = [[read[p] EXCEPT !.children = @ \union {nextid}] EXCEPT !.dirty = TRUE]
        /\ mid = [q \in Ids |-> mid[q]] /\ \A q \in Ids \ {p} : mid[q] = read[q]
    BY <1>3
  <2>4. obs = [mid EXCEPT ![nextid] = new]
    OBVIOUS
  <2> HIDE DEF mid, obs
  <2>5. mid \in [Ids -> Entry] /\ mid[p] \in Object
    <3>1. \A q \in Ids : mid[q] \in Entry
      BY <1>3, <2>2, <2>3 DEF Entry
    <3>2. QED BY <2>2, <2>3, <3>1
  <2>6. obs \in [Ids -> Entry] /\ obs[p] \in Object /\ obs[nextid] \in Object
    BY <1>2, <2>1, <2>4, <2>5 DEF Entry
  <2>7. \A q \in Ids \ {p, nextid} : obs[q] = read[q]
    BY <2>3, <2>4, <2>5
  <2>8. QED BY <2>6, <2>7, NothingAssumption DEF Loads
<1>5. /\ saves \in Seq(Ids) /\ Len(saves) = 2 /\ saves[1] = p /\ saves[2] = nextid
      /\ \A k \in 1 .. Len(saves) : saves[k] \in {p, nextid}
  BY <1>2
<1> HIDE DEF read, obs, saves, new
<1>6. Sound(obs, saves)
  <2>1. /\ nextid' \in 0 .. MaxId + 1 /\ nextid <= nextid' /\ nextid < nextid'
        /\ scheduled' \subseteq Ids
    BY <1>1, <1>2, StoreAssumption DEF Typing, Ids
  <2>2. \A q \in scheduled' : Loads(obs[q])
    BY <1>1, <1>2, <1>3, <1>4 DEF Typing
  <2>3. \A q \in Ids : obs[q] # Absent => objects[q] # Absent \/ HasRow(q, turn) \/ q < nextid'
    BY <1>3, <1>4, <2>1, NothingAssumption
  <2>4. \A q \in Ids : Loads(obs[q]) =>
           Loads(objects[q]) \/ HasRow(q, turn) \/ \E k \in 1 .. Len(saves) : saves[k] = q
    BY <1>3, <1>4, <1>5
  <2>5. \A k \in 1 .. Len(saves) : Loads(obs[saves[k]])
    BY <1>4, <1>5
  <2>6. QED BY <1>4, <1>5, <2>1, <2>2, <2>3, <2>4, <2>5 DEF Sound
<1>7. QED BY <1>2, <1>6, OperationKeeps

LEMMA MoveKeeps ==
  ASSUME IInv, NEW o \in Ids, NEW p \in Ids, Move(o, p)
  PROVE  IInv'
<1> DEFINE q == GetObject(o).parent
           read == Reading({o, p, q})
           obs == [read EXCEPT ![q].children = @ \ {o}, ![q].dirty = TRUE,
                               ![p].children = @ \union {o}, ![p].dirty = TRUE,
                               ![o].parent = p, ![o].dirty = TRUE]
           saves == <<q, p, o>>
<1>1. Typing
  BY DEF IInv
<1>2. /\ Free /\ o # p /\ q # p /\ q # o /\ Readable(o) /\ Readable(p) /\ Readable(q)
      /\ Operation(obs, saves) /\ nextid' = nextid /\ scheduled' = scheduled
  BY DEF Move, Alive
<1>3. q \in Ids
  BY <1>1, <1>2, Got DEF Readable, Object
<1> HIDE DEF q
<1>4. /\ read \in [Ids -> Entry] /\ \A r \in {o, p, q} : read[r] \in Object
      /\ \A r \in Ids : Loads(objects[r]) => read[r] = objects[r]
      /\ \A r \in Ids : read[r] # Absent => objects[r] # Absent \/ HasRow(r, turn)
      /\ \A r \in Ids : Loads(read[r]) => Loads(objects[r]) \/ HasRow(r, turn)
  BY <1>1, <1>2, <1>3, ReadingIsGood
<1>5. /\ obs \in [Ids -> Entry] /\ \A r \in {o, p, q} : Loads(obs[r])
      /\ \A r \in Ids \ {o, p, q} : obs[r] = read[r]
  <2> HIDE DEF read
  <2>1. /\ [[read[q] EXCEPT !.children = @ \ {o}] EXCEPT !.dirty = TRUE] \in Object
        /\ [[read[p] EXCEPT !.children = @ \union {o}] EXCEPT !.dirty = TRUE] \in Object
        /\ [[read[o] EXCEPT !.parent = p] EXCEPT !.dirty = TRUE] \in Object
    BY <1>4 DEF Object
  <2>2. /\ obs[q] = [[read[q] EXCEPT !.children = @ \ {o}] EXCEPT !.dirty = TRUE]
        /\ obs[p] = [[read[p] EXCEPT !.children = @ \union {o}] EXCEPT !.dirty = TRUE]
        /\ obs[o] = [[read[o] EXCEPT !.parent = p] EXCEPT !.dirty = TRUE]
        /\ obs = [r \in Ids |-> obs[r]] /\ \A r \in Ids \ {o, p, q} : obs[r] = read[r]
    BY <1>2, <1>3, <1>4
  <2> HIDE DEF obs
  <2>3. obs \in [Ids -> Entry]
    <3>1. \A r \in Ids : obs[r] \in Entry
      BY <1>4, <2>1, <2>2 DEF Entry
    <3>2. QED BY <2>2, <3>1
  <2>4. \A r \in {o, p, q} : obs[r] \in Object
    BY <2>1, <2>2
  <2>5. QED BY <2>2, <2>3, <2>4, NothingAssumption DEF Loads
<1>6. saves \in Seq(Ids) /\ \A k \in 1 .. Len(saves) : saves[k] \in {o, p, q}
  BY <1>3
<1> HIDE DEF read, obs, saves
<1>7. Sound(obs, saves)
  <2>1. \A r \in scheduled' : Loads(obs[r])
    BY <1>1, <1>2, <1>4, <1>5 DEF Typing
  <2>2. \A r \in Ids : obs[r] # Absent => objects[r] # Absent \/ HasRow(r, turn) \/ r < nextid'
    BY <1>3, <1>4, <1>5, NothingAssumption
  <2>3. \A r \in Ids : Loads(obs[r]) => Loads(objects[r]) \/ HasRow(r, turn)
    BY <1>3, <1>4, <1>5, NothingAssumption DEF Loads
  <2>4. \A k \in 1 .. Len(saves) : Loads(obs[saves[k]])
    BY <1>5, <1>6
  <2>5. QED BY <1>1, <1>2, <1>5, <1>6, <2>1, <2>2, <2>3, <2>4, StoreAssumption DEF Sound, Typing
<1>8. QED BY <1>2, <1>7, OperationKeeps

LEMMA ClearRemovedKeeps ==
  ASSUME IInv, ClearRemovedObjects
  PROVE  IInv'
<1> DEFINE parents == {objects[o].parent : o \in scheduled}
           read == Reading(parents)
           left == parents \ scheduled
           obs == [o \in Ids |->
                      IF o \in scheduled THEN Absent
                      ELSE IF o \in parents THEN [read[o] EXCEPT !.children = @ \ scheduled, !.dirty = TRUE]
                      ELSE read[o]]
<1>1. Typing
  BY DEF IInv
<1>2. Free /\ nextid' = nextid /\ scheduled' = {} /\ \A p \in parents : Readable(p)
  BY DEF ClearRemovedObjects
<1>3. PICK saves \in [1 .. Cardinality(left) -> left] : Operation(obs, saves)
  BY DEF ClearRemovedObjects
<1>4. parents \subseteq Ids
  <2>1. \A o \in scheduled : objects[o] \in Object
    BY <1>1 DEF Typing, Entry, Loads
  <2>2. QED BY <2>1 DEF Object
<1>5. Cardinality(left) \in Nat
  <2>1. IsFiniteSet(Ids)
    BY FS_Interval, StoreAssumption DEF Ids
  <2>2. IsFiniteSet(left)
    BY <1>4, <2>1, FS_Subset
  <2>3. QED BY <2>2, FS_CardinalityType
<1> HIDE DEF parents
<1>6. /\ read \in [Ids -> Entry] /\ \A o \in parents : read[o] \in Object
      /\ \A o \in Ids : read[o] # Absent => objects[o] # Absent \/ HasRow(o, turn)
      /\ \A o \in Ids : Loads(read[o]) => Loads(objects[o]) \/ HasRow(o, turn)
  BY <1>1, <1>2, <1>4, ReadingIsGood
<1> HIDE DEF read
<1>7. \A o \in parents : [read[o] EXCEPT !.children = @ \ scheduled, !.dirty = TRUE] \in Object
  BY <1>6 DEF Object
<1>8. /\ obs \in [Ids -> Entry] /\ \A o \in left : Loads(obs[o])
      /\ \A o \in Ids : obs[o] # Absent => read[o] # Absent
      /\ \A o \in Ids : Loads(obs[o]) => Loads(read[o])
  <2>1. ASSUME NEW o \in Ids
        PROVE  /\ obs[o] \in Entry
               /\ o \in left => Loads(obs[o])
               /\ obs[o] # Absent => read[o] # Absent
               /\ Loads(obs[o]) => Loads(read[o])
    <3>1. CASE o \in scheduled
      BY <3>1 DEF Entry, Loads
    <3>2. CASE o \notin scheduled /\ o \in parents
      <4>1. obs[o] \in Object /\ read[o] \in Object
        BY <1>6, <1>7, <3>2
      <4>2. QED BY <4>1, NothingAssumption DEF Entry, Loads
    <3>3. CASE o \notin scheduled /\ o \notin parents
      BY <1>6, <3>3
    <3>4. QED BY <3>1, <3>2, <3>3
  <2>2. QED BY <1>4, <2>1
<1> HIDE DEF obs
<1>9. saves \in Seq(Ids) /\ \A k \in 1 .. Len(saves) : saves[k] \in left
  <2>1. left \subseteq Ids
    BY <1>4
  <2> HIDE DEF left
  <2>2. QED BY <1>3, <1>5, <2>1
<1>10. Sound(obs, saves)
  <2>1. nextid' \in 0 .. MaxId + 1 /\ nextid <= nextid'
    BY <1>1, <1>2, StoreAssumption DEF Typing
  <2>2. scheduled' \subseteq Ids /\ \A o \in scheduled' : Loads(obs[o])
    BY <1>2
  <2>3. \A k \in 1 .. Len(saves) : Loads(obs[saves[k]])
    BY <1>8, <1>9
  <2>4. \A o \in Ids : Loads(obs[o]) => Loads(objects[o]) \/ HasRow(o, turn)
    BY <1>6, <1>8
  <2>5. \A o \in Ids : obs[o] # Absent => objects[o] # Absent \/ HasRow(o, turn)
    BY <1>6, <1>8
  <2> HIDE DEF left
  <2>6. QED BY <1>8, <1>9, <2>1, <2>2, <2>3, <2>4, <2>5 DEF Sound
<1>11. QED BY <1>2, <1>3, <1>10, OperationKeeps

-----------------------------------------------------------------------------
(* Statements *)

\* An object that is saved, or whose save was given up, leaves the list of those
\* to be saved with a row, or torn.
LEMMA AdvanceKeeps ==
  ASSUME IInv, phase \in {"create", "idle", "turn"}, todo # <<>>, Advance,
         UNCHANGED <<info, turn, nextid, scheduled, back>>, anew' = anew,
         torn \subseteq torn', torn' \subseteq Ids,
         rows' \in [Ids -> [Turns -> Row \union {NoRow}]],
         params' \in [Ids -> [Turns -> Vals \union {NoRow}]],
         \A q \in Ids : \A u \in Turns : rows'[q][u] = rows[q][u] \/ (q = Head(todo) /\ u = turn),
         Head(todo) \in torn' \/ rows'[Head(todo)][turn] # NoRow,
         objects' \in [Ids -> Entry],
         \A q \in Ids : (Loads(objects'[q]) <=> Loads(objects[q])) /\ (objects'[q] = Absent <=> objects[q] = Absent)
  PROVE  IInv'
<1> USE StoreAssumption, NothingAssumption
<1>1. Typing /\ TurnOfInfo /\ (anew \/ Rows)
  BY DEF IInv
<1>0. PICK o \in Ids : o = Head(todo)
  BY <1>1 DEF Typing
<1>2. turn \in Turns /\ nextid \in Nat /\ Turns \subseteq Nat /\ Ids \subseteq Nat /\ turn <= turn
  BY <1>1 DEF Typing, Turns, Ids
<1>3. /\ Len(todo) \in Nat \ {0} /\ o = todo[1]
      /\ todo' = Tail(todo) /\ todo' \in Seq(Ids) /\ Len(todo') = Len(todo) - 1
      /\ \A k \in 1 .. Len(todo') : todo'[k] = todo[k + 1] /\ k + 1 \in 1 .. Len(todo)
  BY <1>0, <1>1 DEF Typing, Advance
<1>4. \A k \in 1 .. Len(todo') : Loads(objects'[todo'[k]])
  <2> TAKE k \in 1 .. Len(todo')
  <2>1. todo'[k] \in Ids /\ Loads(objects[todo'[k]])
    BY <1>1, <1>3 DEF Typing
  <2>2. QED BY <2>1
<1>5. stage' = 0 /\ phase' \in {"create", "idle", "turn"} /\ (phase = "turn" <=> phase' = "turn")
  BY DEF Advance
<1>6. Typing'
  <2>1. anew' \in BOOLEAN
    BY Zenon, <1>1 DEF Typing
  <2>2. scheduled' \subseteq Ids /\ \A q \in scheduled' : Loads(objects'[q])
    BY <1>1 DEF Typing
  <2>3. back' \subseteq Ids /\ info' \in Turns \union {NoRow} /\ turn' \in Turns /\ nextid' \in 0 .. MaxId + 1
    BY <1>1 DEF Typing
  <2>4. QED BY <1>3, <1>4, <1>5, <2>1, <2>2, <2>3 DEF Typing
<1>7. TurnOfInfo' /\ RowBeforeParams'
  BY <1>1, <1>5 DEF TurnOfInfo, RowBeforeParams
<1>8. ASSUME Rows PROVE Rows'
  <2>1. IdsBelow /\ HeldHasRow /\ KeptHasRow
    BY <1>8 DEF Rows
  <2>2. Loads(objects[o])
    BY <1>1, <1>3 DEF Typing
  <2>3. ASSUME NEW q \in Ids, Queued(q) PROVE q = o \/ Queued(q)'
    <3>1. PICK k \in 1 .. Len(todo) : todo[k] = q
      BY <2>3 DEF Queued
    <3>2. CASE k = 1
      BY <1>3, <3>1, <3>2
    <3>3. CASE k # 1
      <4>1. k - 1 \in 1 .. Len(todo') /\ todo'[k - 1] = q
        BY <1>3, <3>1, <3>3
      <4>2. QED BY <4>1 DEF Queued
    <3>4. QED BY <3>2, <3>3
  <2>4. o \in torn' \/ HasRow(o, turn)'
    <3>1. CASE rows'[o][turn] # NoRow
      <4>1. turn' = turn /\ turn \in Turns /\ turn <= turn
        BY <1>2
      <4>2. QED BY <3>1, <4>1 DEF HasRow
    <3>2. QED BY <1>0, <3>1
  <2>5. ASSUME NEW q \in Ids, q # o PROVE \A u \in Turns : rows'[q][u] = rows[q][u]
    BY <1>0, <2>5
  <2>6. IdsBelow'
    <3> SUFFICES ASSUME NEW q \in Ids, objects'[q] # Absent \/ \E u \in Turns : rows'[q][u] # NoRow
                 PROVE  q < nextid
      BY DEF IdsBelow
    <3>1. CASE q = o
      BY <2>1, <2>2, <3>1 DEF IdsBelow, Loads
    <3>2. CASE q # o
      <4>1. objects[q] # Absent \/ \E u \in Turns : rows[q][u] # NoRow
        BY <2>5, <3>2
      <4>2. QED BY <2>1, <4>1 DEF IdsBelow
    <3>3. QED BY <3>1, <3>2
  <2>7. ASSUME NEW q \in Ids, q \in torn \/ HasRow(q, turn) \/ Queued(q)
        PROVE  q \in torn' \/ HasRow(q, turn)' \/ Queued(q)'
    <3>1. CASE q = o
      BY <2>4, <3>1
    <3>2. CASE q # o
      <4>1. turn' = turn /\ HasRow(q, turn)' = HasRow(q, turn)
        BY <2>5, <3>2 DEF HasRow
      <4>2. QED BY <2>3, <2>7, <3>2, <4>1
    <3>3. QED BY <3>1, <3>2
  <2>8. HeldHasRow'
    BY <2>1, <2>7 DEF HeldHasRow
  <2>9. KeptHasRow'
    <3> SUFFICES ASSUME NEW q \in Ids, kept'[q] # NoRow
                 PROVE  \/ q \in torn' \/ HasRow(q, EndedTurn)'
                        \/ phase' \in {"create", "idle"} /\ Queued(q)'
      BY DEF KeptHasRow
    <3>1. CASE phase = "turn"
      <4>1. kept' = kept /\ EndedTurn = turn - 1 /\ EndedTurn' = turn - 1
        BY <1>5, <3>1 DEF Advance, EndedTurn
      <4>2. q \in torn \/ HasRow(q, turn - 1)
        BY <2>1, <3>1, <4>1 DEF KeptHasRow
      <4>3. CASE HasRow(q, turn - 1)
        <5>1. PICK u \in Turns : u <= turn - 1 /\ rows[q][u] # NoRow
          BY <4>3 DEF HasRow
        <5>2. u # turn
          BY <1>2, <5>1
        <5>3. rows'[q][u] # NoRow
          BY <5>1, <5>2
        <5>4. QED BY <4>1, <5>1, <5>3 DEF HasRow
      <4>4. QED BY <4>2, <4>3
    <3>2. CASE phase \in {"create", "idle"}
      <4>1. EndedTurn = turn /\ EndedTurn' = turn /\ phase' \in {"create", "idle"}
        BY <1>5, <3>2 DEF EndedTurn
      <4>2. q \in torn \/ HasRow(q, turn) \/ Queued(q)
        <5>1. CASE kept[q] # NoRow
          BY <2>1, <4>1, <5>1 DEF KeptHasRow
        <5>2. CASE kept[q] = NoRow
          <6>1. kept' = Commit
            BY <5>2 DEF Advance
          <6>2. Loads(objects[q])
            BY <5>2, <6>1 DEF Commit, Loaded, Loads
          <6>3. QED BY <2>1, <3>2, <6>2 DEF HeldHasRow
        <5>3. QED BY <5>1, <5>2
      <4>3. HasRow(q, EndedTurn)' <=> HasRow(q, turn)'
        BY <4>1 DEF HasRow
      <4>4. QED BY <2>7, <4>1, <4>2, <4>3
    <3>3. QED BY <3>1, <3>2
  <2>10. QED BY <2>6, <2>8, <2>9 DEF Rows
<1>9. anew' \/ Rows'
  <2>1. anew \/ Rows'
    BY <1>1, <1>8
  <2>2. QED BY Zenon, <2>1
<1>10. QED BY <1>6, <1>7, <1>9 DEF IInv

LEMMA WriteFailsKeeps ==
  ASSUME IInv, WriteFails
  PROVE  IInv'
<1>1. Typing
  BY DEF IInv
<1>2. /\ phase \in {"create", "idle", "turn"} /\ todo # <<>> /\ Advance
      /\ UNCHANGED <<info, turn, nextid, scheduled, back, rows, params, objects>>
      /\ torn' = torn \union {Head(todo)}
  BY DEF WriteFails, disk
<1>3. anew' = anew
  BY Zenon DEF WriteFails
<1>4. Head(todo) \in Ids
  BY <1>1, <1>2 DEF Typing
<1>5. /\ torn \subseteq torn' /\ torn' \subseteq Ids /\ Head(todo) \in torn'
      /\ rows' \in [Ids -> [Turns -> Row \union {NoRow}]]
      /\ params' \in [Ids -> [Turns -> Vals \union {NoRow}]]
      /\ objects' \in [Ids -> Entry]
  BY <1>1, <1>2, <1>4 DEF Typing
<1>6. QED BY <1>2, <1>3, <1>5, AdvanceKeeps

\* A statement of a save changes one row of the object.
LEMMA StatementIsGood ==
  ASSUME Typing, NEW o \in Ids, Loads(objects[o]), Statement(o)
  PROVE  /\ rows' \in [Ids -> [Turns -> Row \union {NoRow}]]
         /\ params' \in [Ids -> [Turns -> Vals \union {NoRow}]]
         /\ \A q \in Ids : \A u \in Turns : rows'[q][u] = rows[q][u] \/ (q = o /\ u = turn)
         /\ stage = 1 => rows'[o][turn] # NoRow
         /\ stage \in {2, 3} => rows' = rows
<1> USE NothingAssumption
<1>1. objects[o] \in Object /\ turn \in Turns
  BY DEF Typing, Entry, Loads
<1>2. [alive |-> objects[o].alive, parent |-> objects[o].parent] \in Row
  BY <1>1 DEF Object, Row
<1>3. objects[o].val \in Vals
  BY <1>1 DEF Object
<1>4. CASE stage = 0
  <2>1. rows' = [rows EXCEPT ![o][turn] = NoRow] /\ params' = params
    BY <1>4 DEF Statement
  <2>2. QED BY <1>1, <1>4, <2>1 DEF Typing
<1>5. CASE stage = 1
  <2> DEFINE row == [alive |-> objects[o].alive, parent |-> objects[o].parent]
  <2>1. rows' = [rows EXCEPT ![o][turn] = row] /\ params' = params
    BY <1>5 DEF Statement
  <2>2. row \in Row /\ row # NoRow
    BY <1>2
  <2> HIDE DEF row
  <2>3. QED BY <1>1, <1>5, <2>1, <2>2 DEF Typing
<1>6. CASE stage = 2
  <2>1. rows' = rows /\ params' = [params EXCEPT ![o][turn] = NoRow]
    BY <1>6 DEF Statement
  <2>2. QED BY <1>1, <1>6, <2>1 DEF Typing
<1>7. CASE stage = 3
  <2>1. rows' = rows /\ params' = [params EXCEPT ![o][turn] = objects[o].val]
    BY <1>7 DEF Statement
  <2>2. QED BY <1>1, <1>3, <1>7, <2>1 DEF Typing
<1>8. QED BY <1>4, <1>5, <1>6, <1>7 DEF Statement

LEMMA WriteKeeps ==
  ASSUME IInv, Write
  PROVE  IInv'
<1> USE StoreAssumption, NothingAssumption
<1>1. Typing /\ TurnOfInfo /\ RowBeforeParams /\ (anew \/ Rows)
  BY DEF IInv
<1>2. /\ phase \in {"create", "idle", "turn"} /\ todo # <<>>
      /\ UNCHANGED <<info, turn, nextid, scheduled, torn, back>>
  BY DEF Write
<1>3. anew' = anew
  BY Zenon DEF Write
<1>4. PICK o \in Ids : o = Head(todo) /\ o = todo[1] /\ Len(todo) \in Nat \ {0} /\ Loads(objects[o])
  BY <1>1, <1>2 DEF Typing
<1>5. Statement(o)
  BY <1>4 DEF Write
<1>6. /\ rows' \in [Ids -> [Turns -> Row \union {NoRow}]]
      /\ params' \in [Ids -> [Turns -> Vals \union {NoRow}]]
      /\ \A q \in Ids : \A u \in Turns : rows'[q][u] = rows[q][u] \/ (q = o /\ u = turn)
      /\ stage = 1 => rows'[o][turn] # NoRow
      /\ stage \in {2, 3} => rows' = rows
  BY <1>1, <1>4, <1>5, StatementIsGood
<1>7. LastStage(o) \in {1, 3} /\ stage \in 0 .. 3
  BY <1>1 DEF LastStage, Typing
<1>8. CASE stage < LastStage(o)
  <2>1. stage' = stage + 1 /\ UNCHANGED <<objects, todo, phase, kept>>
    BY <1>4, <1>8 DEF Write
  <2>2. Typing'
    <3>1. anew' \in BOOLEAN
      BY Zenon, <1>1, <1>3 DEF Typing
    <3>2. stage' \in 0 .. 3
      BY <1>7, <1>8, <2>1
    <3>3. QED BY <1>1, <1>2, <1>6, <2>1, <3>1, <3>2 DEF Typing
  <2>3. TurnOfInfo'
    BY <1>1, <1>2, <2>1 DEF TurnOfInfo
  <2>4. RowBeforeParams'
    <3> SUFFICES ASSUME stage' \in {2, 3} PROVE rows'[o][turn] # NoRow
      BY <1>2, <1>4, <2>1 DEF RowBeforeParams
    <3>1. CASE stage = 1
      BY <1>6, <3>1
    <3>2. CASE stage = 2
      BY <1>1, <1>4, <1>6, <3>2 DEF RowBeforeParams
    <3>3. QED BY <1>7, <2>1, <3>1, <3>2
  <2>5. ASSUME Rows PROVE Rows'
    <3>1. IdsBelow /\ HeldHasRow /\ KeptHasRow
      BY <2>5 DEF Rows
    <3>2. Queued(o) /\ \A q \in Ids : Queued(q)' = Queued(q)
      BY <1>4, <2>1 DEF Queued
    <3>3. ASSUME NEW q \in Ids, q # o PROVE \A u \in Turns : rows'[q][u] = rows[q][u]
      BY <1>6, <3>3
    <3>4. IdsBelow'
      <4> SUFFICES ASSUME NEW q \in Ids, objects[q] # Absent \/ \E u \in Turns : rows'[q][u] # NoRow
                   PROVE  q < nextid
        BY <1>2, <2>1 DEF IdsBelow
      <4>1. CASE q = o
        BY <1>2, <1>4, <3>1, <4>1 DEF IdsBelow, Loads
      <4>2. CASE q # o
        BY <1>2, <3>1, <3>3, <4>2 DEF IdsBelow
      <4>3. QED BY <4>1, <4>2
    <3>5. HeldHasRow'
      <4> SUFFICES ASSUME NEW q \in Ids, Loads(objects[q])
                   PROVE  q \in torn \/ HasRow(q, turn)' \/ Queued(q)
        BY <1>2, <2>1, <3>2 DEF HeldHasRow, Loads
      <4>1. CASE q # o
        <5>1. HasRow(q, turn)' = HasRow(q, turn)
          BY <1>2, <3>3, <4>1 DEF HasRow
        <5>2. QED BY <1>2, <3>1, <5>1 DEF HeldHasRow
      <4>2. QED BY <3>2, <4>1
    <3>6. KeptHasRow'
      <4> SUFFICES ASSUME NEW q \in Ids, kept[q] # NoRow
                   PROVE  \/ q \in torn \/ HasRow(q, EndedTurn)'
                          \/ phase \in {"create", "idle"} /\ Queued(q)
        BY <1>2, <2>1, <3>2 DEF KeptHasRow
      <4>1. EndedTurn' = EndedTurn
        BY <1>2, <2>1 DEF EndedTurn
      <4>2. \/ q \in torn \/ HasRow(q, EndedTurn)
            \/ phase \in {"create", "idle"} /\ Queued(q)
        BY <3>1 DEF KeptHasRow
      <4>3. CASE HasRow(q, EndedTurn)
        <5>1. PICK u \in Turns : u <= EndedTurn /\ rows[q][u] # NoRow
          BY <4>3 DEF HasRow
        <5>2. CASE q = o
          <6>1. CASE phase \in {"create", "idle"}
            BY <3>2, <5>2, <6>1
          <6>2. CASE phase = "turn"
            <7>1. EndedTurn = turn - 1 /\ turn \in Nat /\ u \in Nat
              BY <1>1, <6>2 DEF EndedTurn, Typing, Turns
            <7>2. u # turn
              BY <5>1, <7>1
            <7>3. rows'[q][u] # NoRow
              BY <1>6, <5>1, <7>2
            <7>4. QED BY <4>1, <5>1, <7>3 DEF HasRow
          <6>3. QED BY <1>2, <6>1, <6>2
        <5>3. CASE q # o
          BY <3>3, <4>1, <5>1, <5>3 DEF HasRow
        <5>4. QED BY <5>2, <5>3
      <4>4. QED BY <4>2, <4>3
    <3>7. QED BY <3>4, <3>5, <3>6 DEF Rows
  <2>6. anew' \/ Rows'
    <3>1. anew \/ Rows'
      BY <1>1, <2>5
    <3>2. QED BY Zenon, <1>3, <3>1
  <2>7. QED BY <2>2, <2>3, <2>4, <2>6 DEF IInv
<1>9. CASE ~(stage < LastStage(o))
  <2>1. objects' = [objects EXCEPT ![o].dirty = FALSE] /\ Advance
    BY <1>4, <1>9 DEF Write
  <2>2. rows'[o][turn] # NoRow
    <3>1. CASE stage = 1
      BY <1>6, <3>1
    <3>2. CASE stage \in {2, 3}
      BY <1>1, <1>4, <1>6, <3>2 DEF RowBeforeParams
    <3>3. QED BY <1>7, <1>9, <3>1, <3>2
  <2>3. objects \in [Ids -> Entry] /\ objects[o] \in Object
    BY <1>1, <1>4 DEF Typing, Entry, Loads
  <2>4. [objects[o] EXCEPT !.dirty = FALSE] \in Object
    BY <2>3 DEF Object
  <2>5. /\ objects' \in [Ids -> Entry] /\ objects'[o] \in Object
        /\ \A q \in Ids \ {o} : objects'[q] = objects[q]
    BY <2>1, <2>3, <2>4 DEF Entry
  <2>6. \A q \in Ids : (Loads(objects'[q]) <=> Loads(objects[q])) /\ (objects'[q] = Absent <=> objects[q] = Absent)
    BY <2>3, <2>5 DEF Loads
  <2>7. torn \subseteq torn' /\ torn' \subseteq Ids
    BY <1>1, <1>2 DEF Typing
  <2>8. /\ Head(todo) \in torn' \/ rows'[Head(todo)][turn] # NoRow
        /\ \A q \in Ids : \A u \in Turns : rows'[q][u] = rows[q][u] \/ (q = Head(todo) /\ u = turn)
    BY <1>4, <1>6, <2>2
  <2>9. QED BY <1>2, <1>3, <1>6, <2>1, <2>5, <2>6, <2>7, <2>8, AdvanceKeeps
<1>10. QED BY <1>8, <1>9

-----------------------------------------------------------------------------
(* Turns, starting and dying *)

\* A row that can be read at a turn can be read later.
LEMMA RowStays ==
  ASSUME NEW o \in Ids, NEW t \in Int, NEW s \in Int, t <= s, HasRow(o, t), rows' = rows
  PROVE  HasRow(o, s) /\ \E u \in Turns : u <= s /\ rows'[o][u] # NoRow
<1>1. PICK u \in Turns : u <= t /\ rows[o][u] # NoRow
  BY DEF HasRow
<1>2. u \in Int
  BY StoreAssumption DEF Turns
<1>3. u <= s
  BY <1>1, <1>2
<1>4. QED BY <1>1, <1>3 DEF HasRow

LEMMA LoadKeeps ==
  ASSUME IInv, Load
  PROVE  IInv'
<1> USE StoreAssumption, NothingAssumption
<1>1. Typing /\ TurnOfInfo /\ RowBeforeParams /\ (anew \/ Rows)
  BY DEF IInv
<1>2. /\ phase = "down" /\ info # NoRow /\ phase' = "idle" /\ turn' = info /\ scheduled' = {}
      /\ objects' = [o \in Ids |-> IF o \in EveryId THEN Null ELSE Absent]
      /\ nextid' = NextId
      /\ UNCHANGED <<info, rows, params, todo, stage, kept, torn, back>>
  BY DEF Load, disk
<1>3. todo = <<>> /\ info \in Turns /\ stage \notin {2, 3}
  BY <1>1, <1>2 DEF TurnOfInfo, RowBeforeParams, Typing
<1>4. NextId \in 0 .. MaxId + 1 /\ (NextId # 0 => \A o \in EveryId : o < NextId)
  <2>1. CASE EveryId \ {0} = {}
    BY <2>1 DEF NextId
  <2>2. CASE EveryId \ {0} # {}
    <3>1. EveryId \subseteq Nat /\ EveryId # {} /\ \A o \in EveryId : o <= MaxId
      BY <2>2 DEF EveryId, Ids
    <3>2. Max(EveryId) \in EveryId /\ \A o \in EveryId : o <= Max(EveryId)
      BY <3>1, MaxBounded
    <3>3. PICK m \in Nat : m = Max(EveryId) /\ m <= MaxId
      BY <3>1, <3>2
    <3>4. NextId = m + 1
      BY <2>2, <3>3 DEF NextId
    <3>5. \A o \in EveryId : o < m + 1
      BY <3>1, <3>2, <3>3
    <3>6. QED BY <3>3, <3>4, <3>5
  <2>3. QED BY <2>1, <2>2
<1>5. Typing'
  <2>1. anew' \in BOOLEAN
    BY Zenon DEF Load
  <2>2. objects' \in [Ids -> Entry]
    BY <1>2 DEF Entry
  <2>3. todo' = <<>> /\ Len(<<>>) = 0
    BY <1>2, <1>3
  <2>4. QED BY <1>1, <1>2, <1>3, <1>4, <2>1, <2>2, <2>3 DEF Typing
<1>6. TurnOfInfo' /\ RowBeforeParams'
  BY <1>2, <1>3 DEF TurnOfInfo, RowBeforeParams
<1>7. ASSUME ~anew' PROVE Rows'
  <2>1. ~anew /\ NextId # 0
    BY Zenon, <1>7 DEF Load
  <2>2. KeptHasRow
    BY <1>1, <2>1 DEF Rows
  <2>3. IdsBelow'
    BY <1>2, <1>4, <2>1 DEF IdsBelow, EveryId
  <2>4. HeldHasRow'
    BY <1>2 DEF HeldHasRow, Loads
  <2>5. KeptHasRow'
    BY <1>2, <2>2 DEF KeptHasRow, HasRow, EndedTurn
  <2>6. QED BY <2>3, <2>4, <2>5 DEF Rows
<1>8. anew' \/ Rows'
  BY <1>7
<1>9. QED BY <1>5, <1>6, <1>8 DEF IInv

LEMMA CreateGameKeeps ==
  ASSUME IInv, CreateGame
  PROVE  IInv'
<1> USE StoreAssumption, NothingAssumption
<1> DEFINE made(o) == [alive |-> TRUE, parent |-> 0, children |-> {1} \ {o}, val |-> First, dirty |-> TRUE]
<1>1. Typing /\ (anew \/ Rows)
  BY DEF IInv
<1>2. /\ phase = "down" /\ info = NoRow /\ phase' = "create" /\ turn' = 0 /\ info' = 0
      /\ nextid' = 2 /\ scheduled' = {} /\ stage' = 0 /\ todo' = <<0, 0, 1>>
      /\ objects' = [o \in Ids |-> IF o > 1 THEN Absent ELSE made(o)]
      /\ UNCHANGED <<rows, params, kept, torn, back>>
  BY DEF CreateGame
<1>3. 0 \in Ids /\ 1 \in Ids /\ 0 \in Turns /\ 2 \in 0 .. MaxId + 1 /\ Ids \subseteq Nat
  BY DEF Ids, Turns
<1>4. \A o \in Ids : made(o) \in Object
  <2>1. First \in Vals
    BY DEF First
  <2>2. QED BY <1>3, <2>1 DEF Object
<1> HIDE DEF made
<1>5. objects' \in [Ids -> Entry] /\ Loads(objects'[0]) /\ Loads(objects'[1])
  BY <1>2, <1>3, <1>4 DEF Entry, Loads
<1>6. /\ todo' \in Seq(Ids) /\ Len(todo') = 3 /\ todo'[1] = 0 /\ todo'[3] = 1
      /\ \A k \in 1 .. Len(todo') : todo'[k] \in {0, 1}
  BY <1>2, <1>3
<1>7. Typing'
  <2>1. anew' \in BOOLEAN
    BY Zenon DEF CreateGame
  <2>2. QED BY <1>1, <1>2, <1>3, <1>5, <1>6, <2>1 DEF Typing
<1>8. TurnOfInfo' /\ RowBeforeParams'
  BY <1>2 DEF TurnOfInfo, RowBeforeParams
<1>9. ASSUME ~anew' PROVE Rows'
  <2>1. ~anew /\ EveryId = {}
    BY Zenon, <1>9 DEF CreateGame
  <2>2. KeptHasRow
    BY <1>1, <2>1 DEF Rows
  <2>3. \A o \in Ids, u \in Turns : rows[o][u] = NoRow
    BY <2>1 DEF EveryId
  <2>4. IdsBelow'
    <3> SUFFICES ASSUME NEW o \in Ids, objects'[o] # Absent \/ \E u \in Turns : rows'[o][u] # NoRow
                 PROVE  o < 2
      BY <1>2 DEF IdsBelow
    <3>1. objects'[o] # Absent
      BY <1>2, <2>3
    <3>2. o \in Nat /\ ~(o > 1)
      BY <1>2, <1>3, <3>1
    <3>3. QED BY <3>2
  <2>5. HeldHasRow'
    <3> SUFFICES ASSUME NEW o \in Ids, Loads(objects'[o]) PROVE Queued(o)'
      BY DEF HeldHasRow, Loads
    <3>1. o \in {0, 1}
      BY <1>2, <1>3 DEF Loads
    <3>2. QED BY <1>6, <3>1 DEF Queued
  <2>6. KeptHasRow'
    BY <1>2, <2>2, <2>3 DEF KeptHasRow, HasRow
  <2>7. QED BY <2>4, <2>5, <2>6 DEF Rows
<1>10. anew' \/ Rows'
  BY <1>9
<1>11. QED BY <1>7, <1>8, <1>10 DEF IInv

LEMMA StartTurnKeeps ==
  ASSUME IInv, StartTurn
  PROVE  IInv'
<1> USE StoreAssumption, NothingAssumption
<1>1. Typing /\ TurnOfInfo /\ RowBeforeParams /\ (anew \/ Rows)
  BY DEF IInv
<1>2. /\ phase = "idle" /\ todo = <<>> /\ turn < MaxTurn /\ phase' = "turn" /\ turn' = turn + 1
      /\ objects' = [o \in Ids |-> IF objects[o] = Null THEN RetrieveObject(o, turn + 1) ELSE objects[o]]
      /\ back' = back \union Leftover(turn + 1)
      /\ UNCHANGED <<info, rows, params, nextid, scheduled, todo, stage, kept, torn>>
  BY DEF StartTurn, disk
<1>3. anew' = anew
  BY Zenon DEF StartTurn
<1>4. turn + 1 \in Turns /\ turn \in Turns /\ turn \in Int /\ info = turn
  BY <1>1, <1>2 DEF Typing, Turns, TurnOfInfo
<1>5. ASSUME NEW o \in Ids
      PROVE  /\ objects'[o] \in Entry /\ (objects'[o] # Absent => objects[o] # Absent)
             /\ Loads(objects[o]) => objects'[o] = objects[o]
             /\ Loads(objects'[o]) => Loads(objects[o]) \/ HasRow(o, turn + 1)
  <2>1. CASE objects[o] = Null
    <3>1. objects'[o] = RetrieveObject(o, turn + 1)
      BY <1>2, <2>1
    <3>2. /\ RetrieveObject(o, turn + 1) \in Object \union {Null}
          /\ RetrieveObject(o, turn + 1) # Null => HasRow(o, turn + 1)
      BY <1>1, <1>4, Retrieved
    <3>3. QED BY <2>1, <3>1, <3>2 DEF Entry, Loads
  <2>2. CASE objects[o] # Null
    BY <1>1, <1>2, <2>2 DEF Typing
  <2>3. QED BY <2>1, <2>2
<1>6. Typing'
  <2>1. anew' \in BOOLEAN
    BY Zenon, <1>1, <1>3 DEF Typing
  <2>2. objects' \in [Ids -> Entry]
    BY <1>2, <1>5
  <2>3. Leftover(turn + 1) \subseteq Ids
    BY DEF Leftover
  <2>4. \A o \in scheduled : Loads(objects'[o])
    BY <1>1, <1>5 DEF Typing
  <2>5. todo' \in Seq(Ids) /\ \A k \in 1 .. Len(todo') : Loads(objects'[todo'[k]])
    BY <1>2
  <2>6. scheduled' \subseteq Ids /\ torn' \subseteq Ids /\ back' \subseteq Ids
    BY <1>1, <1>2, <2>3 DEF Typing
  <2>7. /\ info' \in Turns \union {NoRow} /\ phase' \in {"down", "create", "idle", "turn", "save"}
        /\ turn' \in Turns /\ nextid' \in 0 .. MaxId + 1 /\ stage' \in 0 .. 3
    BY <1>1, <1>2, <1>4 DEF Typing
  <2>8. /\ rows' \in [Ids -> [Turns -> Row \union {NoRow}]]
        /\ params' \in [Ids -> [Turns -> Vals \union {NoRow}]]
    BY <1>1, <1>2 DEF Typing
  <2>9. \A o \in scheduled' : Loads(objects'[o])
    BY <1>2, <2>4
  <2>10. QED BY <2>1, <2>2, <2>5, <2>6, <2>7, <2>8, <2>9 DEF Typing
<1>7. TurnOfInfo' /\ RowBeforeParams'
  BY <1>1, <1>2, <1>4 DEF TurnOfInfo, RowBeforeParams
<1>8. ASSUME Rows PROVE Rows'
  <2>1. IdsBelow /\ HeldHasRow /\ KeptHasRow
    BY <1>8 DEF Rows
  <2>2. \A o \in Ids : ~Queued(o)
    BY <1>2 DEF Queued
  <2>3. IdsBelow'
    BY <1>2, <1>5, <2>1 DEF IdsBelow
  <2>4. HeldHasRow'
    <3> SUFFICES ASSUME NEW o \in Ids, Loads(objects'[o]) PROVE o \in torn \/ HasRow(o, turn + 1)
      BY <1>2 DEF HeldHasRow, HasRow, Loads
    <3>1. CASE Loads(objects[o])
      <4>1. o \in torn \/ HasRow(o, turn)
        BY <1>2, <2>1, <2>2, <3>1 DEF HeldHasRow
      <4>2. turn + 1 \in Int /\ turn <= turn + 1
        BY <1>4
      <4>3. QED BY <1>2, <1>4, <4>1, <4>2, RowStays
    <3>2. QED BY <1>5, <3>1
  <2>5. KeptHasRow'
    <3>1. EndedTurn = turn /\ EndedTurn' = turn
      BY <1>2, <1>4 DEF EndedTurn
    <3>2. \A o \in Ids : HasRow(o, EndedTurn)' = HasRow(o, EndedTurn)
      BY <1>2, <3>1 DEF HasRow
    <3>3. QED BY <1>2, <2>1, <2>2, <3>2 DEF KeptHasRow
  <2>6. QED BY <2>3, <2>4, <2>5 DEF Rows
<1>9. anew' \/ Rows'
  <2>1. anew \/ Rows'
    BY <1>1, <1>8
  <2>2. QED BY Zenon, <1>3, <2>1
<1>10. QED BY <1>6, <1>7, <1>9 DEF IInv

LEMMA EndTurnKeeps ==
  ASSUME IInv, EndTurn
  PROVE  IInv'
<1> USE StoreAssumption, NothingAssumption
<1>1. Typing /\ TurnOfInfo /\ RowBeforeParams /\ (anew \/ Rows)
  BY DEF IInv
<1>2. /\ phase = "turn" /\ todo = <<>> /\ phase' = "save" /\ info' = NoRow
      /\ UNCHANGED <<rows, params, turn, objects, nextid, scheduled, todo, stage, kept, torn, back>>
  BY DEF EndTurn, memory, history
<1>3. anew' = anew
  BY Zenon DEF EndTurn, history
<1>4. turn > 0
  BY <1>1, <1>2 DEF TurnOfInfo, Turns
<1>5. Typing'
  <2>1. anew' \in BOOLEAN
    BY Zenon, <1>1, <1>3 DEF Typing
  <2>2. QED BY <1>1, <1>2, <2>1 DEF Typing
<1>6. TurnOfInfo' /\ RowBeforeParams'
  BY <1>1, <1>2, <1>4 DEF TurnOfInfo, RowBeforeParams
<1>7. ASSUME Rows PROVE Rows'
  <2>1. IdsBelow /\ HeldHasRow /\ KeptHasRow
    BY <1>7 DEF Rows
  <2>2. \A o \in Ids : Queued(o)' = Queued(o) /\ HasRow(o, turn)' = HasRow(o, turn)
    BY <1>2 DEF Queued, HasRow
  <2>3. IdsBelow' /\ HeldHasRow'
    BY <1>2, <2>1, <2>2 DEF IdsBelow, HeldHasRow
  <2>4. EndedTurn = turn - 1 /\ EndedTurn' = turn - 1
    BY <1>2 DEF EndedTurn
  <2>5. \A o \in Ids : HasRow(o, EndedTurn)' = HasRow(o, EndedTurn)
    BY <1>2, <2>4 DEF HasRow
  <2>6. KeptHasRow'
    BY <1>2, <2>1, <2>5 DEF KeptHasRow
  <2>7. QED BY <2>3, <2>6 DEF Rows
<1>8. anew' \/ Rows'
  <2>1. anew \/ Rows'
    BY <1>1, <1>7
  <2>2. QED BY Zenon, <1>3, <2>1
<1>9. QED BY <1>5, <1>6, <1>8 DEF IInv

LEMMA InsertGameInfoKeeps ==
  ASSUME IInv, InsertGameInfo
  PROVE  IInv'
<1> USE StoreAssumption, NothingAssumption
<1>1. Typing /\ TurnOfInfo /\ RowBeforeParams /\ (anew \/ Rows)
  BY DEF IInv
<1>2. /\ phase = "save" /\ phase' = "idle" /\ info' = turn /\ kept' = Commit
      /\ UNCHANGED <<rows, params, turn, objects, nextid, scheduled, todo, stage, torn, back>>
  BY DEF InsertGameInfo
<1>3. anew' = anew
  BY Zenon DEF InsertGameInfo
<1>4. todo = <<>> /\ turn \in Turns /\ turn \in Int
  BY <1>1, <1>2 DEF TurnOfInfo, Typing, Turns
<1>5. Typing'
  <2>1. anew' \in BOOLEAN
    BY Zenon, <1>1, <1>3 DEF Typing
  <2>2. QED BY <1>1, <1>2, <1>4, <2>1 DEF Typing
<1>6. TurnOfInfo' /\ RowBeforeParams'
  BY <1>1, <1>2, <1>4 DEF TurnOfInfo, RowBeforeParams
<1>7. ASSUME Rows PROVE Rows'
  <2>1. IdsBelow /\ HeldHasRow /\ KeptHasRow
    BY <1>7 DEF Rows
  <2>2. \A o \in Ids : ~Queued(o) /\ HasRow(o, turn)' = HasRow(o, turn) /\ Queued(o)' = Queued(o)
    BY <1>2, <1>4 DEF Queued, HasRow
  <2>3. IdsBelow' /\ HeldHasRow'
    BY <1>2, <2>1, <2>2 DEF IdsBelow, HeldHasRow
  <2>4. EndedTurn = turn - 1 /\ EndedTurn' = turn /\ turn - 1 \in Int /\ turn - 1 <= turn
    BY <1>2, <1>4 DEF EndedTurn
  <2>5. KeptHasRow'
    <3> SUFFICES ASSUME NEW o \in Ids, kept'[o] # NoRow
                 PROVE  o \in torn \/ HasRow(o, turn)
      <4>1. \A o \in Ids : HasRow(o, turn) => HasRow(o, EndedTurn)'
        BY <1>2, <2>4 DEF HasRow
      <4>2. QED BY <1>2, <4>1 DEF KeptHasRow
    <3>1. CASE Loads(objects[o])
      BY <1>2, <2>1, <2>2, <3>1 DEF HeldHasRow
    <3>2. CASE ~Loads(objects[o])
      <4>1. kept[o] # NoRow
        BY <1>2, <3>2 DEF Commit, Loaded, Loads
      <4>2. o \in torn \/ HasRow(o, turn - 1)
        BY <1>2, <2>1, <2>4, <4>1 DEF KeptHasRow
      <4>3. QED BY <1>2, <1>4, <2>4, <4>2, RowStays
    <3>3. QED BY <3>1, <3>2
  <2>6. QED BY <2>3, <2>5 DEF Rows
<1>8. anew' \/ Rows'
  <2>1. anew \/ Rows'
    BY <1>1, <1>7
  <2>2. QED BY Zenon, <1>3, <2>1
<1>9. QED BY <1>5, <1>6, <1>8 DEF IInv

\* The server dies: what it was saving is torn, unless a turn was under way,
\* whose end is the only thing that counts.
\* A crash goes back to the turn that a restart would have gone back to, or to
\* every row there is.
LEMMA CrashGoesBack ==
  ASSUME Typing, TurnOfInfo, Crash, phase # "create"
  PROVE  EndedTurn \in Int /\ EndedTurn' \in Int /\ EndedTurn <= EndedTurn'
<1> USE StoreAssumption
<1>1. phase # "down" /\ phase' = "down" /\ info' = info
  BY DEF Crash, disk
<1>2. CASE phase = "save"
  BY <1>1, <1>2 DEF TurnOfInfo, EndedTurn, Typing, Turns
<1>3. CASE phase = "idle"
  <2>1. info = turn /\ info \in Turns
    BY <1>3 DEF TurnOfInfo, Typing
  <2>2. EndedTurn = info /\ EndedTurn' \in {info, MaxTurn}
    BY <1>1, <1>3, <2>1 DEF EndedTurn
  <2>3. QED BY <2>1, <2>2 DEF Turns
<1>4. CASE phase = "turn"
  <2>1. info \in Turns /\ turn = info + 1 /\ info \in Int
    BY <1>4 DEF TurnOfInfo, Turns
  <2>2. EndedTurn = info /\ EndedTurn' \in {info, MaxTurn}
    BY <1>1, <1>4, <2>1 DEF EndedTurn
  <2>3. QED BY <2>1, <2>2 DEF Turns
<1>5. QED BY <1>1, <1>2, <1>3, <1>4 DEF Typing

LEMMA CrashKeeps ==
  ASSUME IInv, Crash
  PROVE  IInv'
<1> USE StoreAssumption, NothingAssumption
<1>1. Typing /\ TurnOfInfo /\ (anew \/ Rows)
  BY DEF IInv
<1>2. /\ phase # "down" /\ phase' = "down" /\ objects' = [o \in Ids |-> Absent]
      /\ todo' = <<>> /\ stage' = 0 /\ scheduled' = {} /\ nextid' = 0 /\ turn' = 0
      /\ torn' = (IF phase = "turn" THEN torn ELSE torn \union Range(todo))
      /\ UNCHANGED <<info, rows, params, kept, back>>
  BY DEF Crash, disk
<1>3. todo \in Seq(Ids) /\ Range(todo) \subseteq Ids /\ \A o \in Ids : Queued(o) => o \in Range(todo)
  BY <1>1 DEF Typing, Range, Queued
<1>4. 0 \in Turns /\ 0 \in 0 .. MaxId + 1 /\ 0 \in 0 .. 3
  BY DEF Turns
<1>5. Typing'
  <2>1. anew' \in BOOLEAN
    BY Zenon DEF Crash
  <2>2. objects' \in [Ids -> Entry] /\ torn' \subseteq Ids
    BY <1>1, <1>2, <1>3 DEF Entry, Typing
  <2>3. todo' \in Seq(Ids) /\ \A k \in 1 .. Len(todo') : Loads(objects'[todo'[k]])
    BY <1>2
  <2>4. QED BY <1>1, <1>2, <1>4, <2>1, <2>2, <2>3 DEF Typing
<1>6. TurnOfInfo' /\ RowBeforeParams'
  BY <1>2 DEF TurnOfInfo, RowBeforeParams
<1>7. ASSUME ~anew' PROVE Rows'
  <2>1. ~anew /\ phase # "create"
    BY Zenon, <1>7 DEF Crash
  <2>2. KeptHasRow
    BY <1>1, <2>1 DEF Rows
  <2>3. IdsBelow' /\ HeldHasRow'
    BY <1>2 DEF IdsBelow, HeldHasRow
  <2>4. EndedTurn \in Int /\ EndedTurn' \in Int /\ EndedTurn <= EndedTurn'
    BY <1>1, <2>1, CrashGoesBack
  <2>5. KeptHasRow'
    <3> SUFFICES ASSUME NEW o \in Ids, kept[o] # NoRow
                 PROVE  o \in torn' \/ HasRow(o, EndedTurn)'
      BY <1>2 DEF KeptHasRow
    <3>1. \/ o \in torn
          \/ HasRow(o, EndedTurn)
          \/ phase \in {"create", "idle"} /\ Queued(o)
      BY <2>2 DEF KeptHasRow
    <3>2. CASE HasRow(o, EndedTurn)
      <4>1. PICK t \in Int : t = EndedTurn'
        BY <2>4
      <4>2. PICK u \in Turns : u <= EndedTurn /\ rows[o][u] # NoRow
        BY <3>2 DEF HasRow
      <4>3. u <= t /\ rows'[o][u] # NoRow
        BY <1>2, <2>4, <4>1, <4>2 DEF Turns
      <4>4. QED BY <4>1, <4>3 DEF HasRow
    <3>3. QED BY <1>2, <1>3, <3>1, <3>2
  <2>6. QED BY <2>3, <2>5 DEF Rows
<1>8. anew' \/ Rows'
  BY <1>7
<1>9. QED BY <1>5, <1>6, <1>8 DEF IInv

-----------------------------------------------------------------------------
(* Every step *)

LEMMA NextKeeps ==
  ASSUME IInv, [Next]_vars
  PROVE  IInv'
<1>1. CASE Load
  BY <1>1, LoadKeeps
<1>2. CASE CreateGame
  BY <1>2, CreateGameKeeps
<1>3. CASE Write
  BY <1>3, WriteKeeps
<1>4. CASE WriteFails
  BY <1>4, WriteFailsKeeps
<1>5. ASSUME NEW o \in Ids, Ask(o) PROVE IInv'
  BY <1>5, AskKeeps
<1>6. ASSUME NEW o \in Ids, Revisit(o) PROVE IInv'
  BY <1>6, RevisitKeeps
<1>7. ASSUME NEW o \in Ids, ScheduleRemoveObject(o) PROVE IInv'
  BY <1>7, ScheduleRemoveKeeps
<1>8. ASSUME NEW o \in Ids, NEW v \in Vals, Build(o, v) PROVE IInv'
  BY <1>8, BuildKeeps
<1>9. ASSUME NEW o \in Ids, NEW v \in Vals, Change(o, v) PROVE IInv'
  BY <1>9, ChangeKeeps
<1>10. ASSUME NEW o \in Ids, NEW p \in Ids, Move(o, p) PROVE IInv'
  BY <1>10, MoveKeeps
<1>11. CASE ClearRemovedObjects
  BY <1>11, ClearRemovedKeeps
<1>12. CASE StartTurn
  BY <1>12, StartTurnKeeps
<1>13. CASE EndTurn
  BY <1>13, EndTurnKeeps
<1>14. CASE InsertGameInfo
  BY <1>14, InsertGameInfoKeeps
<1>15. CASE Crash
  BY <1>15, CrashKeeps
<1>16. CASE UNCHANGED vars
  <2>1. UNCHANGED <<info, rows, params, phase, turn, objects, nextid, scheduled, todo, stage, kept, torn, back>>
    BY <1>16 DEF vars, disk, memory, history
  <2>2. anew' = anew
    BY Zenon, <1>16 DEF vars, history
  <2>3. Typing /\ TurnOfInfo /\ RowBeforeParams /\ (anew \/ Rows)
    BY DEF IInv
  <2>4. Typing'
    <3>1. anew' \in BOOLEAN
      BY Zenon, <2>2, <2>3 DEF Typing
    <3>2. QED BY <2>1, <2>3, <3>1 DEF Typing
  <2>5. TurnOfInfo' /\ RowBeforeParams'
    BY <2>1, <2>3 DEF TurnOfInfo, RowBeforeParams
  <2>6. Rows => Rows'
    BY <2>1 DEF Rows, IdsBelow, HeldHasRow, KeptHasRow, HasRow, Queued, EndedTurn
  <2>7. anew' \/ Rows'
    <3>1. anew \/ Rows'
      BY <2>3, <2>6
    <3>2. QED BY Zenon, <2>2, <3>1
  <2>8. QED BY <2>4, <2>5, <2>7 DEF IInv
<1>17. QED
  BY <1>1, <1>2, <1>3, <1>4, <1>5, <1>6, <1>7, <1>8, <1>9, <1>10, <1>11, <1>12, <1>13, <1>14,
     <1>15, <1>16 DEF Next

-----------------------------------------------------------------------------
(* The theorems *)

LEMMA TypesAreGood ==
  ASSUME Typing
  PROVE  TypeOK
<1> USE StoreAssumption, NothingAssumption
<1>1. \A o \in Ids, t \in Turns : rows[o][t] \in Row \union {NoRow} /\ params[o][t] \in Vals \union {NoRow}
  BY DEF Typing
<1>2. \A o \in Ids : objects[o] \in {Absent, Null} \/ objects[o] \in Object
  BY DEF Typing, Entry
<1>3. \A k \in 1 .. Len(todo) : todo[k] \in Ids /\ Loaded(todo[k])
  BY DEF Typing, Loaded, Loads
<1>4. anew \in BOOLEAN
  BY Zenon DEF Typing
<1>5. QED BY <1>1, <1>2, <1>3, <1>4 DEF Typing, TypeOK

\* Type correctness: the rows, the objects and the work under way have their
\* types at all times, and only what is loaded is saved.
THEOREM TypeCorrect == Spec => []TypeOK
<1>1. IInv => TypeOK
  BY TypesAreGood DEF IInv
<1>2. QED BY <1>1, InitIsGood, NextKeeps, PTL DEF Spec

\* ObjectManager::init and createNewObject: an id that is given out next has
\* never been that of an object, not even of one an unfinished turn built.
THEOREM IdsStayFresh == Spec => []FreshIds
<1> USE StoreAssumption, NothingAssumption
<1>1. IInv => FreshIds
  <2> SUFFICES ASSUME IInv, phase \in {"idle", "turn"}, ~anew, NEW o \in nextid .. MaxId
               PROVE  o \in torn \/ (o \notin EveryId /\ kept[o] = NoRow)
    BY DEF FreshIds
  <2>1. Typing /\ IdsBelow /\ KeptHasRow
    BY DEF IInv, Rows
  <2>2. nextid \in Nat /\ o \in Ids /\ ~(o < nextid)
    BY <2>1 DEF Typing, Ids
  <2>3. objects[o] = Absent /\ \A u \in Turns : rows[o][u] = NoRow
    BY <2>1, <2>2 DEF IdsBelow
  <2>4. ~Queued(o)
    <3>1. ~Loads(objects[o])
      BY <2>3 DEF Loads
    <3>2. QED BY <2>1, <3>1 DEF Queued, Typing
  <2>5. ~HasRow(o, EndedTurn)
    BY <2>3 DEF HasRow
  <2>6. kept[o] # NoRow => o \in torn
    BY <2>1, <2>2, <2>4, <2>5 DEF KeptHasRow
  <2>7. QED BY <2>3, <2>6 DEF EveryId
<1>2. QED BY <1>1, InitIsGood, NextKeeps, PTL DEF Spec

-----------------------------------------------------------------------------
(* What the tables say of an object *)

RowOf(ob) == [alive |-> ob.alive, parent |-> ob.parent]

\* The tables have object o at turn t as ob is.
Matches(rs, ps, o, ob, t) ==
  Newest(rs, o, t) = RowOf(ob) /\ (ob.alive => Newest(ps, o, t) = ob.val)

\* What a read of object o at turn t finds, its children set aside.
Stored(rs, ps, o, t) ==
  IF Newest(rs, o, t) = NoRow \/ Newest(ps, o, t) = NoRow THEN NoRow
  ELSE IF ~Newest(rs, o, t).alive THEN NoRow
  ELSE [parent |-> Newest(rs, o, t).parent, val |-> Newest(ps, o, t)]

\* The newest of the rows is one of them.
LEMMA NewestIn ==
  ASSUME NEW table, NEW o, NEW t \in Turns, Written(table, o, t) # {}
  PROVE  /\ Max(Written(table, o, t)) \in Written(table, o, t)
         /\ \A u \in Written(table, o, t) : u <= Max(Written(table, o, t))
<1>1. Written(table, o, t) \subseteq Nat /\ t \in Nat /\ \A u \in Written(table, o, t) : u <= t
  BY StoreAssumption DEF Written, Turns
<1>2. QED BY <1>1, MaxBounded

LEMMA NewestHere ==
  ASSUME NEW table, NEW o, NEW t \in Turns, table[o][t] # NoRow
  PROVE  Newest(table, o, t) = table[o][t]
<1>1. t \in Written(table, o, t) /\ Written(table, o, t) \subseteq Nat /\ t \in Nat
  BY StoreAssumption DEF Written, Turns
<1>2. PICK m : m = Max(Written(table, o, t))
  OBVIOUS
<1>3. m \in Written(table, o, t) /\ t <= m
  BY <1>1, <1>2, NewestIn
<1>4. m = t
  <2>1. m \in Nat /\ m <= t
    BY <1>1, <1>3 DEF Written
  <2>2. QED BY <1>1, <1>3, <2>1
<1>5. QED BY <1>1, <1>2, <1>4 DEF Newest

LEMMA NewestSame ==
  ASSUME NEW f, NEW g, NEW o, NEW t \in Turns, \A u \in Turns : u <= t => f[o][u] = g[o][u]
  PROVE  Newest(f, o, t) = Newest(g, o, t)
<1>1. Written(f, o, t) = Written(g, o, t)
  BY DEF Written
<1>2. CASE Written(f, o, t) = {}
  BY <1>1, <1>2 DEF Newest
<1>3. CASE Written(f, o, t) # {}
  <2>1. PICK m : m = Max(Written(f, o, t))
    OBVIOUS
  <2>2. m \in Turns /\ m <= t
    <3>1. m \in Written(f, o, t)
      BY <1>3, <2>1, NewestIn
    <3>2. QED BY <3>1 DEF Written
  <2>3. Newest(f, o, t) = f[o][m] /\ Newest(g, o, t) = g[o][m]
    BY <1>1, <1>3, <2>1 DEF Newest
  <2>4. QED BY <2>2, <2>3
<1>4. QED BY <1>2, <1>3

\* What was read at a turn is read at the next, if that has written nothing yet.
LEMMA NewestNext ==
  ASSUME NEW table, NEW o, NEW t \in Turns, t + 1 \in Turns, table[o][t + 1] = NoRow
  PROVE  Newest(table, o, t + 1) = Newest(table, o, t)
<1>1. \A u \in Turns : u \in Nat /\ t \in Nat
  BY StoreAssumption DEF Turns
<1>2. ASSUME NEW u \in Turns PROVE u <= t + 1 <=> u <= t \/ u = t + 1
  BY <1>1
<1>3. Written(table, o, t + 1) = Written(table, o, t)
  BY <1>2 DEF Written
<1>4. QED BY <1>3 DEF Newest

LEMMA NewestNone ==
  ASSUME NEW table, NEW o, NEW t, \A u \in Turns : table[o][u] = NoRow
  PROVE  Newest(table, o, t) = NoRow
  BY DEF Newest, Written

LEMMA NewestTyped ==
  ASSUME NEW S, NEW table \in [Ids -> [Turns -> S \union {NoRow}]], NEW o \in Ids, NEW t \in Turns
  PROVE  Newest(table, o, t) \in S \union {NoRow}
<1>1. CASE Written(table, o, t) = {}
  BY <1>1 DEF Newest
<1>2. CASE Written(table, o, t) # {}
  <2>1. PICK m : m = Max(Written(table, o, t))
    OBVIOUS
  <2>2. m \in Turns
    <3>1. m \in Written(table, o, t)
      BY <1>2, <2>1, NewestIn
    <3>2. QED BY <3>1 DEF Written
  <2>3. Newest(table, o, t) = table[o][m]
    BY <1>2, <2>1 DEF Newest
  <2>4. QED BY <2>2, <2>3
<1>3. QED BY <1>1, <1>2

\* Two states of the tables that have the same rows say the same.
LEMMA SameRows ==
  ASSUME NEW o, NEW t \in Turns, NEW rs, NEW ps, NEW rt, NEW pt,
         \A u \in Turns : u <= t => rs[o][u] = rt[o][u] /\ ps[o][u] = pt[o][u]
  PROVE  /\ Stored(rt, pt, o, t) = Stored(rs, ps, o, t)
         /\ \A ob : Matches(rt, pt, o, ob, t) <=> Matches(rs, ps, o, ob, t)
<1>1. Newest(rt, o, t) = Newest(rs, o, t) /\ Newest(pt, o, t) = Newest(ps, o, t)
  BY NewestSame
<1>2. QED BY <1>1 DEF Stored, Matches

LEMMA NextTurnSame ==
  ASSUME NEW o, NEW t \in Turns, t + 1 \in Turns, NEW rs, NEW ps,
         rs[o][t + 1] = NoRow, ps[o][t + 1] = NoRow
  PROVE  /\ Stored(rs, ps, o, t + 1) = Stored(rs, ps, o, t)
         /\ \A ob : Matches(rs, ps, o, ob, t + 1) <=> Matches(rs, ps, o, ob, t)
<1>1. Newest(rs, o, t + 1) = Newest(rs, o, t) /\ Newest(ps, o, t + 1) = Newest(ps, o, t)
  BY NewestNext
<1>2. QED BY <1>1 DEF Stored, Matches

\* RetrieveObject gives what the tables say.
LEMMA RetrieveSays ==
  ASSUME Typing, NEW o \in Ids, NEW t \in Turns
  PROVE  /\ Gist(RetrieveObject(o, t)) = Stored(rows, params, o, t)
         /\ RetrieveObject(o, t) # Null =>
              /\ Matches(rows, params, o, RetrieveObject(o, t), t) /\ ~RetrieveObject(o, t).dirty
              /\ RetrieveObject(o, t) \in Object /\ RetrieveObject(o, t).children = Children(o, t)
<1> USE NothingAssumption
<1> DEFINE row == Newest(rows, o, t)
           par == Newest(params, o, t)
           val == IF row.alive THEN par ELSE CHOOSE v \in Vals : TRUE
           got == [alive |-> row.alive, parent |-> row.parent, children |-> Children(o, t),
                   val |-> val, dirty |-> FALSE]
<1>1. row \in Row \union {NoRow} /\ par \in Vals \union {NoRow}
  BY NewestTyped DEF Typing
<1>2. RetrieveObject(o, t) = IF row = NoRow \/ (row.alive /\ par = NoRow) THEN Null ELSE got
  BY DEF RetrieveObject
<1>3. CASE row = NoRow \/ (row.alive /\ par = NoRow)
  <2>1. RetrieveObject(o, t) = Null
    BY <1>2, <1>3
  <2>2. Gist(Null) = NoRow
    BY DEF Gist
  <2>3. Stored(rows, params, o, t) = NoRow
    BY <1>3 DEF Stored
  <2>4. QED BY <2>1, <2>2, <2>3
<1>4. CASE row # NoRow /\ ~(row.alive /\ par = NoRow)
  <2>1. RetrieveObject(o, t) = got
    BY <1>2, <1>4
  <2>2. /\ got.alive = row.alive /\ got.parent = row.parent /\ got.children = Children(o, t)
        /\ got.dirty = FALSE /\ (row.alive => got.val = par)
    OBVIOUS
  <2>3. row \in Row
    BY <1>1, <1>4
  <2>4. row = [alive |-> row.alive, parent |-> row.parent]
    BY <2>3 DEF Row
  <2>5. got \in Object
    <3>1. (CHOOSE v \in Vals : TRUE) \in Vals
      BY StoreAssumption
    <3>2. val \in Vals /\ row.alive \in BOOLEAN /\ row.parent \in Ids
      BY <1>1, <1>4, <2>3, <3>1 DEF Row
    <3>3. Children(o, t) \in SUBSET Ids
      BY DEF Children
    <3> HIDE DEF row, val
    <3>4. QED BY <3>2, <3>3 DEF Object
  <2> HIDE DEF got
  <2>6. Matches(rows, params, o, got, t)
    BY <2>2, <2>4 DEF Matches, RowOf
  <2>7. Gist(got) = Stored(rows, params, o, t)
    <3>1. got \notin {Absent, Null}
      BY <2>5
    <3>2. CASE ~row.alive
      BY <2>2, <3>1, <3>2 DEF Gist, Stored
    <3>3. CASE row.alive
      BY <1>4, <2>2, <3>1, <3>3 DEF Gist, Stored
    <3>4. QED BY <3>2, <3>3
  <2>8. QED BY <2>1, <2>2, <2>5, <2>6, <2>7
<1>5. QED BY <1>3, <1>4

\* ... and what is stored as it is held is what is held.
LEMMA MatchesSays ==
  ASSUME NEW rs, NEW ps, NEW o, NEW t, NEW ob \in Object, Matches(rs, ps, o, ob, t)
  PROVE  Stored(rs, ps, o, t) = Gist(ob)
<1> USE NothingAssumption
<1>1. ob \notin {Absent, Null} /\ RowOf(ob) # NoRow /\ ob.val # NoRow
  BY DEF Object, Row, RowOf
<1>2. RowOf(ob).alive = ob.alive /\ RowOf(ob).parent = ob.parent
  BY DEF RowOf
<1>3. CASE ~ob.alive
  BY <1>1, <1>2, <1>3 DEF Matches, Stored, Gist
<1>4. CASE ob.alive
  BY <1>1, <1>2, <1>4 DEF Matches, Stored, Gist
<1>5. QED BY <1>3, <1>4

-----------------------------------------------------------------------------
(* The invariant *)

\* No crash, error or number that came again has touched it.
Steady == Ids \ (torn \union back)

Clean(o) == Loads(objects[o]) /\ ~Queued(o) /\ ~objects[o].dirty

\* What is held and not dirty is stored as it is held.
HeldAsStored ==
  phase # "down" => \A o \in Ids \ back : Clean(o) => Matches(rows, params, o, objects[o], turn)

\* What is dirty is being saved, or its save was cut off.
DirtyIsQueued == \A o \in Ids : Loads(objects[o]) /\ objects[o].dirty => Queued(o) \/ o \in torn

\* A game that is created saves the universe twice.
QueuedIsDirty ==
  phase # "create" => IsInjective(todo) /\ \A k \in 1 .. Len(todo) : objects[todo[k]].dirty

\* When the parameters are written, the row says what the object is.
RowFirst ==
  stage \in {2, 3} =>
    todo # <<>> /\ objects[Head(todo)].alive /\ rows[Head(todo)][turn] = RowOf(objects[Head(todo)])

\* What is not in memory is in the tables as it was kept, or not at all.
UnloadedAsKept ==
  phase # "down" => \A o \in Steady :
    /\ objects[o] = Absent => Stored(rows, params, o, turn) = NoRow
    /\ objects[o] = Null => phase # "create" /\ Stored(rows, params, o, turn) = kept[o]

\* Within a turn, and when the server is down, the tables have what was kept.
KeptIsStored ==
  phase \in {"down", "turn"} /\ info # NoRow =>
    \A o \in Steady : Stored(rows, params, o, info) = kept[o]

\* Between turns, what is in memory is what was kept but for the object that
\* is saved last.
HeldAsKept ==
  phase = "idle" => \A o \in Steady :
    /\ Loads(objects[o]) /\ (todo = <<>> \/ o # Last(todo)) => Gist(objects[o]) = kept[o]
    /\ objects[o] = Absent => kept[o] = NoRow

\* What is to be removed has been saved as dead.
ScheduledAreDead == \A o \in scheduled : ~objects[o].alive

RecInv ==
  /\ HeldAsStored /\ DirtyIsQueued /\ QueuedIsDirty /\ RowFirst
  /\ UnloadedAsKept /\ KeptIsStored /\ HeldAsKept /\ ScheduledAreDead

-----------------------------------------------------------------------------
(* The operations on objects *)

\* What every operation does: what it does not save is as it was held or as it
\* was read, and only what is to be removed leaves the memory.
Faithful(obs, saves) ==
  /\ IsInjective(saves) /\ \A k \in 1 .. Len(saves) : obs[saves[k]].dirty
  /\ \A o \in Ids : Loads(obs[o]) /\ (\A k \in 1 .. Len(saves) : saves[k] # o) => obs[o] = GetObject(o)
  /\ \A o \in Ids : ~Loads(obs[o]) =>
        obs[o] = objects[o] \/ (obs[o] = Absent /\ o \in scheduled /\ phase = "turn")
  /\ phase = "idle" => \A o \in Ids :
        Loads(obs[o]) /\ (saves = <<>> \/ o # Last(saves)) => Gist(obs[o]) = Gist(GetObject(o))
  /\ \A o \in scheduled' : ~obs[o].alive

\* What GetObject gives is stored as it is, unless a save of it was cut off.
LEMMA GetSays ==
  ASSUME Typing, RecInv, Free, NEW o \in Ids, GetObject(o) # Null
  PROVE  /\ GetObject(o) \in Object
         /\ o \notin back /\ ~GetObject(o).dirty => Matches(rows, params, o, GetObject(o), turn)
         /\ GetObject(o).dirty => o \in torn
         /\ o \in Steady => Stored(rows, params, o, turn) = Gist(GetObject(o))
<1> USE NothingAssumption
<1>1. turn \in Turns /\ phase # "down" /\ ~Queued(o) /\ objects[o] \in Entry
  BY DEF Typing, Free, Queued
<1>2. CASE Loads(objects[o])
  <2>1. GetObject(o) = objects[o] /\ objects[o] \in Object
    BY <1>1, <1>2 DEF GetObject, Loaded, Loads, Entry
  <2>2. objects[o].dirty => o \in torn
    BY <1>1, <1>2 DEF RecInv, DirtyIsQueued
  <2>3. o \notin back /\ ~objects[o].dirty => Matches(rows, params, o, objects[o], turn)
    BY <1>1, <1>2 DEF RecInv, HeldAsStored, Clean
  <2>4. Matches(rows, params, o, objects[o], turn) => Stored(rows, params, o, turn) = Gist(objects[o])
    BY <2>1, MatchesSays
  <2>5. QED BY <2>1, <2>2, <2>3, <2>4 DEF Steady
<1>3. CASE ~Loads(objects[o])
  <2>1. GetObject(o) = RetrieveObject(o, turn)
    BY <1>3 DEF GetObject, Loaded, Loads
  <2>2. QED BY <1>1, <2>1, RetrieveSays
<1>4. QED BY <1>2, <1>3

LEMMA OperationRec ==
  ASSUME Typing, Typing', TurnOfInfo, RecInv, Free, NEW obs, NEW saves,
         Operation(obs, saves), Faithful(obs, saves)
  PROVE  RecInv'
<1> USE NothingAssumption
<1>1. /\ objects' = obs /\ todo' = saves /\ stage' = 0
      /\ UNCHANGED <<info, rows, params, phase, turn, kept, torn, back>>
      /\ phase \in {"idle", "turn"} /\ todo = <<>>
  BY DEF Operation, Free, disk, history
<1>2. turn \in Turns /\ obs \in [Ids -> Entry] /\ objects \in [Ids -> Entry] /\ saves \in Seq(Ids)
  BY <1>1 DEF Typing
<1>3. Steady' = Steady
  BY <1>1 DEF Steady
<1>4. \A o \in Ids : ~Queued(o) /\ (Queued(o)' <=> \E k \in 1 .. Len(saves) : saves[k] = o)
  BY <1>1 DEF Queued
<1>5. ASSUME NEW o \in Ids, Loads(obs[o]), ~Queued(o)'
      PROVE  obs[o] = GetObject(o) /\ GetObject(o) # Null
  <2>1. obs[o] = GetObject(o)
    BY <1>4, <1>5 DEF Faithful
  <2>2. QED BY <1>5, <2>1 DEF Loads
<1>6. HeldAsStored'
  <2> SUFFICES ASSUME NEW o \in Ids \ back, Clean(o)' PROVE Matches(rows, params, o, obs[o], turn)
    BY <1>1 DEF HeldAsStored
  <2>1. Loads(obs[o]) /\ ~Queued(o)' /\ ~obs[o].dirty
    BY <1>1 DEF Clean
  <2>2. QED BY <1>5, <2>1, GetSays
<1>7. DirtyIsQueued'
  <2> SUFFICES ASSUME NEW o \in Ids, Loads(obs[o]), obs[o].dirty, ~Queued(o)' PROVE o \in torn
    BY <1>1 DEF DirtyIsQueued, Loads
  <2>1. QED BY <1>5, GetSays
<1>8. QueuedIsDirty' /\ RowFirst' /\ ScheduledAreDead'
  BY <1>1 DEF Faithful, QueuedIsDirty, RowFirst, ScheduledAreDead
<1>9. UnloadedAsKept'
  <2> SUFFICES ASSUME NEW o \in Steady, ~Loads(obs[o])
               PROVE  /\ obs[o] = Absent => Stored(rows, params, o, turn) = NoRow
                      /\ obs[o] = Null => Stored(rows, params, o, turn) = kept[o]
    BY <1>1, <1>3 DEF UnloadedAsKept, Loads
  <2>1. CASE obs[o] = objects[o]
    BY <1>1, <2>1 DEF RecInv, UnloadedAsKept
  <2>2. CASE obs[o] = Absent /\ o \in scheduled
    <3>1. Loads(objects[o]) /\ ~objects[o].alive /\ o \in Ids
      BY <2>2 DEF Typing, RecInv, ScheduledAreDead
    <3>2. GetObject(o) = objects[o] /\ GetObject(o) # Null
      BY <3>1 DEF GetObject, Loaded, Loads
    <3>3. Stored(rows, params, o, turn) = Gist(objects[o])
      BY <3>1, <3>2, GetSays
    <3>4. Gist(objects[o]) = NoRow
      BY <3>1 DEF Gist
    <3>5. QED BY <2>2, <3>3, <3>4
  <2>3. QED BY <2>1, <2>2 DEF Faithful, Steady
<1>10. KeptIsStored'
  BY <1>1, <1>3 DEF RecInv, KeptIsStored
<1>11. HeldAsKept'
  <2> SUFFICES ASSUME phase = "idle", NEW o \in Steady
               PROVE  /\ Loads(obs[o]) /\ (saves = <<>> \/ o # Last(saves)) => Gist(obs[o]) = kept[o]
                      /\ obs[o] = Absent => kept[o] = NoRow
    BY <1>1, <1>3 DEF HeldAsKept, Loads
  <2>1. o \in Ids
    BY DEF Steady
  <2>2. ASSUME obs[o] = Absent PROVE kept[o] = NoRow
    <3>1. obs[o] = objects[o]
      BY <2>1, <2>2 DEF Faithful, Loads
    <3>2. QED BY <2>2, <3>1 DEF RecInv, HeldAsKept
  <2>3. Gist(GetObject(o)) = kept[o]
    <3>1. CASE Loads(objects[o])
      <4>1. GetObject(o) = objects[o]
        BY <3>1 DEF GetObject, Loaded, Loads
      <4>2. QED BY <1>1, <3>1, <4>1 DEF RecInv, HeldAsKept
    <3>2. CASE ~Loads(objects[o])
      <4>1. GetObject(o) = RetrieveObject(o, turn)
        BY <3>2 DEF GetObject, Loaded, Loads
      <4>2. Gist(GetObject(o)) = Stored(rows, params, o, turn)
        BY <1>2, <2>1, <4>1, RetrieveSays
      <4>3. Stored(rows, params, o, turn) = kept[o]
        BY <1>1, <3>2 DEF RecInv, UnloadedAsKept, HeldAsKept, Loads
      <4>4. QED BY <4>2, <4>3
    <3>3. QED BY <3>1, <3>2
  <2>4. ASSUME Loads(obs[o]), saves = <<>> \/ o # Last(saves) PROVE Gist(obs[o]) = kept[o]
    BY <2>1, <2>3, <2>4 DEF Faithful
  <2>5. QED BY <2>2, <2>4
<1>12. QED BY <1>6, <1>7, <1>8, <1>9, <1>10, <1>11 DEF RecInv

\* Reading changes nothing of what is known.
LEMMA ReadingGets ==
  ASSUME Typing, NEW S \in SUBSET Ids, \A o \in S : Readable(o), NEW q \in Ids
  PROVE  /\ Loads(Reading(S)[q]) => Reading(S)[q] = GetObject(q) /\ GetObject(q) # Null
         /\ ~Loads(Reading(S)[q]) => Reading(S)[q] = objects[q]
         /\ q \in S => Reading(S)[q] = GetObject(q) /\ Reading(S)[q] \in Object
         /\ Loads(objects[q]) => Reading(S)[q] = objects[q] /\ GetObject(q) = objects[q]
<1> USE NothingAssumption
<1>1. Reading(S)[q] = IF q \in S THEN GetObject(q) ELSE objects[q]
  BY DEF Reading
<1>2. Loads(objects[q]) => GetObject(q) = objects[q]
  BY DEF GetObject, Loaded, Loads
<1>3. q \in S => GetObject(q) \in Object
  BY Got DEF Readable
<1>4. QED BY <1>1, <1>2, <1>3 DEF Loads

LEMMA AskRec ==
  ASSUME IInv, IInv', RecInv, NEW o \in Ids, Ask(o)
  PROVE  RecInv'
<1> DEFINE obs == Reading({o})
           saves == <<>>
<1>1. Typing /\ Typing' /\ TurnOfInfo
  BY DEF IInv
<1>2. Free /\ Readable(o) /\ Operation(obs, saves) /\ scheduled' = scheduled
  BY DEF Ask
<1>3. ASSUME NEW q \in Ids
      PROVE  /\ Loads(obs[q]) => obs[q] = GetObject(q)
             /\ ~Loads(obs[q]) => obs[q] = objects[q]
             /\ Loads(objects[q]) => obs[q] = objects[q]
  BY <1>1, <1>2, ReadingGets
<1>4. \A q \in scheduled' : ~obs[q].alive
  BY <1>1, <1>2, <1>3 DEF Typing, RecInv, ScheduledAreDead
<1>5. Len(saves) = 0 /\ IsInjective(saves)
  BY DEF IsInjective
<1> HIDE DEF obs, saves
<1>6. Faithful(obs, saves)
  BY <1>3, <1>4, <1>5 DEF Faithful
<1>7. QED BY <1>1, <1>2, <1>6, OperationRec

LEMMA RevisitRec ==
  ASSUME IInv, IInv', RecInv, NEW o \in Ids, Revisit(o)
  PROVE  RecInv'
<1> DEFINE saves == <<o>>
<1>1. Typing /\ Typing' /\ TurnOfInfo
  BY DEF IInv
<1>2. Free /\ objects[o].dirty /\ Operation(objects, saves) /\ scheduled' = scheduled
  BY DEF Revisit
<1>3. \A q \in Ids : Loads(objects[q]) => objects[q] = GetObject(q)
  BY DEF GetObject, Loaded, Loads
<1>4. \A q \in scheduled' : ~objects[q].alive
  BY <1>2 DEF RecInv, ScheduledAreDead
<1>5. Len(saves) = 1 /\ saves[1] = o /\ IsInjective(saves) /\ \A k \in 1 .. Len(saves) : saves[k] = o
  BY DEF IsInjective
<1> HIDE DEF saves
<1>6. Faithful(objects, saves)
  BY <1>2, <1>3, <1>4, <1>5 DEF Faithful
<1>7. QED BY <1>1, <1>2, <1>6, OperationRec

LEMMA ChangeRec ==
  ASSUME IInv, IInv', RecInv, NEW o \in Ids, NEW v \in Vals, Change(o, v)
  PROVE  RecInv'
<1> DEFINE read == Reading({o})
           obs  == [read EXCEPT ![o].val = v, ![o].dirty = TRUE]
           saves == <<o>>
<1> USE NothingAssumption
<1>1. Typing /\ Typing' /\ TurnOfInfo
  BY DEF IInv
<1>2. Free /\ Readable(o) /\ GetObject(o).alive /\ Operation(obs, saves) /\ scheduled' = scheduled
  BY DEF Change, Alive
<1>3. ASSUME NEW q \in Ids
      PROVE  /\ Loads(read[q]) => read[q] = GetObject(q)
             /\ ~Loads(read[q]) => read[q] = objects[q]
             /\ Loads(objects[q]) => read[q] = objects[q] /\ GetObject(q) = objects[q]
  BY <1>1, <1>2, ReadingGets
<1>4. read \in [Ids -> Entry] /\ read[o] \in Object
  BY <1>1, <1>2, ReadingIsGood
<1>5. Last(saves) = o /\ Len(saves) = 1 /\ IsInjective(saves) /\ \A k \in 1 .. Len(saves) : saves[k] = o
  BY DEF IsInjective, Last
<1> HIDE DEF read
<1>6. /\ obs[o] = [[read[o] EXCEPT !.val = v] EXCEPT !.dirty = TRUE]
      /\ \A q \in Ids \ {o} : obs[q] = read[q]
  BY <1>4
<1>7. obs[o].dirty /\ obs[o] \in Object /\ saves # <<>> /\ saves[1] = o
  BY <1>4, <1>6 DEF Object
<1> HIDE DEF obs, saves
<1>8. \A q \in scheduled' : ~obs[q].alive
  <2> SUFFICES ASSUME NEW q \in scheduled PROVE ~obs[q].alive
    BY <1>2
  <2>1. q \in Ids /\ Loads(objects[q]) /\ ~objects[q].alive
    BY <1>1 DEF Typing, RecInv, ScheduledAreDead
  <2>2. q # o
    BY <1>2, <1>3, <2>1
  <2>3. QED BY <1>3, <1>6, <2>1, <2>2
<1>9. Faithful(obs, saves)
  <2>1. \A q \in Ids : Loads(obs[q]) /\ q # o => obs[q] = GetObject(q)
    BY <1>3, <1>6
  <2>2. \A q \in Ids : ~Loads(obs[q]) => obs[q] = objects[q]
    BY <1>3, <1>6, <1>7 DEF Loads
  <2>3. QED BY <1>5, <1>7, <1>8, <2>1, <2>2 DEF Faithful
<1>10. QED BY <1>1, <1>2, <1>9, OperationRec

LEMMA ScheduleRemoveRec ==
  ASSUME IInv, IInv', RecInv, NEW o \in Ids, ScheduleRemoveObject(o)
  PROVE  RecInv'
<1> DEFINE obs == [objects EXCEPT ![o].alive = FALSE, ![o].dirty = TRUE]
           saves == <<o>>
<1> USE NothingAssumption
<1>1. Typing /\ Typing' /\ TurnOfInfo
  BY DEF IInv
<1>2. /\ Free /\ phase = "turn" /\ Loads(objects[o]) /\ Operation(obs, saves)
      /\ scheduled' = scheduled \union {o}
  BY DEF ScheduleRemoveObject, Loaded, Loads
<1>3. objects \in [Ids -> Entry] /\ objects[o] \in Object
  BY <1>1, <1>2 DEF Typing, Entry, Loads
<1>4. Last(saves) = o /\ Len(saves) = 1 /\ IsInjective(saves) /\ \A k \in 1 .. Len(saves) : saves[k] = o
  BY DEF IsInjective, Last
<1>5. /\ obs[o] = [[objects[o] EXCEPT !.alive = FALSE] EXCEPT !.dirty = TRUE]
      /\ \A q \in Ids \ {o} : obs[q] = objects[q]
  BY <1>3
<1>6. obs[o].dirty /\ ~obs[o].alive /\ obs[o] \in Object /\ saves # <<>> /\ saves[1] = o
  BY <1>3, <1>5 DEF Object
<1>7. \A q \in Ids : Loads(objects[q]) => objects[q] = GetObject(q)
  BY DEF GetObject, Loaded, Loads
<1> HIDE DEF obs, saves
<1>8. \A q \in scheduled' : ~obs[q].alive
  BY <1>1, <1>2, <1>5, <1>6 DEF RecInv, ScheduledAreDead, Typing
<1>9. Faithful(obs, saves)
  <2>1. \A q \in Ids : Loads(obs[q]) /\ q # o => obs[q] = GetObject(q)
    BY <1>5, <1>7
  <2>2. \A q \in Ids : ~Loads(obs[q]) => obs[q] = objects[q]
    BY <1>5, <1>6 DEF Loads
  <2>3. QED BY <1>2, <1>4, <1>6, <1>8, <2>1, <2>2 DEF Faithful
<1>10. QED BY <1>1, <1>2, <1>9, OperationRec

\* What has been read or is held has an id below the next one.
LEMMA GotBelow ==
  ASSUME Typing, Rows, phase # "down", NEW o \in Ids, GetObject(o) # Null
  PROVE  o < nextid
<1>1. Loads(objects[o]) \/ HasRow(o, turn)
  BY Got
<1>2. objects[o] # Absent \/ \E u \in Turns : rows[o][u] # NoRow
  BY <1>1 DEF Loads, HasRow
<1>3. QED BY <1>2 DEF Rows, IdsBelow

LEMMA BuildRec ==
  ASSUME IInv, IInv', Rows, RecInv, NEW p \in Ids, NEW v \in Vals, Build(p, v)
  PROVE  RecInv'
<1> DEFINE read == Reading({p})
           new == [alive |-> TRUE, parent |-> p, children |-> {}, val |-> v, dirty |-> TRUE]
           obs == [read EXCEPT ![p].children = @ \union {nextid}, ![p].dirty = TRUE, ![nextid] = new]
           saves == <<p, nextid>>
<1>1. Typing /\ Typing' /\ TurnOfInfo
  BY DEF IInv
<1>2. /\ Free /\ phase # "down" /\ Readable(p) /\ GetObject(p) # Null /\ nextid \in Ids
      /\ Operation(obs, saves) /\ scheduled' = scheduled
  BY DEF Build, Alive, Readable, Free
<1>3. ASSUME NEW q \in Ids
      PROVE  /\ Loads(read[q]) => read[q] = GetObject(q)
             /\ ~Loads(read[q]) => read[q] = objects[q]
             /\ Loads(objects[q]) => read[q] = objects[q] /\ GetObject(q) # Null
  BY <1>1, <1>2, ReadingGets DEF Loads
<1>4. read \in [Ids -> Entry] /\ read[p] \in Object /\ read[p] = GetObject(p)
  BY <1>1, <1>2, ReadingIsGood
<1>5. p # nextid /\ ~Loads(objects[nextid])
  <2>1. nextid \in Nat
    BY <1>2, StoreAssumption DEF Ids
  <2>2. ~(nextid < nextid)
    BY <2>1
  <2>3. p < nextid /\ (Loads(objects[nextid]) => nextid < nextid)
    BY <1>1, <1>2, <1>3, GotBelow
  <2>4. QED BY <2>2, <2>3
<1>6. /\ Last(saves) = nextid /\ Len(saves) = 2 /\ IsInjective(saves) /\ saves # <<>>
      /\ saves[1] = p /\ saves[2] = nextid /\ \A k \in 1 .. Len(saves) : saves[k] \in {p, nextid}
  BY <1>5 DEF IsInjective, Last
<1> HIDE DEF read, new
<1>7. /\ obs[p] = [[read[p] EXCEPT !.children = @ \union {nextid}] EXCEPT !.dirty = TRUE]
      /\ obs[nextid] = new /\ \A q \in Ids \ {p, nextid} : obs[q] = read[q]
  BY <1>2, <1>4, <1>5
<1>8. /\ obs[p] \in Object /\ obs[p].dirty /\ obs[p].alive = read[p].alive
      /\ obs[p].parent = read[p].parent /\ obs[p].val = read[p].val
  <2> HIDE DEF obs
  <2>1. (read[p].children \union {nextid}) \in SUBSET Ids
    BY <1>2, <1>4 DEF Object
  <2>2. PICK ob \in Object, c \in SUBSET Ids : ob = read[p] /\ obs[p] = [[ob EXCEPT !.children = c] EXCEPT !.dirty = TRUE]
    BY <1>4, <1>7, <2>1
  <2>3. QED BY <2>2 DEF Object
<1>9. new \in Object /\ new.dirty
  BY DEF new, Object
<1> HIDE DEF obs, saves
<1>10. \A q \in scheduled' : ~obs[q].alive
  <2> SUFFICES ASSUME NEW q \in scheduled PROVE ~obs[q].alive
    BY <1>2
  <2>1. q \in Ids /\ Loads(objects[q]) /\ ~objects[q].alive
    BY <1>1 DEF Typing, RecInv, ScheduledAreDead
  <2>2. q # nextid
    BY <1>5, <2>1
  <2>3. ~read[q].alive
    BY <1>3, <2>1
  <2>4. QED BY <1>7, <1>8, <2>1, <2>2, <2>3
<1>11. Faithful(obs, saves)
  <2>1. \A q \in Ids : Loads(obs[q]) /\ q # p /\ q # nextid => obs[q] = GetObject(q)
    BY <1>3, <1>7
  <2>2. \A q \in Ids : ~Loads(obs[q]) => obs[q] = objects[q]
    <3> SUFFICES ASSUME NEW q \in Ids, ~Loads(obs[q]) PROVE obs[q] = objects[q]
      OBVIOUS
    <3>1. q # p /\ q # nextid
      BY <1>7, <1>8, <1>9, NothingAssumption DEF Loads
    <3>2. QED BY <1>3, <1>7, <3>1
  <2>3. Gist(obs[p]) = Gist(GetObject(p))
    BY <1>4, <1>8, NothingAssumption DEF Gist
  <2>4. \A k \in 1 .. Len(saves) : obs[saves[k]].dirty
    BY <1>6, <1>7, <1>8, <1>9
  <2>5. \A q \in Ids : Loads(obs[q]) /\ q # nextid => Gist(obs[q]) = Gist(GetObject(q))
    BY <2>1, <2>3
  <2>6. \A q \in Ids : (\A k \in 1 .. Len(saves) : saves[k] # q) => q # p /\ q # nextid
    BY <1>6
  <2>7. QED BY <1>6, <1>10, <2>1, <2>2, <2>4, <2>5, <2>6 DEF Faithful
<1>12. QED BY <1>1, <1>2, <1>11, OperationRec

LEMMA MoveRec ==
  ASSUME IInv, IInv', RecInv, NEW o \in Ids, NEW p \in Ids, Move(o, p)
  PROVE  RecInv'
<1> DEFINE q == GetObject(o).parent
           read == Reading({o, p, q})
           obs == [read EXCEPT ![q].children = @ \ {o}, ![q].dirty = TRUE,
                               ![p].children = @ \union {o}, ![p].dirty = TRUE,
                               ![o].parent = p, ![o].dirty = TRUE]
           saves == <<q, p, o>>
<1>1. Typing /\ Typing' /\ TurnOfInfo
  BY DEF IInv
<1>2. /\ Free /\ phase = "turn" /\ o # p /\ q # p /\ q # o /\ Readable(o) /\ Readable(p) /\ Readable(q)
      /\ Operation(obs, saves) /\ scheduled' = scheduled
  BY DEF Move, Alive
<1>3. q \in Ids
  BY <1>1, <1>2, Got DEF Readable, Object
<1> HIDE DEF q
<1>4. ASSUME NEW r \in Ids
      PROVE  /\ Loads(read[r]) => read[r] = GetObject(r)
             /\ ~Loads(read[r]) => read[r] = objects[r]
             /\ Loads(objects[r]) => read[r] = objects[r]
  <2>1. {o, p, q} \in SUBSET Ids /\ \A x \in {o, p, q} : Readable(x)
    BY <1>2, <1>3
  <2>2. QED BY <1>1, <2>1, ReadingGets
<1>5. read \in [Ids -> Entry] /\ \A r \in {o, p, q} : read[r] \in Object
  BY <1>1, <1>2, <1>3, ReadingIsGood
<1>6. /\ Len(saves) = 3 /\ saves[1] = q /\ saves[2] = p /\ saves[3] = o
      /\ \A k \in 1 .. Len(saves) : saves[k] \in {o, p, q}
  OBVIOUS
<1>7. IsInjective(saves)
  <2>1. DOMAIN saves = 1 .. 3
    OBVIOUS
  <2>2. o # p /\ q # p /\ q # o
    BY <1>2
  <2>3. saves[1] = q /\ saves[2] = p /\ saves[3] = o
    BY <1>6
  <2> HIDE DEF saves
  <2>4. ASSUME NEW i \in 1 .. 3, NEW j \in 1 .. 3, saves[i] = saves[j] PROVE i = j
    <3>1. (i = 1 \/ i = 2 \/ i = 3) /\ (j = 1 \/ j = 2 \/ j = 3)
      OBVIOUS
    <3>2. QED BY <2>2, <2>3, <2>4, <3>1
  <2>5. QED BY <2>1, <2>4 DEF IsInjective
<1> HIDE DEF read
<1>8. /\ obs[q] = [[read[q] EXCEPT !.children = @ \ {o}] EXCEPT !.dirty = TRUE]
      /\ obs[p] = [[read[p] EXCEPT !.children = @ \union {o}] EXCEPT !.dirty = TRUE]
      /\ obs[o] = [[read[o] EXCEPT !.parent = p] EXCEPT !.dirty = TRUE]
      /\ \A r \in Ids \ {o, p, q} : obs[r] = read[r]
  BY <1>2, <1>3, <1>5
<1> HIDE DEF obs, saves
<1>9. \A r \in {o, p, q} : obs[r] \in Object /\ obs[r].dirty /\ obs[r].alive = read[r].alive
  <2> DEFINE lists(ob, c) == [[ob EXCEPT !.children = c] EXCEPT !.dirty = TRUE]
             moved(ob) == [[ob EXCEPT !.parent = p] EXCEPT !.dirty = TRUE]
             good(to, ob) == to \in Object /\ to.dirty /\ to.alive = ob.alive
  <2>1. \A ob \in Object, c \in SUBSET Ids : good(lists(ob, c), ob)
    BY DEF Object
  <2>2. \A ob \in Object : good(moved(ob), ob)
    BY DEF Object
  <2>3. (read[q].children \ {o}) \in SUBSET Ids /\ (read[p].children \union {o}) \in SUBSET Ids
    BY <1>5 DEF Object
  <2>4. /\ obs[q] = lists(read[q], read[q].children \ {o})
        /\ obs[p] = lists(read[p], read[p].children \union {o})
        /\ obs[o] = moved(read[o])
    BY <1>8
  <2> HIDE DEF lists, moved, good
  <2>5. good(obs[q], read[q]) /\ good(obs[p], read[p]) /\ good(obs[o], read[o])
    BY <1>5, <2>1, <2>2, <2>3, <2>4
  <2>6. QED BY <2>5 DEF good
<1>10. \A r \in scheduled' : ~obs[r].alive
  <2> SUFFICES ASSUME NEW r \in scheduled PROVE ~obs[r].alive
    BY <1>2
  <2>1. r \in Ids /\ Loads(objects[r]) /\ ~objects[r].alive
    BY <1>1 DEF Typing, RecInv, ScheduledAreDead
  <2>2. ~read[r].alive
    BY <1>4, <2>1
  <2>3. QED BY <1>8, <1>9, <2>1, <2>2
<1>11. Faithful(obs, saves)
  <2>1. \A r \in Ids : Loads(obs[r]) /\ r \notin {o, p, q} => obs[r] = GetObject(r)
    BY <1>4, <1>8
  <2>2. \A r \in Ids : ~Loads(obs[r]) => obs[r] = objects[r]
    BY <1>4, <1>8, <1>9, NothingAssumption DEF Loads
  <2>3. \A k \in 1 .. Len(saves) : obs[saves[k]].dirty
    BY <1>6, <1>9
  <2>4. \A r \in Ids : (\A k \in 1 .. Len(saves) : saves[k] # r) => r \notin {o, p, q}
    BY <1>6
  <2>5. QED BY <1>2, <1>6, <1>7, <1>10, <2>1, <2>2, <2>3, <2>4 DEF Faithful
<1>12. QED BY <1>1, <1>2, <1>11, OperationRec

LEMMA ClearRemovedRec ==
  ASSUME IInv, IInv', RecInv, ClearRemovedObjects
  PROVE  RecInv'
<1> DEFINE parents == {objects[o].parent : o \in scheduled}
           read == Reading(parents)
           left == parents \ scheduled
           obs == [o \in Ids |->
                      IF o \in scheduled THEN Absent
                      ELSE IF o \in parents THEN [read[o] EXCEPT !.children = @ \ scheduled, !.dirty = TRUE]
                      ELSE read[o]]
<1>1. Typing /\ Typing' /\ TurnOfInfo
  BY DEF IInv
<1>2. Free /\ phase = "turn" /\ scheduled' = {} /\ \A p \in parents : Readable(p)
  BY DEF ClearRemovedObjects
<1>3. PICK saves \in [1 .. Cardinality(left) -> left] :
        /\ Operation(obs, saves) /\ \A j, k \in DOMAIN saves : j < k => saves[j] < saves[k]
  BY DEF ClearRemovedObjects
<1>4. parents \in SUBSET Ids
  <2>1. \A o \in scheduled : objects[o] \in Object
    BY <1>1 DEF Typing, Entry, Loads
  <2>2. QED BY <2>1 DEF Object
<1>5. \E n \in Nat : n = Cardinality(left)
  <2>1. IsFiniteSet(Ids)
    BY FS_Interval, StoreAssumption DEF Ids
  <2>2. IsFiniteSet(left)
    BY <1>4, <2>1, FS_Subset
  <2>3. QED BY <2>2, FS_CardinalityType
<1> HIDE DEF parents
<1>6. ASSUME NEW o \in Ids
      PROVE  /\ Loads(read[o]) => read[o] = GetObject(o)
             /\ ~Loads(read[o]) => read[o] = objects[o]
             /\ o \in parents => read[o] \in Object
  BY <1>1, <1>2, <1>4, ReadingGets
<1> HIDE DEF read
<1>7. \A o \in left : obs[o] \in Object /\ obs[o].dirty
  <2> TAKE o \in left
  <2>1. o \in Ids /\ read[o] \in Object
    BY <1>4, <1>6
  <2>2. obs[o] = [read[o] EXCEPT !.children = @ \ scheduled, !.dirty = TRUE]
    BY <2>1
  <2> HIDE DEF obs
  <2>3. QED BY <2>1, <2>2 DEF Object
<1>8. \A o \in Ids : /\ o \in scheduled => obs[o] = Absent
                     /\ o \notin scheduled /\ o \notin left => obs[o] = read[o]
  OBVIOUS
<1> HIDE DEF obs
<1>9. /\ saves \in Seq(Ids) /\ Len(saves) = Cardinality(left) /\ \A k \in 1 .. Len(saves) : saves[k] \in left
      /\ IsInjective(saves)
  <2>1. left \subseteq Ids
    BY <1>4
  <2>0. Ids \subseteq Int
    BY DEF Ids
  <2> HIDE DEF left
  <2>2. PICK n \in Nat : n = Cardinality(left)
    BY <1>5
  <2>3. saves \in [1 .. n -> left] /\ \A j, k \in 1 .. n : j < k => saves[j] < saves[k]
    BY <1>3, <2>2
  <2>4. saves \in Seq(Ids) /\ Len(saves) = n /\ \A k \in 1 .. n : saves[k] \in left
    <3>1. saves \in [1 .. n -> Ids]
      BY <2>1, <2>3
    <3>2. saves \in Seq(Ids) /\ Len(saves) = n
      BY <3>1
    <3>3. QED BY <2>3, <3>2
  <2>5. ASSUME NEW j \in 1 .. n, NEW k \in 1 .. n, saves[j] = saves[k] PROVE j = k
    <3>1. saves[j] \in Int /\ saves[k] \in Int
      BY <2>0, <2>1, <2>4
    <3>2. ~(j < k) /\ ~(k < j)
      BY <2>3, <2>5, <3>1
    <3>3. QED BY <3>2
  <2>6. IsInjective(saves)
    BY <2>3, <2>5 DEF IsInjective
  <2>7. QED BY <2>2, <2>4, <2>6
<1>10. \A o \in left : \E k \in 1 .. Len(saves) : saves[k] = o
  <2>1. left \subseteq Ids
    BY <1>4
  <2> HIDE DEF left
  <2>2. PICK n \in Nat : n = Cardinality(left)
    BY <1>5
  <2>3. IsFiniteSet(left)
    <3>1. IsFiniteSet(Ids)
      BY FS_Interval, StoreAssumption DEF Ids
    <3>2. QED BY <2>1, <3>1, FS_Subset
  <2>4. saves \in Injection(1 .. n, left)
    BY <1>3, <1>9, <2>2 DEF Injection
  <2>5. Cardinality(1 .. n) = n
    BY FS_Interval
  <2>6. saves \in Surjection(1 .. n, left)
    BY <2>2, <2>3, <2>4, <2>5, FS_Injection
  <2>7. QED BY <1>9, <2>2, <2>6 DEF Surjection
<1>11. Faithful(obs, saves)
  <2> HIDE DEF left
  <2>1. ASSUME NEW o \in Ids, Loads(obs[o]), o \notin left PROVE obs[o] = GetObject(o)
    BY <1>6, <1>8, <2>1 DEF Loads
  <2>2. ASSUME NEW o \in Ids, ~Loads(obs[o]) PROVE obs[o] = objects[o] \/ (obs[o] = Absent /\ o \in scheduled)
    BY <1>6, <1>7, <1>8, <2>2, NothingAssumption DEF Loads
  <2>3. \A k \in 1 .. Len(saves) : obs[saves[k]].dirty
    BY <1>7, <1>9
  <2>4. \A o \in Ids : (\A k \in 1 .. Len(saves) : saves[k] # o) => o \notin left
    BY <1>10
  <2>5. QED BY <1>2, <1>9, <2>1, <2>2, <2>3, <2>4 DEF Faithful
<1>12. QED BY <1>1, <1>2, <1>3, <1>11, OperationRec

-----------------------------------------------------------------------------
(* Statements *)

\* A statement changes the tables only for object o, and only at this turn.
OnlyThis(o) ==
  /\ \A q \in Ids \ {o} : rows'[q] = rows[q] /\ params'[q] = params[q]
  /\ \A q \in Ids, u \in Turns : u # turn => rows'[q][u] = rows[q][u] /\ params'[q][u] = params[q][u]

\* Table g is f but for the row of object o at turn t.
Puts(g, f, o, t, v) ==
  /\ g[o][t] = v
  /\ \A q \in Ids \ {o} : g[q] = f[q]
  /\ \A q \in Ids, u \in Turns : u # t => g[q][u] = f[q][u]

LEMMA PutsOne ==
  ASSUME NEW S, NEW f \in [Ids -> [Turns -> S]], NEW o \in Ids, NEW t \in Turns, NEW v
  PROVE  Puts([f EXCEPT ![o][t] = v], f, o, t, v)
  BY DEF Puts

LEMMA OthersSame ==
  ASSUME Typing, NEW o \in Ids, OnlyThis(o)
  PROVE  /\ \A q \in Ids \ {o}, t \in Turns :
              /\ Stored(rows', params', q, t) = Stored(rows, params, q, t)
              /\ \A ob : Matches(rows', params', q, ob, t) <=> Matches(rows, params, q, ob, t)
         /\ \A q \in Ids, t \in Turns : t < turn =>
              Stored(rows', params', q, t) = Stored(rows, params, q, t)
<1>1. ASSUME NEW q \in Ids \ {o}, NEW t \in Turns
      PROVE  /\ Stored(rows', params', q, t) = Stored(rows, params, q, t)
             /\ \A ob : Matches(rows', params', q, ob, t) <=> Matches(rows, params, q, ob, t)
  <2>1. \A u \in Turns : u <= t => rows[q][u] = rows'[q][u] /\ params[q][u] = params'[q][u]
    BY DEF OnlyThis
  <2>2. QED BY <2>1, SameRows
<1>2. ASSUME NEW q \in Ids, NEW t \in Turns, t < turn
      PROVE  Stored(rows', params', q, t) = Stored(rows, params, q, t)
  <2>1. ASSUME NEW u \in Turns, u <= t PROVE rows[q][u] = rows'[q][u] /\ params[q][u] = params'[q][u]
    <3>1. u \in Nat /\ t \in Nat /\ turn \in Nat
      BY StoreAssumption DEF Typing, Turns
    <3>2. u # turn
      BY <1>2, <2>1, <3>1
    <3>3. QED BY <3>2 DEF OnlyThis
  <2>2. QED BY <2>1, SameRows
<1>3. QED BY <1>1, <1>2

\* The head of the list leaves it.
LEMMA Leaves ==
  ASSUME NEW S, NEW s \in Seq(S), s # <<>>
  PROVE  /\ Head(s) \in S /\ Head(s) = s[1] /\ Len(s) \in Nat \ {0} /\ Last(s) = s[Len(s)]
         /\ Tail(s) \in Seq(S) /\ Len(Tail(s)) = Len(s) - 1
         /\ \A k \in 1 .. Len(Tail(s)) : Tail(s)[k] = s[k + 1] /\ k + 1 \in 1 .. Len(s)
         /\ \A q : (\E k \in 1 .. Len(s) : s[k] = q) <=> q = Head(s) \/ \E k \in 1 .. Len(Tail(s)) : Tail(s)[k] = q
         /\ IsInjective(s) =>
              IsInjective(Tail(s)) /\ \A k \in 1 .. Len(Tail(s)) : Tail(s)[k] # Head(s)
         /\ Tail(s) # <<>> => Last(Tail(s)) = Last(s)
         /\ Tail(s) = <<>> <=> Len(s) = 1
<1>1. /\ Head(s) \in S /\ Head(s) = s[1] /\ Len(s) \in Nat \ {0} /\ Last(s) = s[Len(s)]
      /\ Tail(s) \in Seq(S) /\ Len(Tail(s)) = Len(s) - 1
      /\ \A k \in 1 .. Len(Tail(s)) : Tail(s)[k] = s[k + 1] /\ k + 1 \in 1 .. Len(s)
  BY DEF Last
<1>2. PICK n \in Nat : Len(s) = n + 1 /\ Len(Tail(s)) = n
  <2>1. Len(s) - 1 \in Nat /\ Len(s) = (Len(s) - 1) + 1
    BY <1>1
  <2>2. QED BY <1>1, <2>1
<1>3. PICK t \in Seq(S) : t = Tail(s) /\ DOMAIN t = 1 .. n /\ DOMAIN s = 1 .. (n + 1)
  <2>1. DOMAIN s = 1 .. Len(s)
    OBVIOUS
  <2>2. Tail(s) \in Seq(S)
    BY <1>1
  <2>3. DOMAIN Tail(s) = 1 .. Len(Tail(s))
    BY <2>2
  <2>4. QED BY <1>2, <2>1, <2>2, <2>3
<1>4. \A k \in 1 .. n : t[k] = s[k + 1] /\ k + 1 \in 1 .. (n + 1)
  BY <1>1, <1>2, <1>3
<1>5. ASSUME NEW q
      PROVE  (\E k \in 1 .. (n + 1) : s[k] = q) <=> q = s[1] \/ \E k \in 1 .. n : t[k] = q
  <2>1. ASSUME NEW k \in 1 .. (n + 1), s[k] = q PROVE q = s[1] \/ \E j \in 1 .. n : t[j] = q
    <3>1. CASE k = 1
      BY <2>1, <3>1
    <3>2. CASE k # 1
      <4>1. k - 1 \in 1 .. n /\ (k - 1) + 1 = k
        BY <3>2
      <4>2. t[k - 1] = q
        BY <1>4, <2>1, <4>1
      <4>3. QED BY <4>1, <4>2
    <3>3. QED BY <3>1, <3>2
  <2>2. 1 \in 1 .. (n + 1)
    OBVIOUS
  <2>3. QED BY <1>4, <2>1, <2>2
<1>6. ASSUME IsInjective(s)
      PROVE  IsInjective(t) /\ \A k \in 1 .. n : t[k] # s[1]
  <2>1. \A i, j \in 1 .. (n + 1) : s[i] = s[j] => i = j
    BY <1>3, <1>6 DEF IsInjective
  <2>2. ASSUME NEW i \in 1 .. n, NEW j \in 1 .. n, t[i] = t[j] PROVE i = j
    <3>1. s[i + 1] = s[j + 1] /\ i + 1 \in 1 .. (n + 1) /\ j + 1 \in 1 .. (n + 1)
      BY <1>4, <2>2
    <3>2. i + 1 = j + 1
      BY <2>1, <3>1
    <3>3. QED BY <3>2
  <2>3. ASSUME NEW k \in 1 .. n, t[k] = s[1] PROVE FALSE
    <3>1. s[k + 1] = s[1] /\ k + 1 \in 1 .. (n + 1) /\ 1 \in 1 .. (n + 1)
      BY <1>4, <2>3
    <3>2. k + 1 = 1
      BY <2>1, <3>1
    <3>3. QED BY <3>2
  <2>4. IsInjective(t)
    BY <1>3, <2>2 DEF IsInjective
  <2>5. QED BY <2>3, <2>4
<1>7. t # <<>> => Last(t) = Last(s)
  <2> SUFFICES ASSUME t # <<>> PROVE Last(t) = Last(s)
    OBVIOUS
  <2>1. n # 0
    BY <1>2, <1>3
  <2>2. n \in 1 .. n
    BY <2>1
  <2>3. Last(t) = t[n] /\ Last(s) = s[n + 1]
    BY <1>2, <1>3 DEF Last
  <2>4. QED BY <1>4, <2>2, <2>3
<1>8. t = <<>> <=> n + 1 = 1
  BY <1>2, <1>3
<1>9. QED BY <1>1, <1>2, <1>3, <1>5, <1>6, <1>7, <1>8

LEMMA AdvanceRec ==
  ASSUME IInv, IInv', RecInv, NEW o \in Ids, phase \in {"create", "idle", "turn"}, todo # <<>>,
         o = Head(todo), Advance, OnlyThis(o),
         UNCHANGED <<info, turn, scheduled, back>>, torn \subseteq torn',
         \A q \in Ids \ {o} : objects'[q] = objects[q],
         objects'[o] \in Object, objects[o] \in Object,
         Gist(objects'[o]) = Gist(objects[o]), objects'[o].alive = objects[o].alive,
         objects'[o].dirty => o \in torn',
         ~objects'[o].dirty => Matches(rows', params', o, objects'[o], turn)
  PROVE  RecInv'
<1>1. Typing /\ Typing' /\ TurnOfInfo
  BY DEF IInv
<1>2. turn \in Turns /\ todo \in Seq(Ids) /\ phase # "down"
  BY <1>1 DEF Typing
<1>3. /\ todo' = Tail(todo) /\ stage' = 0
      /\ phase' = (IF phase = "create" /\ Len(todo) = 1 THEN "idle" ELSE phase)
      /\ kept' = (IF Len(todo) = 1 /\ phase \in {"create", "idle"} THEN Commit ELSE kept)
  BY DEF Advance
<1>4. \A q \in Ids : Queued(q) <=> q = o \/ Queued(q)'
  <2>1. \A q : (\E k \in 1 .. Len(todo) : todo[k] = q)
                  <=> q = Head(todo) \/ \E k \in 1 .. Len(Tail(todo)) : Tail(todo)[k] = q
    BY <1>2, Leaves
  <2>2. QED BY <1>3, <2>1 DEF Queued
<1>5. \A q \in Ids : /\ Loads(objects'[q]) <=> Loads(objects[q])
                     /\ objects'[q].alive = objects[q].alive
                     /\ Gist(objects'[q]) = Gist(objects[q])
                     /\ ~Loads(objects[q]) => q # o /\ objects'[q] = objects[q]
  BY NothingAssumption DEF Loads
<1>6. \A q \in Ids \ {o} :
        /\ Stored(rows', params', q, turn) = Stored(rows, params, q, turn)
        /\ \A ob : Matches(rows', params', q, ob, turn) <=> Matches(rows, params, q, ob, turn)
  BY <1>1, <1>2, OthersSame
<1>7. \A q \in Steady' : q \in Steady /\ q \in Ids
  BY DEF Steady
<1>8. HeldAsStored'
  <2> SUFFICES ASSUME NEW q \in Ids \ back, Clean(q)' PROVE Matches(rows', params', q, objects'[q], turn)
    BY DEF HeldAsStored
  <2>1. Loads(objects'[q]) /\ ~Queued(q)' /\ ~objects'[q].dirty
    BY DEF Clean
  <2>2. CASE q = o
    BY <2>1, <2>2
  <2>3. CASE q # o
    <3>1. Clean(q) /\ objects'[q] = objects[q]
      BY <1>4, <2>1, <2>3 DEF Clean
    <3>2. Matches(rows, params, q, objects[q], turn)
      BY <1>2, <3>1 DEF RecInv, HeldAsStored
    <3>3. QED BY <1>6, <2>3, <3>1, <3>2
  <2>4. QED BY <2>2, <2>3
<1>9. DirtyIsQueued'
  <2> SUFFICES ASSUME NEW q \in Ids, Loads(objects'[q]), objects'[q].dirty PROVE Queued(q)' \/ q \in torn'
    BY DEF DirtyIsQueued, Loads
  <2>1. CASE q # o
    <3>1. Queued(q) \/ q \in torn
      BY <2>1 DEF RecInv, DirtyIsQueued
    <3>2. QED BY <1>4, <2>1, <3>1
  <2>2. QED BY <2>1
<1>10. QueuedIsDirty'
  <2> SUFFICES ASSUME phase' # "create"
               PROVE  IsInjective(todo') /\ \A k \in 1 .. Len(todo') : objects'[todo'[k]].dirty
    BY DEF QueuedIsDirty
  <2>1. CASE Len(todo) = 1
    <3>1. todo' = <<>>
      BY <1>2, <1>3, <2>1, Leaves
    <3>2. IsInjective(<<>>) /\ Len(<<>>) = 0
      BY DEF IsInjective
    <3>3. QED BY <3>1, <3>2
  <2>2. CASE Len(todo) # 1
    <3>1. phase # "create"
      BY <1>3, <2>2
    <3>2. IsInjective(todo) /\ \A k \in 1 .. Len(todo) : objects[todo[k]].dirty
      BY <3>1 DEF RecInv, QueuedIsDirty
    <3>3. IsInjective(todo') /\ \A k \in 1 .. Len(todo') : todo'[k] # o
      BY <1>2, <1>3, <3>2, Leaves
    <3>4. \A k \in 1 .. Len(todo') : todo'[k] \in Ids /\ objects[todo'[k]].dirty
      <4>1. \A k \in 1 .. Len(todo') : todo'[k] = todo[k + 1] /\ k + 1 \in 1 .. Len(todo)
        BY <1>2, <1>3, Leaves
      <4>2. \A k \in 1 .. Len(todo) : todo[k] \in Ids
        BY <1>2
      <4>3. QED BY <3>2, <4>1, <4>2
    <3>5. QED BY <3>3, <3>4
  <2>3. QED BY <2>1, <2>2
<1>11. RowFirst'
  BY <1>3 DEF RowFirst
<1>12. ScheduledAreDead'
  BY <1>1, <1>5 DEF RecInv, ScheduledAreDead, Typing
<1>13. UnloadedAsKept'
  <2> SUFFICES ASSUME NEW q \in Steady', ~Loads(objects[q])
               PROVE  /\ objects[q] = Absent => Stored(rows, params, q, turn) = NoRow
                      /\ objects[q] = Null => phase' # "create" /\ Stored(rows, params, q, turn) = kept'[q]
    BY <1>5, <1>6, <1>7 DEF UnloadedAsKept, Loads
  <2>1. /\ objects[q] = Absent => Stored(rows, params, q, turn) = NoRow
        /\ objects[q] = Null => phase # "create" /\ Stored(rows, params, q, turn) = kept[q]
    BY <1>2, <1>7 DEF RecInv, UnloadedAsKept
  <2>2. objects[q] = Null => kept'[q] = kept[q]
    BY <1>3, <1>7, NothingAssumption DEF Commit, Loaded
  <2>3. QED BY <1>3, <2>1, <2>2
<1>14. KeptIsStored'
  <2> SUFFICES ASSUME phase' \in {"down", "turn"}, info # NoRow, NEW q \in Steady'
               PROVE  Stored(rows', params', q, info) = kept'[q]
    BY DEF KeptIsStored
  <2>1. phase = "turn" /\ kept' = kept
    BY <1>3
  <2>2. info \in Turns /\ info < turn
    BY <1>1, <2>1 DEF TurnOfInfo, Turns
  <2>3. Stored(rows', params', q, info) = Stored(rows, params, q, info)
    BY <1>1, <1>7, <2>2, OthersSame
  <2>4. QED BY <1>7, <2>1, <2>3 DEF RecInv, KeptIsStored
<1>15. HeldAsKept'
  <2> SUFFICES ASSUME phase' = "idle", NEW q \in Steady'
               PROVE  /\ Loads(objects'[q]) /\ (todo' = <<>> \/ q # Last(todo')) => Gist(objects'[q]) = kept'[q]
                      /\ objects'[q] = Absent => kept'[q] = NoRow
    BY DEF HeldAsKept
  <2>1. CASE Len(todo) = 1
    <3>1. kept'[q] = IF Loads(objects[q]) THEN Gist(objects'[q]) ELSE IF objects[q] = Absent THEN NoRow ELSE kept[q]
      BY <1>3, <1>7, <2>1 DEF Commit, Loaded, Loads
    <3>2. QED BY <1>5, <1>7, <3>1 DEF Loads
  <2>2. CASE Len(todo) # 1
    <3>1. phase = "idle" /\ kept' = kept
      BY <1>3, <2>2
    <3>2. todo' # <<>> /\ Last(todo') = Last(todo)
      BY <1>2, <1>3, <2>2, Leaves
    <3>3. Loads(objects[q]) /\ q # Last(todo) => Gist(objects[q]) = kept[q]
      BY <1>7, <3>1 DEF RecInv, HeldAsKept
    <3>4. objects[q] = Absent => kept[q] = NoRow
      BY <1>7, <3>1 DEF RecInv, HeldAsKept
    <3>5. QED BY <1>5, <1>7, <3>1, <3>2, <3>3, <3>4 DEF Loads
  <2>3. QED BY <2>1, <2>2
<1>16. QED BY <1>8, <1>9, <1>10, <1>11, <1>12, <1>13, <1>14, <1>15 DEF RecInv

LEMMA WriteFailsRec ==
  ASSUME IInv, IInv', RecInv, WriteFails
  PROVE  RecInv'
<1>1. Typing
  BY DEF IInv
<1>2. /\ phase \in {"idle", "turn"} /\ todo # <<>> /\ Advance
      /\ UNCHANGED <<info, turn, scheduled, back, rows, params, objects>>
      /\ torn' = torn \union {Head(todo)}
  BY DEF WriteFails, disk
<1>3. PICK o \in Ids : o = Head(todo) /\ o = todo[1] /\ Loads(objects[o]) /\ 1 \in 1 .. Len(todo)
  BY <1>1, <1>2 DEF Typing
<1>4. objects[o].dirty /\ objects[o] \in Object
  BY <1>1, <1>2, <1>3 DEF RecInv, QueuedIsDirty, Typing, Entry, Loads
<1>5. OnlyThis(o)
  BY <1>2 DEF OnlyThis
<1>6. QED BY <1>2, <1>3, <1>4, <1>5, AdvanceRec

LEMMA StatementSays ==
  ASSUME Typing, NEW o \in Ids, objects[o] \in Object, Statement(o)
  PROVE  /\ OnlyThis(o)
         /\ stage = 1 => rows'[o][turn] = RowOf(objects[o])
         /\ stage \in {2, 3} => rows' = rows
         /\ stage = 3 => params'[o][turn] = objects[o].val
<1>1. /\ turn \in Turns /\ stage \in 0 .. 3
      /\ rows \in [Ids -> [Turns -> Row \union {NoRow}]]
      /\ params \in [Ids -> [Turns -> Vals \union {NoRow}]]
  BY DEF Typing
<1>2. PICK row, val : row = RowOf(objects[o]) /\ val = objects[o].val
  OBVIOUS
<1>3. \/ stage = 0 /\ rows' = [rows EXCEPT ![o][turn] = NoRow] /\ params' = params
      \/ stage = 1 /\ rows' = [rows EXCEPT ![o][turn] = row] /\ params' = params
      \/ stage = 2 /\ params' = [params EXCEPT ![o][turn] = NoRow] /\ rows' = rows
      \/ stage = 3 /\ params' = [params EXCEPT ![o][turn] = val] /\ rows' = rows
  BY <1>2 DEF Statement, RowOf
<1>4. \A v : /\ Puts([rows EXCEPT ![o][turn] = v], rows, o, turn, v)
             /\ Puts([params EXCEPT ![o][turn] = v], params, o, turn, v)
  BY <1>1, PutsOne
<1>5. CASE stage = 0
  <2>1. rows' = [rows EXCEPT ![o][turn] = NoRow] /\ params' = params
    BY <1>3, <1>5
  <2>2. Puts(rows', rows, o, turn, NoRow)
    BY Zenon, <1>4, <2>1
  <2>3. QED BY <1>5, <2>1, <2>2 DEF OnlyThis, Puts
<1>6. CASE stage = 1
  <2>1. rows' = [rows EXCEPT ![o][turn] = row] /\ params' = params
    BY <1>3, <1>6
  <2>2. Puts(rows', rows, o, turn, row)
    BY Zenon, <1>4, <2>1
  <2>3. QED BY <1>2, <1>6, <2>1, <2>2 DEF OnlyThis, Puts
<1>7. CASE stage = 2
  <2>1. params' = [params EXCEPT ![o][turn] = NoRow] /\ rows' = rows
    BY <1>3, <1>7
  <2>2. Puts(params', params, o, turn, NoRow)
    BY Zenon, <1>4, <2>1
  <2>3. QED BY <1>7, <2>1, <2>2 DEF OnlyThis, Puts
<1>8. CASE stage = 3
  <2>1. params' = [params EXCEPT ![o][turn] = val] /\ rows' = rows
    BY <1>3, <1>8
  <2>2. Puts(params', params, o, turn, val)
    BY Zenon, <1>4, <2>1
  <2>3. QED BY <1>2, <1>8, <2>1, <2>2 DEF OnlyThis, Puts
<1>9. QED BY <1>1, <1>5, <1>6, <1>7, <1>8

LEMMA WriteRec ==
  ASSUME IInv, IInv', RecInv, Write
  PROVE  RecInv'
<1>1. Typing /\ Typing' /\ TurnOfInfo
  BY DEF IInv
<1>2. /\ phase \in {"create", "idle", "turn"} /\ todo # <<>> /\ phase # "down"
      /\ UNCHANGED <<info, turn, scheduled, torn, back>>
  BY DEF Write
<1>3. PICK o \in Ids : o = Head(todo) /\ o = todo[1] /\ Loads(objects[o]) /\ 1 \in 1 .. Len(todo)
  BY <1>1, <1>2 DEF Typing
<1>4. /\ turn \in Turns /\ objects \in [Ids -> Entry] /\ objects[o] \in Object /\ Queued(o)
      /\ rows \in [Ids -> [Turns -> Row \union {NoRow}]]
      /\ params \in [Ids -> [Turns -> Vals \union {NoRow}]] /\ stage \in 0 .. 3
  BY <1>1, <1>3 DEF Typing, Entry, Loads, Queued
<1>5. Statement(o)
  BY <1>3 DEF Write
<1>6. PICK row, val : row = RowOf(objects[o]) /\ val = objects[o].val
  OBVIOUS
<1>7. /\ OnlyThis(o)
      /\ stage = 1 => rows'[o][turn] = row
      /\ stage \in {2, 3} => rows' = rows
      /\ stage = 3 => params'[o][turn] = val
  BY <1>1, <1>4, <1>5, <1>6, StatementSays
<1>8. RowFirst /\ (stage \in {2, 3} => objects[o].alive /\ rows[o][turn] = row)
  BY <1>3, <1>6 DEF RecInv, RowFirst
<1>9. CASE stage < LastStage(o)
  <2>1. stage' = stage + 1 /\ UNCHANGED <<objects, todo, phase, kept>>
    BY <1>3, <1>9 DEF Write
  <2>2. /\ \A q \in Ids : Queued(q)' = Queued(q)
        /\ Steady' = Steady /\ Steady \subseteq Ids
    BY <1>2, <2>1 DEF Queued, Steady
  <2>3. \A q \in Ids \ {o} :
          /\ Stored(rows', params', q, turn) = Stored(rows, params, q, turn)
          /\ \A ob : Matches(rows', params', q, ob, turn) <=> Matches(rows, params, q, ob, turn)
    BY <1>1, <1>4, <1>7, OthersSame
  <2>4. HeldAsStored'
    <3> SUFFICES ASSUME NEW q \in Ids \ back, Clean(q)' PROVE Matches(rows', params', q, objects[q], turn)
      BY <1>2, <2>1 DEF HeldAsStored
    <3>1. Clean(q) /\ q # o
      BY <1>4, <2>1, <2>2 DEF Clean
    <3>2. QED BY <1>2, <2>3, <3>1 DEF RecInv, HeldAsStored
  <2>5. DirtyIsQueued' /\ QueuedIsDirty' /\ ScheduledAreDead'
    <3>1. DirtyIsQueued'
      BY <1>2, <2>1, <2>2 DEF RecInv, DirtyIsQueued, Loads
    <3>2. QueuedIsDirty' /\ ScheduledAreDead'
      BY <1>2, <2>1 DEF RecInv, QueuedIsDirty, ScheduledAreDead
    <3>3. QED BY <3>1, <3>2
  <2>6. RowFirst'
    <3> SUFFICES ASSUME stage' \in {2, 3} PROVE objects[o].alive /\ rows'[o][turn] = RowOf(objects[o])
      BY <1>2, <1>3, <2>1 DEF RowFirst
    <3>1. CASE stage = 1
      BY <1>6, <1>7, <1>9, <3>1 DEF LastStage
    <3>2. CASE stage = 2
      BY <1>6, <1>7, <1>8, <3>2
    <3>3. QED BY <1>4, <2>1, <3>1, <3>2
  <2>7. UnloadedAsKept'
    <3> SUFFICES ASSUME NEW q \in Steady, ~Loads(objects[q])
                 PROVE  /\ objects[q] = Absent => Stored(rows', params', q, turn) = NoRow
                        /\ objects[q] = Null => phase # "create" /\ Stored(rows', params', q, turn) = kept[q]
      BY <1>2, <2>1, <2>2 DEF UnloadedAsKept, Loads
    <3>1. q # o /\ q \in Ids
      BY <1>3, <2>2
    <3>2. QED BY <1>2, <2>3, <3>1 DEF RecInv, UnloadedAsKept
  <2>8. KeptIsStored'
    <3> SUFFICES ASSUME phase \in {"down", "turn"}, info # NoRow, NEW q \in Steady
                 PROVE  Stored(rows', params', q, info) = kept[q]
      BY <1>2, <2>1, <2>2 DEF KeptIsStored
    <3>1. phase = "turn" /\ info \in Turns /\ turn = info + 1
      BY <1>1, <1>2 DEF TurnOfInfo
    <3>2. info < turn
      BY <3>1 DEF Turns
    <3>3. Stored(rows', params', q, info) = Stored(rows, params, q, info)
      BY <1>1, <1>7, <2>2, <3>1, <3>2, OthersSame
    <3>4. QED BY <3>3 DEF RecInv, KeptIsStored
  <2>9. HeldAsKept'
    BY <2>1, <2>2 DEF RecInv, HeldAsKept, Loads
  <2>10. QED BY <2>4, <2>5, <2>6, <2>7, <2>8, <2>9 DEF RecInv
<1>10. CASE ~(stage < LastStage(o))
  <2>1. objects' = [objects EXCEPT ![o].dirty = FALSE] /\ Advance
    BY <1>3, <1>10 DEF Write
  <2>2. objects'[o] = [objects[o] EXCEPT !.dirty = FALSE] /\ \A q \in Ids \ {o} : objects'[q] = objects[q]
    BY <1>4, <2>1
  <2>3. PICK ob \in Object : ob = objects[o]
    BY <1>4
  <2>4. PICK to : to = objects'[o]
    OBVIOUS
  <2>5. to = [ob EXCEPT !.dirty = FALSE]
    BY <2>2, <2>3, <2>4
  <2>6. /\ to \in Object /\ ~to.dirty /\ to.alive = ob.alive /\ to.parent = ob.parent /\ to.val = ob.val
    BY <2>5 DEF Object
  <2>7. Gist(to) = Gist(ob)
    BY <2>6, NothingAssumption DEF Gist
  <2>8. Matches(rows', params', o, to, turn)
    <3>1. rows'[o][turn] = row /\ (ob.alive => params'[o][turn] = val)
      <4>1. CASE ob.alive
        BY <1>4, <1>7, <1>8, <1>10, <2>3, <4>1 DEF LastStage
      <4>2. CASE ~ob.alive
        BY <1>4, <1>7, <1>8, <1>10, <2>3, <4>2 DEF LastStage
      <4>3. QED BY <4>1, <4>2
    <3>2. row = RowOf(to) /\ val = to.val
      BY <1>6, <2>3, <2>6 DEF RowOf
    <3>3. row # NoRow /\ val # NoRow
      <4>1. row \in Row /\ val \in Vals
        BY <1>6, <2>3 DEF RowOf, Row, Object
      <4>2. QED BY <4>1, NothingAssumption
    <3>4. Newest(rows', o, turn) = row
      BY <1>4, <3>1, <3>3, NewestHere
    <3>5. ob.alive => Newest(params', o, turn) = val
      BY <1>4, <3>1, <3>3, NewestHere
    <3>6. QED BY <2>6, <3>2, <3>4, <3>5 DEF Matches
  <2>9. QED BY <1>2, <1>3, <1>7, <2>1, <2>2, <2>3, <2>4, <2>6, <2>7, <2>8, AdvanceRec
<1>11. QED BY <1>9, <1>10

-----------------------------------------------------------------------------
(* Turns, starting and dying *)

LEMMA NoRowsNothing ==
  ASSUME NEW rs, NEW ps, NEW o, NEW t, \A u \in Turns : rs[o][u] = NoRow
  PROVE  Stored(rs, ps, o, t) = NoRow
  BY NewestNone DEF Stored

LEMMA LoadRec ==
  ASSUME IInv, IInv', RecInv, Load
  PROVE  RecInv'
<1> USE NothingAssumption
<1>1. /\ phase = "down" /\ info # NoRow /\ phase' = "idle" /\ turn' = info /\ scheduled' = {}
      /\ objects' = [o \in Ids |-> IF o \in EveryId THEN Null ELSE Absent]
      /\ UNCHANGED <<info, rows, params, todo, stage, kept, torn, back>>
  BY DEF Load, disk
<1>2. todo = <<>> /\ Len(<<>>) = 0 /\ IsInjective(<<>>)
  BY <1>1 DEF IInv, TurnOfInfo, IsInjective
<1>3. Steady' = Steady /\ Steady \subseteq Ids
  BY <1>1 DEF Steady
<1>4. \A o \in Ids : ~Loads(objects'[o]) /\ objects'[o] \in {Absent, Null}
  BY <1>1 DEF Loads
<1>5. ASSUME NEW o \in Steady
      PROVE  /\ Stored(rows, params, o, info) = kept[o]
             /\ objects'[o] = Absent => kept[o] = NoRow
  <2>1. Stored(rows, params, o, info) = kept[o]
    BY <1>1 DEF RecInv, KeptIsStored
  <2>2. ASSUME objects'[o] = Absent PROVE Stored(rows, params, o, info) = NoRow
    <3>1. o \notin EveryId /\ o \in Ids
      BY <1>1, <1>3, <2>2
    <3>2. QED BY <3>1, NoRowsNothing DEF EveryId
  <2>3. QED BY <2>1, <2>2
<1>6. HeldAsStored' /\ DirtyIsQueued' /\ QueuedIsDirty' /\ ScheduledAreDead' /\ KeptIsStored'
  BY <1>1, <1>2, <1>4 DEF HeldAsStored, DirtyIsQueued, QueuedIsDirty, ScheduledAreDead, KeptIsStored, Clean, Loads
<1>7. RowFirst'
  BY <1>1, <1>2 DEF RecInv, RowFirst
<1>8. UnloadedAsKept' /\ HeldAsKept'
  BY <1>1, <1>3, <1>4, <1>5 DEF UnloadedAsKept, HeldAsKept, Loads
<1>9. QED BY <1>6, <1>7, <1>8 DEF RecInv

LEMMA CreateGameRec ==
  ASSUME IInv, IInv', RecInv, CreateGame, EveryId = {}
  PROVE  RecInv'
<1> USE NothingAssumption
<1> DEFINE made(o) == [alive |-> TRUE, parent |-> 0, children |-> {1} \ {o}, val |-> First, dirty |-> TRUE]
<1>1. /\ phase' = "create" /\ turn' = 0 /\ scheduled' = {} /\ stage' = 0 /\ todo' = <<0, 0, 1>>
      /\ objects' = [o \in Ids |-> IF o > 1 THEN Absent ELSE made(o)]
      /\ UNCHANGED <<rows, params, kept, torn, back>>
  BY DEF CreateGame
<1>2. \A o \in Ids : made(o) # Absent /\ made(o) # Null
  <2>1. \A o \in Ids : made(o) \in Object
    <3>1. First \in Vals /\ 0 \in Ids /\ 1 \in Ids
      BY StoreAssumption DEF First, Ids
    <3>2. QED BY <3>1 DEF Object
  <2>2. QED BY <2>1
<1> HIDE DEF made
<1>3. ASSUME NEW o \in Ids
      PROVE  objects'[o] = Absent \/ (Loads(objects'[o]) /\ Queued(o)')
  <2>1. CASE o > 1
    BY <1>1, <2>1
  <2>2. CASE ~(o > 1)
    <3>1. o = 0 \/ o = 1
      BY <2>2, StoreAssumption DEF Ids
    <3>2. Len(todo') = 3 /\ todo'[1] = 0 /\ todo'[3] = 1
      BY <1>1
    <3>3. Queued(o)'
      BY <3>1, <3>2 DEF Queued
    <3>4. QED BY <1>1, <1>2, <2>2, <3>3 DEF Loads
  <2>3. QED BY <2>1, <2>2
<1>4. \A o \in Ids : Stored(rows, params, o, 0) = NoRow
  BY NoRowsNothing DEF EveryId
<1>5. HeldAsStored' /\ DirtyIsQueued'
  BY <1>1, <1>3 DEF HeldAsStored, DirtyIsQueued, Clean, Loads
<1>6. QueuedIsDirty' /\ RowFirst' /\ ScheduledAreDead' /\ KeptIsStored' /\ HeldAsKept'
  BY <1>1 DEF QueuedIsDirty, RowFirst, ScheduledAreDead, KeptIsStored, HeldAsKept
<1>7. UnloadedAsKept'
  BY <1>1, <1>3, <1>4 DEF UnloadedAsKept, Steady, Loads
<1>8. QED BY <1>5, <1>6, <1>7 DEF RecInv

LEMMA StartTurnRec ==
  ASSUME IInv, IInv', RecInv, StartTurn
  PROVE  RecInv'
<1> USE NothingAssumption
<1>1. Typing /\ Typing' /\ TurnOfInfo
  BY DEF IInv
<1>2. /\ phase = "idle" /\ todo = <<>> /\ phase' = "turn" /\ turn' = turn + 1
      /\ objects' = [o \in Ids |-> IF objects[o] = Null THEN RetrieveObject(o, turn + 1) ELSE objects[o]]
      /\ back' = back \union Leftover(turn + 1)
      /\ UNCHANGED <<info, rows, params, scheduled, todo, stage, kept, torn>>
  BY DEF StartTurn, disk
<1>3. turn \in Turns /\ turn + 1 \in Turns /\ info = turn
  BY <1>1, <1>2 DEF Typing, TurnOfInfo
<1>4. ASSUME NEW o \in Ids \ back'
      PROVE  /\ o \in Ids \ back
             /\ Stored(rows, params, o, turn + 1) = Stored(rows, params, o, turn)
             /\ \A ob : Matches(rows, params, o, ob, turn + 1) <=> Matches(rows, params, o, ob, turn)
  <2>1. rows[o][turn + 1] = NoRow /\ params[o][turn + 1] = NoRow
    BY <1>2 DEF Leftover
  <2>2. QED BY <1>2, <1>3, <2>1, NextTurnSame
<1>5. ASSUME NEW o \in Steady' PROVE o \in Steady /\ o \in Ids \ back'
  BY <1>2 DEF Steady
<1>6. ASSUME NEW o \in Ids
      PROVE  /\ ~Queued(o) /\ ~Queued(o)'
             /\ objects[o] # Null => objects'[o] = objects[o]
             /\ objects[o] = Null => objects'[o] = RetrieveObject(o, turn + 1)
  BY <1>2 DEF Queued
<1>7. HeldAsStored'
  <2> SUFFICES ASSUME NEW o \in Ids \ back', Clean(o)' PROVE Matches(rows, params, o, objects'[o], turn + 1)
    BY <1>2 DEF HeldAsStored
  <2>1. Loads(objects'[o]) /\ ~objects'[o].dirty
    BY DEF Clean
  <2>2. CASE objects[o] = Null
    BY <1>1, <1>3, <1>6, <2>1, <2>2, RetrieveSays DEF Loads
  <2>3. CASE objects[o] # Null
    <3>1. Clean(o) /\ objects'[o] = objects[o]
      BY <1>6, <2>1, <2>3 DEF Clean
    <3>2. Matches(rows, params, o, objects[o], turn)
      BY <1>2, <1>4, <3>1 DEF RecInv, HeldAsStored
    <3>3. QED BY <1>4, <3>1, <3>2
  <2>4. QED BY <2>2, <2>3
<1>8. DirtyIsQueued'
  <2> SUFFICES ASSUME NEW o \in Ids, Loads(objects'[o]), objects'[o].dirty PROVE o \in torn
    BY <1>2 DEF DirtyIsQueued, Loads
  <2>1. CASE objects[o] = Null
    BY <1>1, <1>3, <1>6, <2>1, RetrieveSays DEF Loads
  <2>2. CASE objects[o] # Null
    BY <1>6, <2>2 DEF RecInv, DirtyIsQueued
  <2>3. QED BY <2>1, <2>2
<1>9. QueuedIsDirty' /\ RowFirst'
  <2>1. IsInjective(<<>>) /\ Len(<<>>) = 0
    BY DEF IsInjective
  <2>2. QED BY <1>2, <2>1 DEF RecInv, QueuedIsDirty, RowFirst
<1>10. ScheduledAreDead'
  <2>1. \A o \in scheduled : o \in Ids /\ objects[o] # Null /\ ~objects[o].alive
    BY <1>1 DEF Typing, Loads, RecInv, ScheduledAreDead
  <2>2. QED BY <1>2, <1>6, <2>1 DEF ScheduledAreDead
<1>11. UnloadedAsKept'
  <2> SUFFICES ASSUME NEW o \in Steady', ~Loads(objects'[o])
               PROVE  /\ objects'[o] = Absent => Stored(rows, params, o, turn + 1) = NoRow
                      /\ objects'[o] = Null => Stored(rows, params, o, turn + 1) = kept[o]
    BY <1>2 DEF UnloadedAsKept, Loads
  <2>1. o \in Steady /\ o \in Ids /\ Stored(rows, params, o, turn + 1) = Stored(rows, params, o, turn)
    BY <1>4, <1>5
  <2>2. CASE objects[o] = Null
    <3>1. Stored(rows, params, o, turn) = kept[o]
      BY <1>2, <2>1, <2>2 DEF RecInv, UnloadedAsKept
    <3>2. objects'[o] # Absent
      BY <1>1, <1>3, <1>6, <2>1, <2>2, RetrieveSays
    <3>3. QED BY <2>1, <3>1, <3>2
  <2>3. CASE objects[o] # Null
    BY <1>2, <1>6, <2>1, <2>3 DEF RecInv, UnloadedAsKept
  <2>4. QED BY <2>2, <2>3
<1>12. KeptIsStored'
  <2> SUFFICES ASSUME NEW o \in Steady' PROVE Stored(rows, params, o, turn) = kept[o]
    BY <1>2, <1>3 DEF KeptIsStored
  <2>1. o \in Steady /\ o \in Ids /\ o \in Ids \ back
    BY <1>4, <1>5
  <2>2. CASE Loads(objects[o])
    <3>1. ~objects[o].dirty
      BY <1>6, <2>1, <2>2 DEF RecInv, DirtyIsQueued, Steady
    <3>2. Matches(rows, params, o, objects[o], turn)
      BY <1>2, <1>6, <2>1, <2>2, <3>1 DEF RecInv, HeldAsStored, Clean
    <3>3. objects[o] \in Object
      BY <1>1, <2>1, <2>2 DEF Typing, Entry, Loads
    <3>4. Stored(rows, params, o, turn) = Gist(objects[o])
      BY <3>2, <3>3, MatchesSays
    <3>5. QED BY <1>2, <2>1, <2>2, <3>4 DEF RecInv, HeldAsKept
  <2>3. CASE ~Loads(objects[o])
    BY <1>2, <2>1, <2>3 DEF RecInv, UnloadedAsKept, HeldAsKept, Loads
  <2>4. QED BY <2>2, <2>3
<1>13. HeldAsKept'
  BY <1>2 DEF HeldAsKept
<1>14. QED BY <1>7, <1>8, <1>9, <1>10, <1>11, <1>12, <1>13 DEF RecInv

LEMMA EndTurnRec ==
  ASSUME IInv, IInv', RecInv, EndTurn
  PROVE  RecInv'
<1>1. /\ phase = "turn" /\ todo = <<>> /\ phase' = "save" /\ info' = NoRow
      /\ UNCHANGED <<rows, params, turn, objects, scheduled, todo, stage, kept, torn, back>>
  BY DEF EndTurn, memory, history
<1>2. Steady' = Steady /\ \A o \in Ids : Queued(o)' = Queued(o) /\ Clean(o)' = Clean(o)
  BY <1>1 DEF Steady, Queued, Clean
<1>3. HeldAsStored' /\ DirtyIsQueued'
  BY <1>1, <1>2 DEF RecInv, HeldAsStored, DirtyIsQueued
<1>4. QueuedIsDirty' /\ RowFirst' /\ ScheduledAreDead'
  BY <1>1 DEF RecInv, QueuedIsDirty, RowFirst, ScheduledAreDead
<1>5. UnloadedAsKept' /\ KeptIsStored' /\ HeldAsKept'
  BY <1>1, <1>2 DEF RecInv, UnloadedAsKept, KeptIsStored, HeldAsKept
<1>6. QED BY <1>3, <1>4, <1>5 DEF RecInv

LEMMA InsertGameInfoRec ==
  ASSUME IInv, IInv', RecInv, InsertGameInfo
  PROVE  RecInv'
<1>1. /\ phase = "save" /\ phase' = "idle" /\ info' = turn /\ kept' = Commit
      /\ UNCHANGED <<rows, params, turn, objects, scheduled, todo, stage, torn, back>>
  BY DEF InsertGameInfo
<1>2. todo = <<>>
  BY <1>1 DEF IInv, TurnOfInfo
<1>3. /\ Steady' = Steady /\ Steady \subseteq Ids
      /\ \A o \in Ids : Queued(o)' = Queued(o) /\ Clean(o)' = Clean(o)
  BY <1>1 DEF Steady, Queued, Clean
<1>4. HeldAsStored' /\ DirtyIsQueued'
  BY <1>1, <1>3 DEF RecInv, HeldAsStored, DirtyIsQueued
<1>5. QueuedIsDirty' /\ RowFirst' /\ ScheduledAreDead'
  BY <1>1 DEF RecInv, QueuedIsDirty, RowFirst, ScheduledAreDead
<1>6. \A o \in Ids : kept'[o] = IF Loads(objects[o]) THEN Gist(objects[o])
                                ELSE IF objects[o] = Absent THEN NoRow ELSE kept[o]
  BY <1>1 DEF Commit, Loaded, Loads
<1>7. UnloadedAsKept'
  BY <1>1, <1>3, <1>6, NothingAssumption DEF RecInv, UnloadedAsKept, Loads
<1>8. KeptIsStored' /\ HeldAsKept'
  BY <1>1, <1>3, <1>6 DEF KeptIsStored, HeldAsKept, Loads
<1>9. QED BY <1>4, <1>5, <1>7, <1>8 DEF RecInv

LEMMA CrashRec ==
  ASSUME IInv, IInv', RecInv, Crash, phase # "create"
  PROVE  RecInv'
<1>1. Typing /\ TurnOfInfo
  BY DEF IInv
<1>2. /\ phase # "down" /\ phase' = "down" /\ objects' = [o \in Ids |-> Absent]
      /\ todo' = <<>> /\ stage' = 0 /\ scheduled' = {} /\ turn' = 0
      /\ torn' = (IF phase = "turn" THEN torn ELSE torn \union Range(todo))
      /\ UNCHANGED <<info, rows, params, kept, back>>
  BY DEF Crash, disk
<1>3. \A o \in Ids : Queued(o) => o \in Range(todo)
  BY <1>1 DEF Typing, Range, Queued
<1>4. \A o \in Ids : ~Loads(objects'[o]) /\ objects'[o] = Absent
  BY <1>2 DEF Loads
<1>5. HeldAsStored' /\ UnloadedAsKept' /\ HeldAsKept' /\ RowFirst' /\ ScheduledAreDead'
  BY <1>2 DEF HeldAsStored, UnloadedAsKept, HeldAsKept, RowFirst, ScheduledAreDead
<1>6. DirtyIsQueued' /\ QueuedIsDirty'
  <2>1. IsInjective(<<>>) /\ Len(<<>>) = 0
    BY DEF IsInjective
  <2>2. QED BY <1>2, <1>4, <2>1 DEF DirtyIsQueued, QueuedIsDirty, Loads
<1>7. KeptIsStored'
  <2> SUFFICES ASSUME info # NoRow, NEW o \in Steady' PROVE Stored(rows, params, o, info) = kept[o]
    BY <1>2 DEF KeptIsStored
  <2>1. o \in Steady /\ o \in Ids
    BY <1>2 DEF Steady
  <2>2. CASE phase = "turn"
    BY <2>1, <2>2 DEF RecInv, KeptIsStored
  <2>3. CASE phase = "idle"
    <3>1. info = turn /\ turn \in Turns
      BY <1>1, <2>3 DEF TurnOfInfo, Typing
    <3>2. ~Queued(o)
      BY <1>2, <1>3, <2>1, <2>3 DEF Steady
    <3>3. CASE Loads(objects[o])
      <4>1. ~objects[o].dirty
        BY <2>1, <3>2, <3>3 DEF RecInv, DirtyIsQueued, Steady
      <4>2. Matches(rows, params, o, objects[o], turn)
        BY <1>2, <2>1, <3>2, <3>3, <4>1 DEF RecInv, HeldAsStored, Clean, Steady
      <4>3. objects[o] \in Object
        BY <1>1, <2>1, <3>3 DEF Typing, Entry, Loads
      <4>4. Stored(rows, params, o, turn) = Gist(objects[o])
        BY <4>2, <4>3, MatchesSays
      <4>5. todo = <<>> \/ o # Last(todo)
        <5> SUFFICES ASSUME todo # <<>>, o = Last(todo) PROVE FALSE
          OBVIOUS
        <5>1. Len(todo) \in Nat \ {0} /\ Last(todo) = todo[Len(todo)]
          BY <1>1, Leaves DEF Typing
        <5>2. Len(todo) \in 1 .. Len(todo)
          BY <5>1
        <5>3. QED BY <3>2, <5>1, <5>2 DEF Queued
      <4>6. QED BY <2>1, <2>3, <3>1, <3>3, <4>4, <4>5 DEF RecInv, HeldAsKept
    <3>4. CASE ~Loads(objects[o])
      BY <1>2, <2>1, <2>3, <3>1, <3>4 DEF RecInv, UnloadedAsKept, HeldAsKept, Loads
    <3>5. QED BY <3>3, <3>4
  <2>4. phase # "save"
    BY <1>1 DEF TurnOfInfo
  <2>5. QED BY <1>1, <1>2, <2>2, <2>3, <2>4 DEF Typing
<1>8. QED BY <1>5, <1>6, <1>7 DEF RecInv

-----------------------------------------------------------------------------
(* Every step *)

LEMMA InitRec == Init => RecInv
<1> SUFFICES ASSUME Init PROVE RecInv
  OBVIOUS
<1>1. /\ phase = "down" /\ todo = <<>> /\ stage = 0 /\ scheduled = {} /\ info = NoRow
      /\ \A o \in Ids : ~Loads(objects[o])
  BY DEF Init, Loads
<1>2. IsInjective(<<>>) /\ Len(<<>>) = 0
  BY DEF IsInjective
<1>3. HeldAsStored /\ DirtyIsQueued /\ QueuedIsDirty /\ RowFirst
  BY <1>1, <1>2 DEF HeldAsStored, DirtyIsQueued, QueuedIsDirty, RowFirst
<1>4. UnloadedAsKept /\ KeptIsStored /\ HeldAsKept /\ ScheduledAreDead
  BY <1>1 DEF UnloadedAsKept, KeptIsStored, HeldAsKept, ScheduledAreDead
<1>5. QED BY <1>3, <1>4 DEF RecInv

\* What no step takes back: that the ids began again.
LEMMA NotAnew ==
  ASSUME [Next]_vars, ~anew'
  PROVE  ~anew
<1>1. ASSUME NEW o \in Ids, Ask(o) PROVE ~anew
  BY Zenon, <1>1 DEF Ask, Operation, history
<1>2. ASSUME NEW o \in Ids, Revisit(o) PROVE ~anew
  BY Zenon, <1>2 DEF Revisit, Operation, history
<1>3. ASSUME NEW o \in Ids, ScheduleRemoveObject(o) PROVE ~anew
  BY Zenon, <1>3 DEF ScheduleRemoveObject, Operation, history
<1>4. ASSUME NEW o \in Ids, NEW v \in Vals, Build(o, v) PROVE ~anew
  BY Zenon, <1>4 DEF Build, Operation, history
<1>5. ASSUME NEW o \in Ids, NEW v \in Vals, Change(o, v) PROVE ~anew
  BY Zenon, <1>5 DEF Change, Operation, history
<1>6. ASSUME NEW o \in Ids, NEW p \in Ids, Move(o, p) PROVE ~anew
  BY Zenon, <1>6 DEF Move, Operation, history
<1>7. CASE ClearRemovedObjects
  <2> DEFINE parents == {objects[o].parent : o \in scheduled}
  <2>1. PICK saves \in [1 .. Cardinality(parents \ scheduled) -> parents \ scheduled] :
           Operation([o \in Ids |->
                        IF o \in scheduled THEN Absent
                        ELSE IF o \in parents THEN [Reading(parents)[o] EXCEPT !.children = @ \ scheduled, !.dirty = TRUE]
                        ELSE Reading(parents)[o]],
                     saves)
    BY <1>7 DEF ClearRemovedObjects
  <2>2. QED BY Zenon, <2>1 DEF Operation, history
<1>8. CASE Write
  BY Zenon, <1>8 DEF Write
<1>9. CASE WriteFails
  BY Zenon, <1>9 DEF WriteFails
<1>10. CASE StartTurn
  BY Zenon, <1>10 DEF StartTurn
<1>11. CASE EndTurn
  BY Zenon, <1>11 DEF EndTurn, history
<1>12. CASE InsertGameInfo
  BY Zenon, <1>12 DEF InsertGameInfo
<1>13. CASE Load
  BY Zenon, <1>13 DEF Load
<1>14. CASE CreateGame
  BY Zenon, <1>14 DEF CreateGame
<1>15. CASE Crash
  BY Zenon, <1>15 DEF Crash
<1>16. CASE UNCHANGED vars
  BY Zenon, <1>16 DEF vars, history
<1>17. QED
  BY Zenon, <1>1, <1>2, <1>3, <1>4, <1>5, <1>6, <1>7, <1>8, <1>9, <1>10, <1>11, <1>12, <1>13, <1>14,
     <1>15, <1>16 DEF Next

LEMMA NextRec ==
  ASSUME IInv, anew \/ RecInv, [Next]_vars
  PROVE  IInv' /\ (anew' \/ RecInv')
<1>1. IInv'
  BY NextKeeps
<1> SUFFICES ASSUME ~anew' PROVE RecInv'
  BY <1>1
<1>2. RecInv /\ Rows
  BY NotAnew DEF IInv
<1>3. CASE Load
  BY <1>1, <1>2, <1>3, LoadRec
<1>4. CASE CreateGame
  <2>1. EveryId = {}
    BY Zenon, <1>4 DEF CreateGame
  <2>2. QED BY <1>1, <1>2, <1>4, <2>1, CreateGameRec
<1>5. CASE Write
  BY <1>1, <1>2, <1>5, WriteRec
<1>6. CASE WriteFails
  BY <1>1, <1>2, <1>6, WriteFailsRec
<1>7. ASSUME NEW o \in Ids, Ask(o) PROVE RecInv'
  BY <1>1, <1>2, <1>7, AskRec
<1>8. ASSUME NEW o \in Ids, Revisit(o) PROVE RecInv'
  BY <1>1, <1>2, <1>8, RevisitRec
<1>9. ASSUME NEW o \in Ids, ScheduleRemoveObject(o) PROVE RecInv'
  BY <1>1, <1>2, <1>9, ScheduleRemoveRec
<1>10. ASSUME NEW o \in Ids, NEW v \in Vals, Build(o, v) PROVE RecInv'
  BY <1>1, <1>2, <1>10, BuildRec
<1>11. ASSUME NEW o \in Ids, NEW v \in Vals, Change(o, v) PROVE RecInv'
  BY <1>1, <1>2, <1>11, ChangeRec
<1>12. ASSUME NEW o \in Ids, NEW p \in Ids, Move(o, p) PROVE RecInv'
  BY <1>1, <1>2, <1>12, MoveRec
<1>13. CASE ClearRemovedObjects
  BY <1>1, <1>2, <1>13, ClearRemovedRec
<1>14. CASE StartTurn
  BY <1>1, <1>2, <1>14, StartTurnRec
<1>15. CASE EndTurn
  BY <1>1, <1>2, <1>15, EndTurnRec
<1>16. CASE InsertGameInfo
  BY <1>1, <1>2, <1>16, InsertGameInfoRec
<1>17. CASE Crash
  <2>1. phase # "create"
    BY Zenon, <1>17 DEF Crash
  <2>2. QED BY <1>1, <1>2, <1>17, <2>1, CrashRec
<1>18. CASE UNCHANGED vars
  <2>1. UNCHANGED <<info, rows, params, phase, turn, objects, scheduled, todo, stage, kept, torn, back>>
    BY <1>18 DEF vars, disk, memory, history
  <2>2. Steady' = Steady /\ \A o \in Ids : Queued(o)' = Queued(o) /\ Clean(o)' = Clean(o)
    BY <2>1 DEF Steady, Queued, Clean
  <2>3. HeldAsStored' /\ DirtyIsQueued' /\ QueuedIsDirty' /\ RowFirst'
    BY <1>2, <2>1, <2>2 DEF RecInv, HeldAsStored, DirtyIsQueued, QueuedIsDirty, RowFirst
  <2>4. UnloadedAsKept' /\ KeptIsStored' /\ HeldAsKept' /\ ScheduledAreDead'
    BY <1>2, <2>1, <2>2 DEF RecInv, UnloadedAsKept, KeptIsStored, HeldAsKept, ScheduledAreDead
  <2>5. QED BY <2>3, <2>4 DEF RecInv
<1>19. QED
  BY <1>3, <1>4, <1>5, <1>6, <1>7, <1>8, <1>9, <1>10, <1>11, <1>12, <1>13, <1>14, <1>15, <1>16,
     <1>17, <1>18 DEF Next

\* A server that dies, in a turn or between two, finds every object as the last
\* turn or operation that ended left it (MysqlPersistence::retrieveObject).
THEOREM ObjectsRecover == Spec => []Recovered
<1>1. IInv /\ (anew \/ RecInv) => Recovered
  <2> SUFFICES ASSUME Typing, RecInv, phase = "down", info # NoRow, NEW o \in Ids \ (torn \union back)
               PROVE  Gist(RetrieveObject(o, info)) = kept[o]
    BY DEF IInv, Recovered
  <2>1. info \in Turns
    BY DEF Typing
  <2>2. Gist(RetrieveObject(o, info)) = Stored(rows, params, o, info)
    BY <2>1, RetrieveSays
  <2>3. QED BY <2>2 DEF RecInv, KeptIsStored, Steady
<1>2. Init => IInv /\ (anew \/ RecInv)
  BY InitIsGood, InitRec
<1>3. QED BY <1>1, <1>2, NextRec, PTL DEF Spec

-----------------------------------------------------------------------------
(* What contains what *)

\* Object c as it is when objects are obs: in memory or, if not loaded, in the tables.
Now(obs, c) == IF Loads(obs[c]) THEN Gist(obs[c]) ELSE Stored(rows, params, c, turn)

\* It is in memory or has a row, or its save was cut off.
Known(o) == o \in torn \/ HasRow(o, turn) \/ Loads(objects[o])

HeldParents ==
  phase # "down" => \A c \in Steady :
    Loads(objects[c]) /\ objects[c].alive => Known(objects[c].parent)

\* After a restart no new object is given the id of the parent of another.
KeptParents ==
  \A c \in Steady :
    kept[c] # NoRow =>
      /\ kept[c].parent \in Ids
      /\ \/ kept[c].parent \in torn
         \/ HasRow(kept[c].parent, EndedTurn)
         \/ phase \in {"create", "idle"} /\ Queued(kept[c].parent)

ChildrenBelow ==
  \A p \in Ids : Loads(objects[p]) => \A c \in objects[p].children : c < nextid /\ c # p

\* A list in memory has the objects that name its owner as their parent, and
\* no others, whether they are in memory or not.
ListsAgree ==
  \A p \in Ids \ torn, c \in Steady :
    Loads(objects[p]) /\ c # p /\ Now(objects, c) # NoRow =>
      (c \in objects[p].children <=> Now(objects, c).parent = p)

ConInv == HeldParents /\ KeptParents /\ ChildrenBelow /\ ListsAgree

LEMMA GistSays ==
  ASSUME NEW ob \in Object
  PROVE  /\ Gist(ob) # NoRow <=> ob.alive
         /\ ob.alive => Gist(ob).parent = ob.parent /\ ob.parent \in Ids
<1>1. ob \notin {Absent, Null} /\ ob.parent \in Ids /\ ob.val \in Vals
  BY NothingAssumption DEF Object
<1>2. ob.alive => Gist(ob) = [parent |-> ob.parent, val |-> ob.val]
  BY <1>1 DEF Gist
<1>3. ~ob.alive => Gist(ob) = NoRow
  BY <1>1 DEF Gist
<1>4. [parent |-> ob.parent, val |-> ob.val] # NoRow
  BY <1>1, NothingAssumption
<1>5. QED BY <1>1, <1>2, <1>3, <1>4

LEMMA GistSame ==
  ASSUME NEW ob \in Object, NEW to \in Object,
         to.alive = ob.alive, to.parent = ob.parent, to.val = ob.val
  PROVE  Gist(to) = Gist(ob)
BY NothingAssumption DEF Gist

LEMMA RowLater ==
  ASSUME NEW o, NEW t \in Int, NEW s \in Int, t <= s, HasRow(o, t)
  PROVE  HasRow(o, s)
<1>1. PICK u \in Turns : u <= t /\ rows[o][u] # NoRow
  BY DEF HasRow
<1>2. u \in Int
  BY StoreAssumption DEF Turns
<1>3. u <= s
  BY <1>1, <1>2
<1>4. QED BY <1>1, <1>3 DEF HasRow

-----------------------------------------------------------------------------
(* What an operation on objects finds *)

Coherent == Typing /\ TurnOfInfo /\ Rows /\ RecInv /\ ConInv

\* What is alive in the tables, as the row has it.
LEMMA StoredSays ==
  ASSUME Typing, NEW c \in Ids, NEW t \in Turns, Stored(rows, params, c, t) # NoRow
  PROVE  /\ Newest(rows, c, t) # NoRow
         /\ Stored(rows, params, c, t).parent = Newest(rows, c, t).parent
  BY DEF Stored

LEMMA GotNow ==
  ASSUME Typing, NEW o \in Ids
  PROVE  /\ Now(objects, o) = Gist(GetObject(o))
         /\ Loads(objects[o]) => GetObject(o) = objects[o] /\ objects[o] \in Object
<1>1. turn \in Turns /\ objects[o] \in Entry
  BY DEF Typing
<1>2. CASE Loads(objects[o])
  BY <1>1, <1>2 DEF Now, GetObject, Loaded, Loads, Entry
<1>3. CASE ~Loads(objects[o])
  <2>1. GetObject(o) = RetrieveObject(o, turn)
    BY <1>3 DEF GetObject, Loaded, Loads
  <2>2. QED BY <1>1, <1>3, <2>1, RetrieveSays DEF Now
<1>4. QED BY <1>2, <1>3

LEMMA GotLive ==
  ASSUME Typing, NEW c \in Ids, Now(objects, c) # NoRow
  PROVE  GetObject(c) # Null /\ GetObject(c) \in Object /\ GetObject(c).alive
         /\ Now(objects, c).parent = GetObject(c).parent
<1>1. Gist(GetObject(c)) # NoRow
  BY GotNow
<1>2. GetObject(c) # Null
  BY <1>1 DEF Gist
<1>3. GetObject(c) \in Object
  BY <1>2, Got
<1>4. QED BY <1>1, <1>2, <1>3, GotNow, GistSays

\* The rows have a settled object where it is.
LEMMA ListedInTables ==
  ASSUME Typing, RecInv, Free, NEW p \in Ids, NEW c \in Steady, c # p, Now(objects, c) # NoRow
  PROVE  c \in Children(p, turn) <=> Now(objects, c).parent = p
<1>1. c \in Ids /\ turn \in Turns /\ phase # "down" /\ ~Queued(c) /\ objects[c] \in Entry
  BY DEF Typing, Steady, Free, Queued
<1>2. Newest(rows, c, turn) # NoRow /\ Newest(rows, c, turn).parent = Now(objects, c).parent
  <2>1. CASE Loads(objects[c])
    <3>1. objects[c] \in Object /\ Now(objects, c) = Gist(objects[c])
      BY <1>1, <2>1 DEF Entry, Loads, Now
    <3>2. ~objects[c].dirty
      BY <1>1, <2>1 DEF RecInv, DirtyIsQueued, Steady
    <3>3. Matches(rows, params, c, objects[c], turn)
      BY <1>1, <2>1, <3>2 DEF RecInv, HeldAsStored, Clean, Steady
    <3>4. Newest(rows, c, turn) = RowOf(objects[c])
      BY <3>3 DEF Matches
    <3>5. RowOf(objects[c]) \in Row /\ RowOf(objects[c]).parent = objects[c].parent
      BY <3>1 DEF RowOf, Row, Object
    <3>6. Now(objects, c).parent = objects[c].parent
      BY <3>1, GistSays
    <3>7. QED BY <3>4, <3>5, <3>6, NothingAssumption
  <2>2. CASE ~Loads(objects[c])
    BY <1>1, <2>2, StoredSays DEF Now
  <2>3. QED BY <2>1, <2>2
<1>3. QED BY <1>1, <1>2 DEF Children

LEMMA GotLists ==
  ASSUME Coherent, Free, NEW p \in Ids \ torn, GetObject(p) # Null,
         NEW c \in Steady, c # p, Now(objects, c) # NoRow
  PROVE  c \in GetObject(p).children <=> Now(objects, c).parent = p
<1>1. Typing /\ RecInv /\ ListsAgree /\ phase # "down" /\ turn \in Turns
  BY DEF Coherent, ConInv, Free, Typing
<1>2. CASE Loads(objects[p])
  BY <1>1, <1>2, GotNow DEF ListsAgree
<1>3. CASE ~Loads(objects[p])
  <2>1. GetObject(p) = RetrieveObject(p, turn)
    BY <1>3 DEF GetObject, Loaded, Loads
  <2>2. GetObject(p).children = Children(p, turn)
    BY <1>1, <2>1, RetrieveSays
  <2>3. QED BY <1>1, <2>2, ListedInTables
<1>4. QED BY <1>2, <1>3

LEMMA GotChildren ==
  ASSUME Coherent, Free, NEW p \in Ids, GetObject(p) # Null
  PROVE  GetObject(p).children \subseteq Ids /\ \A c \in GetObject(p).children : c < nextid /\ c # p
<1>1. Typing /\ IdsBelow /\ ChildrenBelow /\ phase # "down" /\ turn \in Turns
  BY DEF Coherent, ConInv, Free, Typing, Rows
<1>2. CASE Loads(objects[p])
  <2>1. GetObject(p) = objects[p] /\ objects[p] \in Object
    BY <1>1, <1>2, GotNow
  <2>2. QED BY <1>1, <1>2, <2>1 DEF ChildrenBelow, Object
<1>3. CASE ~Loads(objects[p])
  <2>1. GetObject(p) = RetrieveObject(p, turn)
    BY <1>3 DEF GetObject, Loaded, Loads
  <2>2. GetObject(p).children = Children(p, turn)
    BY <1>1, <2>1, RetrieveSays
  <2>3. \A c \in Children(p, turn) : c \in Ids \ {p} /\ \E u \in Turns : rows[c][u] # NoRow
    <3> TAKE c \in Children(p, turn)
    <3>1. c \in Ids \ {p} /\ Newest(rows, c, turn) # NoRow
      BY DEF Children
    <3>2. QED BY <3>1, NewestNone
  <2>4. QED BY <1>1, <2>2, <2>3 DEF IdsBelow
<1>4. QED BY <1>2, <1>3

LEMMA GotParents ==
  ASSUME Coherent, Free, NEW c \in Steady, Now(objects, c) # NoRow
  PROVE  Now(objects, c).parent \in torn \/ HasRow(Now(objects, c).parent, turn)
<1> DEFINE p == Now(objects, c).parent
<1>1. /\ Typing /\ RecInv /\ HeldParents /\ KeptParents /\ HeldHasRow /\ c \in Ids
      /\ phase \in {"idle", "turn"} /\ turn \in Turns /\ \A o : ~Queued(o)
  BY DEF Coherent, ConInv, Free, Typing, Rows, Steady, Queued
<1>2. p = GetObject(c).parent /\ p \in Ids /\ GetObject(c).alive
  BY <1>1, GotLive DEF Object
<1>3. CASE Loads(objects[c])
  <2>1. GetObject(c) = objects[c]
    BY <1>1, <1>3, GotNow
  <2>2. Known(p)
    BY <1>1, <1>2, <1>3, <2>1 DEF HeldParents
  <2>3. QED BY <1>1, <1>2, <2>2 DEF Known, HeldHasRow
<1>4. CASE ~Loads(objects[c])
  <2>1. Stored(rows, params, c, turn) # NoRow /\ p = Stored(rows, params, c, turn).parent
    BY <1>4 DEF Now
  <2>2. Stored(rows, params, c, turn) = kept[c]
    BY <1>1, <1>4, <2>1 DEF RecInv, UnloadedAsKept, Loads
  <2>3. p \in torn \/ HasRow(p, EndedTurn)
    BY <1>1, <2>1, <2>2 DEF KeptParents
  <2>4. EndedTurn \in Int /\ turn \in Int /\ EndedTurn <= turn
    BY <1>1, StoreAssumption DEF EndedTurn, Turns
  <2>5. QED BY <2>3, <2>4, RowLater
<1>5. QED BY <1>3, <1>4

-----------------------------------------------------------------------------
(* What an operation on objects leaves *)

\* The parents of the objects obs are known, and their lists have the objects
\* that name them, all of them below the next id.
Placed(obs) ==
  /\ \A p \in Ids : Loads(obs[p]) => \A c \in obs[p].children : c < nextid' /\ c # p
  /\ \A c \in Steady : Loads(obs[c]) /\ obs[c].alive =>
        obs[c].parent \in torn \/ HasRow(obs[c].parent, turn) \/ Loads(obs[obs[c].parent])
  /\ \A p \in Ids \ torn, c \in Steady :
        Loads(obs[p]) /\ c # p /\ Now(obs, c) # NoRow =>
          (c \in obs[p].children <=> Now(obs, c).parent = p)

LEMMA OperationCon ==
  ASSUME Coherent, Free, NEW obs, NEW saves, Operation(obs, saves), Placed(obs)
  PROVE  ConInv'
<1>1. /\ objects' = obs
      /\ UNCHANGED <<info, rows, params, phase, turn, kept, torn, back>>
      /\ phase \in {"idle", "turn"} /\ \A o : ~Queued(o)
  BY DEF Operation, Free, disk, history, Queued
<1>2. Steady' = Steady /\ EndedTurn' = EndedTurn
  BY <1>1 DEF Steady, EndedTurn
<1>3. HeldParents'
  BY <1>1, <1>2 DEF Placed, HeldParents, Known, HasRow
<1>4. KeptParents'
  <2> SUFFICES ASSUME NEW c \in Steady, kept[c] # NoRow
               PROVE  /\ kept[c].parent \in Ids
                      /\ kept[c].parent \in torn \/ HasRow(kept[c].parent, EndedTurn)'
    BY <1>1, <1>2 DEF KeptParents
  <2>1. kept[c].parent \in Ids /\ (kept[c].parent \in torn \/ HasRow(kept[c].parent, EndedTurn))
    BY <1>1 DEF Coherent, ConInv, KeptParents
  <2>2. QED BY <1>1, <1>2, <2>1 DEF HasRow
<1>5. ChildrenBelow'
  BY <1>1 DEF Placed, ChildrenBelow
<1>6. \A c : Now(objects, c)' = Now(obs, c)
  BY <1>1 DEF Now
<1>7. ListsAgree'
  BY <1>1, <1>2, <1>6 DEF Placed, ListsAgree
<1>8. QED BY <1>3, <1>4, <1>5, <1>7 DEF ConInv

\* An operation that puts no object into another, and may let one die.
Unmoved(obs) ==
  \A o \in Ids :
    /\ Loads(obs[o]) => /\ obs[o] \in Object /\ GetObject(o) # Null
                        /\ obs[o].children = GetObject(o).children /\ obs[o].parent = GetObject(o).parent
                        /\ obs[o].alive => GetObject(o).alive
    /\ ~Loads(obs[o]) => obs[o] = objects[o]

LEMMA UnmovedNow ==
  ASSUME Typing, NEW obs, Unmoved(obs), NEW c \in Ids, Now(obs, c) # NoRow
  PROVE  Now(objects, c) # NoRow /\ Now(objects, c).parent = Now(obs, c).parent
<1>1. CASE Loads(obs[c])
  <2>1. Now(obs, c) = Gist(obs[c]) /\ obs[c] \in Object /\ obs[c].parent = GetObject(c).parent /\ GetObject(c) # Null
    BY <1>1 DEF Now, Unmoved
  <2>2. obs[c].alive /\ Now(obs, c).parent = obs[c].parent
    BY <2>1, GistSays
  <2>3. GetObject(c).alive /\ GetObject(c) \in Object
    BY <1>1, <2>1, <2>2, Got DEF Unmoved
  <2>4. Now(objects, c) = Gist(GetObject(c))
    BY GotNow
  <2>5. QED BY <2>1, <2>2, <2>3, <2>4, GistSays
<1>2. CASE ~Loads(obs[c])
  BY <1>2 DEF Now, Unmoved
<1>3. QED BY <1>1, <1>2

LEMMA UnmovedCon ==
  ASSUME Coherent, Free, NEW obs, NEW saves, Operation(obs, saves), Unmoved(obs), nextid' = nextid
  PROVE  ConInv'
<1>1. Typing /\ Steady \subseteq Ids
  BY DEF Coherent, Steady
<1>2. \A p \in Ids : Loads(obs[p]) => \A c \in obs[p].children : c < nextid' /\ c # p
  <2> SUFFICES ASSUME NEW p \in Ids, Loads(obs[p])
               PROVE  \A c \in obs[p].children : c < nextid /\ c # p
    OBVIOUS
  <2>1. GetObject(p) # Null /\ obs[p].children = GetObject(p).children
    BY DEF Unmoved
  <2>2. QED BY <2>1, GotChildren
<1>3. ASSUME NEW c \in Steady, Loads(obs[c]), obs[c].alive
      PROVE  obs[c].parent \in torn \/ HasRow(obs[c].parent, turn)
  <2>1. c \in Ids /\ obs[c] \in Object /\ Now(obs, c) = Gist(obs[c])
    BY <1>1, <1>3 DEF Unmoved, Now
  <2>2. Now(obs, c) # NoRow /\ Now(obs, c).parent = obs[c].parent
    BY <1>3, <2>1, GistSays
  <2>3. Now(objects, c) # NoRow /\ Now(objects, c).parent = obs[c].parent
    BY <1>1, <2>1, <2>2, UnmovedNow
  <2>4. QED BY <2>3, GotParents
<1>4. ASSUME NEW p \in Ids \ torn, NEW c \in Steady, Loads(obs[p]), c # p, Now(obs, c) # NoRow
      PROVE  c \in obs[p].children <=> Now(obs, c).parent = p
  <2>1. GetObject(p) # Null /\ obs[p].children = GetObject(p).children
    BY <1>4 DEF Unmoved
  <2>2. Now(objects, c) # NoRow /\ Now(objects, c).parent = Now(obs, c).parent
    BY <1>1, <1>4, UnmovedNow
  <2>3. c \in GetObject(p).children <=> Now(objects, c).parent = p
    BY <1>4, <2>1, <2>2, GotLists
  <2>4. QED BY <2>1, <2>2, <2>3
<1>5. Placed(obs)
  BY <1>2, <1>3, <1>4 DEF Placed
<1>6. QED BY <1>5, OperationCon

LEMMA AskCon ==
  ASSUME Coherent, NEW o \in Ids, Ask(o)
  PROVE  ConInv'
<1> DEFINE obs == Reading({o})
<1>1. Typing /\ Free /\ Readable(o) /\ Operation(obs, <<>>) /\ nextid' = nextid
  BY DEF Ask, Coherent
<1>2. Unmoved(obs)
  <2> SUFFICES ASSUME NEW q \in Ids
               PROVE  /\ Loads(obs[q]) => obs[q] \in Object /\ GetObject(q) # Null /\ obs[q] = GetObject(q)
                      /\ ~Loads(obs[q]) => obs[q] = objects[q]
    BY DEF Unmoved
  <2>1. obs \in [Ids -> Entry]
    BY <1>1, ReadingIsGood
  <2> HIDE DEF obs
  <2>2. /\ Loads(obs[q]) => obs[q] = GetObject(q) /\ GetObject(q) # Null
        /\ ~Loads(obs[q]) => obs[q] = objects[q]
    BY <1>1, ReadingGets DEF obs
  <2>3. QED BY <2>1, <2>2 DEF Entry, Loads
<1>3. QED BY <1>1, <1>2, UnmovedCon

LEMMA RevisitCon ==
  ASSUME Coherent, NEW o \in Ids, Revisit(o)
  PROVE  ConInv'
<1>1. Typing /\ Free /\ Operation(objects, <<o>>) /\ nextid' = nextid
  BY DEF Revisit, Coherent
<1>2. Unmoved(objects)
  BY <1>1, GotNow, NothingAssumption DEF Unmoved, Loads
<1>3. QED BY <1>1, <1>2, UnmovedCon

LEMMA ChangeCon ==
  ASSUME Coherent, NEW o \in Ids, NEW v \in Vals, Change(o, v)
  PROVE  ConInv'
<1> DEFINE read == Reading({o})
           obs  == [read EXCEPT ![o].val = v, ![o].dirty = TRUE]
<1>1. Typing /\ Free /\ Readable(o) /\ GetObject(o).alive /\ Operation(obs, <<o>>) /\ nextid' = nextid
  BY DEF Change, Alive, Coherent
<1>2. ASSUME NEW q \in Ids
      PROVE  /\ Loads(read[q]) => read[q] = GetObject(q) /\ GetObject(q) # Null
             /\ ~Loads(read[q]) => read[q] = objects[q]
  BY <1>1, ReadingGets
<1>3. read \in [Ids -> Entry] /\ read[o] \in Object /\ read[o] = GetObject(o) /\ GetObject(o) # Null
  BY <1>1, ReadingIsGood DEF Readable
<1> HIDE DEF read
<1>4. /\ obs[o] = [[read[o] EXCEPT !.val = v] EXCEPT !.dirty = TRUE]
      /\ \A q \in Ids \ {o} : obs[q] = read[q]
  BY <1>3
<1>5. /\ obs[o] \in Object /\ obs[o].children = read[o].children /\ obs[o].parent = read[o].parent
      /\ obs[o].alive = read[o].alive
  BY <1>3, <1>4 DEF Object
<1> HIDE DEF obs
<1>6. Unmoved(obs)
  <2>1. \A q \in Ids \ {o} : Loads(obs[q]) => obs[q] \in Object
    BY <1>3, <1>4 DEF Loads, Entry
  <2>2. QED BY <1>2, <1>3, <1>4, <1>5, <2>1, NothingAssumption DEF Unmoved, Loads
<1>7. QED BY <1>1, <1>6, UnmovedCon

LEMMA ScheduleRemoveCon ==
  ASSUME Coherent, NEW o \in Ids, ScheduleRemoveObject(o)
  PROVE  ConInv'
<1> DEFINE obs == [objects EXCEPT ![o].alive = FALSE, ![o].dirty = TRUE]
<1>1. Typing /\ Free /\ Loads(objects[o]) /\ Operation(obs, <<o>>) /\ nextid' = nextid
  BY DEF ScheduleRemoveObject, Coherent, Loaded, Loads
<1>2. objects \in [Ids -> Entry] /\ objects[o] \in Object
  BY <1>1 DEF Typing, Entry, Loads
<1>3. /\ obs[o] = [[objects[o] EXCEPT !.alive = FALSE] EXCEPT !.dirty = TRUE]
      /\ \A q \in Ids \ {o} : obs[q] = objects[q]
  BY <1>2
<1>4. /\ obs[o] \in Object /\ obs[o].children = objects[o].children /\ obs[o].parent = objects[o].parent
      /\ ~obs[o].alive
  BY <1>2, <1>3 DEF Object
<1> HIDE DEF obs
<1>5. \A q \in Ids : Loads(objects[q]) => GetObject(q) = objects[q] /\ GetObject(q) # Null /\ objects[q] \in Object
  BY <1>1, GotNow, NothingAssumption DEF Loads
<1>6. Unmoved(obs)
  BY <1>1, <1>3, <1>4, <1>5, NothingAssumption DEF Unmoved, Loads
<1>7. QED BY <1>1, <1>6, UnmovedCon

\* An object that an operation leaves where and as alive as it was.
LEMMA NowSame ==
  ASSUME Typing, NEW obs, NEW c \in Ids,
         Loads(obs[c]) => obs[c] \in Object /\ Gist(obs[c]) = Gist(GetObject(c)),
         ~Loads(obs[c]) => obs[c] = objects[c]
  PROVE  /\ Now(obs, c) = Now(objects, c)
         /\ Loads(obs[c]) /\ obs[c].alive => Now(objects, c) # NoRow /\ Now(objects, c).parent = obs[c].parent
<1>1. CASE Loads(obs[c])
  <2>1. Now(obs, c) = Gist(obs[c])
    BY <1>1 DEF Now
  <2>2. QED BY <1>1, <2>1, GotNow, GistSays
<1>2. CASE ~Loads(obs[c])
  BY <1>2 DEF Now
<1>3. QED BY <1>1, <1>2

LEMMA BuildCon ==
  ASSUME Coherent, NEW p \in Ids, NEW v \in Vals, Build(p, v)
  PROVE  ConInv'
<1> DEFINE n == nextid
           read == Reading({p})
           new == [alive |-> TRUE, parent |-> p, children |-> {}, val |-> v, dirty |-> TRUE]
           obs == [read EXCEPT ![p].children = @ \union {n}, ![p].dirty = TRUE, ![n] = new]
<1>1. /\ Typing /\ Rows /\ Free /\ phase # "down" /\ Readable(p) /\ GetObject(p) # Null /\ n \in Ids
      /\ Operation(obs, <<p, n>>) /\ nextid' = n + 1
  BY DEF Build, Alive, Readable, Free, Coherent
<1>2. ASSUME NEW q \in Ids
      PROVE  /\ Loads(read[q]) => read[q] = GetObject(q) /\ GetObject(q) # Null
             /\ ~Loads(read[q]) => read[q] = objects[q]
  BY <1>1, ReadingGets DEF Loads
<1>3. read \in [Ids -> Entry] /\ read[p] \in Object /\ read[p] = GetObject(p)
  BY <1>1, ReadingIsGood
<1>4. n \in Int /\ Ids \subseteq Int /\ ~(n < n) /\ n < n + 1 /\ p # n
  <2>1. n \in Int /\ Ids \subseteq Int
    BY <1>1, StoreAssumption DEF Ids
  <2>2. p < n
    BY <1>1, GotBelow
  <2>3. QED BY <2>1, <2>2
<1> HIDE DEF read, new, n
<1>5. /\ obs[p] = [[read[p] EXCEPT !.children = @ \union {n}] EXCEPT !.dirty = TRUE]
      /\ obs[n] = new /\ \A q \in Ids \ {p, n} : obs[q] = read[q]
  BY <1>1, <1>3, <1>4
<1>6. /\ obs[p] \in Object /\ obs[p].alive = read[p].alive /\ obs[p].parent = read[p].parent
      /\ obs[p].val = read[p].val /\ obs[p].children = read[p].children \union {n}
  <2> HIDE DEF obs
  <2>1. (read[p].children \union {n}) \in SUBSET Ids
    BY <1>1, <1>3 DEF Object
  <2>2. PICK ob \in Object, c \in SUBSET Ids :
          ob = read[p] /\ c = read[p].children \union {n} /\ obs[p] = [[ob EXCEPT !.children = c] EXCEPT !.dirty = TRUE]
    BY <1>3, <1>5, <2>1
  <2>3. QED BY <2>2 DEF Object
<1>7. new \in Object /\ new.alive /\ new.parent = p /\ new.children = {}
  BY DEF new, Object
<1> HIDE DEF obs
<1>8. /\ Gist(obs[p]) = Gist(GetObject(p))
      /\ \A q \in Ids \ {n} : /\ Loads(obs[q]) => obs[q] \in Object /\ Gist(obs[q]) = Gist(GetObject(q)) /\ GetObject(q) # Null
                              /\ ~Loads(obs[q]) => obs[q] = objects[q]
  <2>1. Gist(obs[p]) = Gist(GetObject(p))
    BY <1>3, <1>6, NothingAssumption DEF Gist
  <2>2. Loads(obs[p]) /\ obs[p] \in Object
    BY <1>6, NothingAssumption DEF Loads
  <2>3. \A q \in Ids : Loads(read[q]) => read[q] \in Object
    BY <1>3 DEF Loads, Entry
  <2>4. QED BY <1>1, <1>2, <1>5, <2>1, <2>2, <2>3
<1>9. \A c \in Ids \ {n} : /\ Now(obs, c) = Now(objects, c)
                           /\ Loads(obs[c]) /\ obs[c].alive => Now(objects, c) # NoRow /\ Now(objects, c).parent = obs[c].parent
  BY <1>1, <1>8, NowSame
<1>10. Now(obs, n) = Gist(new) /\ Now(obs, n).parent = p
  BY <1>5, <1>7, GistSays, NothingAssumption DEF Now, Loads
<1>11. \A q \in Ids \ {n} : Loads(obs[q]) =>
          obs[q].children \ {n} = GetObject(q).children /\ (n \in obs[q].children <=> q = p)
  <2> SUFFICES ASSUME NEW q \in Ids \ {n}, Loads(obs[q])
               PROVE  obs[q].children \ {n} = GetObject(q).children /\ (n \in obs[q].children <=> q = p)
    OBVIOUS
  <2>1. n \notin GetObject(q).children
    BY <1>1, <1>4, <1>8, GotChildren DEF n
  <2>2. QED BY <1>2, <1>3, <1>5, <1>6, <2>1
<1>12. \A q \in Ids : Loads(obs[q]) => \A c \in obs[q].children : c < nextid' /\ c # q
  <2> SUFFICES ASSUME NEW q \in Ids, Loads(obs[q]), NEW c \in obs[q].children PROVE c < nextid' /\ c # q
    OBVIOUS
  <2>1. q # n
    BY <1>5, <1>7
  <2>2. CASE c = n
    BY <1>1, <1>4, <2>1, <2>2
  <2>3. CASE c # n
    <3>1. c \in GetObject(q).children /\ GetObject(q) # Null
      BY <1>8, <1>11, <2>1, <2>3
    <3>2. c \in Ids /\ c < n /\ c # q
      BY <1>1, <3>1, GotChildren DEF n
    <3>3. QED BY <1>1, <1>4, <3>2
  <2>4. QED BY <2>2, <2>3
<1>13. \A c \in Steady : Loads(obs[c]) /\ obs[c].alive =>
          obs[c].parent \in torn \/ HasRow(obs[c].parent, turn) \/ Loads(obs[obs[c].parent])
  <2> SUFFICES ASSUME NEW c \in Steady, Loads(obs[c]), obs[c].alive
               PROVE  obs[c].parent \in torn \/ HasRow(obs[c].parent, turn) \/ Loads(obs[obs[c].parent])
    OBVIOUS
  <2>1. CASE c = n
    BY <1>5, <1>6, <1>7, <2>1, NothingAssumption DEF Loads
  <2>2. CASE c # n
    BY <1>1, <1>9, <2>2, GotParents DEF Steady
  <2>3. QED BY <2>1, <2>2
<1>14. ASSUME NEW q \in Ids \ torn, NEW c \in Steady, Loads(obs[q]), c # q, Now(obs, c) # NoRow
       PROVE  c \in obs[q].children <=> Now(obs, c).parent = q
  <2>1. CASE c = n
    BY <1>10, <1>11, <1>14, <2>1
  <2>2. CASE c # n /\ q = n
    <3>1. Now(objects, c) # NoRow /\ Now(obs, c) = Now(objects, c)
      BY <1>9, <1>14, <2>2 DEF Steady
    <3>2. Now(objects, c).parent \in torn \/ HasRow(Now(objects, c).parent, turn)
      BY <1>1, <3>1, GotParents
    <3>3. ~HasRow(n, turn)
      BY <1>1, <1>4 DEF Rows, IdsBelow, HasRow, n
    <3>4. QED BY <1>5, <1>7, <1>14, <2>2, <3>1, <3>2, <3>3
  <2>3. CASE c # n /\ q # n
    <3>1. Now(objects, c) # NoRow /\ Now(obs, c) = Now(objects, c)
      BY <1>9, <1>14, <2>3 DEF Steady
    <3>2. c \in GetObject(q).children <=> Now(objects, c).parent = q
      BY <1>1, <1>8, <1>14, <2>3, <3>1, GotLists
    <3>3. c \in obs[q].children <=> c \in GetObject(q).children
      BY <1>11, <1>14, <2>3
    <3>4. QED BY <3>1, <3>2, <3>3
  <2>4. QED BY <2>1, <2>2, <2>3
<1>15. Placed(obs)
  BY <1>12, <1>13, <1>14 DEF Placed
<1>16. QED BY <1>1, <1>15, OperationCon

LEMMA MoveCon ==
  ASSUME Coherent, NEW o \in Ids, NEW p \in Ids, Move(o, p)
  PROVE  ConInv'
<1> DEFINE q == GetObject(o).parent
           read == Reading({o, p, q})
           obs == [read EXCEPT ![q].children = @ \ {o}, ![q].dirty = TRUE,
                               ![p].children = @ \union {o}, ![p].dirty = TRUE,
                               ![o].parent = p, ![o].dirty = TRUE]
<1>1. /\ Typing /\ Rows /\ Free /\ phase # "down" /\ nextid' = nextid
      /\ o # p /\ q # p /\ q # o /\ Readable(o) /\ Readable(p) /\ Readable(q)
      /\ GetObject(o).alive /\ Operation(obs, <<q, p, o>>)
  BY DEF Move, Alive, Free, Coherent
<1>2. q \in Ids /\ GetObject(o) \in Object
  BY <1>1, Got DEF Readable, Object
<1>3. Now(objects, o) # NoRow /\ Now(objects, o).parent = q
  BY <1>1, <1>2, GotNow, GistSays
<1> HIDE DEF q
<1>4. ASSUME NEW r \in Ids
      PROVE  /\ Loads(read[r]) => read[r] = GetObject(r) /\ GetObject(r) # Null
             /\ ~Loads(read[r]) => read[r] = objects[r]
  <2>1. {o, p, q} \in SUBSET Ids /\ \A x \in {o, p, q} : Readable(x)
    BY <1>1, <1>2
  <2>2. QED BY <1>1, <2>1, ReadingGets
<1>5. read \in [Ids -> Entry] /\ \A r \in {o, p, q} : read[r] \in Object /\ Loads(read[r])
  <2>1. {o, p, q} \in SUBSET Ids /\ \A x \in {o, p, q} : Readable(x)
    BY <1>1, <1>2
  <2>2. read \in [Ids -> Entry] /\ \A r \in {o, p, q} : read[r] \in Object
    BY <1>1, <2>1, ReadingIsGood
  <2>3. QED BY <2>2, NothingAssumption DEF Loads
<1> HIDE DEF read
<1>6. /\ obs[q] = [[read[q] EXCEPT !.children = @ \ {o}] EXCEPT !.dirty = TRUE]
      /\ obs[p] = [[read[p] EXCEPT !.children = @ \union {o}] EXCEPT !.dirty = TRUE]
      /\ obs[o] = [[read[o] EXCEPT !.parent = p] EXCEPT !.dirty = TRUE]
      /\ \A r \in Ids \ {o, p, q} : obs[r] = read[r]
  BY <1>1, <1>2, <1>5
<1> HIDE DEF obs
<1>7. /\ obs[q] \in Object /\ Gist(obs[q]) = Gist(read[q]) /\ obs[q].children = read[q].children \ {o}
      /\ obs[p] \in Object /\ Gist(obs[p]) = Gist(read[p]) /\ obs[p].children = read[p].children \union {o}
      /\ obs[o] \in Object /\ obs[o].alive = read[o].alive /\ obs[o].parent = p /\ obs[o].children = read[o].children
  <2> DEFINE lists(ob, c) == [[ob EXCEPT !.children = c] EXCEPT !.dirty = TRUE]
             moved(ob) == [[ob EXCEPT !.parent = p] EXCEPT !.dirty = TRUE]
             good(to, ob, c) == /\ to \in Object /\ to.alive = ob.alive /\ to.parent = ob.parent /\ to.val = ob.val
                                /\ to.children = c
  <2>1. \A ob \in Object, c \in SUBSET Ids : good(lists(ob, c), ob, c)
    BY DEF Object
  <2>2. \A ob \in Object : /\ moved(ob) \in Object /\ moved(ob).alive = ob.alive
                           /\ moved(ob).parent = p /\ moved(ob).children = ob.children
    BY DEF Object
  <2>3. (read[q].children \ {o}) \in SUBSET Ids /\ (read[p].children \union {o}) \in SUBSET Ids
    BY <1>5 DEF Object
  <2>4. /\ obs[q] = lists(read[q], read[q].children \ {o})
        /\ obs[p] = lists(read[p], read[p].children \union {o})
        /\ obs[o] = moved(read[o])
    BY <1>6
  <2>5. \A ob \in Object : \A to, c : good(to, ob, c) => Gist(to) = Gist(ob) /\ to \in Object /\ to.children = c
    BY NothingAssumption DEF Gist
  <2> HIDE DEF lists, moved, good
  <2>6. good(obs[q], read[q], read[q].children \ {o}) /\ good(obs[p], read[p], read[p].children \union {o})
    BY <1>5, <2>1, <2>3, <2>4
  <2>7. obs[q] \in Object /\ Gist(obs[q]) = Gist(read[q]) /\ obs[q].children = read[q].children \ {o}
    BY <1>5, <2>5, <2>6
  <2>8. obs[p] \in Object /\ Gist(obs[p]) = Gist(read[p]) /\ obs[p].children = read[p].children \union {o}
    BY <1>5, <2>5, <2>6
  <2>9. obs[o] \in Object /\ obs[o].alive = read[o].alive /\ obs[o].parent = p /\ obs[o].children = read[o].children
    BY <1>5, <2>2, <2>4
  <2>10. QED BY <2>7, <2>8, <2>9
<1>8. \A r \in Ids \ {o} : /\ Loads(obs[r]) => obs[r] \in Object /\ Gist(obs[r]) = Gist(GetObject(r)) /\ GetObject(r) # Null
                           /\ ~Loads(obs[r]) => obs[r] = objects[r]
  <2>1. \A r \in {p, q} : obs[r] \in Object /\ Loads(obs[r]) /\ Gist(obs[r]) = Gist(GetObject(r)) /\ GetObject(r) # Null
    BY <1>1, <1>2, <1>4, <1>5, <1>7, NothingAssumption DEF Loads
  <2>2. \A r \in Ids : Loads(read[r]) => read[r] \in Object
    BY <1>5 DEF Loads, Entry
  <2>3. QED BY <1>4, <1>6, <2>1, <2>2
<1>9. \A c \in Ids \ {o} : /\ Now(obs, c) = Now(objects, c)
                           /\ Loads(obs[c]) /\ obs[c].alive => Now(objects, c) # NoRow /\ Now(objects, c).parent = obs[c].parent
  BY <1>1, <1>8, NowSame
<1>10. Now(obs, o).parent = p
  <2>1. Loads(obs[o]) /\ read[o] = GetObject(o)
    BY <1>4, <1>5, <1>7, NothingAssumption DEF Loads
  <2>2. QED BY <1>1, <1>7, <2>1, GistSays DEF Now
<1>11. \A r \in Ids : Loads(obs[r]) =>
          /\ GetObject(r) # Null /\ obs[r].children \ {o} = GetObject(r).children \ {o}
          /\ o \in obs[r].children <=> r = p \/ (r # q /\ o \in GetObject(r).children)
  <2> SUFFICES ASSUME NEW r \in Ids, Loads(obs[r])
               PROVE  /\ GetObject(r) # Null /\ obs[r].children \ {o} = GetObject(r).children \ {o}
                      /\ o \in obs[r].children <=> r = p \/ (r # q /\ o \in GetObject(r).children)
    OBVIOUS
  <2>1. read[r] = GetObject(r) /\ GetObject(r) # Null
    BY <1>4, <1>5, <1>6
  <2>2. CASE r \in {o, p, q}
    BY <1>1, <1>7, <2>1, <2>2
  <2>3. CASE r \notin {o, p, q}
    BY <1>6, <2>1, <2>3
  <2>4. QED BY <2>2, <2>3
<1>12. \A r \in Ids : Loads(obs[r]) => \A c \in obs[r].children : c < nextid' /\ c # r
  <2> SUFFICES ASSUME NEW r \in Ids, Loads(obs[r]), NEW c \in obs[r].children PROVE c < nextid /\ c # r
    BY <1>1
  <2>1. CASE c \in GetObject(r).children
    BY <1>1, <1>11, <2>1, GotChildren
  <2>2. CASE c \notin GetObject(r).children
    <3>1. c = o /\ r = p
      BY <1>11, <2>2
    <3>2. QED BY <1>1, <3>1, GotBelow DEF Readable
  <2>3. QED BY <2>1, <2>2
<1>13. \A c \in Steady : Loads(obs[c]) /\ obs[c].alive =>
          obs[c].parent \in torn \/ HasRow(obs[c].parent, turn) \/ Loads(obs[obs[c].parent])
  <2> SUFFICES ASSUME NEW c \in Steady, Loads(obs[c]), obs[c].alive
               PROVE  obs[c].parent \in torn \/ HasRow(obs[c].parent, turn) \/ Loads(obs[obs[c].parent])
    OBVIOUS
  <2>1. CASE c = o
    BY <1>7, <2>1, NothingAssumption DEF Loads
  <2>2. CASE c # o
    BY <1>1, <1>9, <2>2, GotParents DEF Steady
  <2>3. QED BY <2>1, <2>2
<1>14. ASSUME NEW r \in Ids \ torn, NEW c \in Steady, Loads(obs[r]), c # r, Now(obs, c) # NoRow
       PROVE  c \in obs[r].children <=> Now(obs, c).parent = r
  <2>1. CASE c = o
    <3>1. o \in GetObject(r).children <=> q = r
      BY <1>1, <1>3, <1>11, <1>14, <2>1, GotLists
    <3>2. QED BY <1>10, <1>11, <1>14, <2>1, <3>1
  <2>2. CASE c # o
    <3>1. Now(objects, c) # NoRow /\ Now(obs, c) = Now(objects, c)
      BY <1>9, <1>14, <2>2 DEF Steady
    <3>2. c \in GetObject(r).children <=> Now(objects, c).parent = r
      BY <1>1, <1>11, <1>14, <3>1, GotLists
    <3>3. QED BY <1>11, <1>14, <2>2, <3>1, <3>2
  <2>3. QED BY <2>1, <2>2
<1>15. Placed(obs)
  BY <1>12, <1>13, <1>14 DEF Placed
<1>16. QED BY <1>1, <1>15, OperationCon

LEMMA ClearRemovedCon ==
  ASSUME Coherent, ClearRemovedObjects
  PROVE  ConInv'
<1> DEFINE parents == {objects[o].parent : o \in scheduled}
           read == Reading(parents)
           obs == [o \in Ids |->
                      IF o \in scheduled THEN Absent
                      ELSE IF o \in parents THEN [read[o] EXCEPT !.children = @ \ scheduled, !.dirty = TRUE]
                      ELSE read[o]]
<1>1. Typing /\ RecInv /\ Free /\ nextid' = nextid /\ \A p \in parents : Readable(p)
  BY DEF ClearRemovedObjects, Coherent
<1>2. PICK saves \in [1 .. Cardinality(parents \ scheduled) -> parents \ scheduled] : Operation(obs, saves)
  BY DEF ClearRemovedObjects
<1>3. parents \in SUBSET Ids
  <2>1. \A o \in scheduled : objects[o] \in Object
    BY <1>1 DEF Typing, Entry, Loads
  <2>2. QED BY <2>1 DEF Object
<1> HIDE DEF parents
<1>4. ASSUME NEW o \in Ids
      PROVE  /\ Loads(read[o]) => read[o] = GetObject(o) /\ GetObject(o) # Null
             /\ ~Loads(read[o]) => read[o] = objects[o]
             /\ o \in parents => read[o] \in Object /\ Loads(read[o])
  BY <1>1, <1>3, ReadingGets, NothingAssumption DEF Loads
<1>5. read \in [Ids -> Entry]
  BY <1>1, <1>3, ReadingIsGood
<1> HIDE DEF read
<1>6. \A o \in Ids : /\ o \in scheduled => obs[o] = Absent
                     /\ o \notin scheduled /\ o \notin parents => obs[o] = read[o]
                     /\ o \notin scheduled /\ o \in parents =>
                          obs[o] = [[read[o] EXCEPT !.children = @ \ scheduled] EXCEPT !.dirty = TRUE]
  BY <1>4
<1> HIDE DEF obs
<1>7. \A o \in parents \ scheduled :
         obs[o] \in Object /\ Gist(obs[o]) = Gist(read[o]) /\ obs[o].children = read[o].children \ scheduled
  <2> SUFFICES ASSUME NEW o \in parents \ scheduled
               PROVE  obs[o] \in Object /\ Gist(obs[o]) = Gist(read[o]) /\ obs[o].children = read[o].children \ scheduled
    OBVIOUS
  <2>1. (read[o].children \ scheduled) \in SUBSET Ids
    BY <1>3, <1>4 DEF Object
  <2>2. PICK ob \in Object, c \in SUBSET Ids :
          ob = read[o] /\ c = read[o].children \ scheduled /\ obs[o] = [[ob EXCEPT !.children = c] EXCEPT !.dirty = TRUE]
    BY <1>3, <1>4, <1>6, <2>1
  <2>3. /\ obs[o] \in Object /\ obs[o].children = c /\ obs[o].alive = ob.alive
        /\ obs[o].parent = ob.parent /\ obs[o].val = ob.val
    BY <2>2 DEF Object
  <2>4. QED BY <2>2, <2>3, GistSame
<1>8. \A o \in Ids \ scheduled :
         /\ Loads(obs[o]) => /\ obs[o] \in Object /\ Gist(obs[o]) = Gist(GetObject(o)) /\ GetObject(o) # Null
                             /\ obs[o].children \ scheduled = GetObject(o).children \ scheduled
                             /\ obs[o].children \subseteq GetObject(o).children
         /\ ~Loads(obs[o]) => obs[o] = objects[o]
  <2> SUFFICES ASSUME NEW o \in Ids \ scheduled
               PROVE  /\ Loads(obs[o]) => /\ obs[o] \in Object /\ Gist(obs[o]) = Gist(GetObject(o)) /\ GetObject(o) # Null
                                          /\ obs[o].children \ scheduled = GetObject(o).children \ scheduled
                                          /\ obs[o].children \subseteq GetObject(o).children
                      /\ ~Loads(obs[o]) => obs[o] = objects[o]
    OBVIOUS
  <2>1. CASE o \in parents
    <3>1. Loads(obs[o])
      BY <1>7, <2>1, NothingAssumption DEF Loads
    <3>2. QED BY <1>4, <1>7, <2>1, <3>1
  <2>2. CASE o \notin parents
    <3>1. obs[o] = read[o] /\ (Loads(read[o]) => read[o] \in Object)
      BY <1>5, <1>6, <2>2 DEF Loads, Entry
    <3>2. QED BY <1>4, <3>1
  <2>3. QED BY <2>1, <2>2
<1>9. \A c \in Ids \ scheduled :
         /\ Now(obs, c) = Now(objects, c)
         /\ Loads(obs[c]) /\ obs[c].alive => Now(objects, c) # NoRow /\ Now(objects, c).parent = obs[c].parent
  BY <1>1, <1>8, NowSame
<1>10. ASSUME NEW c \in Steady, c \in scheduled PROVE Now(obs, c) = NoRow
  <2>1. c \in Ids /\ Loads(objects[c]) /\ ~objects[c].alive
    BY <1>1, <1>10 DEF Typing, RecInv, ScheduledAreDead
  <2>2. GetObject(c) = objects[c] /\ objects[c] \in Object
    BY <1>1, <2>1, GotNow
  <2>3. Stored(rows, params, c, turn) = Gist(objects[c])
    BY <1>1, <2>1, <2>2, GetSays, NothingAssumption
  <2>4. Gist(objects[c]) = NoRow
    BY <2>1, <2>2, GistSays
  <2>5. ~Loads(obs[c])
    BY <1>6, <1>10, <2>1 DEF Loads
  <2>6. QED BY <2>3, <2>4, <2>5 DEF Now
<1>11. \A p \in Ids : Loads(obs[p]) => p \notin scheduled
  BY <1>6 DEF Loads
<1>12. \A p \in Ids : Loads(obs[p]) => \A c \in obs[p].children : c < nextid' /\ c # p
  <2> SUFFICES ASSUME NEW p \in Ids, Loads(obs[p]), NEW c \in obs[p].children PROVE c < nextid /\ c # p
    BY <1>1
  <2>1. c \in GetObject(p).children /\ GetObject(p) # Null
    BY <1>8, <1>11
  <2>2. QED BY <1>1, <2>1, GotChildren
<1>13. ASSUME NEW c \in Steady, Loads(obs[c]), obs[c].alive
       PROVE  obs[c].parent \in torn \/ HasRow(obs[c].parent, turn)
  <2>1. c \in Ids \ scheduled
    BY <1>11, <1>13 DEF Steady
  <2>2. QED BY <1>1, <1>9, <1>13, <2>1, GotParents
<1>14. ASSUME NEW p \in Ids \ torn, NEW c \in Steady, Loads(obs[p]), c # p, Now(obs, c) # NoRow
       PROVE  c \in obs[p].children <=> Now(obs, c).parent = p
  <2>1. c \in Ids \ scheduled /\ p \notin scheduled
    BY <1>10, <1>11, <1>14 DEF Steady
  <2>2. Now(objects, c) # NoRow /\ Now(obs, c) = Now(objects, c)
    BY <1>9, <1>14, <2>1
  <2>3. c \in GetObject(p).children <=> Now(objects, c).parent = p
    BY <1>1, <1>8, <1>14, <2>1, <2>2, GotLists
  <2>4. QED BY <1>8, <1>14, <2>1, <2>2, <2>3
<1>15. Placed(obs)
  BY <1>12, <1>13, <1>14 DEF Placed
<1>16. QED BY <1>1, <1>2, <1>15, OperationCon

-----------------------------------------------------------------------------
(* Statements, turns and restarts *)

\* HasRow and Queued, of tables and a queue that are given.
RowIn(rs, o, t) == \E u \in Turns : u <= t /\ rs[o][u] # NoRow
Waits(left, o) == \E k \in 1 .. Len(left) : left[k] = o

\* Also while a save is under way and when it ends.
LEMMA StatementCon ==
  ASSUME Coherent, Typing', Rows', NEW o \in Ids, phase \in {"create", "idle", "turn"}, todo # <<>>,
         o = Head(todo), OnlyThis(o), UNCHANGED <<info, turn, nextid, back>>, torn \subseteq torn',
         \A q \in Ids \ {o} : objects'[q] = objects[q],
         objects'[o] \in Object, objects[o] \in Object, Gist(objects'[o]) = Gist(objects[o]),
         objects'[o].alive = objects[o].alive, objects'[o].parent = objects[o].parent,
         objects'[o].children = objects[o].children,
         UNCHANGED <<kept, todo, phase>> \/ Advance
  PROVE  ConInv'
<1>1. /\ Typing /\ HeldParents /\ KeptParents /\ ChildrenBelow /\ ListsAgree
      /\ turn \in Turns /\ todo \in Seq(Ids) /\ phase # "down"
  BY DEF Coherent, ConInv, Typing
<1>2. /\ phase' \in {"create", "idle", "turn"} /\ (phase = "turn" <=> phase' = "turn")
      /\ kept' = kept \/ (kept' = Commit /\ phase' = "idle")
  BY DEF Advance
<1>3. \A q \in Ids : /\ Loads(objects'[q]) <=> Loads(objects[q])
                     /\ objects'[q].alive = objects[q].alive /\ objects'[q].parent = objects[q].parent
                     /\ objects'[q].children = objects[q].children
                     /\ Gist(objects'[q]) = Gist(objects[q])
  BY NothingAssumption DEF Loads
<1>4. \A q \in Steady' : q \in Steady /\ q \in Ids
  BY DEF Steady
<1>5. \A q \in Ids : Loads(objects[q]) => q \in torn' \/ RowIn(rows', q, turn) \/ Waits(todo', q)
  BY <1>2, <1>3 DEF Rows, HeldHasRow, HasRow, Queued, RowIn, Waits
<1>6. Loads(objects[o]) /\ \A q \in Ids : Waits(todo, q) => Loads(objects[q])
  BY <1>1, NothingAssumption DEF Typing, Waits, Loads
<1>7. \A q \in Ids \ {o} : \A t : RowIn(rows, q, t) => RowIn(rows', q, t)
  BY DEF RowIn, OnlyThis
<1>8. \A q \in Ids : Now(objects, q)' = Now(objects, q)
  <2> TAKE q \in Ids
  <2>1. CASE Loads(objects[q])
    BY <1>3, <2>1 DEF Now
  <2>2. CASE ~Loads(objects[q])
    <3>1. Stored(rows', params', q, turn) = Stored(rows, params, q, turn)
      BY <1>1, <1>6, <2>2, OthersSame
    <3>2. QED BY <1>3, <2>2, <3>1 DEF Now
  <2>3. QED BY <2>1, <2>2
<1>9. \A c \in Steady' : Loads(objects'[c]) /\ objects'[c].alive =>
         \/ objects'[c].parent \in torn' \/ RowIn(rows', objects'[c].parent, turn)
         \/ Loads(objects'[objects'[c].parent])
  <2> SUFFICES ASSUME NEW c \in Steady', Loads(objects'[c]), objects'[c].alive, NEW p, p = objects[c].parent
               PROVE  p \in torn' \/ RowIn(rows', p, turn) \/ Loads(objects'[p])
    BY <1>3, <1>4
  <2>1. p \in torn \/ RowIn(rows, p, turn) \/ Loads(objects[p])
    BY <1>1, <1>3, <1>4 DEF HeldParents, Known, HasRow, RowIn
  <2>2. p \in Ids
    BY <1>1, <1>3, <1>4 DEF Typing, Entry, Loads, Object
  <2>3. CASE p = o
    BY <1>3, <1>6, <2>3
  <2>4. CASE p # o
    BY <1>3, <1>7, <2>1, <2>2, <2>4
  <2>5. QED BY <2>3, <2>4
<1>10. HeldParents'
  BY <1>9 DEF HeldParents, Known, HasRow, RowIn
<1>11. phase # "turn" => EndedTurn = turn /\ EndedTurn' = turn
  BY <1>1, <1>2 DEF EndedTurn
<1>12. ASSUME NEW p \in Ids, p \in torn \/ RowIn(rows, p, EndedTurn) \/ (phase # "turn" /\ Waits(todo, p))
       PROVE  p \in torn' \/ RowIn(rows', p, EndedTurn') \/ (phase' # "turn" /\ Waits(todo', p))
  <2>1. CASE Loads(objects[p]) /\ phase # "turn"
    BY <1>2, <1>5, <1>11, <2>1
  <2>2. CASE ~Loads(objects[p]) /\ phase # "turn"
    BY <1>6, <1>7, <1>11, <1>12, <2>2
  <2>3. CASE phase = "turn"
    <3>1. EndedTurn = turn - 1 /\ EndedTurn' = turn - 1
      BY <1>2, <2>3 DEF EndedTurn
    <3>2. RowIn(rows, p, turn - 1) => RowIn(rows', p, turn - 1)
      <4> SUFFICES ASSUME NEW u \in Turns, u <= turn - 1, rows[p][u] # NoRow PROVE u # turn
        BY DEF RowIn, OnlyThis
      <4>1. turn \in Int /\ u \in Int
        BY <1>1 DEF Turns
      <4>2. QED BY <4>1
    <3>3. QED BY <1>12, <2>3, <3>1, <3>2
  <2>4. QED BY <2>1, <2>2, <2>3
<1>13. ASSUME NEW c \in Steady', kept'[c] # NoRow, NEW p, p = kept'[c].parent
       PROVE  /\ p \in Ids
              /\ p \in torn' \/ RowIn(rows', p, EndedTurn') \/ (phase' # "turn" /\ Waits(todo', p))
  <2>1. ASSUME kept'[c] = kept[c]
        PROVE  /\ p \in Ids
               /\ p \in torn' \/ RowIn(rows', p, EndedTurn') \/ (phase' # "turn" /\ Waits(todo', p))
    <3>1. p \in Ids /\ (p \in torn \/ RowIn(rows, p, EndedTurn) \/ (phase # "turn" /\ Waits(todo, p)))
      BY <1>1, <1>4, <1>13, <2>1 DEF KeptParents, HasRow, RowIn, Queued, Waits
    <3>2. QED BY <1>12, <3>1
  <2>2. CASE kept' = kept
    BY <2>1, <2>2
  <2>3. CASE kept' = Commit /\ phase' = "idle"
    <3>1. kept'[c] = IF Loads(objects[c]) THEN Gist(objects'[c]) ELSE IF objects[c] = Absent THEN NoRow ELSE kept[c]
      BY <1>4, <2>3 DEF Commit, Loaded, Loads
    <3>2. CASE Loads(objects[c])
      <4>1. objects'[c] \in Object /\ Gist(objects'[c]) # NoRow /\ kept'[c] = Gist(objects'[c])
        BY <1>3, <1>4, <1>13, <3>1, <3>2 DEF Typing, Entry, Loads
      <4>2. objects'[c].alive /\ p = objects'[c].parent /\ p \in Ids
        BY <1>13, <4>1, GistSays
      <4>3. p \in torn' \/ RowIn(rows', p, turn) \/ Loads(objects'[p])
        BY <1>3, <1>4, <1>9, <3>2, <4>2
      <4>4. p \in torn' \/ RowIn(rows', p, turn) \/ Waits(todo', p)
        BY <1>3, <1>5, <4>2, <4>3
      <4>5. QED BY <1>2, <1>11, <2>3, <4>2, <4>4
    <3>3. QED BY <1>13, <2>1, <3>1, <3>2
  <2>4. QED BY <1>2, <2>2, <2>3
<1>14. KeptParents'
  BY <1>2, <1>13 DEF KeptParents, HasRow, RowIn, Queued, Waits
<1>15. ChildrenBelow'
  BY <1>1, <1>3 DEF ChildrenBelow
<1>16. ListsAgree'
  <2> SUFFICES ASSUME NEW p \in Ids \ torn', NEW c \in Steady', Loads(objects'[p]), c # p, Now(objects, c)' # NoRow
               PROVE  c \in objects'[p].children <=> Now(objects, c)'.parent = p
    BY DEF ListsAgree
  <2>1. Now(objects, c)' = Now(objects, c)
    BY <1>4, <1>8
  <2>2. QED BY <1>1, <1>3, <1>4, <2>1 DEF ListsAgree
<1>17. QED BY <1>10, <1>14, <1>15, <1>16 DEF ConInv

LEMMA WriteCon ==
  ASSUME Coherent, Typing', Rows', Write
  PROVE  ConInv'
<1>1. Typing
  BY DEF Coherent
<1>2. /\ phase \in {"create", "idle", "turn"} /\ todo # <<>>
      /\ UNCHANGED <<info, turn, nextid, torn, back>>
  BY DEF Write
<1>3. PICK o \in Ids : o = Head(todo) /\ o = todo[1] /\ Loads(objects[o]) /\ 1 \in 1 .. Len(todo)
  BY <1>1, <1>2 DEF Typing
<1>4. objects \in [Ids -> Entry] /\ objects[o] \in Object
  BY <1>1, <1>3 DEF Typing, Entry, Loads
<1>5. OnlyThis(o)
  BY <1>1, <1>3, <1>4, StatementSays DEF Write
<1>6. CASE stage < LastStage(o)
  <2>1. UNCHANGED <<objects, todo, phase, kept>>
    BY <1>3, <1>6 DEF Write
  <2>2. QED BY <1>2, <1>3, <1>4, <1>5, <2>1, StatementCon
<1>7. CASE ~(stage < LastStage(o))
  <2>1. objects' = [objects EXCEPT ![o].dirty = FALSE] /\ Advance
    BY <1>3, <1>7 DEF Write
  <2>2. objects'[o] = [objects[o] EXCEPT !.dirty = FALSE] /\ \A q \in Ids \ {o} : objects'[q] = objects[q]
    BY <1>4, <2>1
  <2>3. /\ objects'[o] \in Object /\ objects'[o].alive = objects[o].alive
        /\ objects'[o].parent = objects[o].parent /\ objects'[o].children = objects[o].children
        /\ objects'[o].val = objects[o].val
    BY <1>4, <2>2 DEF Object
  <2>4. Gist(objects'[o]) = Gist(objects[o])
    BY <1>4, <2>3, GistSame
  <2>5. QED BY <1>2, <1>3, <1>4, <1>5, <2>1, <2>2, <2>3, <2>4, StatementCon
<1>8. QED BY <1>6, <1>7

LEMMA WriteFailsCon ==
  ASSUME Coherent, Typing', Rows', WriteFails
  PROVE  ConInv'
<1>1. Typing
  BY DEF Coherent
<1>2. /\ phase \in {"idle", "turn"} /\ todo # <<>> /\ Advance
      /\ UNCHANGED <<info, turn, nextid, back, rows, params, objects>>
      /\ torn \subseteq torn'
  BY DEF WriteFails, disk
<1>3. PICK o \in Ids : o = Head(todo) /\ o = todo[1] /\ Loads(objects[o]) /\ 1 \in 1 .. Len(todo)
  BY <1>1, <1>2 DEF Typing
<1>4. objects[o] \in Object /\ OnlyThis(o)
  BY <1>1, <1>2, <1>3 DEF Typing, Entry, Loads, OnlyThis
<1>5. QED BY <1>2, <1>3, <1>4, StatementCon

LEMMA LoadCon ==
  ASSUME Coherent, Load
  PROVE  ConInv'
<1>1. /\ phase = "down" /\ info # NoRow /\ phase' = "idle" /\ turn' = info
      /\ objects' = [o \in Ids |-> IF o \in EveryId THEN Null ELSE Absent]
      /\ UNCHANGED <<info, rows, params, todo, kept, torn, back>>
  BY DEF Load, disk
<1>2. \A o \in Ids : ~Loads(objects'[o])
  BY <1>1 DEF Loads
<1>3. EndedTurn' = EndedTurn /\ Steady' = Steady
  BY <1>1 DEF EndedTurn, Steady
<1>4. HeldParents' /\ ChildrenBelow' /\ ListsAgree'
  BY <1>2 DEF HeldParents, ChildrenBelow, ListsAgree, Steady
<1>5. KeptParents'
  BY <1>1, <1>3 DEF Coherent, ConInv, KeptParents, HasRow
<1>6. QED BY <1>4, <1>5 DEF ConInv

LEMMA CreateGameCon ==
  ASSUME Coherent, CreateGame, EveryId = {}
  PROVE  ConInv'
<1> DEFINE made(o) == [alive |-> TRUE, parent |-> 0, children |-> {1} \ {o}, val |-> First, dirty |-> TRUE]
<1>1. /\ phase = "down" /\ phase' = "create" /\ turn' = 0 /\ nextid' = 2
      /\ objects' = [o \in Ids |-> IF o > 1 THEN Absent ELSE made(o)]
      /\ UNCHANGED <<rows, params, kept, torn, back>>
  BY DEF CreateGame
<1>2. /\ 0 \in Ids /\ 1 \in Ids /\ \A o \in Ids : ~(o > 1) <=> o \in {0, 1}
      /\ \A o \in Ids : made(o) \in Object /\ made(o).alive /\ made(o).parent = 0 /\ made(o).children = {1} \ {o}
  <2>1. 0 \in Ids /\ 1 \in Ids /\ \A o \in Ids : ~(o > 1) <=> o \in {0, 1}
    BY StoreAssumption DEF Ids
  <2>2. First \in Vals
    BY StoreAssumption DEF First
  <2>3. QED BY <2>1, <2>2 DEF Object
<1> HIDE DEF made
<1>3. \A o \in Ids : /\ o \in {0, 1} => /\ objects'[o] \in Object /\ objects'[o].alive /\ objects'[o].parent = 0
                                        /\ objects'[o].children = {1} \ {o}
                                        /\ Loads(objects'[o])
                     /\ o \notin {0, 1} => ~Loads(objects'[o])
  BY <1>1, <1>2, NothingAssumption DEF Loads
<1>4. HeldParents'
  BY <1>2, <1>3 DEF HeldParents, Known, Steady
<1>5. ChildrenBelow'
  BY <1>1, <1>3 DEF ChildrenBelow
<1>6. KeptParents'
  <2> SUFFICES ASSUME NEW c \in Steady, kept[c] # NoRow
               PROVE  kept[c].parent \in Ids /\ kept[c].parent \in torn
    BY <1>1 DEF KeptParents, Steady
  <2>1. \A p \in Ids : ~HasRow(p, EndedTurn)
    BY DEF EveryId, HasRow
  <2>2. QED BY <1>1, <2>1 DEF Coherent, ConInv, KeptParents
<1>7. \A c \in Ids : c \notin {0, 1} => Stored(rows', params', c, turn') = NoRow
  BY <1>1, NoRowsNothing DEF EveryId
<1>8. ListsAgree'
  <2> SUFFICES ASSUME NEW p \in Ids, NEW c \in Ids, Loads(objects'[p]), c # p, Now(objects, c)' # NoRow
               PROVE  c \in objects'[p].children <=> Now(objects, c)'.parent = p
    BY DEF ListsAgree, Steady
  <2>1. p \in {0, 1} /\ c \in {0, 1}
    BY <1>3, <1>7 DEF Now
  <2>2. Now(objects, c)'.parent = 0
    BY <1>3, <2>1, GistSays DEF Now
  <2>3. QED BY <1>3, <2>1, <2>2
<1>9. QED BY <1>4, <1>5, <1>6, <1>8 DEF ConInv

LEMMA StartTurnCon ==
  ASSUME Coherent, StartTurn
  PROVE  ConInv'
<1>1. /\ Typing /\ TurnOfInfo /\ RecInv /\ IdsBelow /\ KeptParents /\ ChildrenBelow /\ ListsAgree /\ Free
      /\ phase = "idle" /\ \A o : ~Queued(o)
  BY DEF Coherent, ConInv, Rows, StartTurn, Free, Queued
<1>2. /\ phase' = "turn" /\ turn' = turn + 1 /\ turn \in Turns /\ turn + 1 \in Turns
      /\ objects' = [o \in Ids |-> IF objects[o] = Null THEN RetrieveObject(o, turn + 1) ELSE objects[o]]
      /\ back' = back \union Leftover(turn + 1)
      /\ UNCHANGED <<rows, params, nextid, kept, torn>>
  <2>1. /\ phase' = "turn" /\ turn' = turn + 1 /\ turn < MaxTurn
        /\ objects' = [o \in Ids |-> IF objects[o] = Null THEN RetrieveObject(o, turn + 1) ELSE objects[o]]
        /\ back' = back \union Leftover(turn + 1)
        /\ UNCHANGED <<rows, params, nextid, kept, torn>>
    BY DEF StartTurn, disk
  <2>2. turn \in Turns /\ turn + 1 \in Turns
    BY <1>1, <2>1, StoreAssumption DEF Typing, Turns
  <2>3. QED BY <2>1, <2>2
<1>3. ASSUME NEW c \in Steady'
      PROVE  /\ c \in Steady /\ c \in Ids
             /\ Stored(rows, params, c, turn + 1) = Stored(rows, params, c, turn)
             /\ Newest(rows, c, turn + 1) = Newest(rows, c, turn)
  <2>1. c \in Ids /\ c \in Steady /\ rows[c][turn + 1] = NoRow /\ params[c][turn + 1] = NoRow
    BY <1>2 DEF Steady, Leftover
  <2>2. QED BY <1>2, <2>1, NextTurnSame, NewestNext
<1>4. \A o \in Ids : /\ objects[o] # Null => objects'[o] = objects[o]
                     /\ objects[o] = Null => objects'[o] = RetrieveObject(o, turn + 1)
                     /\ objects[o] = Null /\ Loads(objects'[o]) =>
                          objects'[o] \in Object /\ objects'[o].children = Children(o, turn + 1)
  BY <1>1, <1>2, RetrieveSays DEF Loads
<1>5. \A c \in Steady' : Now(objects, c)' = Now(objects, c)
  <2> TAKE c \in Steady'
  <2>1. CASE Loads(objects[c])
    BY <1>3, <1>4, <2>1 DEF Now, Loads
  <2>2. CASE objects[c] = Null
    <3>1. ~Loads(objects[c])
      BY <2>2 DEF Loads
    <3>2. Gist(objects'[c]) = Stored(rows, params, c, turn + 1)
      BY <1>1, <1>2, <1>3, <1>4, <2>2, RetrieveSays
    <3>3. QED BY <1>2, <1>3, <3>1, <3>2 DEF Now
  <2>3. CASE objects[c] = Absent
    BY <1>2, <1>3, <1>4, <2>3, NothingAssumption DEF Now, Loads
  <2>4. QED BY <2>1, <2>2, <2>3 DEF Loads
<1>6. HeldParents'
  <2> SUFFICES ASSUME NEW c \in Steady', Loads(objects'[c]), objects'[c].alive, NEW p, p = objects'[c].parent
               PROVE  p \in torn \/ RowIn(rows, p, turn + 1)
    BY <1>2 DEF HeldParents, Known, HasRow, RowIn
  <2>1. objects'[c] \in Object
    BY <1>1, <1>3, <1>4 DEF Typing, Entry, Loads
  <2>2. Now(objects, c)' # NoRow /\ Now(objects, c)'.parent = p
    BY <2>1, GistSays DEF Now
  <2>3. p \in torn \/ HasRow(p, turn)
    BY <1>1, <1>3, <1>5, <2>2, GotParents
  <2>4. HasRow(p, turn) => HasRow(p, turn + 1)
    BY <1>2, RowLater, StoreAssumption DEF Turns
  <2>5. QED BY <2>3, <2>4 DEF HasRow, RowIn
<1>7. KeptParents'
  <2>1. EndedTurn = turn /\ EndedTurn' = turn
    BY <1>1, <1>2, StoreAssumption DEF EndedTurn, Turns
  <2> SUFFICES ASSUME NEW c \in Steady', kept[c] # NoRow
               PROVE  kept[c].parent \in Ids /\ (kept[c].parent \in torn \/ RowIn(rows, kept[c].parent, turn))
    BY <1>2, <2>1 DEF KeptParents, HasRow, RowIn
  <2>2. QED BY <1>1, <1>3, <2>1 DEF KeptParents, HasRow, RowIn
<1>8. ChildrenBelow'
  <2> SUFFICES ASSUME NEW p \in Ids, Loads(objects'[p]), NEW c \in objects'[p].children
               PROVE  c < nextid /\ c # p
    BY <1>2 DEF ChildrenBelow
  <2>1. CASE objects[p] # Null
    BY <1>1, <1>4, <2>1 DEF ChildrenBelow
  <2>2. CASE objects[p] = Null
    <3>1. c \in Ids \ {p} /\ Newest(rows, c, turn + 1) # NoRow
      BY <1>4, <2>2 DEF Children
    <3>2. \E u \in Turns : rows[c][u] # NoRow
      BY <3>1, NewestNone
    <3>3. QED BY <1>1, <3>1, <3>2 DEF IdsBelow
  <2>3. QED BY <2>1, <2>2
<1>9. ListsAgree'
  <2> SUFFICES ASSUME NEW p \in Ids \ torn, NEW c \in Steady', Loads(objects'[p]), c # p, Now(objects, c)' # NoRow
               PROVE  c \in objects'[p].children <=> Now(objects, c)'.parent = p
    BY <1>2 DEF ListsAgree
  <2>1. Now(objects, c)' = Now(objects, c) /\ c \in Steady
    BY <1>3, <1>5
  <2>2. CASE objects[p] # Null
    BY <1>1, <1>4, <2>1, <2>2 DEF ListsAgree
  <2>3. CASE objects[p] = Null
    <3>1. c \in Children(p, turn) <=> Now(objects, c).parent = p
      BY <1>1, <2>1, ListedInTables
    <3>2. c \in Children(p, turn + 1) <=> c \in Children(p, turn)
      BY <1>3 DEF Children
    <3>3. QED BY <1>4, <2>1, <2>3, <3>1, <3>2
  <2>4. QED BY <2>2, <2>3
<1>10. QED BY <1>6, <1>7, <1>8, <1>9 DEF ConInv

LEMMA EndTurnCon ==
  ASSUME Coherent, EndTurn
  PROVE  ConInv'
<1>1. /\ phase = "turn" /\ phase' = "save"
      /\ UNCHANGED <<rows, params, turn, objects, nextid, todo, kept, torn, back>>
  BY DEF EndTurn, memory, history
<1>2. Steady' = Steady /\ EndedTurn' = EndedTurn /\ \A c \in Ids : Now(objects, c)' = Now(objects, c)
  BY <1>1 DEF Steady, EndedTurn, Now
<1>3. HeldParents' /\ ChildrenBelow'
  BY <1>1, <1>2 DEF Coherent, ConInv, HeldParents, Known, HasRow, ChildrenBelow
<1>4. KeptParents'
  BY <1>1, <1>2 DEF Coherent, ConInv, KeptParents, HasRow
<1>5. ListsAgree'
  BY <1>1, <1>2 DEF Coherent, ConInv, ListsAgree, Steady
<1>6. QED BY <1>3, <1>4, <1>5 DEF ConInv

LEMMA InsertGameInfoCon ==
  ASSUME Coherent, InsertGameInfo
  PROVE  ConInv'
<1>1. /\ phase = "save" /\ phase' = "idle" /\ kept' = Commit
      /\ UNCHANGED <<rows, params, turn, objects, nextid, todo, torn, back>>
  BY DEF InsertGameInfo
<1>2. /\ Typing /\ HeldParents /\ KeptParents /\ HeldHasRow /\ turn \in Turns /\ turn \in Int
      /\ \A q : ~Queued(q)
  BY <1>1, StoreAssumption DEF Coherent, ConInv, Rows, Typing, TurnOfInfo, Queued, Turns
<1>3. Steady' = Steady /\ EndedTurn = turn - 1 /\ EndedTurn' = turn /\ \A c \in Ids : Now(objects, c)' = Now(objects, c)
  BY <1>1 DEF Steady, EndedTurn, Now
<1>4. HeldParents' /\ ChildrenBelow'
  BY <1>1, <1>3 DEF Coherent, ConInv, HeldParents, Known, HasRow, ChildrenBelow
<1>5. KeptParents'
  <2> SUFFICES ASSUME NEW c \in Steady, kept'[c] # NoRow, NEW p, p = kept'[c].parent
               PROVE  p \in Ids /\ (p \in torn \/ HasRow(p, turn))
    BY <1>1, <1>3 DEF KeptParents, HasRow
  <2>1. kept'[c] = IF Loads(objects[c]) THEN Gist(objects[c]) ELSE IF objects[c] = Absent THEN NoRow ELSE kept[c]
    BY <1>1 DEF Commit, Loaded, Loads, Steady
  <2>2. CASE Loads(objects[c])
    <3>1. objects[c] \in Object
      BY <1>2, <2>2 DEF Typing, Entry, Loads, Steady
    <3>2. objects[c].alive /\ p = objects[c].parent /\ p \in Ids
      BY <2>1, <2>2, <3>1, GistSays
    <3>3. QED BY <1>1, <1>2, <2>2, <3>2 DEF HeldParents, Known, HeldHasRow
  <2>3. CASE ~Loads(objects[c])
    <3>1. kept'[c] = kept[c]
      BY <2>1, <2>3
    <3>2. p \in Ids /\ (p \in torn \/ HasRow(p, turn - 1))
      BY <1>1, <1>2, <1>3, <3>1 DEF KeptParents
    <3>3. QED BY <1>2, <3>2, RowLater
  <2>4. QED BY <2>2, <2>3
<1>6. ListsAgree'
  BY <1>1, <1>3 DEF Coherent, ConInv, ListsAgree, Steady
<1>7. QED BY <1>4, <1>5, <1>6 DEF ConInv

LEMMA CrashCon ==
  ASSUME Coherent, Crash, phase # "create"
  PROVE  ConInv'
<1>1. /\ Typing /\ KeptParents /\ phase' = "down" /\ objects' = [o \in Ids |-> Absent]
      /\ torn' = (IF phase = "turn" THEN torn ELSE torn \union Range(todo))
      /\ UNCHANGED <<rows, kept, back>>
  BY DEF Coherent, ConInv, Crash, disk
<1>2. \A o \in Ids : ~Loads(objects'[o])
  BY <1>1 DEF Loads
<1>3. HeldParents' /\ ChildrenBelow' /\ ListsAgree'
  BY <1>1, <1>2 DEF HeldParents, ChildrenBelow, ListsAgree
<1>4. KeptParents'
  <2> SUFFICES ASSUME NEW c \in Steady, kept[c] # NoRow, NEW p, p = kept[c].parent
               PROVE  p \in Ids /\ (p \in torn' \/ RowIn(rows, p, EndedTurn'))
    BY <1>1 DEF KeptParents, HasRow, RowIn, Steady
  <2>1. p \in Ids /\ (p \in torn \/ HasRow(p, EndedTurn) \/ (phase = "idle" /\ Queued(p)))
    BY <1>1 DEF KeptParents
  <2>2. CASE HasRow(p, EndedTurn)
    <3>1. PICK t \in Int : t = EndedTurn' /\ EndedTurn \in Int /\ EndedTurn <= t
      BY CrashGoesBack DEF Coherent
    <3>2. HasRow(p, t)
      BY <2>2, <3>1, RowLater
    <3>3. QED BY <2>1, <3>1, <3>2 DEF HasRow, RowIn
  <2>3. CASE phase = "idle" /\ Queued(p)
    <3>1. p \in Range(todo)
      BY <1>1, <2>3 DEF Typing, Range, Queued
    <3>2. QED BY <1>1, <2>1, <2>3, <3>1
  <2>4. QED BY <1>1, <2>1, <2>2, <2>3
<1>5. QED BY <1>3, <1>4 DEF ConInv

LEMMA InitCon == Init => ConInv
<1> SUFFICES ASSUME Init PROVE ConInv
  OBVIOUS
<1>1. phase = "down" /\ \A o \in Ids : kept[o] = NoRow /\ ~Loads(objects[o])
  BY DEF Init, Loads
<1>2. QED BY <1>1 DEF ConInv, HeldParents, KeptParents, ChildrenBelow, ListsAgree, Steady

LEMMA NextCon ==
  ASSUME IInv, anew \/ (RecInv /\ ConInv), [Next]_vars
  PROVE  IInv' /\ (anew' \/ (RecInv' /\ ConInv'))
<1>1. IInv' /\ (anew' \/ RecInv')
  BY NextRec
<1> SUFFICES ASSUME ~anew' PROVE ConInv'
  BY <1>1
<1>2. Coherent
  BY NotAnew DEF IInv, Coherent
<1>3. Typing' /\ Rows'
  BY <1>1 DEF IInv
<1>4. CASE Load
  BY <1>2, <1>4, LoadCon
<1>5. CASE CreateGame
  <2>1. EveryId = {}
    BY Zenon, <1>5 DEF CreateGame
  <2>2. QED BY <1>2, <1>5, <2>1, CreateGameCon
<1>6. CASE Write
  BY <1>2, <1>3, <1>6, WriteCon
<1>7. CASE WriteFails
  BY <1>2, <1>3, <1>7, WriteFailsCon
<1>8. ASSUME NEW o \in Ids, Ask(o) PROVE ConInv'
  BY <1>2, <1>8, AskCon
<1>9. ASSUME NEW o \in Ids, Revisit(o) PROVE ConInv'
  BY <1>2, <1>9, RevisitCon
<1>10. ASSUME NEW o \in Ids, ScheduleRemoveObject(o) PROVE ConInv'
  BY <1>2, <1>10, ScheduleRemoveCon
<1>11. ASSUME NEW o \in Ids, NEW v \in Vals, Build(o, v) PROVE ConInv'
  BY <1>2, <1>11, BuildCon
<1>12. ASSUME NEW o \in Ids, NEW v \in Vals, Change(o, v) PROVE ConInv'
  BY <1>2, <1>12, ChangeCon
<1>13. ASSUME NEW o \in Ids, NEW p \in Ids, Move(o, p) PROVE ConInv'
  BY <1>2, <1>13, MoveCon
<1>14. CASE ClearRemovedObjects
  BY <1>2, <1>14, ClearRemovedCon
<1>15. CASE StartTurn
  BY <1>2, <1>15, StartTurnCon
<1>16. CASE EndTurn
  BY <1>2, <1>16, EndTurnCon
<1>17. CASE InsertGameInfo
  BY <1>2, <1>17, InsertGameInfoCon
<1>18. CASE Crash
  <2>1. phase # "create"
    BY Zenon, <1>18 DEF Crash
  <2>2. QED BY <1>2, <1>18, <2>1, CrashCon
<1>19. CASE UNCHANGED vars
  <2>1. UNCHANGED <<info, rows, params, phase, turn, objects, nextid, todo, kept, torn, back>>
    BY <1>19 DEF vars, disk, memory, history
  <2>2. Steady' = Steady /\ EndedTurn' = EndedTurn /\ \A c : Now(objects, c)' = Now(objects, c)
    BY <2>1 DEF Steady, EndedTurn, Now
  <2>3. HeldParents' /\ KeptParents' /\ ChildrenBelow'
    BY <1>2, <2>1, <2>2 DEF Coherent, ConInv, HeldParents, Known, HasRow, KeptParents, Queued, ChildrenBelow
  <2>4. ListsAgree'
    BY <1>2, <2>1, <2>2 DEF Coherent, ConInv, ListsAgree
  <2>5. QED BY <2>3, <2>4 DEF ConInv
<1>20. QED
  BY <1>4, <1>5, <1>6, <1>7, <1>8, <1>9, <1>10, <1>11, <1>12, <1>13, <1>14, <1>15, <1>16, <1>17,
     <1>18, <1>19 DEF Next

\* What is held and not dirty is what a restart would read, and has in it what
\* a restart would find in it.
LEMMA HeldIsStored ==
  ASSUME Coherent, phase \in {"idle", "turn"}, todo = <<>>,
         NEW o \in Ids \ back, Loaded(o), ~objects[o].dirty
  PROVE  LET stored == RetrieveObject(o, turn)
             settled == {c \in Ids \ (torn \union back) : Loaded(c) /\ ~objects[c].dirty /\ objects[c].alive}
         IN  /\ Gist(stored) = Gist(objects[o])
             /\ objects[o].alive /\ o \notin torn =>
                  stored.children \intersect settled = objects[o].children \intersect settled
<1> DEFINE settled == {c \in Ids \ (torn \union back) : Loaded(c) /\ ~objects[c].dirty /\ objects[c].alive}
<1>1. /\ Typing /\ RecInv /\ ChildrenBelow /\ ListsAgree /\ Free /\ turn \in Turns
      /\ Loads(objects[o]) /\ ~Queued(o) /\ phase # "down"
  BY DEF Coherent, ConInv, Free, Typing, Loaded, Loads, Queued
<1>2. objects[o] \in Object
  BY <1>1 DEF Typing, Entry, Loads
<1>3. Matches(rows, params, o, objects[o], turn)
  BY <1>1 DEF RecInv, HeldAsStored, Clean
<1>4. Gist(RetrieveObject(o, turn)) = Gist(objects[o])
  BY <1>1, <1>2, <1>3, MatchesSays, RetrieveSays
<1>5. ASSUME objects[o].alive, o \notin torn
      PROVE  RetrieveObject(o, turn).children \intersect settled = objects[o].children \intersect settled
  <2>1. RetrieveObject(o, turn) # Null
    BY <1>2, <1>4, <1>5, GistSays DEF Gist
  <2>2. RetrieveObject(o, turn).children = Children(o, turn)
    BY <1>1, <2>1, RetrieveSays
  <2>3. ASSUME NEW c \in settled PROVE c \in Children(o, turn) <=> c \in objects[o].children
    <3>1. c \in Steady /\ Loads(objects[c]) /\ objects[c].alive /\ c \in Ids
      BY <2>3 DEF Steady, Loaded, Loads
    <3>2. objects[c] \in Object
      BY <1>1, <3>1 DEF Typing, Entry, Loads
    <3>3. Now(objects, c) # NoRow
      BY <3>1, <3>2, GistSays DEF Now
    <3>4. CASE c = o
      BY <1>1, <3>4 DEF ChildrenBelow, Children
    <3>5. CASE c # o
      <4>1. c \in Children(o, turn) <=> Now(objects, c).parent = o
        BY <1>1, <3>1, <3>3, <3>5, ListedInTables
      <4>2. c \in objects[o].children <=> Now(objects, c).parent = o
        BY <1>1, <1>5, <3>1, <3>3, <3>5 DEF ListsAgree
      <4>3. QED BY <4>1, <4>2
    <3>6. QED BY <3>4, <3>5
  <2> HIDE DEF settled
  <2>4. QED BY <2>2, <2>3
<1>6. QED BY <1>4, <1>5

\* The objects in memory are whole, as they are stored, and in the list of their
\* parent and in no other (ObjectManager and IGObject with the MySQL store).
THEOREM ObjectsAgree == Spec => []ObjectsConsistent
<1>1. IInv /\ (anew \/ (RecInv /\ ConInv)) => ObjectsConsistent
  <2> SUFFICES ASSUME IInv, anew \/ (RecInv /\ ConInv) PROVE ObjectsConsistent
    OBVIOUS
  <2>1. TypeOK
    BY TypesAreGood DEF IInv
  <2>2. ~anew => Coherent
    BY DEF IInv, Coherent
  <2>3. StoredAsHeld
    BY <2>2, HeldIsStored DEF StoredAsHeld
  <2>4. ContainersAgree
    <3> SUFFICES ASSUME Coherent, NEW c \in Steady, NEW p \in Steady, c # p,
                        Loads(objects[c]), Loads(objects[p]), objects[c].alive
                 PROVE  c \in objects[p].children <=> objects[c].parent = p
      BY <2>2 DEF ContainersAgree, Steady, Loaded, Loads
    <3>1. objects[c] \in Object /\ p \in Ids \ torn /\ ListsAgree
      BY DEF Coherent, ConInv, Typing, Entry, Loads, Steady
    <3>2. Now(objects, c) # NoRow /\ Now(objects, c).parent = objects[c].parent
      BY <3>1, GistSays DEF Now
    <3>3. QED BY <3>1, <3>2 DEF ListsAgree
  <2>5. QED BY <2>1, <2>3, <2>4 DEF ObjectsConsistent
<1>2. Init => IInv /\ (anew \/ (RecInv /\ ConInv))
  BY InitIsGood, InitRec, InitCon
<1>3. QED BY <1>1, <1>2, NextCon, PTL DEF Spec
=============================================================================
