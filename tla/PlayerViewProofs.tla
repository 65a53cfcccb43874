-------------------------- MODULE PlayerViewProofs --------------------------
(***************************************************************************)
(* What a player sees, for any number of objects, sessions, turns and      *)
(* crashes: a list is read page by page without a gap (PagesComplete), the *)
(* views show who lives and can be read (ViewsConsistent), and a client    *)
(* that asks again learns of all that changed (NothingMissed).             *)
(*                                                                         *)
(* A view is followed in three places at once: in memory, in the table as  *)
(* the turn under way leaves it, and in the table as a restart would find  *)
(* it (Base).  Views says of every object how they agree; Statements says  *)
(* what is still to be written, for a view that is deleted and not yet     *)
(* inserted is in memory only.                                             *)
(***************************************************************************)
EXTENDS PlayerView, FiniteSetTheorems, WellFoundedInduction, TLAPS

-----------------------------------------------------------------------------
(* The inductive invariant *)

Row == View \union {None}
Statement == [id : Ids, turn : Turns, row : Row]
Progress == [seq : Nat, all : SUBSET Ids, got : SUBSET Ids, left : 0 .. MaxId + 1, disturbed : BOOLEAN]

Typing ==
  /\ now \in Time /\ info \in Turns /\ turn \in Turns /\ phase \in {"idle", "turn", "down"}
  /\ objects \in [Ids -> Object \union {None}]
  /\ before \in [Ids -> Object \union {None}]
  /\ rows \in [Ids -> [Turns -> Row]]
  /\ visible \subseteq Ids /\ seq \in Nat
  /\ cache \in [Ids -> Row] /\ modlist \in [Ids -> Time \union {None}]
  /\ todo \in Seq(Statement)
  /\ session \in [Sessions -> Progress \union {None}]

\* What the phases have in common with the row of gameinfo.
Phases ==
  /\ phase = "idle" => turn = info /\ objects = before
  /\ phase = "turn" => turn = info + 1
  /\ phase = "down" => todo = <<>> /\ \A s \in Sessions : session[s] = None

\* What is still to be written, of the present turn: after a row is deleted
\* it is written as the view is in memory.
Written(k) ==
  /\ todo[k].id \in visible /\ todo[k].turn = turn /\ cache[todo[k].id] # None
  /\ todo[k].row \in {None, cache[todo[k].id]}
  /\ todo[k].row = None => k + 1 \in 1 .. Len(todo) /\ todo[k + 1].id = todo[k].id
                           /\ todo[k + 1].row # None

Statements == \A k \in 1 .. Len(todo) : Written(k)

\* An object is visible when it has a row, or a view in memory that is to be
\* written; and there is no row beyond the turn under way.
HasRow(o) == \E t \in Turns : rows[o][t] # None

Rows ==
  /\ \A o \in Ids, t \in Turns : t > info + 1 => rows[o][t] = None
  /\ \A o \in Ids : HasRow(o) => o \in visible
  /\ phase # "down" => \A o \in visible : cache[o] # None \/ HasRow(o)
  /\ phase = "turn" => \A o \in visible : cache[o] # None

\* What a restart would find of an object, unless it is between two statements.
Base(o) == Newest(o, info)
Pending(o) == \E k \in 1 .. Len(todo) : todo[k].id = o
Settled(o) == phase = "idle" => ~ Pending(o)

Shown(view) == view # None /\ ~ view.gone
WasAlive(o) == before[o] # None /\ before[o].alive

\* A view in memory is the one in the table, or is to be written.
AsStored(o) ==
  phase # "down" /\ o \in visible /\ cache[o] # None => Pending(o) \/ Newest(o, turn) = cache[o]

\* The view shows who lives, in memory and after a restart.
Lives(o) ==
  /\ phase # "down" /\ (phase = "idle" => o \notin joined) => (Alive(o) <=> Shown(ViewOf(o)))
  /\ Settled(o) /\ o \notin joined => (WasAlive(o) <=> Shown(Base(o)))

\* What is not there, or only since the last turn, has not been seen.
Unseen(o) ==
  /\ o \in joined \/ before[o] = None => Base(o) = None /\ (phase = "idle" => ViewOf(o) = None)
  /\ phase = "turn" /\ objects[o] = None => ViewOf(o) = None

\* What changed since the last list says so.
Told(o, view) == view # None /\ view # heard.views[o] => view.mod >= heard.at

Hears(o) ==
  heard # None /\ o \notin late =>
    /\ phase # "down" => Told(o, ViewOf(o))
    /\ Settled(o) => Told(o, Base(o))

Views ==
  /\ heard # None => heard.at \in Time /\ heard.at <= now
  /\ \A o \in Ids \ (back \union torn) : AsStored(o) /\ Lives(o) /\ Unseen(o) /\ Hears(o)

\* A session that nobody disturbed has the first of the ids on the list.
FirstOf(S, n) == {o \in S : Place(S, o) \in 1 .. n}

Reads(s) ==
  LET read == session[s] IN
  read # None /\ ~ read.disturbed =>
    /\ read.all = InList(modlist)
    /\ Cardinality(read.got) <= Cardinality(read.all)
    /\ read.got = FirstOf(read.all, Cardinality(read.got))
    /\ Cardinality(read.got) + read.left = Cardinality(read.all)

Lists == \A s \in Sessions : Reads(s)

IInv == Typing /\ Phases /\ Statements /\ Rows /\ Views /\ Lists

-----------------------------------------------------------------------------
(* Ids and turns *)

LessThan == {p \in Nat \X Nat : p[1] < p[2]}

LEMMA LessThanWellFounded == IsWellFoundedOn(LessThan, Nat)
  BY NatLessThanWellFounded DEF OpToRel, LessThan

\* A set of naturals that is not empty has a least element.
LEMMA LeastElement ==
  ASSUME NEW T, T \subseteq Nat, T # {}
  PROVE  \E x \in T : \A y \in T : x <= y
<1>1. PICK x \in T : \A y \in T : ~ (<<y, x>> \in LessThan)
  BY LessThanWellFounded, WFMin
<1>2. \A y \in T : ~ (y < x)
  BY <1>1 DEF LessThan
<1>3. QED BY <1>2

\* A bounded set of naturals that is not empty has a greatest element: Max.
LEMMA MaxBounded ==
  ASSUME NEW S, S \subseteq Nat, S # {}, NEW b \in Nat, \A x \in S : x <= b
  PROVE  Max(S) \in S /\ \A x \in S : x <= Max(S)
<1> DEFINE Bound == {n \in Nat : \A x \in S : x <= n}
<1>1. PICK m \in Bound : \A n \in Bound : m <= n
  <2>1. Bound \subseteq Nat /\ b \in Bound
    OBVIOUS
  <2>2. QED BY <2>1, LeastElement
<1>2. m \in Nat /\ \A x \in S : x <= m
  BY <1>1
<1>3. m \in S
  <2>1. SUFFICES ASSUME m \notin S PROVE FALSE
    OBVIOUS
  <2>2. \A x \in S : x <= m - 1
    BY <1>2, <2>1
  <2>3. m - 1 \in Nat
    <3>1. PICK x \in S : x <= m - 1
      BY <2>2
    <3>2. x \in Nat
      OBVIOUS
    <3>3. QED BY <1>2, <3>1, <3>2
  <2>4. m - 1 \in Bound
    BY <2>2, <2>3
  <2>5. QED BY <1>1, <1>2, <2>4
<1>4. \E x \in S : \A y \in S : x >= y
  BY <1>2, <1>3
<1>5. Max(S) \in S /\ \A y \in S : Max(S) >= y
  BY <1>4 DEF Max
<1>6. QED BY <1>5

LEMMA IdsAndTurns ==
  /\ Ids \subseteq Nat /\ Turns \subseteq Nat /\ Time \subseteq Nat
  /\ IsFiniteSet(Ids) /\ Cardinality(Ids) = MaxId + 1
  /\ MaxId \in Nat /\ MaxTime \in Nat /\ MaxTurn \in Nat /\ MaxList \in Nat
<1>1. MaxId \in Nat /\ MaxTime \in Nat /\ MaxTurn \in Nat /\ MaxList \in Nat
  BY ViewAssumption
<1>2. IsFiniteSet(Ids) /\ Cardinality(Ids) = MaxId + 1
  <2>1. 0 \in Int /\ MaxId \in Int /\ ~ (0 > MaxId)
    BY <1>1
  <2>2. IsFiniteSet(0 .. MaxId) /\ Cardinality(0 .. MaxId) = MaxId - 0 + 1
    BY <2>1, FS_Interval
  <2>3. QED BY <1>1, <2>2 DEF Ids
<1>3. QED BY <1>1, <1>2 DEF Ids, Turns, Time

\* A set of ids is finite, and has no more than there are.
LEMMA SetOfIds ==
  ASSUME NEW S \in SUBSET Ids
  PROVE  IsFiniteSet(S) /\ Cardinality(S) \in 0 .. MaxId + 1
<1>1. IsFiniteSet(S) /\ Cardinality(S) <= Cardinality(Ids)
  BY IdsAndTurns, FS_Subset
<1>2. Cardinality(S) \in Nat
  BY <1>1, FS_CardinalityType
<1>3. QED BY <1>1, <1>2, IdsAndTurns

\* The ids of a set have the places from the first to the last, each one its own.
LEMMA PlaceProperties ==
  ASSUME NEW S \in SUBSET Ids
  PROVE  /\ \A o \in S : Place(S, o) \in 1 .. Cardinality(S)
         /\ \A o, p \in S : Place(S, o) = Place(S, p) => o = p
         /\ \A k \in 1 .. Cardinality(S) : \E o \in S : Place(S, o) = k
<1> DEFINE n == Cardinality(S)
           upTo(o) == {p \in S : p <= o}
<1>1. IsFiniteSet(S) /\ n \in Nat
  BY SetOfIds
<1>2. ASSUME NEW o \in S PROVE Place(S, o) \in 1 .. n
  <2>1. upTo(o) \in SUBSET S
    OBVIOUS
  <2>2. IsFiniteSet(upTo(o)) /\ Cardinality(upTo(o)) <= n
    BY <1>1, <2>1, FS_Subset
  <2>3. o \in upTo(o)
    BY IdsAndTurns
  <2>4. Cardinality(upTo(o)) \in Nat /\ Cardinality(upTo(o)) # 0
    BY <2>2, <2>3, FS_CardinalityType, FS_EmptySet
  <2>5. QED BY <1>1, <2>2, <2>4 DEF Place
<1>3. ASSUME NEW o \in S, NEW p \in S, o < p PROVE Place(S, o) # Place(S, p)
  <2>1. upTo(o) \in SUBSET upTo(p) /\ p \in upTo(p) /\ p \notin upTo(o)
    <3>1. o \in Nat /\ p \in Nat /\ \A q \in S : q \in Nat
      BY IdsAndTurns
    <3>2. \A q \in S : q <= o => q <= p
      BY <1>3, <3>1
    <3>3. p <= p /\ ~ (p <= o)
      BY <1>3, <3>1
    <3>4. QED BY <3>2, <3>3
  <2>2. IsFiniteSet(upTo(p))
    <3>1. upTo(p) \in SUBSET S
      OBVIOUS
    <3>2. QED BY <1>1, <3>1, FS_Subset
  <2>3. upTo(o) # upTo(p)
    BY <2>1
  <2>4. Cardinality(upTo(o)) # Cardinality(upTo(p))
    BY <2>1, <2>2, <2>3, FS_Subset
  <2>5. QED BY <2>4 DEF Place
<1>4. ASSUME NEW o \in S, NEW p \in S, Place(S, o) = Place(S, p) PROVE o = p
  <2>1. o \in Nat /\ p \in Nat
    BY IdsAndTurns
  <2>2. o < p \/ p < o \/ o = p
    BY <2>1
  <2>3. QED BY <1>3, <1>4, <2>2
<1>5. ASSUME NEW k \in 1 .. n PROVE \E o \in S : Place(S, o) = k
  <2> DEFINE f == [o \in S |-> Place(S, o)]
  <2>1. f \in Injection(S, 1 .. n)
    <3>1. f \in [S -> 1 .. n]
      BY <1>2
    <3>2. \A o, p \in S : f[o] = f[p] => o = p
      BY <1>4
    <3>3. QED BY <3>1, <3>2 DEF Injection, IsInjective
  <2>2. IsFiniteSet(1 .. n) /\ Cardinality(1 .. n) = n
    <3>1. 1 \in Int /\ n \in Int
      BY <1>1
    <3>2. IsFiniteSet(1 .. n) /\ Cardinality(1 .. n) = IF 1 > n THEN 0 ELSE n - 1 + 1
      BY <3>1, FS_Interval
    <3>3. QED BY <1>1, <3>2
  <2>3. f \in Surjection(S, 1 .. n)
    <3> HIDE DEF f
    <3>1. QED BY <2>1, <2>2, FS_Injection
  <2>4. PICK o \in S : f[o] = k
    BY <2>3 DEF Surjection
  <2>5. QED BY <2>4
<1>6. QED BY <1>2, <1>4, <1>5

\* Who goes through a set by places meets each of its ids.
LEMMA NthProperties ==
  ASSUME NEW S \in SUBSET Ids
  PROVE  /\ \A k \in 1 .. Cardinality(S) : Nth(S, k) \in S
         /\ \A o \in S : Place(S, o) \in 1 .. Cardinality(S) /\ Nth(S, Place(S, o)) = o
<1>1. \A k \in 1 .. Cardinality(S) : Nth(S, k) \in S /\ Place(S, Nth(S, k)) = k
  BY PlaceProperties DEF Nth
<1>2. ASSUME NEW o \in S PROVE Place(S, o) \in 1 .. Cardinality(S) /\ Nth(S, Place(S, o)) = o
  <2>1. Place(S, o) \in 1 .. Cardinality(S)
    BY PlaceProperties
  <2>2. Nth(S, Place(S, o)) \in S /\ Place(S, Nth(S, Place(S, o))) = Place(S, o)
    BY <1>1, <2>1
  <2>3. QED BY <2>1, <2>2, PlaceProperties
<1>3. QED BY <1>1, <1>2

\* The first n of a set are n.
LEMMA FirstCount ==
  ASSUME NEW S \in SUBSET Ids, NEW n \in Nat, n <= Cardinality(S)
  PROVE  Cardinality(FirstOf(S, n)) = n
<1> DEFINE F == FirstOf(S, n)
           f == [o \in F |-> Place(S, o)]
<1>1. Cardinality(S) \in Nat
  BY SetOfIds
<1>2. f \in Bijection(F, 1 .. n)
  <2>1. f \in [F -> 1 .. n]
    BY DEF FirstOf
  <2>2. \A o, p \in F : f[o] = f[p] => o = p
    BY PlaceProperties DEF FirstOf
  <2>3. ASSUME NEW k \in 1 .. n PROVE \E o \in F : f[o] = k
    <3>1. k \in 1 .. Cardinality(S)
      BY <1>1
    <3>2. PICK o \in S : Place(S, o) = k
      BY <3>1, PlaceProperties
    <3>3. o \in F
      BY <3>2 DEF FirstOf
    <3>4. QED BY <3>2, <3>3
  <2> HIDE DEF f, F
  <2>4. QED BY <2>1, <2>2, <2>3 DEF Bijection, Injection, IsInjective, Surjection
<1>3. IsFiniteSet(F)
  <2>1. F \in SUBSET Ids
    BY DEF FirstOf
  <2>2. QED BY <2>1, SetOfIds
<1>4. Cardinality(1 .. n) = Cardinality(F)
  <2> HIDE DEF f, F
  <2>1. ExistsBijection(F, 1 .. n)
    BY <1>2 DEF ExistsBijection
  <2>2. QED BY <1>3, <2>1, FS_Bijection
<1>5. Cardinality(1 .. n) = n
  <2>1. 1 \in Int /\ n \in Int
    OBVIOUS
  <2>2. Cardinality(1 .. n) = IF 1 > n THEN 0 ELSE n - 1 + 1
    BY <2>1, FS_Interval
  <2>3. QED BY <2>2
<1>6. QED BY <1>4, <1>5

-----------------------------------------------------------------------------
(* Rows of a view *)

\* The newest row up to turn t, of the rows of one object.
NewestOf(r, t) ==
  LET written == {u \in Turns : u <= t /\ r[u] # None}
  IN  IF written = {} THEN None ELSE r[Max(written)]

LEMMA NewestIsOf == \A o, t : Newest(o, t) = NewestOf(rows[o], t)
  BY DEF Newest, NewestOf

LEMMA NewestMax ==
  ASSUME NEW r \in [Turns -> Row], NEW t \in Turns, NEW u \in Turns, u <= t, r[u] # None
  PROVE  LET w == {v \in Turns : v <= t /\ r[v] # None}
         IN  Max(w) \in w /\ (\A v \in w : v <= Max(w)) /\ NewestOf(r, t) = r[Max(w)]
<1> DEFINE w == {v \in Turns : v <= t /\ r[v] # None}
<1>1. w \subseteq Nat /\ w # {} /\ t \in Nat /\ \A v \in w : v <= t
  BY IdsAndTurns
<1>2. NewestOf(r, t) = r[Max(w)]
  BY <1>1 DEF NewestOf
<1> HIDE DEF w
<1>3. Max(w) \in w /\ \A v \in w : v <= Max(w)
  BY <1>1, MaxBounded
<1>4. QED BY <1>2, <1>3 DEF w

\* The newest row is that of the turn, if there is one, and otherwise that of the turn before.
LEMMA NewestProperties ==
  ASSUME NEW r \in [Turns -> Row], NEW t \in Turns
  PROVE  /\ NewestOf(r, t) \in Row
         /\ NewestOf(r, t) = None <=> \A u \in Turns : u <= t => r[u] = None
         /\ r[t] # None => NewestOf(r, t) = r[t]
         /\ r[t] = None /\ t - 1 \in Turns => NewestOf(r, t) = NewestOf(r, t - 1)
<1> DEFINE w == {v \in Turns : v <= t /\ r[v] # None}
<1>1. CASE w = {}
  <2>1. NewestOf(r, t) = None /\ \A u \in Turns : u <= t => r[u] = None
    BY <1>1 DEF NewestOf
  <2>2. r[t] = None
    BY <2>1, IdsAndTurns
  <2>3. ASSUME t - 1 \in Turns PROVE NewestOf(r, t - 1) = None
    <3>1. \A v \in Turns : v <= t - 1 => v <= t
      BY IdsAndTurns
    <3>2. {v \in Turns : v <= t - 1 /\ r[v] # None} = {}
      BY <2>1, <3>1
    <3>3. QED BY <3>2 DEF NewestOf
  <2>4. QED BY <2>1, <2>2, <2>3 DEF Row
<1>2. CASE w # {}
  <2>1. PICK u \in Turns : u <= t /\ r[u] # None
    BY <1>2
  <2>2. Max(w) \in w /\ (\A v \in w : v <= Max(w)) /\ NewestOf(r, t) = r[Max(w)]
    BY <2>1, NewestMax
  <2>3. NewestOf(r, t) \in Row /\ NewestOf(r, t) # None
    BY <2>2
  <2>4. ASSUME r[t] # None PROVE NewestOf(r, t) = r[t]
    <3>1. t \in w
      BY <2>4, IdsAndTurns
    <3>2. t <= Max(w) /\ Max(w) <= t /\ Max(w) \in Turns
      BY <2>2, <3>1
    <3>3. Max(w) = t
      <4> DEFINE m == Max(w)
      <4> HIDE DEF m
      <4>1. t <= m /\ m <= t /\ m \in Nat /\ t \in Nat
        BY <3>2, IdsAndTurns DEF m
      <4>2. m = t
        BY <4>1
      <4>3. QED BY <4>2 DEF m
    <3>4. QED BY <2>2, <3>3
  <2>5. ASSUME r[t] = None, t - 1 \in Turns PROVE NewestOf(r, t) = NewestOf(r, t - 1)
    <3>1. \A v \in Turns : v <= t - 1 <=> v <= t /\ v # t
      BY IdsAndTurns
    <3>2. {v \in Turns : v <= t - 1 /\ r[v] # None} = w
      BY <2>5, <3>1
    <3>3. QED BY <3>2 DEF NewestOf
  <2>6. QED BY <2>1, <2>3, <2>4, <2>5
<1>3. QED BY <1>1, <1>2

\* Rows of later turns do not matter.
LEMMA NewestSame ==
  ASSUME NEW r, NEW q, NEW t \in Turns, \A u \in Turns : u <= t => r[u] = q[u]
  PROVE  NewestOf(r, t) = NewestOf(q, t)
<1>1. {v \in Turns : v <= t /\ r[v] # None} = {v \in Turns : v <= t /\ q[v] # None}
  OBVIOUS
<1> DEFINE w == {v \in Turns : v <= t /\ r[v] # None}
<1>2. CASE w = {}
  BY <1>1, <1>2 DEF NewestOf
<1>3. CASE w # {}
  <2>1. NewestOf(r, t) = r[Max(w)] /\ NewestOf(q, t) = q[Max(w)]
    BY <1>1, <1>3 DEF NewestOf
  <2>2. Max(w) \in w
    <3>1. w \subseteq Nat /\ t \in Nat /\ \A v \in w : v <= t
      BY IdsAndTurns
    <3> HIDE DEF w
    <3>2. QED BY <1>3, <3>1, MaxBounded
  <2>3. QED BY <2>1, <2>2
<1>4. QED BY <1>2, <1>3

-----------------------------------------------------------------------------
(* Views and objects *)

LEMMA NotMissing == None \notin View /\ None \notin Object /\ None \notin Time
  BY MissingAssumption

LEMMA MakeView ==
  ASSUME NEW g \in BOOLEAN, NEW m \in Time
  PROVE  LET view == [gone |-> g, mod |-> m]
         IN  view \in View /\ view \in Row /\ view # None /\ view.gone = g /\ view.mod = m
<1> DEFINE view == [gone |-> g, mod |-> m]
<1>1. view \in View /\ view.gone = g /\ view.mod = m
  BY DEF View
<1> HIDE DEF view
<1>2. view \in Row /\ view # None
  BY <1>1, NotMissing DEF Row
<1>3. QED BY <1>1, <1>2 DEF view

LEMMA MakeObject ==
  ASSUME NEW a \in BOOLEAN, NEW m \in Time
  PROVE  LET ob == [alive |-> a, mod |-> m]
         IN  ob \in Object /\ ob # None /\ ob.alive = a /\ ob.mod = m
<1> DEFINE ob == [alive |-> a, mod |-> m]
<1>1. ob \in Object /\ ob.alive = a /\ ob.mod = m
  BY DEF Object
<1> HIDE DEF ob
<1>2. ob # None
  BY <1>1, NotMissing
<1>3. QED BY <1>1, <1>2 DEF ob

LEMMA ChangeView ==
  ASSUME NEW view \in View, NEW m \in Time
  PROVE  LET changed == [view EXCEPT !.mod = m]
         IN  changed \in View /\ changed \in Row /\ changed # None /\ changed.gone = view.gone /\ changed.mod = m
<1> DEFINE changed == [view EXCEPT !.mod = m]
<1>1. changed \in View /\ changed.gone = view.gone /\ changed.mod = m
  BY DEF View
<1> HIDE DEF changed
<1>2. changed \in Row /\ changed # None
  BY <1>1, NotMissing DEF Row
<1>3. QED BY <1>1, <1>2 DEF changed

-----------------------------------------------------------------------------
(* What is seen, and what a restart would find *)

Newests == \A o \in Ids :
  /\ ViewOf(o) = IF o \notin visible THEN None
                 ELSE IF cache[o] # None THEN cache[o] ELSE NewestOf(rows[o], turn)
  /\ Base(o) = NewestOf(rows[o], info)
  /\ Newest(o, turn) = NewestOf(rows[o], turn)

LEMMA NewestsHold == Newests
  BY DEF Newests, ViewOf, ViewAt, Base, Newest, NewestOf

LEMMA NewestsHoldNext == Newests'
  BY DEF Newests, ViewOf, ViewAt, Base, Newest, NewestOf

LEMMA RowTypes ==
  ASSUME Typing, NEW o \in Ids
  PROVE  /\ rows[o] \in [Turns -> Row] /\ cache[o] \in Row
         /\ Base(o) \in Row /\ ViewOf(o) \in Row /\ Newest(o, turn) \in Row
<1>1. rows[o] \in [Turns -> Row] /\ cache[o] \in Row /\ info \in Turns /\ turn \in Turns
  BY DEF Typing
<1>2. NewestOf(rows[o], info) \in Row /\ NewestOf(rows[o], turn) \in Row
  BY <1>1, NewestProperties
<1>3. None \in Row
  BY DEF Row
<1>4. QED BY <1>1, <1>2, <1>3, NewestsHold DEF Newests

\* Who is not visible has no row, and no view of any turn.
LEMMA NotSeen ==
  ASSUME Typing, Rows, NEW o \in Ids, o \notin visible
  PROVE  Base(o) = None /\ Newest(o, turn) = None /\ ViewOf(o) = None
<1>1. \A t \in Turns : rows[o][t] = None
  BY DEF Rows, HasRow
<1>2. rows[o] \in [Turns -> Row] /\ info \in Turns /\ turn \in Turns
  BY DEF Typing
<1>3. NewestOf(rows[o], info) = None /\ NewestOf(rows[o], turn) = None
  BY <1>1, <1>2, NewestProperties
<1>4. QED BY <1>3, NewestsHold DEF Newests

\* What is not to be written is seen as it is in the table.
LEMMA SeenAsStored ==
  ASSUME Typing, Rows, phase # "down", NEW o \in Ids, AsStored(o), ~ Pending(o)
  PROVE  Newest(o, turn) = ViewOf(o)
<1>1. CASE o \notin visible
  BY <1>1, NotSeen
<1>2. CASE o \in visible /\ cache[o] # None
  BY <1>2, NewestsHold DEF Newests, AsStored
<1>3. CASE o \in visible /\ cache[o] = None
  BY <1>3, NewestsHold DEF Newests
<1>4. QED BY <1>1, <1>2, <1>3

LEMMA NothingPending ==
  ASSUME todo = <<>>
  PROVE  /\ \A o : ~ Pending(o) /\ Settled(o)
         /\ Statements
<1>1. Len(todo) = 0
  OBVIOUS
<1>2. 1 .. Len(todo) = {}
  BY <1>1
<1>3. QED BY <1>2 DEF Pending, Settled, Statements

LEMMA NothingPendingNext ==
  ASSUME todo' = <<>>
  PROVE  /\ \A o : ~ Pending(o)' /\ Settled(o)'
         /\ Statements'
<1>1. Len(todo') = 0
  OBVIOUS
<1>2. 1 .. Len(todo') = {}
  BY <1>1
<1>3. QED BY <1>2 DEF Pending, Settled, Statements

LEMMA ListsStay ==
  ASSUME Lists, UNCHANGED <<session, modlist>>
  PROVE  Lists'
  BY DEF Lists, Reads, InList, FirstOf, Place, Ids

-----------------------------------------------------------------------------
(* Init *)

LEMMA InitHolds == ASSUME Init PROVE IInv
<1>2. Known \subseteq Ids /\ 0 \in Time /\ 0 \in Turns /\ 0 \in Nat
  BY ViewAssumption, IdsAndTurns DEF Ids, Time, Turns
<1>3. [gone |-> FALSE, mod |-> 0] \in Row /\ None \in Row /\ [gone |-> FALSE, mod |-> 0] # None
  BY <1>2, MakeView DEF Row
<1>4. [alive |-> TRUE, mod |-> 0] \in Object /\ [alive |-> TRUE, mod |-> 0] # None
  BY <1>2, MakeObject
<1>5. Typing
  <2>1. rows \in [Ids -> [Turns -> Row]]
    BY <1>3 DEF Init
  <2>2. cache \in [Ids -> Row]
    BY <1>2, <2>1 DEF Init
  <2>3. objects \in [Ids -> Object \union {None}]
    BY <1>4 DEF Init
  <2>4. before \in [Ids -> Object \union {None}]
    BY <2>3 DEF Init
  <2>5. todo \in Seq(Statement) /\ session \in [Sessions -> Progress \union {None}]
    BY DEF Init
  <2>6. modlist \in [Ids -> Time \union {None}]
    BY DEF Init, NoList
  <2>7. QED BY <1>2, <2>1, <2>2, <2>3, <2>4, <2>5, <2>6 DEF Init, Typing
<1>6. Phases
  BY DEF Init, Phases
<1>7. todo = <<>>
  BY DEF Init
<1>8. \A o \in Ids, t \in Turns : rows[o][t] = IF o \in Known /\ t = 0 THEN [gone |-> FALSE, mod |-> 0] ELSE None
  BY DEF Init
<1>9. Rows
  <2>1. \A o \in Ids, t \in Turns : t > info + 1 => rows[o][t] = None
    BY <1>8 DEF Init
  <2>2. \A o \in Ids : HasRow(o) <=> o \in Known
    BY <1>2, <1>3, <1>8 DEF HasRow
  <2>3. QED BY <1>2, <2>1, <2>2 DEF Rows, Init
<1>10. ASSUME NEW o \in Ids PROVE AsStored(o) /\ Lives(o) /\ Unseen(o) /\ Hears(o)
  <2>1. rows[o] \in [Turns -> Row] /\ rows[o][0] = (IF o \in Known THEN [gone |-> FALSE, mod |-> 0] ELSE None)
    BY <1>2, <1>5, <1>8 DEF Typing
  <2>2. NewestOf(rows[o], 0) = rows[o][0]
    <3>1. rows[o][0] # None => NewestOf(rows[o], 0) = rows[o][0]
      BY <1>2, <2>1, NewestProperties
    <3>2. rows[o][0] = None => \A u \in Turns : u <= 0 => rows[o][u] = None
      BY IdsAndTurns
    <3>3. rows[o][0] = None => NewestOf(rows[o], 0) = None
      BY <1>2, <2>1, <3>2, NewestProperties
    <3>4. QED BY <3>1, <3>3
  <2>3. info = 0 /\ turn = 0 /\ visible = Known /\ cache[o] = rows[o][0] /\ phase = "idle" /\ joined = {} /\ heard = None
    BY DEF Init
  <2>4. Base(o) = rows[o][0] /\ Newest(o, turn) = rows[o][0] /\ ViewOf(o) = rows[o][0]
    BY <2>1, <2>2, <2>3, NewestsHold DEF Newests
  <2>5. objects[o] = before[o] /\ objects[o] = IF o \in Known THEN [alive |-> TRUE, mod |-> 0] ELSE None
    BY DEF Init
  <2>6. Shown(rows[o][0]) <=> o \in Known
    BY <1>3, <2>1 DEF Shown
  <2>7. (Alive(o) <=> o \in Known) /\ (WasAlive(o) <=> o \in Known)
    BY <1>4, <2>5 DEF Alive, WasAlive
  <2>8. QED BY <1>3, <1>4, <2>1, <2>3, <2>4, <2>5, <2>6, <2>7 DEF AsStored, Lives, Unseen, Hears
<1>11. Views
  BY <1>10 DEF Views, Init
<1>12. Lists
  BY DEF Lists, Reads, Init
<1>13. QED BY <1>5, <1>6, <1>7, <1>9, <1>11, <1>12, NothingPending DEF IInv

-----------------------------------------------------------------------------
(* Statements, time, crashes and restarts *)

\* One statement: what is deleted is in memory until it is inserted.
LEMMA SendKeeps == ASSUME IInv, Send PROVE IInv'
<1> DEFINE h == todo[1]
<1>1. Typing /\ Phases /\ Statements /\ Rows /\ Views /\ Lists
  BY DEF IInv
<1>2. /\ Len(todo) \in Nat /\ Len(todo) >= 1 /\ todo \in Seq(Statement) /\ phase # "down"
      /\ Head(todo) = h /\ h \in Statement
      /\ Len(todo') = Len(todo) - 1 /\ todo' \in Seq(Statement)
      /\ \A k \in 1 .. Len(todo') : todo'[k] = todo[k + 1] /\ k + 1 \in 1 .. Len(todo)
  BY <1>1 DEF Send, Typing
<1>3. /\ rows' = [rows EXCEPT ![h.id][h.turn] = h.row]
      /\ UNCHANGED <<now, objects, before, info, turn, phase, visible, cache, seq, modlist, session,
                     heard, late, back, torn, joined>>
  BY <1>2 DEF Send, world, memory, history
<1>4. Written(1) /\ 1 \in 1 .. Len(todo)
  BY <1>1, <1>2 DEF Statements
<1>5. h.id \in visible /\ h.turn = turn /\ cache[h.id] # None /\ h.row \in {None, cache[h.id]}
      /\ h.id \in Ids /\ h.row \in Row /\ turn \in Turns /\ visible \subseteq Ids
  BY <1>1, <1>2, <1>4 DEF Written, Statement, Typing
<1> HIDE DEF h
<1>6. Typing'
  <2>1. rows' \in [Ids -> [Turns -> Row]]
    BY <1>1, <1>3, <1>5 DEF Typing
  <2>2. QED BY <1>1, <1>2, <1>3, <2>1 DEF Typing
<1>7. Phases'
  BY <1>1, <1>2, <1>3 DEF Phases
<1>8. Statements'
  <2>1. ASSUME NEW k \in 1 .. Len(todo') PROVE Written(k)'
    <3>1. k + 1 \in 1 .. Len(todo) /\ todo'[k] = todo[k + 1] /\ Written(k + 1)
      BY <1>1, <1>2 DEF Statements
    <3>2. ASSUME todo[k + 1].row = None
          PROVE  k + 1 \in 1 .. Len(todo') /\ todo'[k + 1].id = todo'[k].id /\ todo'[k + 1].row # None
      <4>1. (k + 1) + 1 \in 1 .. Len(todo) /\ todo[(k + 1) + 1].id = todo[k + 1].id /\ todo[(k + 1) + 1].row # None
        BY <3>1, <3>2 DEF Written
      <4>2. k + 1 \in 1 .. Len(todo')
        BY <1>2, <4>1
      <4>3. todo'[k + 1] = todo[(k + 1) + 1]
        BY <1>2, <4>2
      <4>4. QED BY <3>1, <4>1, <4>2, <4>3
    <3>3. QED BY <1>3, <3>1, <3>2 DEF Written
  <2>2. QED BY <2>1 DEF Statements
<1>9. /\ \A o \in Ids : o # h.id => rows'[o] = rows[o]
      /\ \A o \in Ids, t \in Turns : t # turn => rows'[o][t] = rows[o][t]
      /\ rows'[h.id][turn] = h.row
  BY <1>1, <1>3, <1>5 DEF Typing
<1>10. Rows'
  <2>1. turn \in Nat /\ info \in Nat /\ turn <= info + 1
    BY <1>1, <1>2, IdsAndTurns DEF Typing, Phases
  <2>2. ASSUME NEW o \in Ids, NEW t \in Turns, t > info + 1 PROVE rows'[o][t] = None
    <3>1. t # turn
      BY <2>1, <2>2
    <3>2. QED BY <1>1, <1>9, <2>2, <3>1 DEF Rows
  <2>3. ASSUME NEW o \in Ids, HasRow(o)' PROVE o \in visible
    BY <1>1, <1>5, <1>9, <2>3 DEF Rows, HasRow
  <2>4. ASSUME NEW o \in visible PROVE cache[o] # None \/ HasRow(o)'
    BY <1>1, <1>2, <1>5, <1>9 DEF Rows, HasRow
  <2>5. QED BY <1>1, <1>3, <2>2, <2>3, <2>4 DEF Rows
<1>11. ASSUME NEW o \in Ids \ (back \union torn) PROVE AsStored(o)' /\ Lives(o)' /\ Unseen(o)' /\ Hears(o)'
  <2>1. AsStored(o) /\ Lives(o) /\ Unseen(o) /\ Hears(o)
    BY <1>1 DEF Views
  <2>2. rows[o] \in [Turns -> Row] /\ rows'[o] \in [Turns -> Row] /\ info \in Turns
    BY <1>1, <1>6, <1>3 DEF Typing
  <2>3. ViewOf(o)' = ViewOf(o)
    <3>1. CASE o = h.id
      BY <1>3, <1>5, <3>1, NewestsHold, NewestsHoldNext DEF Newests
    <3>2. CASE o # h.id
      BY <1>3, <1>9, <3>2, NewestsHold, NewestsHoldNext DEF Newests
    <3>3. QED BY <3>1, <3>2
  <2>4. Pending(o)' => Pending(o)
    BY <1>2 DEF Pending
  <2>5. o # h.id => (Pending(o) => Pending(o)') /\ rows'[o] = rows[o]
    <3>1. ASSUME o # h.id, Pending(o) PROVE Pending(o)'
      <4>1. PICK k \in 1 .. Len(todo) : todo[k].id = o
        BY <3>1 DEF Pending
      <4>2. k # 1
        BY <3>1, <4>1 DEF h
      <4>3. k - 1 \in 1 .. Len(todo') /\ (k - 1) + 1 = k
        BY <1>2, <4>2
      <4>4. todo'[k - 1] = todo[k]
        BY <1>2, <4>3
      <4>5. QED BY <4>1, <4>3, <4>4 DEF Pending
    <3>2. QED BY <1>9, <3>1
  <2>6. ASSUME o = h.id, ~ Pending(o)' PROVE rows'[o][turn] = cache[o] /\ cache[o] # None
    <3>1. h.row # None
      <4>1. SUFFICES ASSUME h.row = None PROVE FALSE
        OBVIOUS
      <4>2. 2 \in 1 .. Len(todo) /\ todo[2].id = h.id
        <5>1. 1 + 1 \in 1 .. Len(todo) /\ todo[1 + 1].id = todo[1].id
          BY <1>4, <4>1 DEF Written, h
        <5>2. QED BY <5>1 DEF h
      <4>3. 1 \in 1 .. Len(todo') /\ todo'[1] = todo[2]
        <5>1. 1 \in 1 .. Len(todo')
          BY <1>2, <4>2
        <5>2. QED BY <1>2, <5>1
      <4>4. QED BY <2>6, <4>2, <4>3 DEF Pending
    <3>2. QED BY <1>5, <1>9, <2>6, <3>1
  <2>7. AsStored(o)'
    <3>1. CASE o = h.id
      <4>1. ASSUME ~ Pending(o)' PROVE NewestOf(rows'[o], turn) = cache[o]
        BY <1>5, <2>2, <2>6, <3>1, <4>1, NewestProperties
      <4>2. QED BY <1>3, <4>1, NewestsHoldNext DEF AsStored, Newests
    <3>2. CASE o # h.id
      BY <1>3, <2>1, <2>5, <3>2, NewestsHold, NewestsHoldNext DEF AsStored, Newests
    <3>3. QED BY <3>1, <3>2
  <2>8. CASE phase = "turn"
    <3>1. turn = info + 1 /\ info \in Nat
      BY <1>1, <2>8, IdsAndTurns DEF Phases, Typing
    <3>2. \A u \in Turns : u <= info => rows[o][u] = rows'[o][u]
      BY <1>9, <3>1, IdsAndTurns
    <3>3. Base(o)' = Base(o)
      BY <1>3, <2>2, <3>2, NewestSame, NewestsHold, NewestsHoldNext DEF Newests
    <3>4. Settled(o) /\ Settled(o)'
      BY <1>3, <2>8 DEF Settled
    <3>5. QED BY <1>3, <2>1, <2>3, <2>7, <3>3, <3>4
              DEF Lives, Unseen, Hears, Told, Alive, WasAlive
  <2>9. CASE phase = "idle"
    <3>1. turn = info /\ objects = before
      BY <1>1, <2>9 DEF Phases
    <3>2. CASE o # h.id
      <4>1. Base(o)' = Base(o) /\ (Settled(o)' => Settled(o))
        BY <1>3, <2>5, <3>2, NewestsHold, NewestsHoldNext DEF Newests, Settled
      <4>2. QED BY <1>3, <2>1, <2>3, <2>7, <4>1 DEF Lives, Unseen, Hears, Told, Alive, WasAlive
    <3>3. CASE o = h.id
      <4>1. ViewOf(o) = cache[o] /\ cache[o] # None
        BY <1>5, <3>3, NewestsHold DEF Newests
      <4>2. ~ (o \in joined \/ before[o] = None)
        BY <2>1, <2>9, <4>1 DEF Unseen
      <4>3. Settled(o)' => Base(o)' = ViewOf(o)
        <5>1. ASSUME Settled(o)' PROVE NewestOf(rows'[o], info) = ViewOf(o)
          <6>1. ~ Pending(o)'
            BY <1>3, <2>9, <5>1 DEF Settled
          <6>2. rows'[o][info] = cache[o]
            BY <2>6, <3>1, <3>3, <6>1
          <6>3. QED BY <2>2, <4>1, <6>2, NewestProperties
        <5>2. QED BY <1>3, <5>1, NewestsHoldNext DEF Newests
      <4>4. Unseen(o)'
        BY <1>3, <2>9, <4>2 DEF Unseen
      <4>5. Lives(o)'
        BY <1>3, <2>1, <2>3, <2>9, <3>1, <4>3 DEF Lives, Alive, WasAlive
      <4>6. Hears(o)'
        BY <1>3, <2>1, <2>3, <2>9, <4>3 DEF Hears, Told
      <4>7. QED BY <2>7, <4>4, <4>5, <4>6
    <3>4. QED BY <3>2, <3>3
  <2>10. phase \in {"idle", "turn"}
    BY <1>1, <1>2 DEF Typing
  <2>11. QED BY <2>8, <2>9, <2>10
<1>12. Views'
  BY <1>1, <1>3, <1>11 DEF Views
<1>13. Lists'
  BY <1>1, <1>3, ListsStay
<1>14. QED BY <1>6, <1>7, <1>8, <1>10, <1>12, <1>13 DEF IInv

\* What nothing touches stays as it is.
LEMMA ViewsStay ==
  ASSUME NEW o \in Ids, UNCHANGED <<phase, turn, info, visible, cache[o], rows[o]>>
  PROVE  ViewOf(o)' = ViewOf(o) /\ Base(o)' = Base(o) /\ Newest(o, turn)' = Newest(o, turn)
  BY NewestsHold, NewestsHoldNext DEF Newests

LEMMA TickKeeps == ASSUME IInv, Tick PROVE IInv'
<1>1. Typing /\ Phases /\ Statements /\ Rows /\ Views /\ Lists
  BY DEF IInv
<1>2. /\ now' = now + 1 /\ now < MaxTime /\ now \in Time
      /\ UNCHANGED <<objects, before, info, turn, rows, phase, visible, cache, seq, modlist, todo, session,
                     heard, late, back, torn, joined>>
  BY <1>1 DEF Tick, world, memory, history, Typing
<1>3. now' \in Time /\ now <= now' /\ \A t \in Time : t <= now => t <= now'
  BY <1>2, IdsAndTurns DEF Time
<1>4. Typing'
  BY <1>1, <1>2, <1>3 DEF Typing
<1>5. Phases' /\ Statements' /\ Rows'
  BY <1>1, <1>2 DEF Phases, Statements, Written, Rows, HasRow
<1>6. ASSUME NEW o \in Ids \ (back \union torn) PROVE AsStored(o)' /\ Lives(o)' /\ Unseen(o)' /\ Hears(o)'
  <2>1. AsStored(o) /\ Lives(o) /\ Unseen(o) /\ Hears(o)
    BY <1>1 DEF Views
  <2>2. ViewOf(o)' = ViewOf(o) /\ Base(o)' = Base(o) /\ Newest(o, turn)' = Newest(o, turn)
    BY <1>2, ViewsStay
  <2>3. (Settled(o)' <=> Settled(o)) /\ (Pending(o)' <=> Pending(o))
    BY <1>2 DEF Settled, Pending
  <2>4. QED BY <1>2, <2>1, <2>2, <2>3 DEF AsStored, Lives, Unseen, Hears, Told, Alive, WasAlive
<1>7. Views'
  BY <1>1, <1>2, <1>3, <1>6 DEF Views
<1>8. QED BY <1>1, <1>2, <1>4, <1>5, <1>7, ListsStay DEF IInv

\* A server that ends leaves behind what is settled.
LEMMA StopKeeps ==
  ASSUME IInv, Crash \/ AskForUnreadable
  PROVE  IInv'
<1>1. Typing /\ Phases /\ Statements /\ Rows /\ Views /\ Lists
  BY DEF IInv
<1>2. /\ phase' = "down" /\ todo' = <<>> /\ session' = [s \in Sessions |-> None] /\ phase # "down"
      /\ UNCHANGED <<now, objects, before, info, turn, rows, visible, cache, seq, modlist, heard, late, back, joined>>
  BY DEF Crash, AskForUnreadable, Free, world, memory, history
<1>3. /\ torn \subseteq torn'
      /\ \A o \in Ids \ torn' : phase = "idle" => ~ Pending(o)
  <2>1. CASE Crash
    BY <2>1 DEF Crash, Pending
  <2>2. CASE AskForUnreadable
    BY <2>2, NothingPending DEF AskForUnreadable, Free, history
  <2>3. QED BY <2>1, <2>2
<1>4. Typing'
  <2>1. todo' \in Seq(Statement) /\ session' \in [Sessions -> Progress \union {None}]
    BY <1>2
  <2>2. QED BY <1>1, <1>2, <2>1 DEF Typing
<1>5. Phases'
  BY <1>2 DEF Phases
<1>6. Rows'
  BY <1>1, <1>2 DEF Rows, HasRow
<1>7. ASSUME NEW o \in Ids \ (back \union torn') PROVE AsStored(o)' /\ Lives(o)' /\ Unseen(o)' /\ Hears(o)'
  <2>1. AsStored(o) /\ Lives(o) /\ Unseen(o) /\ Hears(o) /\ Settled(o)
    BY <1>1, <1>3 DEF Views, Settled
  <2>2. Base(o)' = Base(o)
    BY <1>2, NewestsHold, NewestsHoldNext DEF Newests
  <2>3. QED BY <1>2, <2>1, <2>2 DEF AsStored, Lives, Unseen, Hears, Told, WasAlive
<1>8. Views'
  BY <1>1, <1>2, <1>7 DEF Views
<1>9. Lists'
  BY <1>2 DEF Lists, Reads
<1>10. QED BY <1>2, <1>4, <1>5, <1>6, <1>8, <1>9, NothingPendingNext DEF IInv

\* What is seen after a restart is what was settled.
LEMMA RestartKeeps == ASSUME IInv, Restart PROVE IInv'
<1>1. Typing /\ Phases /\ Statements /\ Rows /\ Views /\ Lists
  BY DEF IInv
<1>2. /\ phase = "down" /\ phase' = "idle" /\ turn' = info /\ objects' = before
      /\ visible' = {o \in Ids : HasRow(o)} /\ cache' = [o \in Ids |-> None] /\ seq' = 0 /\ modlist' = NoList
      /\ UNCHANGED <<now, before, info, rows, todo, session, heard, late, back, torn, joined>>
  BY DEF Restart, history, HasRow
<1>3. todo = <<>> /\ todo' = <<>> /\ \A s \in Sessions : session'[s] = None
  BY <1>1, <1>2 DEF Phases
<1>4. Typing'
  <2>1. cache' \in [Ids -> Row] /\ modlist' \in [Ids -> Time \union {None}]
    BY <1>2 DEF Row, NoList
  <2>2. QED BY <1>1, <1>2, <2>1 DEF Typing
<1>5. Phases'
  BY <1>2, <1>3 DEF Phases
<1>6. Rows'
  BY <1>1, <1>2 DEF Rows, HasRow
<1>7. ASSUME NEW o \in Ids \ (back \union torn) PROVE AsStored(o)' /\ Lives(o)' /\ Unseen(o)' /\ Hears(o)'
  <2>1. AsStored(o) /\ Lives(o) /\ Unseen(o) /\ Hears(o)
    BY <1>1 DEF Views
  <2>2. Base(o)' = Base(o) /\ cache'[o] = None
    BY <1>2, NewestsHold, NewestsHoldNext DEF Newests
  <2>3. Base(o) = None \/ o \in visible'
    <3>1. rows[o] \in [Turns -> Row] /\ info \in Turns
      BY <1>1 DEF Typing
    <3>2. ~ HasRow(o) => NewestOf(rows[o], info) = None
      BY <3>1, NewestProperties DEF HasRow
    <3>3. QED BY <1>2, <3>2, NewestsHold DEF Newests
  <2>4. ViewOf(o)' = Base(o)
    BY <1>2, <2>2, <2>3, NewestsHoldNext DEF Newests
  <2>5. Settled(o)
    BY <1>2 DEF Settled
  <2>6. AsStored(o)'
    BY <2>2 DEF AsStored
  <2>7. Lives(o)'
    BY <1>2, <2>1, <2>2, <2>4, <2>5 DEF Lives, Alive, WasAlive
  <2>8. Unseen(o)'
    BY <1>2, <2>1, <2>2, <2>4 DEF Unseen
  <2>9. Hears(o)'
    BY <1>2, <2>1, <2>2, <2>4, <2>5 DEF Hears, Told
  <2>10. QED BY <2>6, <2>7, <2>8, <2>9
<1>8. Views'
  BY <1>1, <1>2, <1>7 DEF Views
<1>9. Lists'
  BY <1>3 DEF Lists, Reads
<1>10. QED BY <1>3, <1>4, <1>5, <1>6, <1>8, <1>9, NothingPendingNext DEF IInv

-----------------------------------------------------------------------------
(* Between turns *)

LEMMA PlayerJoinsKeeps ==
  ASSUME IInv, NEW new \in SUBSET Ids, NEW touched \in SUBSET Ids, PlayerJoins(new, touched)
  PROVE  IInv'
<1>1. Typing /\ Phases /\ Statements /\ Rows /\ Views /\ Lists
  BY DEF IInv
<1>2. /\ phase = "idle" /\ todo = <<>> /\ todo' = <<>> /\ phase' = "idle"
      /\ objects' = [o \in Ids |-> IF o \in new \union touched THEN [alive |-> TRUE, mod |-> now] ELSE objects[o]]
      /\ before' = objects' /\ seq' = seq + 1 /\ joined' = joined \union new
      /\ \A o \in new : objects[o] = None
      /\ \A o \in touched : Alive(o)
      /\ UNCHANGED <<now, rows, info, turn, visible, cache, modlist, session, heard, late, back, torn>>
  BY DEF PlayerJoins, Free, Exists
<1>3. turn = info /\ objects = before
  BY <1>1, <1>2 DEF Phases
<1>4. [alive |-> TRUE, mod |-> now] \in Object /\ [alive |-> TRUE, mod |-> now] # None /\ [alive |-> TRUE, mod |-> now].alive
  BY <1>1, MakeObject DEF Typing
<1>5. Typing'
  <2>1. objects' \in [Ids -> Object \union {None}]
    <3>1. \A o \in Ids : objects[o] \in Object \union {None}
      BY <1>1 DEF Typing
    <3>2. QED BY <1>2, <1>4, <3>1
  <2>2. seq' \in Nat
    BY <1>1, <1>2 DEF Typing
  <2>3. QED BY <1>1, <1>2, <2>1, <2>2 DEF Typing
<1>6. Phases'
  BY <1>2, <1>3 DEF Phases
<1>7. Rows'
  BY <1>1, <1>2 DEF Rows, HasRow
<1>8. ASSUME NEW o \in Ids \ (back \union torn) PROVE AsStored(o)' /\ Lives(o)' /\ Unseen(o)' /\ Hears(o)'
  <2>1. AsStored(o) /\ Lives(o) /\ Unseen(o) /\ Hears(o)
    BY <1>1 DEF Views
  <2>2. ViewOf(o)' = ViewOf(o) /\ Base(o)' = Base(o) /\ Newest(o, turn)' = Newest(o, turn)
    BY <1>2, ViewsStay
  <2>3. Settled(o)' /\ Settled(o) /\ ~ Pending(o) /\ ~ Pending(o)'
    BY <1>2, NothingPending, NothingPendingNext
  <2>4. o \notin new => (Alive(o)' <=> Alive(o)) /\ (before'[o] = None <=> before[o] = None)
    BY <1>2, <1>3, <1>4 DEF Alive
  <2>5. Alive(o)' <=> WasAlive(o)'
    BY <1>2 DEF Alive, WasAlive
  <2>6. AsStored(o)'
    BY <1>2, <2>1, <2>2, <2>3 DEF AsStored
  <2>7. Lives(o)'
    <3>1. Alive(o) <=> WasAlive(o)
      BY <1>3 DEF Alive, WasAlive
    <3>2. QED BY <1>2, <2>1, <2>2, <2>3, <2>4, <2>5, <3>1 DEF Lives
  <2>8. Unseen(o)'
    <3>1. o \in new => before[o] = None
      BY <1>2, <1>3
    <3>2. QED BY <1>2, <2>1, <2>2, <2>4, <3>1 DEF Unseen
  <2>9. Hears(o)'
    BY <1>2, <2>1, <2>2, <2>3 DEF Hears, Told
  <2>10. QED BY <2>6, <2>7, <2>8, <2>9
<1>9. Views'
  BY <1>1, <1>2, <1>8 DEF Views
<1>10. QED BY <1>1, <1>2, <1>5, <1>6, <1>7, <1>9, NothingPendingNext, ListsStay DEF IInv

LEMMA GiveOrderKeeps ==
  ASSUME IInv, NEW w \in Ids, GiveOrder(w)
  PROVE  IInv'
<1> DEFINE view == [ViewOf(w) EXCEPT !.mod = now]
<1>1. Typing /\ Phases /\ Statements /\ Rows /\ Views /\ Lists
  BY DEF IInv
<1>2. /\ phase = "idle" /\ todo = <<>> /\ Alive(w) /\ ViewOf(w) # None
      /\ cache' = [cache EXCEPT ![w] = view]
      /\ todo' = SaveObjectView(w, turn, view)
      /\ late' = late \ {w}
      /\ UNCHANGED <<now, objects, before, info, turn, rows, phase, visible, seq, modlist, session, heard,
                     back, torn, joined>>
  BY DEF GiveOrder, Free, world
<1>3. turn = info /\ objects = before /\ now \in Time /\ turn \in Turns
  BY <1>1, <1>2 DEF Phases, Typing
<1>4. w \in visible
  BY <1>2, NewestsHold DEF Newests
<1>5. /\ view \in View /\ view \in Row /\ view # None /\ view.gone = ViewOf(w).gone /\ view.mod = now
  <2>1. ViewOf(w) \in View
    BY <1>1, <1>2, RowTypes DEF Row
  <2>2. QED BY <1>3, <2>1, ChangeView
<1> HIDE DEF view
<1>6. cache'[w] = view /\ \A o \in Ids : o # w => cache'[o] = cache[o]
  BY <1>1, <1>2 DEF Typing
<1>7. /\ Len(todo') = 2
      /\ todo'[1] = [id |-> w, turn |-> turn, row |-> None]
      /\ todo'[2] = [id |-> w, turn |-> turn, row |-> view]
      /\ todo' \in Seq(Statement)
  <2>1. [id |-> w, turn |-> turn, row |-> None] \in Statement
    BY <1>3 DEF Statement, Row
  <2>2. [id |-> w, turn |-> turn, row |-> view] \in Statement
    BY <1>3, <1>5 DEF Statement
  <2>3. QED BY <1>2, <2>1, <2>2 DEF SaveObjectView
<1>8. Typing'
  <2>1. cache' \in [Ids -> Row]
    BY <1>1, <1>2, <1>5 DEF Typing
  <2>2. QED BY <1>1, <1>2, <1>7, <2>1 DEF Typing
<1>9. Phases'
  BY <1>2, <1>3 DEF Phases
<1>10. Statements'
  <2>1. ASSUME NEW k \in 1 .. Len(todo') PROVE Written(k)'
    <3>1. k = 1 \/ k = 2
      BY <1>7
    <3>2. CASE k = 1
      BY <1>2, <1>4, <1>5, <1>6, <1>7, <3>2 DEF Written
    <3>3. CASE k = 2
      BY <1>2, <1>4, <1>5, <1>6, <1>7, <3>3 DEF Written
    <3>4. QED BY <3>1, <3>2, <3>3
  <2>2. QED BY <2>1 DEF Statements
<1>11. Rows'
  BY <1>1, <1>2, <1>5, <1>6 DEF Rows, HasRow, Typing
<1>12. Pending(w)' /\ ~ Settled(w)' /\ \A o \in Ids : o # w => ~ Pending(o)'
  BY <1>2, <1>7 DEF Pending, Settled
<1>13. ViewOf(w)' = view
  BY <1>2, <1>4, <1>5, <1>6, NewestsHoldNext DEF Newests
<1>14. ASSUME NEW o \in Ids \ (back \union torn) PROVE AsStored(o)' /\ Lives(o)' /\ Unseen(o)' /\ Hears(o)'
  <2>1. AsStored(o) /\ Lives(o) /\ Unseen(o) /\ Hears(o)
    BY <1>1 DEF Views
  <2>2. Settled(o) /\ ~ Pending(o)
    BY <1>2, NothingPending
  <2>3. CASE o # w
    <3>1. ViewOf(o)' = ViewOf(o) /\ Base(o)' = Base(o) /\ Newest(o, turn)' = Newest(o, turn)
      BY <1>2, <1>6, <2>3, ViewsStay
    <3>2. ~ Pending(o)' /\ (o \in late' <=> o \in late)
      BY <1>2, <1>12, <2>3
    <3>3. AsStored(o)'
      BY <1>2, <1>6, <2>1, <2>2, <2>3, <3>1 DEF AsStored
    <3>4. Lives(o)' /\ Unseen(o)' /\ Hears(o)'
      BY <1>2, <2>1, <2>2, <3>1, <3>2 DEF Lives, Unseen, Hears, Told, Alive, WasAlive
    <3>5. QED BY <3>3, <3>4
  <2>4. CASE o = w
    <3>1. ~ (w \in joined \/ before[w] = None)
      BY <1>2, <2>1, <2>4 DEF Unseen
    <3>2. AsStored(w)' /\ Unseen(w)'
      BY <1>2, <1>12, <3>1 DEF AsStored, Unseen
    <3>3. Lives(w)'
      <4>1. Alive(w)' /\ Shown(ViewOf(w))
        BY <1>2, <2>1, <2>4, <3>1 DEF Lives, Alive
      <4>2. Shown(view)
        BY <1>5, <4>1 DEF Shown
      <4>3. QED BY <1>12, <1>13, <4>1, <4>2 DEF Lives
    <3>4. Hears(w)'
      <4>1. ASSUME heard # None PROVE view.mod >= heard.at
        <5>1. heard.at \in Nat /\ now \in Nat /\ heard.at <= now
          BY <1>1, <1>3, <4>1, IdsAndTurns DEF Views
        <5>2. QED BY <1>5, <5>1
      <4>2. QED BY <1>2, <1>12, <1>13, <4>1 DEF Hears, Told
    <3>5. QED BY <2>4, <3>2, <3>3, <3>4
  <2>5. QED BY <2>3, <2>4
<1>15. Views'
  BY <1>1, <1>2, <1>14 DEF Views
<1>16. Lists'
  BY <1>1, <1>2, ListsStay
<1>17. QED BY <1>8, <1>9, <1>10, <1>11, <1>15, <1>16 DEF IInv

\* The views of the turn become what a restart finds.
LEMMA EndTurnKeeps == ASSUME IInv, EndTurn PROVE IInv'
<1>1. Typing /\ Phases /\ Statements /\ Rows /\ Views /\ Lists
  BY DEF IInv
<1>2. /\ phase = "turn" /\ todo = <<>> /\ todo' = <<>> /\ phase' = "idle" /\ info' = turn /\ before' = objects
      /\ seq' = seq + 1 /\ joined' = {}
      /\ UNCHANGED <<now, objects, turn, rows, visible, cache, modlist, session, heard, late, back, torn>>
  BY DEF EndTurn
<1>3. turn = info + 1 /\ turn \in Turns /\ info \in Nat /\ turn \in Nat
  BY <1>1, <1>2, IdsAndTurns DEF Phases, Typing
<1>4. Typing'
  BY <1>1, <1>2 DEF Typing
<1>5. Phases'
  BY <1>2 DEF Phases
<1>6. Rows'
  <2>1. ASSUME NEW o \in Ids, NEW t \in Turns, t > turn + 1 PROVE rows[o][t] = None
    <3>1. t > info + 1
      BY <1>3, <2>1, IdsAndTurns
    <3>2. QED BY <1>1, <3>1 DEF Rows
  <2>2. QED BY <1>1, <1>2, <2>1 DEF Rows, HasRow
<1>7. ASSUME NEW o \in Ids \ (back \union torn) PROVE AsStored(o)' /\ Lives(o)' /\ Unseen(o)' /\ Hears(o)'
  <2>1. AsStored(o) /\ Lives(o) /\ Unseen(o) /\ Hears(o)
    BY <1>1 DEF Views
  <2>2. ~ Pending(o) /\ ~ Pending(o)' /\ Settled(o)'
    BY <1>2, NothingPending, NothingPendingNext
  <2>3. Newest(o, turn) = ViewOf(o)
    BY <1>1, <1>2, <2>1, <2>2, SeenAsStored
  <2>4. ViewOf(o)' = ViewOf(o) /\ Base(o)' = ViewOf(o) /\ Newest(o, turn)' = Newest(o, turn)
    BY <1>2, <2>3, NewestsHold, NewestsHoldNext DEF Newests
  <2>5. AsStored(o)'
    BY <1>2, <2>1, <2>4 DEF AsStored, Pending
  <2>6. Alive(o)' = Alive(o) /\ WasAlive(o)' = Alive(o)
    BY <1>2 DEF Alive, WasAlive
  <2>7. Lives(o)'
    BY <1>2, <2>1, <2>4, <2>6 DEF Lives
  <2>8. Unseen(o)'
    BY <1>2, <2>1, <2>4 DEF Unseen
  <2>9. Hears(o)'
    BY <1>2, <2>1, <2>4 DEF Hears, Told
  <2>10. QED BY <2>5, <2>7, <2>8, <2>9
<1>8. Views'
  BY <1>1, <1>2, <1>7 DEF Views
<1>9. QED BY <1>1, <1>2, <1>4, <1>5, <1>6, <1>8, NothingPendingNext, ListsStay DEF IInv

-----------------------------------------------------------------------------
(* The statements of a turn *)

Delete(o, t) == [id |-> o, turn |-> t, row |-> None]
Insert(o, t, view) == [id |-> o, turn |-> t, row |-> view]

\* The views of a set of objects are saved by s: each is deleted and inserted.
SavedBy(s, S, t, view) ==
  /\ s \in Seq(Statement)
  /\ \A k \in 1 .. Len(s) : \E o \in S :
       \/ s[k] = Insert(o, t, view[o])
       \/ s[k] = Delete(o, t) /\ k + 1 \in 1 .. Len(s) /\ s[k + 1] = Insert(o, t, view[o])
  /\ \A o \in S : \E k \in 1 .. Len(s) : s[k].id = o

Saves(S, t, view) ==
  [k \in 1 .. 2 * Cardinality(S) |->
     LET o == Nth(S, (k + 1) \div 2) IN SaveObjectView(o, t, view[o])[2 - (k % 2)]]

\* Two statements for each: the second of a pair follows the first.
LEMMA Halves ==
  ASSUME NEW n \in Nat, NEW k \in 1 .. 2 * n
  PROVE  /\ (k + 1) \div 2 \in 1 .. n
         /\ \/ 2 - (k % 2) = 2
            \/ 2 - (k % 2) = 1 /\ k + 1 \in 1 .. 2 * n /\ ((k + 1) + 1) \div 2 = (k + 1) \div 2
               /\ 2 - ((k + 1) % 2) = 2
  OBVIOUS

\* The statements of a turn save the views of a set of objects.
LEMMA SavesSave ==
  ASSUME NEW S \in SUBSET Ids, NEW t \in Turns, NEW view \in [Ids -> Row]
  PROVE  SavedBy(Saves(S, t, view), S, t, view)
<1> DEFINE n == Cardinality(S)
           s == Saves(S, t, view)
<1>1. n \in Nat
  BY SetOfIds
<1>2. /\ \A k \in 1 .. n : Nth(S, k) \in S
      /\ \A o \in S : Place(S, o) \in 1 .. n /\ Nth(S, Place(S, o)) = o
  BY NthProperties
<1>3. \A o : SaveObjectView(o, t, view[o])[1] = Delete(o, t) /\ SaveObjectView(o, t, view[o])[2] = Insert(o, t, view[o])
  BY DEF SaveObjectView, Delete, Insert
<1>4. \A o \in S : Delete(o, t) \in Statement /\ Insert(o, t, view[o]) \in Statement
  BY DEF Delete, Insert, Statement, Row
<1>5. s = [k \in 1 .. 2 * n |-> SaveObjectView(Nth(S, (k + 1) \div 2), t, view[Nth(S, (k + 1) \div 2)])[2 - (k % 2)]]
  BY DEF Saves
<1> HIDE DEF s, n
<1>6. ASSUME NEW k \in 1 .. 2 * n
      PROVE  \E o \in S :
               \/ s[k] = Insert(o, t, view[o])
               \/ s[k] = Delete(o, t) /\ k + 1 \in 1 .. 2 * n /\ s[k + 1] = Insert(o, t, view[o])
  <2> DEFINE o == Nth(S, (k + 1) \div 2)
  <2>1. o \in S
    BY <1>1, <1>2, Halves
  <2>2. s[k] = SaveObjectView(o, t, view[o])[2 - (k % 2)]
    BY <1>5
  <2>3. CASE 2 - (k % 2) = 2
    BY <1>3, <2>1, <2>2, <2>3
  <2>4. CASE 2 - (k % 2) = 1 /\ k + 1 \in 1 .. 2 * n /\ ((k + 1) + 1) \div 2 = (k + 1) \div 2
             /\ 2 - ((k + 1) % 2) = 2
    <3>1. s[k + 1] = SaveObjectView(Nth(S, ((k + 1) + 1) \div 2), t, view[Nth(S, ((k + 1) + 1) \div 2)])[2 - ((k + 1) % 2)]
      BY <1>5, <2>4
    <3>2. s[k + 1] = SaveObjectView(o, t, view[o])[2]
      BY <2>4, <3>1
    <3>3. s[k] = Delete(o, t) /\ s[k + 1] = Insert(o, t, view[o])
      BY <1>3, <2>2, <2>4, <3>2
    <3>4. QED BY <2>1, <2>4, <3>3
  <2>5. QED BY <1>1, <2>3, <2>4, Halves
<1>7. DOMAIN s = 1 .. 2 * n /\ 2 * n \in Nat
  BY <1>1, <1>5
<1>8. \A k \in 1 .. 2 * n : s[k] \in Statement
  BY <1>4, <1>6
<1>9. s \in Seq(Statement) /\ Len(s) = 2 * n
  <2>1. s = [k \in 1 .. 2 * n |-> s[k]]
    BY <1>5
  <2>2. s \in [1 .. 2 * n -> Statement]
    BY <1>8, <2>1
  <2>3. QED BY <1>7, <2>2
<1>10. ASSUME NEW o \in S PROVE \E k \in 1 .. 2 * n : s[k].id = o
  <2> DEFINE p == Place(S, o)
  <2>1. p \in 1 .. n /\ Nth(S, p) = o
    BY <1>2
  <2> HIDE DEF p
  <2>2. 2 * p \in 1 .. 2 * n /\ (2 * p + 1) \div 2 = p /\ 2 - ((2 * p) % 2) = 2
    BY <1>1, <2>1
  <2>3. s[2 * p] = SaveObjectView(o, t, view[o])[2]
    BY <1>5, <2>1, <2>2
  <2>4. s[2 * p] = Insert(o, t, view[o])
    BY <1>3, <2>3
  <2>5. s[2 * p].id = o
    BY <2>4 DEF Insert
  <2>6. QED BY <2>2, <2>5
<1>11. QED BY <1>6, <1>9, <1>10 DEF SavedBy, s

\* Those of two sets, one after the other, save both.
LEMMA SavedByBoth ==
  ASSUME NEW t, NEW view, NEW S, NEW R, NEW s, NEW r, SavedBy(s, S, t, view), SavedBy(r, R, t, view)
  PROVE  SavedBy(s \o r, S \union R, t, view)
<1> DEFINE u == s \o r
<1>1. s \in Seq(Statement) /\ r \in Seq(Statement)
  BY DEF SavedBy
<1>2. /\ u \in Seq(Statement) /\ Len(s) \in Nat /\ Len(r) \in Nat /\ Len(u) = Len(s) + Len(r)
      /\ \A k \in 1 .. Len(u) : u[k] = IF k <= Len(s) THEN s[k] ELSE r[k - Len(s)]
  BY <1>1
<1> HIDE DEF u
<1>3. ASSUME NEW k \in 1 .. Len(u)
      PROVE  \E o \in S \union R :
               \/ u[k] = Insert(o, t, view[o])
               \/ u[k] = Delete(o, t) /\ k + 1 \in 1 .. Len(u) /\ u[k + 1] = Insert(o, t, view[o])
  <2>1. CASE k <= Len(s)
    <3>1. k \in 1 .. Len(s) /\ u[k] = s[k]
      BY <1>2, <2>1
    <3>2. PICK o \in S : \/ s[k] = Insert(o, t, view[o])
                         \/ s[k] = Delete(o, t) /\ k + 1 \in 1 .. Len(s) /\ s[k + 1] = Insert(o, t, view[o])
      BY <3>1 DEF SavedBy
    <3>3. k + 1 \in 1 .. Len(s) => k + 1 \in 1 .. Len(u) /\ u[k + 1] = s[k + 1]
      BY <1>2
    <3>4. QED BY <3>1, <3>2, <3>3
  <2>2. CASE ~ (k <= Len(s))
    <3> DEFINE j == k - Len(s)
    <3>1. j \in 1 .. Len(r) /\ u[k] = r[j]
      BY <1>2, <2>2
    <3>2. PICK o \in R : \/ r[j] = Insert(o, t, view[o])
                         \/ r[j] = Delete(o, t) /\ j + 1 \in 1 .. Len(r) /\ r[j + 1] = Insert(o, t, view[o])
      BY <3>1 DEF SavedBy
    <3>3. j + 1 \in 1 .. Len(r) => k + 1 \in 1 .. Len(u) /\ u[k + 1] = r[j + 1]
      <4>1. ASSUME j + 1 \in 1 .. Len(r)
            PROVE  k + 1 \in 1 .. Len(u) /\ ~ (k + 1 <= Len(s)) /\ (k + 1) - Len(s) = j + 1
        BY <1>2, <2>2, <4>1
      <4>2. QED BY <1>2, <4>1
    <3> HIDE DEF j
    <3>4. QED BY <3>1, <3>2, <3>3
  <2>3. QED BY <2>1, <2>2
<1>4. ASSUME NEW o \in S \union R PROVE \E k \in 1 .. Len(u) : u[k].id = o
  <2>1. CASE o \in S
    <3>1. PICK k \in 1 .. Len(s) : s[k].id = o
      BY <2>1 DEF SavedBy
    <3>2. k \in 1 .. Len(u) /\ u[k] = s[k]
      BY <1>2
    <3>3. QED BY <3>1, <3>2
  <2>2. CASE o \in R
    <3>1. PICK k \in 1 .. Len(r) : r[k].id = o
      BY <2>2 DEF SavedBy
    <3>2. k + Len(s) \in 1 .. Len(u) /\ ~ (k + Len(s) <= Len(s)) /\ (k + Len(s)) - Len(s) = k
      BY <1>2
    <3>3. u[k + Len(s)] = r[k]
      BY <1>2, <3>2
    <3>4. QED BY <3>1, <3>2, <3>3
  <2>3. QED BY <2>1, <2>2
<1>5. QED BY <1>2, <1>3, <1>4 DEF SavedBy, u

-----------------------------------------------------------------------------
(* The end of turn *)

\* Objects change, and the views with them.
LEMMA StartTurnKeeps ==
  ASSUME IInv, NEW fate \in [Ids -> Fates], StartTurn(fate)
  PROVE  IInv'
<1> DEFINE t == turn + 1
           obs == [o \in Ids |-> CASE fate[o] = "same" -> objects[o]
                                   [] fate[o] = "dies" -> [objects[o] EXCEPT !.alive = FALSE]
                                   [] OTHER -> [alive |-> TRUE, mod |-> now]]
           vis == {o \in Ids : obs[o] # None /\ obs[o].alive}
           new == {o \in vis : ViewAt(o, t) = None}
           updated == {o \in vis \ new : obs[o].mod > ViewAt(o, t).mod}
           gone == {o \in visible \ vis : ~ViewAt(o, t).gone}
           view == [o \in Ids |->
                      IF o \in new THEN [gone |-> FALSE, mod |-> now]
                      ELSE IF o \in updated THEN [ViewAt(o, t) EXCEPT !.mod = obs[o].mod]
                      ELSE IF o \in gone THEN Gone(ViewAt(o, t))
                      ELSE ViewAt(o, t)]
           saved == (new \union updated) \union gone
<1>1. Typing /\ Phases /\ Statements /\ Rows /\ Views /\ Lists
  BY DEF IInv
<1>2. /\ phase = "idle" /\ todo = <<>> /\ turn < MaxTurn
      /\ \A o \in Ids : CASE fate[o] = "same" -> TRUE
                          [] fate[o] = "is made" -> ~Exists(o)
                          [] OTHER -> Alive(o)
      /\ phase' = "turn" /\ turn' = t
      /\ objects' = obs
      /\ visible' = visible \union new
      /\ cache' = view
      /\ seq' = seq + Cardinality(new)
      /\ todo' = Saves(new \union updated, t, view) \o Saves(gone, t, view)
      /\ late' = late \union {o \in updated : obs[o].mod # now}
      /\ back' = back \union {o \in Ids : rows[o][t] # None
                                 /\ (cache[o] = None \/ o \notin new \union updated \union gone)}
      /\ UNCHANGED <<now, before, rows, info, modlist, session, heard, torn, joined>>
  BY DEF StartTurn, Free, Saves
<1>3. turn = info /\ objects = before /\ t = info + 1 /\ t \in Turns /\ info \in Turns /\ t - 1 = info /\ now \in Time
  <2>1. turn = info /\ objects = before /\ info \in Turns /\ now \in Time
    BY <1>1, <1>2 DEF Phases, Typing
  <2>2. turn \in Nat /\ MaxTurn \in Nat /\ turn < MaxTurn /\ info \in Nat
    BY <1>2, <2>1, IdsAndTurns
  <2>3. t \in Nat /\ t <= MaxTurn /\ t = info + 1 /\ t - 1 = info
    BY <2>1, <2>2
  <2>4. QED BY <2>1, <2>3 DEF Turns
<1> DEFINE at(o) == ViewAt(o, t)
<1>4. \A o \in Ids : at(o) = IF o \notin visible THEN None
                             ELSE IF cache[o] # None THEN cache[o] ELSE NewestOf(rows[o], t)
  BY DEF ViewAt, Newest, NewestOf
<1>5. \A o \in Ids : /\ obs[o] = CASE fate[o] = "same" -> objects[o]
                                  [] fate[o] = "dies" -> [objects[o] EXCEPT !.alive = FALSE]
                                  [] OTHER -> [alive |-> TRUE, mod |-> now]
                     /\ view[o] = IF o \in new THEN [gone |-> FALSE, mod |-> now]
                                  ELSE IF o \in updated THEN [at(o) EXCEPT !.mod = obs[o].mod]
                                  ELSE IF o \in gone THEN Gone(at(o)) ELSE at(o)
  OBVIOUS
<1>6. /\ \A o \in Ids : o \in vis <=> obs[o] # None /\ obs[o].alive
      /\ \A o \in Ids : o \in new <=> o \in vis /\ at(o) = None
      /\ \A o \in Ids : o \in updated <=> o \in vis /\ o \notin new /\ obs[o].mod > at(o).mod
      /\ \A o \in Ids : o \in gone <=> o \in visible /\ o \notin vis /\ ~ at(o).gone
      /\ vis \subseteq Ids /\ new \subseteq Ids /\ updated \subseteq Ids /\ gone \subseteq Ids
  BY <1>1 DEF Typing
<1>7. obs \in [Ids -> Object \union {None}] /\ view = [o \in Ids |-> view[o]]
  <2>1. ASSUME NEW o \in Ids PROVE obs[o] \in Object \union {None}
    <3>1. objects[o] \in Object \union {None} /\ fate[o] \in Fates
      BY <1>1 DEF Typing
    <3>2. CASE fate[o] = "same"
      BY <3>1, <3>2
    <3>3. CASE fate[o] = "dies"
      <4>1. objects[o] # None
        BY <1>2, <3>3 DEF Alive
      <4>2. [objects[o] EXCEPT !.alive = FALSE] \in Object
        BY <3>1, <4>1 DEF Object
      <4>3. QED BY <3>3, <4>2
    <3>4. CASE fate[o] # "same" /\ fate[o] # "dies"
      BY <1>3, <3>4, MakeObject
    <3>5. QED BY <3>2, <3>3, <3>4
  <2>2. obs = [o \in Ids |-> obs[o]] /\ view = [o \in Ids |-> view[o]]
    OBVIOUS
  <2> HIDE DEF obs, view
  <2>3. QED BY <2>1, <2>2
<1>8. \A o \in Ids : obs[o] = None => objects[o] = None
  <2>1. ASSUME NEW o \in Ids, objects[o] # None PROVE obs[o] # None
    <3>1. objects[o] \in Object /\ fate[o] \in Fates
      BY <1>1, <2>1 DEF Typing
    <3>2. CASE fate[o] = "same"
      BY <2>1, <3>2
    <3>3. CASE fate[o] = "dies"
      <4>1. [objects[o] EXCEPT !.alive = FALSE] \in Object
        BY <3>1 DEF Object
      <4>2. QED BY <3>3, <4>1, NotMissing
    <3>4. CASE fate[o] # "same" /\ fate[o] # "dies"
      BY <1>3, <3>4, MakeObject
    <3>5. QED BY <3>2, <3>3, <3>4
  <2>2. QED BY <2>1
<1>9. \A o \in Ids : o \in vis => Alive(o) \/ objects[o] = None
  <2>1. ASSUME NEW o \in Ids, o \in vis, objects[o] # None PROVE Alive(o)
    <3>1. objects[o] \in Object /\ fate[o] \in Fates
      BY <1>1, <2>1 DEF Typing
    <3>2. CASE fate[o] = "same"
      BY <2>1, <3>2 DEF Alive
    <3>3. CASE fate[o] = "is made"
      BY <1>2, <2>1, <3>3 DEF Exists
    <3>4. CASE fate[o] # "same" /\ fate[o] # "is made"
      BY <1>2, <3>4
    <3>5. QED BY <3>2, <3>3, <3>4
  <2>2. QED BY <2>1
<1> HIDE DEF obs, vis, new, updated, gone, view, at, t
<1>10. ASSUME NEW o \in Ids PROVE at(o) \in Row /\ (o \in visible <=> at(o) # None)
  <2>1. rows[o] \in [Turns -> Row] /\ cache[o] \in Row
    BY <1>1 DEF Typing
  <2>2. NewestOf(rows[o], t) \in Row
    BY <1>3, <2>1, NewestProperties
  <2>3. at(o) \in Row
    BY <1>4, <2>1, <2>2 DEF Row
  <2>4. ASSUME o \in visible, cache[o] = None PROVE NewestOf(rows[o], t) # None
    <3>1. PICK u \in Turns : rows[o][u] # None
      BY <1>1, <1>2, <2>4 DEF Rows, HasRow
    <3>2. u <= t
      <4>1. ~ (u > info + 1)
        BY <1>1, <3>1 DEF Rows
      <4>2. u \in Nat /\ t \in Nat /\ info \in Nat
        BY <1>3, IdsAndTurns
      <4>3. QED BY <1>3, <4>1, <4>2
    <3>3. QED BY <1>3, <2>1, <3>1, <3>2, NewestProperties
  <2>5. QED BY <1>4, <2>3, <2>4
<1>11. ASSUME NEW o \in Ids
       PROVE  /\ o \in new <=> o \in vis /\ o \notin visible
              /\ o \in updated => o \in visible
              /\ o \in saved => o \in visible'
              /\ o \in visible' => view[o] \in View /\ view[o] # None
              /\ o \notin visible' => view[o] = None
              /\ o \in vis => o \in visible'
              /\ view[o] \in Row
  <2>1. (o \in new <=> o \in vis /\ o \notin visible) /\ (o \in updated => o \in visible) /\ (o \in gone => o \in visible)
    BY <1>6, <1>10
  <2>2. ASSUME o \in visible' PROVE view[o] \in View
    <3>1. CASE o \in new
      <4>1. [gone |-> FALSE, mod |-> now] \in View
        BY <1>3, MakeView
      <4>2. QED BY <1>5, <3>1, <4>1
    <3>2. CASE o \notin new
      <4>1. o \in visible /\ at(o) \in View
        BY <1>2, <1>10, <2>2, <3>2 DEF Row
      <4>2. CASE o \in updated
        <5>1. obs[o] \in Object
          BY <1>6, <1>7, <4>2
        <5>2. obs[o].mod \in Time
          BY <5>1 DEF Object
        <5>3. [at(o) EXCEPT !.mod = obs[o].mod] \in View
          BY <4>1, <5>2, ChangeView
        <5>4. QED BY <1>5, <3>2, <4>2, <5>3
      <4>3. CASE o \notin updated /\ o \in gone
        <5>1. Gone(at(o)) \in View
          BY <1>3, <4>1, MakeView DEF Gone
        <5>2. QED BY <1>5, <3>2, <4>3, <5>1
      <4>4. CASE o \notin updated /\ o \notin gone
        BY <1>5, <3>2, <4>1, <4>4
      <4>5. QED BY <4>2, <4>3, <4>4
    <3>3. QED BY <3>1, <3>2
  <2>3. ASSUME o \notin visible' PROVE view[o] = None
    BY <1>2, <1>5, <1>10, <2>1, <2>3
  <2>4. (o \in saved => o \in visible') /\ (o \in vis => o \in visible')
    BY <1>2, <2>1
  <2>5. QED BY <2>1, <2>2, <2>3, <2>4, NotMissing DEF Row
<1>12. view \in [Ids -> Row]
  BY <1>7, <1>11
<1>13. SavedBy(todo', saved, t, view)
  <2>1. new \union updated \in SUBSET Ids /\ gone \in SUBSET Ids
    BY <1>6
  <2>2. SavedBy(Saves(new \union updated, t, view), new \union updated, t, view)
    BY <1>3, <1>12, <2>1, SavesSave
  <2>3. SavedBy(Saves(gone, t, view), gone, t, view)
    BY <1>3, <1>12, <2>1, SavesSave
  <2>4. QED BY <1>2, <2>2, <2>3, SavedByBoth
<1>14. saved \subseteq Ids
  BY <1>6
<1> HIDE DEF saved
<1>15. Typing'
  <2>1. visible' \subseteq Ids /\ seq' \in Nat
    <3>1. Cardinality(new) \in Nat
      BY <1>6, SetOfIds
    <3>2. seq \in Nat /\ seq' = seq + Cardinality(new) /\ visible \subseteq Ids /\ visible' = visible \union new
      BY <1>1, <1>2 DEF Typing
    <3>3. visible' \subseteq Ids
      BY <1>6, <3>2
    <3>4. seq' \in Nat
      BY <3>1, <3>2
    <3>5. QED BY <3>3, <3>4
  <2>2. todo' \in Seq(Statement)
    BY <1>13 DEF SavedBy
  <2>3. QED BY <1>1, <1>2, <1>3, <1>7, <1>12, <2>1, <2>2 DEF Typing
<1>16. Phases'
  BY <1>2, <1>3 DEF Phases
<1>17. \A o \in Ids : Pending(o)' <=> o \in saved
  <2>1. ASSUME NEW o \in Ids, o \in saved PROVE Pending(o)'
    BY <1>13, <2>1 DEF SavedBy, Pending
  <2>2. ASSUME NEW o \in Ids, Pending(o)' PROVE o \in saved
    <3>1. PICK k \in 1 .. Len(todo') : todo'[k].id = o
      BY <2>2 DEF Pending
    <3>2. PICK p \in saved : todo'[k] = Insert(p, t, view[p]) \/ todo'[k] = Delete(p, t)
      BY <1>13 DEF SavedBy
    <3>3. todo'[k].id = p
      BY <3>2 DEF Insert, Delete
    <3>4. QED BY <3>1, <3>2, <3>3
  <2>3. QED BY <2>1, <2>2
<1>18. Statements'
  <2>1. ASSUME NEW k \in 1 .. Len(todo') PROVE Written(k)'
    <3>1. PICK o \in saved :
            \/ todo'[k] = Insert(o, t, view[o])
            \/ todo'[k] = Delete(o, t) /\ k + 1 \in 1 .. Len(todo') /\ todo'[k + 1] = Insert(o, t, view[o])
      BY <1>13 DEF SavedBy
    <3>2. o \in visible' /\ view[o] # None /\ o \in Ids
      BY <1>11, <1>14
    <3>3. cache'[o] = view[o] /\ turn' = t
      BY <1>2
    <3>4. CASE todo'[k] = Insert(o, t, view[o])
      <4>1. todo'[k].id = o /\ todo'[k].turn = t /\ todo'[k].row = view[o]
        BY <3>4 DEF Insert
      <4>2. QED BY <3>2, <3>3, <4>1 DEF Written
    <3>5. CASE todo'[k] = Delete(o, t) /\ k + 1 \in 1 .. Len(todo') /\ todo'[k + 1] = Insert(o, t, view[o])
      <4>1. todo'[k].id = o /\ todo'[k].turn = t /\ todo'[k].row = None
        BY <3>5 DEF Delete
      <4>2. todo'[k + 1].id = o /\ todo'[k + 1].row = view[o]
        BY <3>5 DEF Insert
      <4>3. QED BY <3>2, <3>3, <3>5, <4>1, <4>2 DEF Written
    <3>6. QED BY <3>1, <3>4, <3>5
  <2>2. QED BY <2>1 DEF Statements
<1>19. Rows'
  <2>1. \A o \in visible' : cache'[o] # None
    BY <1>2, <1>11, <1>15 DEF Typing
  <2>2. QED BY <1>1, <1>2, <2>1 DEF Rows, HasRow
<1>20. \A o \in Ids : ViewOf(o)' = view[o]
  BY <1>2, <1>11, NewestsHoldNext DEF Newests
<1>21. ASSUME NEW o \in Ids \ (back' \union torn) PROVE AsStored(o)' /\ Lives(o)' /\ Unseen(o)' /\ Hears(o)'
  <2>1. AsStored(o) /\ Lives(o) /\ Unseen(o) /\ Hears(o) /\ ~ Pending(o) /\ Settled(o)
    BY <1>1, <1>2, NothingPending DEF Views
  <2>2. rows[o][t] = None \/ (cache[o] # None /\ o \in saved)
    BY <1>2 DEF saved
  <2>3. rows[o] \in [Turns -> Row]
    BY <1>1 DEF Typing
  <2>4. rows[o][t] = None => NewestOf(rows[o], t) = NewestOf(rows[o], turn)
    <3>1. t - 1 \in Turns /\ t - 1 = turn
      BY <1>3
    <3>2. QED BY <1>3, <2>3, <3>1, NewestProperties
  <2>5. at(o) = ViewOf(o)
    BY <1>4, <2>2, <2>4, NewestsHold DEF Newests
  <2>6. Base(o)' = Base(o) /\ Settled(o)'
    BY <1>2, NewestsHold, NewestsHoldNext DEF Newests, Settled
  <2>7. Newest(o, turn) = ViewOf(o)
    BY <1>1, <1>2, <2>1, SeenAsStored
  <2>8. AsStored(o)'
    <3>1. ASSUME o \notin saved PROVE Newest(o, turn)' = view[o]
      <4>1. NewestOf(rows[o], t) = Newest(o, turn)
        BY <2>2, <2>4, <3>1, NewestsHold DEF Newests
      <4>2. Newest(o, turn)' = NewestOf(rows[o], t)
        BY <1>2, NewestsHoldNext DEF Newests
      <4>3. view[o] = at(o)
        BY <1>5, <3>1 DEF saved
      <4>4. QED BY <2>5, <2>7, <4>1, <4>2, <4>3
    <3>2. QED BY <1>2, <1>17, <3>1 DEF AsStored
  <2>9. (Alive(o)' <=> o \in vis) /\ (WasAlive(o)' <=> WasAlive(o))
    BY <1>2, <1>6 DEF Alive, WasAlive
  <2>10. o \in vis <=> Shown(view[o])
    <3>1. CASE o \in new
      <4>1. view[o] = [gone |-> FALSE, mod |-> now] /\ view[o] # None
        BY <1>5, <1>6, <1>11, <3>1
      <4>2. QED BY <1>6, <3>1, <4>1 DEF Shown
    <3>2. CASE o \in vis /\ o \notin new
      <4>1. at(o) # None /\ o \notin gone
        BY <1>6, <3>2
      <4>2. ~ (o \in joined \/ before[o] = None)
        BY <1>2, <2>1, <2>5, <4>1 DEF Unseen
      <4>3. Alive(o)
        BY <1>3, <1>9, <3>2, <4>2
      <4>4. ~ at(o).gone
        BY <1>2, <2>1, <2>5, <4>2, <4>3 DEF Lives, Shown
      <4>5. view[o].gone = at(o).gone /\ view[o] # None
        <5>1. CASE o \in updated
          <6>1. at(o) \in View
            BY <1>10, <4>1 DEF Row
          <6>2. obs[o] \in Object
            BY <1>6, <1>7, <5>1
          <6>3. obs[o].mod \in Time
            BY <6>2 DEF Object
          <6>4. view[o] = [at(o) EXCEPT !.mod = obs[o].mod] /\ view[o] # None
            BY <1>5, <1>11, <3>2, <5>1
          <6>5. QED BY <6>1, <6>3, <6>4, ChangeView
        <5>2. CASE o \notin updated
          BY <1>5, <3>2, <4>1, <5>2
        <5>3. QED BY <5>1, <5>2
      <4>6. QED BY <3>2, <4>4, <4>5 DEF Shown
    <3>3. CASE o \notin vis /\ o \in visible
      <4>1. o \notin new /\ o \notin updated
        BY <1>6, <3>3
      <4>2. CASE o \in gone
        <5>1. view[o] = [gone |-> TRUE, mod |-> now]
          BY <1>5, <1>6, <4>1, <4>2 DEF Gone
        <5>2. QED BY <3>3, <5>1 DEF Shown
      <4>3. CASE o \notin gone
        BY <1>5, <1>6, <3>3, <4>1, <4>3 DEF Shown
      <4>4. QED BY <4>2, <4>3
    <3>4. CASE o \notin vis /\ o \notin visible
      <4>1. o \notin visible'
        BY <1>2, <1>6, <3>4
      <4>2. QED BY <1>11, <3>4, <4>1 DEF Shown
    <3>5. QED BY <3>1, <3>2, <3>3, <3>4
  <2>11. Lives(o)'
    BY <1>2, <1>20, <2>1, <2>6, <2>9, <2>10 DEF Lives
  <2>12. Unseen(o)'
    <3>1. ASSUME objects'[o] = None PROVE ViewOf(o)' = None
      <4>1. objects[o] = None /\ o \notin vis
        BY <1>2, <1>6, <1>8, <3>1
      <4>2. at(o) = None
        BY <1>2, <1>3, <2>1, <2>5, <4>1 DEF Unseen
      <4>3. o \notin visible'
        BY <1>2, <1>6, <1>10, <4>1, <4>2
      <4>4. QED BY <1>11, <1>20, <4>3
    <3>2. QED BY <1>2, <2>1, <2>6, <3>1 DEF Unseen
  <2>13. Hears(o)'
    <3>1. SUFFICES ASSUME heard # None, o \notin late' PROVE Told(o, ViewOf(o))' /\ Told(o, Base(o))'
      BY <1>2 DEF Hears
    <3>2. o \notin late /\ Told(o, ViewOf(o)) /\ Told(o, Base(o))
      BY <1>2, <2>1, <3>1 DEF Hears
    <3>3. Told(o, Base(o))'
      BY <1>2, <2>6, <3>2 DEF Told
    <3>4. now >= heard.at
      <4>1. heard.at \in Nat /\ now \in Nat /\ heard.at <= now
        BY <1>1, <1>3, <3>1, IdsAndTurns DEF Views
      <4>2. QED BY <4>1
    <3>5. view[o] = ViewOf(o) \/ view[o].mod = now
      <4>1. CASE o \in new
        <5>1. view[o] = [gone |-> FALSE, mod |-> now]
          BY <1>5, <4>1
        <5>2. QED BY <5>1
      <4>2. CASE o \in updated
        <5>1. obs[o].mod = now
          BY <1>2, <3>1, <4>2
        <5>2. at(o) \in View
          <6>1. at(o) # None
            BY <1>6, <4>2
          <6>2. QED BY <1>10, <6>1 DEF Row
        <5>3. view[o] = [at(o) EXCEPT !.mod = now]
          BY <1>5, <1>6, <4>2, <5>1
        <5>4. QED BY <1>3, <5>2, <5>3, ChangeView
      <4>3. CASE o \notin new /\ o \notin updated /\ o \in gone
        <5>1. view[o] = [gone |-> TRUE, mod |-> now]
          BY <1>5, <1>6, <4>3 DEF Gone
        <5>2. QED BY <5>1
      <4>4. CASE o \notin new /\ o \notin updated /\ o \notin gone
        BY <1>5, <2>5, <4>4
      <4>5. QED BY <4>1, <4>2, <4>3, <4>4
    <3>6. Told(o, ViewOf(o))'
      <4>1. CASE view[o] = ViewOf(o)
        BY <1>2, <1>20, <3>2, <4>1 DEF Told
      <4>2. CASE view[o].mod = now
        <5>1. ViewOf(o)' = view[o] /\ heard' = heard /\ view[o].mod >= heard.at
          BY <1>2, <1>20, <3>4, <4>2
        <5>2. ViewOf(o)'.mod >= heard'.at
          BY <5>1
        <5>3. QED BY <5>2 DEF Told
      <4>3. QED BY <3>5, <4>1, <4>2
    <3>7. QED BY <3>3, <3>6
  <2>14. QED BY <2>8, <2>11, <2>12, <2>13
<1>22. Views'
  BY <1>1, <1>2, <1>21 DEF Views
<1>23. Lists'
  BY <1>1, <1>2, ListsStay
<1>24. QED BY <1>15, <1>16, <1>18, <1>19, <1>22, <1>23 DEF IInv

-----------------------------------------------------------------------------
(* Lists of ids, page by page *)

\* What a session has to have been given of a list when it goes on with it.
Begun(progress, list) ==
  ~ progress.disturbed =>
    /\ progress.all = InList(list)
    /\ Cardinality(progress.got) <= Cardinality(progress.all)
    /\ progress.got = FirstOf(progress.all, Cardinality(progress.got))

IsList(list) == list \in [Ids -> Time \union {None}]

\* The other sessions have the same list as before, or were disturbed.
LEMMA DisturbedKeeps ==
  ASSUME Typing, Lists, NEW s \in Sessions, NEW list, modlist' = list, NEW r \in Sessions, r # s,
         session'[r] = Disturbed(s, list)[r]
  PROVE  session'[r] \in Progress \union {None} /\ Reads(r)'
<1>1. session[r] \in Progress \union {None}
  BY DEF Typing
<1>2. session'[r] = IF list = modlist \/ session[r] = None THEN session[r]
                    ELSE [session[r] EXCEPT !.disturbed = TRUE]
  BY DEF Disturbed
<1>3. CASE list = modlist \/ session[r] = None
  <2>1. session'[r] = session[r] /\ Reads(r)
    BY <1>2, <1>3 DEF Lists
  <2>2. CASE session[r] = None
    BY <1>1, <2>1, <2>2 DEF Reads
  <2>3. CASE list = modlist
    BY <1>1, <2>1, <2>3 DEF Reads, InList, FirstOf, Place, Ids
  <2>4. QED BY <1>3, <2>2, <2>3
<1>4. CASE ~ (list = modlist \/ session[r] = None)
  <2>1. session[r] \in Progress /\ session'[r] = [session[r] EXCEPT !.disturbed = TRUE]
    BY <1>1, <1>2, <1>4
  <2>2. session'[r] \in Progress /\ session'[r].disturbed
    BY <2>1 DEF Progress
  <2>3. QED BY <2>2 DEF Reads
<1>5. QED BY <1>3, <1>4

\* A page is no longer than what is left of the list.
LEMMA PageSizeIs ==
  ASSUME NEW list, NEW start \in Nat, NEW n \in Nat, start <= Cardinality(InList(list))
  PROVE  /\ Cardinality(InList(list)) \in 0 .. MaxId + 1
         /\ PageSize(list, start, n) \in 0 .. Cardinality(InList(list)) - start
<1> DEFINE c == Cardinality(InList(list))
<1>1. c \in 0 .. MaxId + 1
  <2>1. InList(list) \in SUBSET Ids
    BY DEF InList
  <2>2. QED BY <2>1, SetOfIds
<1> HIDE DEF c
<1>2. c \in Nat /\ MaxId \in Nat
  BY <1>1, IdsAndTurns
<1> DEFINE m == c - start
<1>3. m \in Nat
  BY <1>2 DEF c
<1>4. PageSize(list, start, n) = Min({n, m})
  BY DEF PageSize, c
<1> HIDE DEF m
<1>5. Min({n, m}) \in {n, m} /\ Min({n, m}) <= n /\ Min({n, m}) <= m
  <2>1. \E x \in {n, m} : \A y \in {n, m} : x <= y
    BY <1>3
  <2>2. Min({n, m}) \in {n, m} /\ \A y \in {n, m} : Min({n, m}) <= y
    BY <2>1 DEF Min
  <2>3. QED BY <2>2
<1>6. PageSize(list, start, n) \in Nat /\ PageSize(list, start, n) <= m
  BY <1>3, <1>4, <1>5
<1>7. QED BY <1>1, <1>3, <1>6 DEF c, m

\* A page goes on where the one before ended.
LEMMA PageGoesOn ==
  ASSUME NEW list, NEW start \in Nat, NEW some \in Nat, start + some <= Cardinality(InList(list))
  PROVE  FirstOf(InList(list), start) \union Page(list, start, some) = FirstOf(InList(list), start + some)
<1> DEFINE L == InList(list)
<1>1. ASSUME NEW o \in L PROVE Place(L, o) \in Nat
  <2>1. L \in SUBSET Ids
    BY DEF InList
  <2>2. Place(L, o) \in 1 .. Cardinality(L)
    <3> HIDE DEF L
    <3>1. QED BY <1>1, <2>1, PlaceProperties
  <2>3. Cardinality(L) \in Nat
    <3> HIDE DEF L
    <3>1. QED BY <2>1, SetOfIds
  <2>4. QED BY <2>2, <2>3
<1>2. Page(list, start, some) = {o \in L : Place(L, o) \in start + 1 .. start + some}
  BY DEF Page
<1> HIDE DEF L
<1>3. ASSUME NEW o \in L
      PROVE  Place(L, o) \in 1 .. start + some <=> Place(L, o) \in 1 .. start \/ Place(L, o) \in start + 1 .. start + some
  <2> DEFINE p == Place(L, o)
  <2>1. p \in Nat
    BY <1>1
  <2> HIDE DEF p
  <2>2. p \in 1 .. start + some <=> p \in 1 .. start \/ p \in start + 1 .. start + some
    BY <2>1
  <2>3. QED BY <2>2 DEF p
<1>4. FirstOf(L, start) \union Page(list, start, some) = FirstOf(L, start + some)
  BY <1>2, <1>3 DEF FirstOf
<1>5. QED BY <1>4 DEF L

\* A page that is sent or refused: the session has the first of the list, or begins again.
LEMMA AnswerKeeps ==
  ASSUME Typing, Lists, NEW s \in Sessions, NEW progress \in Progress, NEW list, NEW n \in Nat,
         Answer(s, progress, list, n), modlist' = list, Begun(progress, list)
  PROVE  session' \in [Sessions -> Progress \union {None}] /\ Lists'
<1> DEFINE start == Cardinality(progress.got)
           some == PageSize(list, start, n)
           c == Cardinality(InList(list))
           answer == IF start > c \/ some > MaxList THEN None
                     ELSE [progress EXCEPT !.got = @ \union Page(list, start, some), !.left = c - start - some]
<1>1. session' = [Disturbed(s, list) EXCEPT ![s] = answer]
  BY DEF Answer
<1>2. /\ DOMAIN session' = Sessions /\ session' = [r \in Sessions |-> session'[r]]
      /\ session'[s] = answer
      /\ \A r \in Sessions : r # s => session'[r] = Disturbed(s, list)[r]
  BY <1>1 DEF Disturbed
<1>3. ASSUME NEW r \in Sessions, r # s PROVE session'[r] \in Progress \union {None} /\ Reads(r)'
  BY <1>2, <1>3, DisturbedKeeps
<1>4. /\ progress.got \in SUBSET Ids /\ start \in Nat /\ c \in 0 .. MaxId + 1 /\ c \in Nat /\ MaxId \in Nat
      /\ InList(list) \in SUBSET Ids
  <2>1. progress.got \in SUBSET Ids /\ InList(list) \in SUBSET Ids
    BY DEF Progress, InList
  <2>2. QED BY <2>1, SetOfIds, IdsAndTurns
<1>5. ASSUME answer # None
      PROVE  /\ answer = [progress EXCEPT !.got = @ \union Page(list, start, some), !.left = c - start - some]
             /\ start <= c /\ some \in Nat /\ start + some <= c
             /\ c - start - some \in 0 .. MaxId + 1 /\ c - start - some = c - (start + some)
  <2>1. /\ answer = [progress EXCEPT !.got = @ \union Page(list, start, some), !.left = c - start - some]
        /\ ~ (start > c)
    BY <1>5
  <2>2. start <= c
    <3> HIDE DEF start, c
    <3>1. QED BY <1>4, <2>1
  <2>3. some \in 0 .. c - start
    BY <1>4, <2>2, PageSizeIs
  <2> HIDE DEF answer
  <2>4. some \in Nat /\ start + some <= c /\ c - start - some \in 0 .. MaxId + 1 /\ c - start - some = c - (start + some)
    <3> HIDE DEF start, c, some
    <3>1. QED BY <1>4, <2>2, <2>3
  <2>5. QED BY <2>1, <2>2, <2>4
<1> HIDE DEF answer, some, start, c
<1>6. ASSUME answer # None
      PROVE  /\ answer \in Progress /\ answer.disturbed = progress.disturbed /\ answer.all = progress.all
             /\ answer.got = progress.got \union Page(list, start, some) /\ answer.left = c - (start + some)
  <2>1. Page(list, start, some) \in SUBSET Ids
    BY DEF Page, InList
  <2>2. progress.got \union Page(list, start, some) \in SUBSET Ids
    BY <1>4, <2>1
  <2>3. QED BY <1>5, <1>6, <2>2 DEF Progress
<1>7. session'[s] \in Progress \union {None} /\ Reads(s)'
  <2>1. CASE answer = None
    BY <1>2, <2>1 DEF Reads
  <2>2. CASE answer # None
    <3>1. session'[s] = answer /\ answer \in Progress
      BY <1>2, <1>6, <2>2
    <3>2. CASE progress.disturbed
      <4>1. session'[s].disturbed
        BY <1>6, <2>2, <3>1, <3>2
      <4>2. QED BY <3>1, <4>1 DEF Reads
    <3>3. CASE ~ progress.disturbed
      <4>1. progress.all = InList(list) /\ progress.got = FirstOf(InList(list), start)
        BY <3>3 DEF Begun, start
      <4>2. answer.got = FirstOf(InList(list), start + some) /\ answer.all = InList(list)
        <5>1. some \in Nat /\ start + some <= Cardinality(InList(list))
          BY <1>5, <2>2 DEF c
        <5>2. FirstOf(InList(list), start) \union Page(list, start, some) = FirstOf(InList(list), start + some)
          BY <1>4, <5>1, PageGoesOn
        <5>3. QED BY <1>6, <2>2, <4>1, <5>2
      <4>3. Cardinality(answer.got) = start + some
        <5>1. start + some \in Nat /\ start + some <= Cardinality(InList(list))
          BY <1>4, <1>5, <2>2 DEF c
        <5>2. QED BY <1>4, <4>2, <5>1, FirstCount
      <4>4. /\ answer.all = InList(list) /\ Cardinality(answer.got) <= Cardinality(answer.all)
            /\ answer.got = FirstOf(answer.all, Cardinality(answer.got))
            /\ Cardinality(answer.got) + answer.left = Cardinality(answer.all)
        <5>1. Cardinality(answer.got) <= c /\ Cardinality(answer.got) + answer.left = c
          BY <1>4, <1>5, <1>6, <2>2, <4>3
        <5>2. QED BY <4>2, <4>3, <5>1 DEF c
      <4>5. InList(modlist)' = InList(list)
        BY DEF InList
      <4>6. QED BY <3>1, <4>4, <4>5 DEF Reads, FirstOf, Place
    <3>4. QED BY <3>1, <3>2, <3>3
  <2>3. QED BY <2>1, <2>2
<1>8. \A r \in Sessions : session'[r] \in Progress \union {None} /\ Reads(r)'
  BY <1>3, <1>7
<1>9. QED BY <1>2, <1>8 DEF Lists

LEMMA AskKeeps ==
  ASSUME IInv, NEW s \in Sessions, NEW from, NEW n \in Nat, Ask(s, from, n)
  PROVE  IInv'
<1> DEFINE progress == [seq |-> seq, all |-> Wanted(from), got |-> {}, left |-> 0, disturbed |-> FALSE]
           list == NewList(from)
<1>1. Typing /\ Phases /\ Statements /\ Rows /\ Views /\ Lists
  BY DEF IInv
<1>2. /\ phase = "idle" /\ todo = <<>> /\ Unreadable = {}
      /\ modlist' = list /\ Answer(s, progress, list, n)
      /\ cache' = [o \in Ids |-> IF o \in visible THEN ViewOf(o) ELSE cache[o]]
      /\ heard' = [at |-> now, views |-> [o \in Ids |-> ViewOf(o)]] /\ late' = {}
      /\ UNCHANGED <<now, objects, before, info, turn, rows, phase, visible, seq, todo, back, torn, joined>>
  BY DEF Ask, Free, world
<1>3. turn = info /\ visible \subseteq Ids /\ now \in Time /\ seq \in Nat
  BY <1>1, <1>2 DEF Phases, Typing
<1>4. \A o \in visible : ViewOf(o) \in View /\ ViewOf(o).mod \in Time /\ ViewOf(o).mod # None
  <2>1. \A o \in visible : ViewOf(o) # None
    BY <1>2 DEF Unreadable
  <2>2. \A o \in visible : ViewOf(o) \in View
    BY <1>1, <1>3, <2>1, RowTypes DEF Row
  <2>3. \A o \in visible : ViewOf(o).mod \in Time
    BY <2>2 DEF View
  <2>4. QED BY <2>2, <2>3, NotMissing
<1>5. Wanted(from) \subseteq visible
  BY DEF Wanted
<1>6. list \in [Ids -> Time \union {None}] /\ InList(list) = Wanted(from)
  <2>1. \A o \in Ids : list[o] = IF o \in Wanted(from) THEN ViewOf(o).mod ELSE None
    BY DEF NewList
  <2>2. list = [o \in Ids |-> list[o]]
    BY DEF NewList
  <2> HIDE DEF list
  <2>3. \A o \in Ids : list[o] \in Time \union {None} /\ (list[o] # None <=> o \in Wanted(from))
    BY <1>4, <1>5, <2>1
  <2>4. QED BY <1>3, <1>5, <2>2, <2>3 DEF InList
<1>7. progress \in Progress /\ Begun(progress, list)
  <2>1. 0 \in 0 .. MaxId + 1 /\ {} \in SUBSET Ids /\ Wanted(from) \in SUBSET Ids
    <3>1. MaxId \in Nat
      BY IdsAndTurns
    <3>2. 0 \in 0 .. MaxId + 1
      BY <3>1
    <3>3. QED BY <1>3, <1>5, <3>2
  <2>2. progress \in Progress
    BY <1>3, <2>1 DEF Progress
  <2>3. progress.all = InList(list) /\ progress.got = {}
    BY <1>6
  <2>4. Cardinality({}) = 0 /\ Cardinality(InList(list)) \in Nat
    <3>1. InList(list) \in SUBSET Ids
      BY <1>6, <2>1
    <3>2. QED BY <3>1, FS_EmptySet, SetOfIds
  <2>5. FirstOf(InList(list), 0) = {}
    BY DEF FirstOf
  <2> HIDE DEF list
  <2>6. QED BY <2>2, <2>3, <2>4, <2>5 DEF Begun
<1> HIDE DEF progress, list
<1>8. session' \in [Sessions -> Progress \union {None}] /\ Lists'
  BY <1>1, <1>2, <1>7, AnswerKeeps
<1>9. cache' \in [Ids -> Row] /\ \A o \in Ids : cache'[o] = IF o \in visible THEN ViewOf(o) ELSE cache[o]
  <2>1. \A o \in Ids : ViewOf(o) \in Row /\ cache[o] \in Row
    BY <1>1, RowTypes
  <2>2. QED BY <1>2, <2>1
<1>10. Typing'
  BY <1>1, <1>2, <1>6, <1>8, <1>9 DEF Typing
<1>11. Phases'
  BY <1>1, <1>2 DEF Phases
<1>12. Rows'
  <2>1. \A o \in visible : cache'[o] # None
    BY <1>3, <1>4, <1>9, NotMissing
  <2>2. QED BY <1>1, <1>2, <2>1 DEF Rows, HasRow
<1>13. heard'.at = now /\ heard'.views = [o \in Ids |-> ViewOf(o)]
  BY <1>2
<1>14. ASSUME NEW o \in Ids \ (back \union torn) PROVE AsStored(o)' /\ Lives(o)' /\ Unseen(o)' /\ Hears(o)'
  <2>1. AsStored(o) /\ Lives(o) /\ Unseen(o)
    BY <1>1 DEF Views
  <2>2. ~ Pending(o) /\ ~ Pending(o)' /\ Settled(o) /\ Settled(o)'
    BY <1>2, NothingPending, NothingPendingNext
  <2>3. ViewOf(o)' = ViewOf(o)
    BY <1>2, <1>4, <1>9, NotMissing, NewestsHold, NewestsHoldNext DEF Newests
  <2>4. Base(o)' = Base(o) /\ Newest(o, turn)' = Newest(o, turn)
    BY <1>2, NewestsHold, NewestsHoldNext DEF Newests
  <2>5. Newest(o, turn) = ViewOf(o) /\ Base(o) = ViewOf(o)
    <3>1. Newest(o, turn) = ViewOf(o)
      BY <1>1, <1>2, <2>1, <2>2, SeenAsStored
    <3>2. QED BY <1>3, <3>1 DEF Base
  <2>6. AsStored(o)'
    BY <1>2, <1>9, <2>4, <2>5 DEF AsStored
  <2>7. Lives(o)' /\ Unseen(o)'
    BY <1>2, <2>1, <2>2, <2>3, <2>4 DEF Lives, Unseen, Alive, WasAlive
  <2>8. heard'.views[o] = ViewOf(o)
    BY <1>13
  <2>9. Hears(o)'
    BY <2>3, <2>4, <2>5, <2>8 DEF Hears, Told
  <2>10. QED BY <2>6, <2>7, <2>9
<1>15. Views'
  <2>1. now \in Nat /\ now <= now
    BY <1>3, IdsAndTurns
  <2>2. heard'.at \in Time /\ heard'.at <= now'
    BY <1>2, <1>3, <1>13, <2>1
  <2>3. QED BY <1>2, <1>14, <2>2 DEF Views
<1>16. QED BY <1>2, <1>8, <1>10, <1>11, <1>12, <1>15, NothingPendingNext DEF IInv

LEMMA ContinueKeeps ==
  ASSUME IInv, NEW s \in Sessions, NEW n \in Nat, Continue(s, n)
  PROVE  IInv'
<1>1. Typing /\ Phases /\ Statements /\ Rows /\ Views /\ Lists
  BY DEF IInv
<1>2. /\ phase = "idle" /\ todo = <<>> /\ session[s] # None
      /\ UNCHANGED <<now, objects, before, info, turn, rows, phase, visible, cache, seq, todo,
                     heard, late, back, torn, joined>>
  BY DEF Continue, Free, world, history
<1>3. /\ session' \in [Sessions -> Progress \union {None}] /\ Lists'
      /\ modlist' \in [Ids -> Time \union {None}]
  <2>1. CASE session[s].seq # seq
    <3>1. modlist' = NoList /\ session' = [Disturbed(s, NoList) EXCEPT ![s] = None]
      BY <2>1 DEF Continue
    <3>2. /\ session' = [r \in Sessions |-> session'[r]] /\ session'[s] = None
          /\ \A r \in Sessions : r # s => session'[r] = Disturbed(s, NoList)[r]
      BY <3>1 DEF Disturbed
    <3>3. \A r \in Sessions : r # s => session'[r] \in Progress \union {None} /\ Reads(r)'
      BY <1>1, <3>1, <3>2, DisturbedKeeps
    <3>4. Reads(s)'
      BY <3>2 DEF Reads
    <3>5. modlist' \in [Ids -> Time \union {None}]
      BY <3>1 DEF NoList
    <3>6. session' \in [Sessions -> Progress \union {None}]
      BY <3>2, <3>3
    <3>7. QED BY <3>3, <3>4, <3>5, <3>6 DEF Lists
  <2>2. CASE session[s].seq = seq
    <3>1. Answer(s, session[s], modlist, n) /\ modlist' = modlist
      BY <2>2 DEF Continue
    <3>2. session[s] \in Progress /\ Reads(s)
      BY <1>1, <1>2 DEF Typing, Lists
    <3>3. Begun(session[s], modlist)
      BY <1>2, <3>2 DEF Begun, Reads
    <3>4. session' \in [Sessions -> Progress \union {None}] /\ Lists'
      BY <1>1, <3>1, <3>2, <3>3, AnswerKeeps
    <3>5. QED BY <1>1, <3>1, <3>4 DEF Typing
  <2>3. QED BY <2>1, <2>2
<1>4. Typing'
  BY <1>1, <1>2, <1>3 DEF Typing
<1>5. Phases' /\ Rows'
  BY <1>1, <1>2 DEF Phases, Rows, HasRow
<1>6. ASSUME NEW o \in Ids \ (back \union torn) PROVE AsStored(o)' /\ Lives(o)' /\ Unseen(o)' /\ Hears(o)'
  <2>1. AsStored(o) /\ Lives(o) /\ Unseen(o) /\ Hears(o)
    BY <1>1 DEF Views
  <2>2. ViewOf(o)' = ViewOf(o) /\ Base(o)' = Base(o) /\ Newest(o, turn)' = Newest(o, turn)
    BY <1>2, ViewsStay
  <2>3. (Settled(o)' <=> Settled(o)) /\ (Pending(o)' <=> Pending(o))
    BY <1>2 DEF Settled, Pending
  <2>4. QED BY <1>2, <2>1, <2>2, <2>3 DEF AsStored, Lives, Unseen, Hears, Told, Alive, WasAlive
<1>7. Views'
  BY <1>1, <1>2, <1>6 DEF Views
<1>8. QED BY <1>2, <1>3, <1>4, <1>5, <1>7, NothingPendingNext DEF IInv

-----------------------------------------------------------------------------
(* The invariant, and what follows *)

\* The invariant is inductive.
THEOREM ViewInvariant == Spec => []IInv
<1>1. Init => IInv
  BY InitHolds
<1>2. IInv /\ [Next]_vars => IInv'
  <2> SUFFICES ASSUME IInv, [Next]_vars PROVE IInv'
    OBVIOUS
  <2>1. CASE Send
    BY <2>1, SendKeeps
  <2>2. CASE EndTurn
    BY <2>2, EndTurnKeeps
  <2>3. CASE Tick
    BY <2>3, TickKeeps
  <2>4. CASE Crash \/ AskForUnreadable
    BY <2>4, StopKeeps
  <2>5. CASE Restart
    BY <2>5, RestartKeeps
  <2>6. ASSUME NEW new \in SUBSET Ids, NEW touched \in SUBSET Ids, PlayerJoins(new, touched) PROVE IInv'
    BY <2>6, PlayerJoinsKeeps
  <2>7. ASSUME NEW o \in Ids, GiveOrder(o) PROVE IInv'
    BY <2>7, GiveOrderKeeps
  <2>8. \A n \in 0 .. MaxList + 1 : n \in Nat
    BY IdsAndTurns
  <2>9. ASSUME NEW s \in Sessions, NEW n \in 0 .. MaxList + 1, Continue(s, n) PROVE IInv'
    BY <2>8, <2>9, ContinueKeeps
  <2>10. ASSUME NEW s \in Sessions, NEW n \in 0 .. MaxList + 1, NEW from, Ask(s, from, n) PROVE IInv'
    BY <2>8, <2>10, AskKeeps
  <2>11. ASSUME NEW fate \in [Ids -> Fates], StartTurn(fate) PROVE IInv'
    BY <2>11, StartTurnKeeps
  <2>12. CASE UNCHANGED vars
    <3>1. /\ Typing' /\ Phases' /\ Rows' /\ Statements'
      BY <2>12 DEF IInv, vars, world, memory, history, Typing, Phases, Rows, HasRow, Statements, Written
    <3>2. ASSUME NEW o \in Ids \ (back \union torn) PROVE AsStored(o)' /\ Lives(o)' /\ Unseen(o)' /\ Hears(o)'
      <4>1. AsStored(o) /\ Lives(o) /\ Unseen(o) /\ Hears(o)
        BY DEF IInv, Views
      <4>2. ViewOf(o)' = ViewOf(o) /\ Base(o)' = Base(o) /\ Newest(o, turn)' = Newest(o, turn)
        BY <2>12, ViewsStay DEF vars, world, memory
      <4>3. (Settled(o)' <=> Settled(o)) /\ (Pending(o)' <=> Pending(o))
        BY <2>12 DEF Settled, Pending, vars
      <4>4. QED BY <2>12, <4>1, <4>2, <4>3
                DEF AsStored, Lives, Unseen, Hears, Told, Alive, WasAlive, vars, world, memory, history
    <3>3. Views'
      BY <2>12, <3>2 DEF IInv, Views, vars, history
    <3>4. Lists'
      BY <2>12, ListsStay DEF IInv, vars, memory
    <3>5. QED BY <3>1, <3>3, <3>4 DEF IInv
  <2>13. QED
    BY <2>1, <2>2, <2>3, <2>4, <2>5, <2>6, <2>7, <2>9, <2>10, <2>11, <2>12 DEF Next
<1>3. QED BY <1>1, <1>2, PTL DEF Spec

\* A session that nobody disturbed has the ids of its list, as many as are not left.
THEOREM SpecPagesComplete == Spec => []PagesComplete
<1>1. IInv => PagesComplete
  <2>1. ASSUME IInv, NEW s \in Sessions, session[s] # None, ~ session[s].disturbed
        PROVE  /\ session[s].got \subseteq session[s].all
               /\ Cardinality(session[s].got) + session[s].left = Cardinality(session[s].all)
    BY <2>1 DEF IInv, Lists, Reads, FirstOf
  <2>2. QED BY <2>1 DEF PagesComplete
<1>2. QED BY <1>1, ViewInvariant, PTL

LEMMA SeenWhenIdle ==
  ASSUME IInv, phase = "idle", todo = <<>>, NEW o \in Ids
  PROVE  turn = info /\ ViewOf(o) \in Row /\ rows[o] \in [Turns -> Row] /\ info \in Turns
  BY RowTypes DEF IInv, Phases, Typing

\* The views can be used, and show who lives.
THEOREM SpecViewsConsistent == Spec => []ViewsConsistent
<1>1. IInv => TypeOK
  <2> SUFFICES ASSUME IInv PROVE TypeOK
    OBVIOUS
  <2>1. Typing
    BY DEF IInv
  <2>2. \A s \in Sessions : session[s] # None => session[s].got \subseteq Ids /\ session[s].left \in 0 .. MaxId + 1
    BY <2>1 DEF Typing, Progress
  <2>3. QED BY <2>1, <2>2 DEF Typing, TypeOK, Row
<1>2. IInv => ViewsReadable
  <2> SUFFICES ASSUME IInv, phase = "idle", todo = <<>>, NEW o \in Unreadable, NEW t \in Turns, rows[o][t] # None
               PROVE  t > info
    BY DEF ViewsReadable
  <2>1. o \in Ids /\ o \in visible /\ ViewOf(o) = None
    BY DEF Unreadable, IInv, Typing
  <2>2. turn = info /\ rows[o] \in [Turns -> Row] /\ info \in Turns
    BY <2>1, SeenWhenIdle
  <2>3. NewestOf(rows[o], info) = None
    BY <2>1, <2>2, NewestsHold DEF Newests
  <2>4. ~ (t <= info)
    BY <2>2, <2>3, NewestProperties
  <2>5. QED BY <2>2, <2>4, IdsAndTurns
<1>3. IInv => LivingShown
  <2> SUFFICES ASSUME IInv, phase = "idle", todo = <<>>, NEW o \in Ids \ (back \union torn \union joined)
               PROVE  Alive(o) <=> ViewOf(o) # None /\ ~ViewOf(o).gone
    BY DEF LivingShown
  <2>1. Lives(o)
    BY DEF IInv, Views
  <2>2. QED BY <2>1 DEF Lives, Shown
<1>4. QED BY <1>1, <1>2, <1>3, ViewInvariant, PTL DEF ViewsConsistent

\* Who asks for what changed after the second before the last list misses nothing.
THEOREM SpecNothingMissed == Spec => []NothingMissed
<1>1. IInv => NothingMissed
  <2> SUFFICES ASSUME IInv, phase = "idle", todo = <<>>, heard # None,
                      NEW o \in visible \ (late \union back \union torn),
                      ViewOf(o) # None, ViewOf(o) # heard.views[o]
               PROVE  Listed(ViewOf(o), heard.at - 1)
    BY DEF NothingMissed
  <2>1. o \in Ids /\ Hears(o) /\ heard.at \in Time
    BY DEF IInv, Views, Typing
  <2>2. ViewOf(o) \in View
    BY <2>1, SeenWhenIdle DEF Row
  <2>3. ViewOf(o).mod \in Nat /\ heard.at \in Nat /\ heard.at <= MaxTime /\ MaxTime \in Nat
    <3>1. ViewOf(o).mod \in Time
      BY <2>2 DEF View
    <3>2. QED BY <2>1, <3>1, IdsAndTurns DEF Time
  <2>4. ViewOf(o).mod >= heard.at
    BY <2>1 DEF Hears, Told
  <2>5. heard.at - 1 \in -1 .. MaxTime
    BY <2>3
  <2>6. heard.at - 1 # Never
    BY <2>5, MissingAssumption
  <2>7. ViewOf(o).mod > heard.at - 1
    BY <2>3, <2>4
  <2>8. QED BY <2>6, <2>7 DEF Listed
<1>2. QED BY <1>1, ViewInvariant, PTL
=============================================================================
