------------------------------ MODULE Accounts ------------------------------
(***************************************************************************)
(* Players, their message boards and the rows of both in the MySQL store   *)
(* (src/tpserver/playermanager.cpp, boardmanager.cpp, board.cpp, the       *)
(* frames of playerconnection.cpp and playeragent.cpp that reach them, and *)
(* src/modules/persistence/mysql/mysqlpersistence.cpp).                    *)
(*                                                                         *)
(* The server is one thread: an operation changes the memory and sends its *)
(* statements to the database one after another.  The memory is changed at *)
(* once here and the statements wait in todo; the server may die between   *)
(* any two.  A message is the board it was posted to and the number of the *)
(* post.                                                                   *)
(***************************************************************************)
EXTENDS Integers, FiniteSets, Sequences, SequencesExt, FiniteSetsExt

CONSTANTS
    Names,       \* names players log in with
    Objects,     \* objects players own
    MaxPlayer, MaxBoard, MaxMessage,  \* greatest ids, bounds
    MaxPosts,    \* messages posted and removed, a bound
    MaxTurns,    \* turns that are played, a bound
    MaxCrashes,  \* times the server dies, a bound
    Autoadd,     \* settings autoadd_players and add_players
    None         \* no row, no entry

ASSUME AccountsAssumption ==
    /\ MaxPlayer \in Nat /\ MaxBoard \in Nat /\ MaxMessage \in Nat
    /\ MaxPosts \in Nat /\ MaxTurns \in Nat /\ MaxCrashes \in Nat /\ Autoadd \in BOOLEAN

VARIABLES
    player, owned,         \* tables player and playerobjectowned
    board, slots, message, \* tables board (the number of messages), messageslot and message
    up,                    \* the server runs
    players,               \* PlayerManager::players: by id, None when there is no entry
    loaded,                \* the ids whose entry is not NULL
    nums,                  \* Board::nummsg of the boards in memory, None for the others
    lists,                 \* BoardManager::boardmessages
    nextid, nextbid, nextmid,
    todo,                  \* statements still to be sent
    reply,                 \* the last frame sent to a client who is not logged in
    mail,                  \* history: what was posted to each board and not removed
    torn,                  \* history: boards and players a crash caught in a change
    posts, turns, crashes

tables == <<player, owned, board, slots, message>>
counters == <<nextid, nextbid, nextmid>>
memory == <<players, loaded, nums, lists, counters>>
bounds == <<posts, turns, crashes>>
vars == <<tables, up, memory, todo, reply, mail, torn, bounds>>

Pids == 1 .. MaxPlayer
Bids == 1 .. MaxBoard
Mids == 1 .. MaxMessage
Message == [to : Bids, no : 0 .. MaxPosts]
Row == [name : Names, boardid : Bids]
Account == [name : Names, boardid : Bids, owns : SUBSET Objects]

ASSUME NoneAssumption ==
    None \notin Nat /\ None \notin Message /\ None \notin Row /\ None \notin Account

\* The players of a set in the order of their ids.
InOrder(S) == {s \in [1 .. Cardinality(S) -> S] : \A i, j \in 1 .. Cardinality(S) : i < j => s[i] < s[j]}

(***************************************************************************)
(* Statements.                                                             *)
(***************************************************************************)
Sql(table, id, value) == [table |-> table, id |-> id, value |-> value]

\* MysqlPersistence::saveMessageList deletes the slots, then inserts them.
SaveMessageList(b, list) == <<Sql("slots", b, <<>>), Sql("slots", b, list)>>

\* MysqlPersistence::updatePlayer
UpdatePlayer(p, account) ==
    << Sql("player", p, [name |-> account.name, boardid |-> account.boardid]),
       Sql("owned", p, {}), Sql("owned", p, account.owns) >>

Send ==
    /\ up /\ todo # <<>>
    /\ LET q == Head(todo)
           Set(table, name) == IF q.table = name THEN [table EXCEPT ![q.id] = q.value] ELSE table
       IN  /\ player' = Set(player, "player") /\ owned' = Set(owned, "owned")
           /\ board' = Set(board, "board") /\ slots' = Set(slots, "slots")
           /\ message' = Set(message, "message")
    /\ todo' = Tail(todo)
    /\ UNCHANGED <<up, memory, reply, mail, torn, bounds>>

(***************************************************************************)
(* Boards.                                                                 *)
(***************************************************************************)
\* BoardManager::getBoard and the list of its messages, read when it is empty.
Num(b) == IF nums[b] = None THEN board[b] ELSE nums[b]

\* Mutant: the list is not read again after a restart.
ListInMemory(b) == lists[b]

List(b) == IF lists[b] = <<>> THEN slots[b] ELSE lists[b]

\* Where a message goes that is posted at the end: at the number of messages
\* the board has.  Past the end of the list, std::advance is undefined.
EndOf(num, list) == IF num <= Len(list) THEN {num} ELSE 0 .. Len(list)

\* BoardManager::addMessage, then Board::addMessage saves the board.
Added(list, m, pos) == InsertAt(list, pos + 1, m)
AddMessage(b, m, no, list) ==
    <<Sql("message", m, [to |-> b, no |-> no])>> \o SaveMessageList(b, list)
    \o <<Sql("board", b, Len(list))>>

\* Ids are given to messages of the boards of bs.  Where a board still has a
\* slot with such an id, it and they share the message from now on.
Shared(ids, bs) ==
    LET holders == {b \in Bids : Range(slots[b]) \intersect ids # {}}
    IN  IF holders = {} THEN torn ELSE [torn EXCEPT !.boards = @ \union holders \union bs]

Free == up /\ todo = <<>>

\* PlayerAgent::processPostMessage, and Player::postToBoard for position -1.
Post(b, pos) ==
    /\ Free /\ posts < MaxPosts /\ nextmid \in Mids /\ Num(b) # None
    /\ \E k \in (IF pos = -1 THEN EndOf(Num(b), List(b)) ELSE {pos} \intersect 0 .. Len(List(b))) :
          LET list == Added(List(b), nextmid, k)
              no == posts
          IN  /\ lists' = [lists EXCEPT ![b] = list]
              /\ nums' = [nums EXCEPT ![b] = Len(list)]
              /\ todo' = AddMessage(b, nextmid, no, list)
              /\ mail' = IF b \in torn.boards THEN mail
                         ELSE [mail EXCEPT ![b] = Added(@, [to |-> b, no |-> no], k)]
    /\ nextmid' = nextmid + 1 /\ posts' = posts + 1
    /\ torn' = Shared({nextmid}, {b})
    /\ UNCHANGED <<tables, up, players, loaded, nextid, nextbid, reply, turns, crashes>>

\* PlayerAgent::processRemoveMessages: the message goes before its slot.
RemoveMessage(b, pos) ==
    /\ Free /\ posts < MaxPosts /\ Num(b) # None /\ pos < Num(b) /\ pos < Len(List(b))
    /\ LET list == RemoveAt(List(b), pos + 1) IN
       /\ lists' = [lists EXCEPT ![b] = list]
       /\ nums' = [nums EXCEPT ![b] = Len(list)]
       /\ todo' = <<Sql("message", List(b)[pos + 1], None)>> \o SaveMessageList(b, list)
                  \o <<Sql("board", b, Len(list))>>
    /\ mail' = IF b \in torn.boards THEN mail ELSE [mail EXCEPT ![b] = RemoveAt(@, pos + 1)]
    /\ posts' = posts + 1
    /\ UNCHANGED <<tables, up, players, loaded, counters, reply, torn, turns, crashes>>

(***************************************************************************)
(* Players.                                                                *)
(***************************************************************************)
\* MysqlPersistence::retrievePlayer
Stored(p) == [name |-> player[p].name, boardid |-> player[p].boardid, owns |-> owned[p]]

\* An entry, read from the store when it is NULL.
Entry(p) == IF p \in loaded THEN players[p] ELSE Stored(p)
Known == {p \in Pids : players[p] # None}

\* Mutant: entries that are NULL are passed over.
NamedInMemory(n) == {p \in loaded : players[p].name = n}

Named(n) == {p \in Known : Entry(p).name = n}

\* PlayerManager::findPlayer reads the players in until the name is found.
Searched(n) == IF Named(n) = {} THEN Known ELSE {p \in Known : p <= Min(Named(n))}

Reading(S) == [p \in Pids |-> IF p \in S THEN Entry(p) ELSE players[p]]

Answer(n, what) == reply' = [name |-> n, what |-> what]

\* The name is known, or is not to be added.
Found(n, what) ==
    /\ players' = Reading(Searched(n)) /\ loaded' = loaded \union Searched(n)
    /\ Answer(n, what)
    /\ UNCHANGED <<tables, up, nums, lists, counters, todo, mail, torn, bounds>>

\* The ruleset refuses: the id is taken back.
Refused(n) == Found(n, "bad")

\* PlayerManager::createNewPlayer: a board with a message, the player, what
\* the ruleset gives it, and a message for each of the others, who are saved
\* again.
CreateNewPlayer(n, home, what) ==
    LET p == nextid
        b == nextbid
        account == [name |-> n, boardid |-> b, owns |-> home]
        many == Cardinality(Known)
        no == posts
        given == nextmid .. nextmid + many
    IN  /\ p \in Pids /\ b \in Bids /\ nextmid + many \in Mids
        /\ \E others \in InOrder(Known), at \in [1 .. many -> 0 .. MaxMessage] :
              LET boardOf == [k \in 1 .. many |-> Entry(others[k]).boardid]
                  told == [k \in 1 .. many |-> Added(List(boardOf[k]), nextmid + k, at[k])]
                  K(ob) == CHOOSE k \in 1 .. many : boardOf[k] = ob
                  Tell(k) == AddMessage(boardOf[k], nextmid + k, no, told[k])
                             \o UpdatePlayer(others[k], Entry(others[k]))
              IN  /\ \A k \in 1 .. many : at[k] \in EndOf(Num(boardOf[k]), List(boardOf[k]))
                  /\ lists' = [ob \in Bids |->
                        IF ob = b THEN <<nextmid>>
                        ELSE IF ob \in Range(boardOf) THEN told[K(ob)] ELSE lists[ob]]
                  /\ nums' = [ob \in Bids |-> IF ob \in Range(boardOf) \union {b} THEN Len(lists'[ob])
                                              ELSE nums[ob]]
                  /\ mail' = [ob \in Bids |->
                        IF ob = b THEN <<[to |-> b, no |-> no]>>
                        ELSE IF ob \in Range(boardOf) \ torn.boards
                        THEN Added(mail[ob], [to |-> ob, no |-> no], at[K(ob)])
                        ELSE mail[ob]]
                  /\ todo' = <<Sql("board", b, 0)>> \o AddMessage(b, nextmid, no, <<nextmid>>)
                             \o <<Sql("player", p, [name |-> n, boardid |-> b])>>
                             \o UpdatePlayer(p, account)
                             \o FlattenSeq([k \in 1 .. many |-> Tell(k)])
                  /\ torn' = Shared(given, Range(boardOf) \union {b})
        /\ players' = [Reading(Known) EXCEPT ![p] = account]
        /\ loaded' = loaded \union Known \union {p}
        /\ nextid' = nextid + 1 /\ nextbid' = nextbid + 1 /\ nextmid' = nextmid + 1 + many
        /\ posts' = posts + 1
        /\ Answer(n, what)
        /\ UNCHANGED <<tables, up, turns, crashes>>

\* What a ruleset gives a new player: an object nobody has, or nothing.
Homes == {{}} \union {{o} : o \in Objects \ UNION {Entry(p).owns : p \in Known}}

\* Frame Login in PlayerConnection::login: with the right password or not.
\* A player who was just added is told that this cannot be done.
Login(n, right) ==
    /\ Free
    /\ IF Named(n) # {} THEN Found(n, IF right THEN "ok" ELSE "bad")
       ELSE IF ~Autoadd THEN Found(n, "bad")
       ELSE \/ Refused(n)
            \/ /\ posts < MaxPosts
               /\ \E home \in Homes : CreateNewPlayer(n, home, "cannot create")

\* Frame Account: a name that is known is refused.
CreateAccount(n) ==
    /\ Free
    /\ IF Named(n) # {} THEN Found(n, "bad")
       ELSE \/ Refused(n)
            \/ /\ posts < MaxPosts
               /\ \E home \in Homes : CreateNewPlayer(n, home, "created")

\* An object changes hands in a turn, and PlayerManager::updateAll saves all.  What
\* comes from a player a crash caught in a change may be another's as well.
Turn(p, q, o) ==
    /\ Free /\ turns < MaxTurns
    /\ p \in Known /\ q \in Known /\ p # q /\ o \in Entry(p).owns
    /\ LET now == [Reading(Known) EXCEPT ![p].owns = @ \ {o}, ![q].owns = @ \union {o}]
       IN  /\ players' = now /\ loaded' = loaded \union Known
           /\ \E all \in InOrder(Known) :
                 todo' = FlattenSeq([k \in DOMAIN all |-> UpdatePlayer(all[k], now[all[k]])])
    /\ torn' = IF p \in torn.players THEN [torn EXCEPT !.players = @ \union {q}] ELSE torn
    /\ turns' = turns + 1
    /\ UNCHANGED <<tables, up, nums, lists, counters, reply, mail, posts, crashes>>

(***************************************************************************)
(* Starting and dying.                                                     *)
(***************************************************************************)
Init ==
    /\ player = [p \in Pids |-> None] /\ owned = [p \in Pids |-> {}]
    /\ board = [b \in Bids |-> None] /\ slots = [b \in Bids |-> <<>>]
    /\ message = [m \in Mids |-> None]
    /\ up = TRUE /\ players = [p \in Pids |-> None] /\ loaded = {}
    /\ nums = [b \in Bids |-> None] /\ lists = [b \in Bids |-> <<>>]
    /\ nextid = 1 /\ nextbid = 1 /\ nextmid = 1
    /\ todo = <<>> /\ reply = None
    /\ mail = [b \in Bids |-> <<>>] /\ torn = [boards |-> {}, players |-> {}]
    /\ posts = 0 /\ turns = 0 /\ crashes = 0

\* What the statements that were not sent are about.
Pending(names) == {todo[k].id : k \in {j \in 1 .. Len(todo) : todo[j].table \in names}}

Crash ==
    /\ up /\ crashes < MaxCrashes
    /\ up' = FALSE /\ todo' = <<>> /\ crashes' = crashes + 1
    /\ torn' = [boards |-> torn.boards \union Pending({"board", "slots"}),
                players |-> torn.players \union Pending({"player", "owned"})]
    /\ UNCHANGED <<tables, memory, reply, mail, posts, turns>>

MaxOf(table, ids) == Max({0} \union {i \in ids : table[i] # None})

\* Mutant: the greatest id of a board is given again.
NextIdsLast ==
    /\ nextid' = MaxOf(player, Pids) + 1
    /\ nextbid' = Max({1, MaxOf(board, Bids)})
    /\ nextmid' = MaxOf(message, Mids) + 1

\* PlayerManager::init and BoardManager::init.
NextIds ==
    /\ nextid' = MaxOf(player, Pids) + 1
    /\ nextbid' = MaxOf(board, Bids) + 1
    /\ nextmid' = MaxOf(message, Mids) + 1

Restart ==
    /\ ~up /\ up' = TRUE
    /\ players' = player /\ loaded' = {}
    /\ nums' = [b \in Bids |-> None] /\ lists' = [b \in Bids |-> <<>>]
    /\ NextIds
    /\ reply' = None
    /\ UNCHANGED <<tables, todo, mail, torn, bounds>>

Next ==
    \/ Send \/ Crash \/ Restart
    \/ \E b \in Bids, pos \in -1 .. MaxMessage : Post(b, pos)
    \/ \E b \in Bids, pos \in 0 .. MaxMessage : RemoveMessage(b, pos)
    \/ \E n \in Names, right \in BOOLEAN : Login(n, right)
    \/ \E n \in Names : CreateAccount(n)
    \/ \E p, q \in Pids, o \in Objects : Turn(p, q, o)

Spec == Init /\ [][Next]_vars

(***************************************************************************)
(* Properties.                                                             *)
(***************************************************************************)
\* The type of the state.
TypeOK ==
    /\ \A p \in Pids : player[p] \in Row \union {None} /\ owned[p] \subseteq Objects
    /\ \A b \in Bids : board[b] \in Nat \union {None} /\ slots[b] \in Seq(Mids) /\ lists[b] \in Seq(Mids)
    /\ \A m \in Mids : message[m] \in Message \union {None}
    /\ loaded \subseteq Known /\ \A p \in loaded : players[p] \in Account
    /\ nextid \in 1 .. MaxPlayer + 1 /\ nextbid \in 1 .. MaxBoard + 1 /\ nextmid \in 1 .. MaxMessage + 1

\* A name is that of one player, whoever asks for it and however often the
\* server starts anew: also when the player was last seen before a restart.
NamesOnce ==
    /\ \A p, q \in Pids : player[p] # None /\ player[q] # None /\ player[p].name = player[q].name => p = q
    /\ up => \A n \in Names : Cardinality(Named(n)) <= 1

\* Two players never share a board, and the board of a player has a row
\* before the player has one, so that no later player is given the same one.
EachOwnBoard ==
    \A p \in Pids : player[p] # None =>
        /\ board[player[p].boardid] # None
        /\ \A q \in Pids \ {p} : player[q] # None => player[q].boardid # player[p].boardid
        /\ up => player[p].boardid < nextbid

\* A board shows what was posted to it and not removed, in its order, as
\* many messages as it says it has, before and after a restart: nothing of
\* another board, and nothing that is gone.  Except for boards a crash
\* caught in a change, and those that came to share a message with them.
MailKept ==
    todo = <<>> =>
        \A b \in Bids \ torn.boards :
            /\ [k \in 1 .. Len(slots[b]) |-> message[slots[b][k]]] = mail[b]
            /\ board[b] # None => board[b] = Len(mail[b])
            /\ up /\ nums[b] # None => nums[b] = Len(mail[b]) /\ List(b) = slots[b]

\* Outside a change, a player in memory is as it is stored, and an object is
\* owned by one player at most: except for players a crash caught in a change,
\* and those who had objects from them.
PlayersKept ==
    up /\ todo = <<>> =>
        /\ \A p \in loaded : players[p] = Stored(p)
        /\ \A p, q \in Known \ torn.players : p # q => Entry(p).owns \intersect Entry(q).owns = {}

\* The players in memory are whole, read in or not, known by one name each, and
\* as they are stored.
PlayersConsistent == TypeOK /\ NamesOnce /\ PlayersKept
=============================================================================
