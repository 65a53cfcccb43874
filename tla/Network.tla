------------------------------ MODULE Network ------------------------------
(***************************************************************************)
(* Network::masterLoop and the connections of the players.                 *)
(*                                                                         *)
(* A pass of the loop runs the due timers, calls select(), lets one writer *)
(* of the write queue write, and then visits the connections in the order  *)
(* of their descriptors: one that is readable processes one frame, and the *)
(* first that is found closed is deleted and ends the pass.  Clients act   *)
(* at any time, also between select() and the handlers it leads to.        *)
(*                                                                         *)
(* A frame is a number, its place in the order in which sendFrame took it; *)
(* it is written to the socket as a whole.                                 *)
(***************************************************************************)
EXTENDS Integers, Sequences, FiniteSets

CONSTANTS
  Conn,       \* addresses of PlayerTcpConnection objects, never used twice
  MaxFd,      \* descriptors are 1 .. MaxFd
  Room,       \* frames that the send buffer of a socket holds
  MaxFrames,  \* bound: frames sent on a connection
  Events      \* what else happens: "bad" frames, "fin", "reset", "stop"

ASSUME ConstantsAssumption ==
  /\ IsFiniteSet(Conn)
  /\ MaxFd \in Nat
  /\ Cardinality(Conn) <= MaxFd
  /\ Room \in Nat \ {0}
  /\ MaxFrames \in Nat

VARIABLES
  phase,        \* what the loop does next: "timers", "write" or "read"
  cursor,       \* the descriptor the loop over the connections has reached
  readable,     \* what select() left in cur_set
  writable,     \* and in write_set
  active,       \* Network::active
  connections,  \* Network::connections, and master_set: its domain
  writequeue,   \* Network::writequeue
  conn,         \* the connections and their sockets
  crashed       \* a deleted connection was used and the server died of it

loop == <<phase, cursor, readable, writable>>
vars == <<loop, active, connections, writequeue, conn, crashed>>

Fd == 1 .. MaxFd

Connection == [
  life : {"none", "live", "deleted"},
  fd : Fd \cup {0},
  status : 0 .. 3,                 \* Connection::status
  queue : Seq(1 .. MaxFrames),     \* sendqueue
  closing : BOOLEAN,               \* sendandclose
  open : BOOLEAN,                  \* the descriptor is open
  peer : {"open", "fin", "reset"}, \* what the client did to the connection
  requests : 0 .. MaxFrames,       \* frames in the receive buffer
  buffer : Seq(1 .. MaxFrames),    \* frames in the send buffer
  got : Seq(1 .. MaxFrames),       \* frames the client has read
  sent : 0 .. MaxFrames ]          \* number of frames taken by sendFrame

Unused == [life |-> "none", fd |-> 0, status |-> 0, queue |-> <<>>,
           closing |-> FALSE, open |-> FALSE, peer |-> "open", requests |-> 0,
           buffer |-> <<>>, got |-> <<>>, sent |-> 0]

-----------------------------------------------------------------------------
(* PlayerTcpConnection, as functions on a connection *)

\* ::close(sockfd).  TCP resets a connection that is closed with data unread.
\* Mutantless
Shut(c) ==
  IF c.requests > 0
  THEN [c EXCEPT !.open = FALSE, !.status = 0, !.peer = "reset",
                 !.requests = 0, !.buffer = <<>>]
  ELSE [c EXCEPT !.open = FALSE, !.status = 0]

\* The frames that wait are dropped.
CloseAtOnce(c) == Shut([c EXCEPT !.queue = <<>>])

\* PlayerTcpConnection::close
Close(c) == IF c.queue = <<>> THEN Shut(c) ELSE [c EXCEPT !.closing = TRUE]

\* Frames of the queue that the socket takes
Fits(c) == IF Len(c.queue) <= Room - Len(c.buffer)
            THEN Len(c.queue) ELSE Room - Len(c.buffer)

\* What is written leaves the queue, until the socket would block.
Written(c) ==
  [c EXCEPT !.buffer = @ \o SubSeq(c.queue, 1, Fits(c)),
            !.queue = SubSeq(@, Fits(c) + 1, Len(@))]

\* PlayerTcpConnection::processWrite, but for addToWriteQueue
ProcessWrite(c) ==
  IF c.queue # <<>> /\ c.peer = "reset" THEN Shut([c EXCEPT !.queue = <<>>])
  ELSE LET w == Written(c)
       IN  IF w.queue = <<>> /\ w.closing THEN Shut(w) ELSE w

TakesFrames(c) == c.status # 0 /\ ~c.closing

\* PlayerTcpConnection::sendFrame
SendFrame(c) ==
  IF TakesFrames(c)
  THEN ProcessWrite([c EXCEPT !.queue = Append(@, c.sent + 1),
                              !.sent = @ + 1])
  ELSE c

\* Bound: a request is answered with a frame.
MaySend(c) == c.sent + c.requests < MaxFrames

-----------------------------------------------------------------------------
(* Network *)

InGame == {c \in Conn : c \in {connections[f] : f \in DOMAIN connections}
                        /\ conn[c].status = 3}

\* Frames that did not fit wait for the next sendFrame.
AddToWriteQueueNot(queue, cs) == queue

\* The connections of cs have tried to write: those with frames left wait.
AddToWriteQueue(queue, cs) ==
  LET waiting == {c \in cs : conn'[c].queue # <<>>}
      fds == {conn[c].fd : c \in waiting}
  IN  [f \in DOMAIN queue \cup fds |->
         IF f \in fds THEN CHOOSE c \in waiting : conn[c].fd = f
         ELSE queue[f]]

Without(map, f) == [g \in DOMAIN map \ {f} |-> map[g]]

OpenFds == {conn[c].fd : c \in {d \in Conn : conn[d].open}}

LowestFree == CHOOSE f \in Fd \ OpenFds :
                \A g \in Fd \ OpenFds : f <= g

Init ==
  /\ phase = "timers"
  /\ cursor = 0
  /\ readable = {}
  /\ writable = {}
  /\ active = TRUE
  /\ connections = <<>>
  /\ writequeue = <<>>
  /\ conn = [c \in Conn |-> Unused]
  /\ crashed = FALSE

\* Network::sendToAll, called by a timer, or by the handler of a connection
\* that is not the player's: the administrator's.
SendToAll ==
  /\ phase \in {"timers", "read"}
  /\ InGame # {}
  /\ \A c \in InGame : MaySend(conn[c])
  /\ conn' = [c \in Conn |-> IF c \in InGame THEN SendFrame(conn[c]) ELSE conn[c]]
  /\ writequeue' = AddToWriteQueue(writequeue, {c \in InGame : TakesFrames(conn[c])})
  /\ UNCHANGED <<loop, active, connections, crashed>>

ReadReady(c) == conn[c].requests > 0 \/ conn[c].peer # "open"
WriteReady(c) == Len(conn[c].buffer) < Room \/ conn[c].peer = "reset"

\* select() looks at the descriptors up to max_fd, which is the highest of the
\* connections, and ignores the rest of the write queue.
Writers == {f \in DOMAIN writequeue : \E g \in DOMAIN connections : f <= g}

Writable(f) == \E c \in Conn : conn[c].open /\ conn[c].fd = f /\ WriteReady(c)

\* select() fails if one of the descriptors is not open (EBADF); the loop then
\* only runs its timers and tries again.
Select ==
  /\ phase = "timers"
  /\ DOMAIN connections \cup Writers \subseteq OpenFds
  /\ readable' = {f \in DOMAIN connections : ReadReady(connections[f])}
  /\ writable' = {f \in Writers : Writable(f)}
  /\ phase' = "write"
  /\ cursor' = 0
  /\ UNCHANGED <<active, connections, writequeue, conn, crashed>>

\* c is closed and not yet deleted: the close() of its processWrite closes its
\* descriptor once more, which may be that of a new connection d by now.
ClosesAgain(c, d) ==
  /\ c.closing /\ c.queue = <<>> /\ ~c.open
  /\ conn[d].open /\ conn[d].fd = c.fd

\* The writer is erased from the queue after it has been put there again.
WriterErasesAfter(f) ==
  /\ phase = "write"
  /\ f \in writable /\ \A g \in writable : f <= g
  /\ phase' = "read"
  /\ conn' = [conn EXCEPT ![writequeue[f]] = ProcessWrite(@)]
  /\ writequeue' = Without(writequeue, f)
  /\ UNCHANGED <<cursor, readable, writable, active, connections, crashed>>

\* Only the first writer is served: "use select again, don't check rest of
\* list as it has changed".
Writer(f) ==
  /\ phase = "write"
  /\ f \in writable /\ \A g \in writable : f <= g
  /\ phase' = "read"
  /\ LET c == writequeue[f]
         queue == Without(writequeue, f)
     IN  IF conn[c].life = "live"
         THEN /\ conn' = [d \in Conn |->
                    IF d = c THEN ProcessWrite(conn[c])
                    ELSE IF ClosesAgain(conn[c], d) THEN [conn[d] EXCEPT !.open = FALSE]
                    ELSE conn[d]]
              /\ writequeue' = AddToWriteQueue(queue, {c})
              /\ UNCHANGED crashed
         ELSE /\ writequeue' = queue      \* undefined: c has been deleted
              /\ crashed' \in BOOLEAN
              /\ UNCHANGED conn
  /\ UNCHANGED <<cursor, readable, writable, active, connections>>

NoWriter ==
  /\ phase = "write"
  /\ writable = {}
  /\ phase' = "read"
  /\ UNCHANGED <<cursor, readable, writable, active, connections, writequeue,
                 conn, crashed>>

\* ListenSocket::process and Network::addConnection.  The listening socket has
\* the lowest descriptor.
Accept(c) ==
  /\ phase = "read"
  /\ cursor = 0
  /\ active
  /\ conn[c].life = "none"
  /\ conn' = [conn EXCEPT ![c] = [Unused EXCEPT !.life = "live", !.open = TRUE,
                                    !.fd = LowestFree, !.status = 1]]
  /\ connections' = [f \in DOMAIN connections \cup {LowestFree} |->
                       IF f = LowestFree THEN c ELSE connections[f]]
  /\ UNCHANGED <<loop, active, writequeue, crashed>>

\* The loop skips a connection.
NextFdsSkipping == {f \in DOMAIN connections : f > cursor + 1}

NextFds == {f \in DOMAIN connections : f > cursor}

Visits(f) == phase = "read" /\ f \in NextFds /\ \A g \in NextFds : f <= g

\* After its process(), a connection that is closed is deleted and the pass
\* ends; otherwise the loop goes on.
EndVisit(f) ==
  /\ IF conn'[connections[f]].status = 0
     THEN /\ connections' = Without(connections, f)
          /\ phase' = "timers"
          /\ cursor' = 0
     ELSE /\ cursor' = f
          /\ UNCHANGED <<phase, connections>>
  /\ UNCHANGED <<readable, writable, active, crashed>>

Deleted(c) == IF c.status = 0 THEN [c EXCEPT !.life = "deleted"] ELSE c

\* The connection may break while a frame is processed.
Breaks(c) == IF "reset" \in Events THEN {c, [c EXCEPT !.peer = "reset"]} ELSE {c}

\* A frame is answered.  In status 1 the answer to Connect comes after the
\* change of status, in verCheck; in status 2 the status changes after the
\* answer to Login, whatever became of the connection.
Answer(f) ==
  LET c == connections[f]
  IN
  /\ Visits(f)
  /\ f \in readable
  /\ ~conn[c].closing
  /\ conn[c].requests > 0
  /\ \E r \in Breaks([conn[c] EXCEPT !.requests = @ - 1]) :
       \/ conn' = [conn EXCEPT ![c] = Deleted(SendFrame(r))]
       \/ /\ r.status = 1
          /\ conn' = [conn EXCEPT ![c] = Deleted(SendFrame([r EXCEPT !.status = 2]))]
       \/ /\ r.status = 2
          /\ conn' = [conn EXCEPT ![c] = [SendFrame(r) EXCEPT !.status = 3]]
  /\ writequeue' = AddToWriteQueue(writequeue, {c})
  /\ EndVisit(f)

\* A frame that cannot be decoded: a Fail frame and close().
Refuse(f) ==
  LET c == connections[f]
  IN
  /\ "bad" \in Events
  /\ Visits(f)
  /\ f \in readable
  /\ ~conn[c].closing
  /\ conn[c].requests > 0
  /\ \E r \in Breaks([conn[c] EXCEPT !.requests = @ - 1]) :
       conn' = [conn EXCEPT ![c] = Deleted(Close(SendFrame(r)))]
  /\ writequeue' = AddToWriteQueue(writequeue, {c})
  /\ EndVisit(f)

\* recv() returns 0.
Eof(f) ==
  LET c == connections[f]
  IN
  /\ Visits(f)
  /\ f \in readable
  /\ ~conn[c].closing
  /\ conn[c].requests = 0
  /\ conn[c].peer = "fin"
  /\ conn' = [conn EXCEPT ![c] = Deleted(Close(@))]
  /\ UNCHANGED writequeue
  /\ EndVisit(f)

\* recv() fails; verCheck, in status 1, does not empty the send queue.
ReadError(f) ==
  LET c == connections[f]
      dropped == IF conn[c].status = 1 THEN conn[c]
                 ELSE [conn[c] EXCEPT !.queue = <<>>]
  IN
  /\ Visits(f)
  /\ f \in readable
  /\ ~conn[c].closing
  /\ conn[c].peer = "reset"
  /\ conn' = [conn EXCEPT ![c] = Deleted(Close(dropped))]
  /\ UNCHANGED writequeue
  /\ EndVisit(f)

\* Nothing to read, or readFrame returns because of sendandclose.  The last
\* case is a recv() that would block: select() saw what is not there any more.
Pass(f) ==
  LET c == connections[f]
  IN
  /\ Visits(f)
  /\ \/ f \notin readable
     \/ conn[c].closing
     \/ ~ReadReady(c)
  /\ conn' = [conn EXCEPT ![c] = Deleted(@)]
  /\ UNCHANGED writequeue
  /\ EndVisit(f)

EndPass ==
  /\ phase = "read"
  /\ NextFds = {}
  /\ phase' = "timers"
  /\ cursor' = 0
  /\ UNCHANGED <<readable, writable, active, connections, writequeue, conn,
                 crashed>>

\* Network::stop, from the command network-stop: every connection is closed
\* and deleted, and the destructor closes again.
Stop ==
  /\ "stop" \in Events
  /\ phase = "read"
  /\ active
  /\ active' = FALSE
  /\ conn' = [c \in Conn |->
               IF \E f \in DOMAIN connections : connections[f] = c
               THEN [Close(Close(conn[c])) EXCEPT !.life = "deleted"]
               ELSE conn[c]]
  /\ connections' = <<>>
  /\ UNCHANGED <<loop, writequeue, crashed>>

\* Network::start, from the command network-start
Start ==
  /\ phase = "read"
  /\ ~active
  /\ active' = TRUE
  /\ UNCHANGED <<loop, connections, writequeue, conn, crashed>>

-----------------------------------------------------------------------------
(* The clients and the TCP connections between *)

Connected(c) == conn[c].open /\ conn[c].peer = "open"

Request(c) ==
  /\ Connected(c)
  /\ conn[c].status # 0
  /\ MaySend(conn[c])
  /\ conn' = [conn EXCEPT ![c].requests = @ + 1]
  /\ UNCHANGED <<loop, active, connections, writequeue, crashed>>

ReadAnswer(c) ==
  /\ conn[c].buffer # <<>>
  /\ conn[c].peer # "reset"
  /\ conn' = [conn EXCEPT ![c].got = Append(@, Head(conn[c].buffer)),
                          ![c].buffer = Tail(@)]
  /\ UNCHANGED <<loop, active, connections, writequeue, crashed>>

\* The client shuts down its side and still reads.
Fin(c) ==
  /\ "fin" \in Events
  /\ Connected(c)
  /\ conn' = [conn EXCEPT ![c].peer = "fin"]
  /\ UNCHANGED <<loop, active, connections, writequeue, crashed>>

Reset(c) ==
  /\ "reset" \in Events
  /\ conn[c].open
  /\ conn[c].peer # "reset"
  /\ conn' = [conn EXCEPT ![c].peer = "reset", ![c].requests = 0,
                          ![c].buffer = <<>>]
  /\ UNCHANGED <<loop, active, connections, writequeue, crashed>>

MasterLoop ==
  \/ Select
  \/ NoWriter
  \/ \E f \in Fd :
       Writer(f) \/ Answer(f) \/ Refuse(f) \/ Eof(f) \/ ReadError(f) \/ Pass(f)
  \/ EndPass

Next ==
  /\ ~crashed
  /\ \/ SendToAll
     \/ MasterLoop
     \/ Stop
     \/ Start
     \/ \E c \in Conn : Accept(c) \/ Request(c) \/ ReadAnswer(c) \/ Fin(c) \/ Reset(c)

\* The loop keeps running, and the clients read what they are sent.
Fairness ==
  /\ WF_vars(~crashed /\ MasterLoop)
  /\ \A c \in Conn : WF_vars(~crashed /\ ReadAnswer(c))

Spec == Init /\ [][Next]_vars

FairSpec == Spec /\ Fairness

-----------------------------------------------------------------------------
(* Properties *)

\* The types of the variables.
TypeOK ==
  /\ phase \in {"timers", "write", "read"}
  /\ cursor \in Fd \cup {0}
  /\ readable \in SUBSET Fd
  /\ writable \in SUBSET Fd
  /\ active \in BOOLEAN
  /\ DOMAIN connections \subseteq Fd
  /\ DOMAIN writequeue \subseteq Fd
  /\ \A f \in DOMAIN connections : connections[f] \in Conn
  /\ \A f \in DOMAIN writequeue : writequeue[f] \in Conn
  /\ conn \in [Conn -> Connection]
  /\ crashed \in BOOLEAN

\* A connection with frames that did not fit is in the write queue, under its
\* own descriptor: nothing else makes the loop write the rest.
WriterQueued ==
  \A c \in Conn :
    conn[c].life = "live" /\ conn[c].queue # <<>>
      => conn[c].fd \in DOMAIN writequeue /\ writequeue[conn[c].fd] = c

\* The loop's own tables: their types, and what waits is what will be written.
QueuesConsistent == TypeOK /\ WriterQueued

\* What sendFrame took is read by the client in that order and without a gap,
\* also when the connection is closed meanwhile.
NothingLost ==
  \A c \in Conn :
    conn[c].peer # "reset"
      => conn[c].got \o conn[c].buffer \o conn[c].queue
           = [i \in 1 .. conn[c].sent |-> i]

\* While the clients keep their connections, every frame that was sent reaches
\* its client, and every request is processed.
EveryFrameArrives ==
  \A c \in Conn, n \in 1 .. MaxFrames :
    (conn[c].sent >= n) ~> (Len(conn[c].got) >= n)

EveryRequestServed ==
  \A c \in Conn : (conn[c].requests > 0) ~> (conn[c].requests = 0)
=============================================================================
