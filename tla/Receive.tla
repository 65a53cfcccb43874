------------------------------ MODULE Receive ------------------------------
(***************************************************************************)
(* How one client connection turns the bytes of a stream socket into       *)
(* frames: PlayerTcpConnection::verCheck, which reads the four bytes of    *)
(* the version first and may turn the client down, and ::readFrame, which  *)
(* reads the rest of the header and the body over as many visits of the    *)
(* master loop as the bytes take to arrive.                                *)
(*                                                                         *)
(* The stream is made of units (a unit stands for some bytes that always   *)
(* arrive together) and a unit is its place in the stream, as a TCP        *)
(* sequence number is: what a buffer holds says where it was read.  What   *)
(* is sent back is abstracted to whether the send queue is empty, which is *)
(* all that the reading side tests; module Network has the queue itself.   *)
(***************************************************************************)
EXTENDS Integers, Sequences

CONSTANTS
  VersionLength,   \* units of the version field, read by verCheck alone
  HeaderLength,    \* units of a header, version field included
  ClientFrames,    \* the frames that clients send: version, type and length
  Pipelining,      \* may a client send before the server has read the rest?
  MaxFrames        \* bound: frames a client sends

Version ==
  {"3", "4",     \* the versions the server speaks
   "old",        \* TP02 and less
   "future",     \* TP04 to TP09, or a version byte above 4
   "unknown",    \* a version field that is neither digits nor a version byte
   "other"}      \* not the Thousand Parsec protocol at all

Supported == {"3", "4"}

\* "invalid" stands for a length field that is negative or above a megabyte,
\* "unknown" for a type the version does not have.
Type == {"connect", "features", "request", "unknown", "invalid"}

ASSUME LengthsAssumption ==
  /\ VersionLength \in Nat \ {0}
  /\ HeaderLength \in Nat
  /\ VersionLength < HeaderLength
  /\ ClientFrames \subseteq [version : Version, type : Type, len : Nat]
  /\ Pipelining \in BOOLEAN
  /\ MaxFrames \in Nat

VARIABLES
  sent,           \* the frames the client sent; start: units sent before it
  channel,        \* units on their way or in the socket, in order
  decrypted,      \* how many of them the TLS session took off the socket
  tls,            \* is this a PlayerTlsConnection?
  fin,            \* has the client shut down its side?
  status,         \* "new" (1), "open" (2 and 3) or "closed" (0)
  version,        \* the version of the connection
  rheaderbuff,    \* header units read; <<>> also when there is no buffer
  rdatabuff,      \* body units read; <<>> also when there is no buffer
  backlog,        \* is the send queue not empty?
  sendandclose,   \* is the connection to close once it is?
  read,           \* history: frames read whole, in that order
  drained         \* history: was anything read and thrown away?

clientVars == <<sent, channel, decrypted, tls, fin>>
bufferVars == <<rheaderbuff, rdatabuff>>
sendVars == <<status, backlog, sendandclose>>
vars == <<sent, channel, decrypted, tls, fin, status, version, rheaderbuff,
          rdatabuff, backlog, sendandclose, read, drained>>

Frame == [version : Version, type : Type, len : Nat, start : Nat]

Size(f) == HeaderLength + f.len

\* All the units the client has sent.
Total == IF sent = <<>> THEN 0
         ELSE sent[Len(sent)].start + Size(sent[Len(sent)])

Min(a, b) == IF a < b THEN a ELSE b

Drop(s, n) == SubSeq(s, n + 1, Len(s))

-----------------------------------------------------------------------------
(* What the server makes of the units it holds.  The body of a frame is    *)
(* taken not to look like the start of one.                                *)

StartsFrame(u) == \E k \in DOMAIN sent : sent[k].start + 1 = u

FrameOf(header) == CHOOSE k \in DOMAIN sent : sent[k].start + 1 = header[1]

\* The version field at the front of rheaderbuff.
VersionShown(header) ==
  IF StartsFrame(header[1]) THEN sent[FrameOf(header)].version ELSE "other"

-----------------------------------------------------------------------------
(* The sending side.                                                       *)

\* PlayerTcpConnection::close: at once, or after the send queue.
Close(queued) ==
  /\ backlog' = queued
  /\ status' = IF queued THEN status ELSE "closed"
  /\ sendandclose' = (sendandclose \/ queued)

\* sendFrame: the socket takes the frame, and all before it, or not.
Queued == IF sendandclose THEN {backlog} ELSE BOOLEAN

\* sendDataAndClose: the queue is dropped for the text, which sendFrame
\* queues unless the connection is closing already.
SendDataAndClose ==
  \E queued \in (IF sendandclose THEN {FALSE} ELSE BOOLEAN) : Close(queued)

Reply(to) ==
  /\ backlog' \in Queued
  /\ status' = to
  /\ UNCHANGED sendandclose

-----------------------------------------------------------------------------
(* The reading side.  n is how many units can be read during this visit.   *)

\* n units are read; a TLS session may hold the rest of the last record.
Read(n) ==
  /\ channel' = Drop(channel, n)
  /\ decrypted' \in IF n = 0 \/ n < decrypted \/ ~tls
                    THEN {IF n < decrypted THEN decrypted - n ELSE 0}
                    ELSE 0 .. Len(channel) - n
  /\ UNCHANGED <<sent, tls, fin>>

HeaderWith(n) == rheaderbuff \o SubSeq(channel, 1, n)

\* The n units after those h go to the body.
BodyWith(h, n) == rdatabuff \o SubSeq(channel, h + 1, h + n)

\* recv returned nothing, and there is nothing to come: the client left.
\* It does so at once only where a read begins: at the front of the version
\* field, the rest of the header or the body.
Starved(n, atStart) == fin /\ n = Len(channel) /\ (n = 0 \/ atStart)

\* Mutant: nothing read is taken for nothing read yet.
StillWaitingForever(n, atStart) ==
  /\ UNCHANGED sendVars
  /\ UNCHANGED <<read, drained>>

StillWaiting(n, atStart) ==
  /\ IF Starved(n, atStart)
     THEN Close(backlog)
     ELSE UNCHANGED sendVars
  /\ UNCHANGED <<read, drained>>

\* A frame was read whole: the body's checks (a frame without a body skips
\* them), then what verCheck, login or inGameFrame does with it.
Passes(f, v) == f.len = 0 \/ (f.version = v /\ f.type # "unknown")

\* Mutant: a refused frame's header stays in its buffer.
FrameReadKeepsHeader(k, v) ==
  /\ rheaderbuff' = IF Passes(sent[k], v) THEN <<>>
                    ELSE HeaderWith(HeaderLength - Len(rheaderbuff))
  /\ rdatabuff' = <<>>
  /\ read' = Append(read, k)
  /\ Reply(IF Passes(sent[k], v) /\ sent[k].type = "connect"
           THEN "open" ELSE status)
  /\ UNCHANGED drained

FrameRead(k, v) ==
  /\ rheaderbuff' = <<>>
  /\ rdatabuff' = <<>>
  /\ read' = Append(read, k)
  /\ Reply(IF Passes(sent[k], v) /\ sent[k].type = "connect"
           THEN "open" ELSE status)
  /\ UNCHANGED drained

\* Mutant: a frame that is too long is answered, and the connection kept.
InvalidHeaderStays(header) ==
  /\ rheaderbuff' = header
  /\ Reply(status)
  /\ UNCHANGED <<rdatabuff, read, drained>>

\* The length field is out of range: readFrame answers and closes.
InvalidHeader(header) ==
  /\ rheaderbuff' = header
  /\ \E queued \in Queued : Close(queued)
  /\ UNCHANGED <<rdatabuff, read, drained>>

\* readFrame, with v the version of the connection.
ReadFrame(n, v) ==
  LET h == Min(n, HeaderLength - Len(rheaderbuff))
      header == HeaderWith(h)
      k == FrameOf(header)
      d == Min(n - h, sent[k].len - Len(rdatabuff))
      data == BodyWith(h, d)
  IN IF sendandclose
     THEN /\ Read(0)
          /\ UNCHANGED <<rheaderbuff, rdatabuff, status, backlog, sendandclose,
                         read, drained>>
     ELSE IF Len(header) < HeaderLength
     THEN /\ Read(h)
          /\ rheaderbuff' = header
          /\ UNCHANGED rdatabuff
          /\ StillWaiting(h, Len(header) = VersionLength /\ status = "new")
     ELSE IF sent[k].type = "invalid"
     THEN /\ Read(h)
          /\ InvalidHeader(header)
     ELSE IF Len(data) < sent[k].len
     THEN /\ Read(h + d)
          /\ rheaderbuff' = header
          /\ rdatabuff' = data
          /\ StillWaiting(h + d, data = <<>>)
     ELSE /\ Read(h + d)
          /\ FrameRead(k, v)

\* verCheck turns a version down: it answers, stays connected and throws away
\* what else has arrived.  Only the branch for an unknown version forgets the
\* version field.
TurnDown(n, kept) ==
  /\ Read(n)
  /\ rheaderbuff' = kept
  /\ drained' = TRUE
  /\ Reply(status)
  /\ UNCHANGED <<rdatabuff, read>>

\* verCheck: four bytes of version, then readFrame.
VerCheck(n) ==
  LET h == IF Len(rheaderbuff) < VersionLength
           THEN Min(n, VersionLength - Len(rheaderbuff)) ELSE 0
      header == HeaderWith(h)
      shown == VersionShown(header)
  IN IF Len(header) < VersionLength
     THEN /\ Read(h)
          /\ rheaderbuff' = header
          /\ UNCHANGED <<version, rdatabuff>>
          /\ StillWaiting(h, FALSE)
     ELSE CASE shown \in Supported ->
                 /\ version' = shown
                 /\ ReadFrame(n, shown)
            [] shown = "future" ->
                 /\ version' \in {version, "future"}
                 /\ TurnDown(n, header)
            [] shown = "unknown" ->
                 /\ UNCHANGED version
                 /\ TurnDown(n, <<>>)
            [] OTHER ->
                 /\ Read(h)
                 /\ rheaderbuff' = header
                 /\ SendDataAndClose
                 /\ UNCHANGED <<version, rdatabuff, read, drained>>

-----------------------------------------------------------------------------
(* The actions.                                                            *)

Init ==
  /\ sent = <<>> /\ channel = <<>> /\ decrypted = 0
  /\ tls \in BOOLEAN
  /\ fin = FALSE
  /\ status = "new" /\ version = "3"
  /\ rheaderbuff = <<>> /\ rdatabuff = <<>>
  /\ backlog = FALSE /\ sendandclose = FALSE
  /\ read = <<>> /\ drained = FALSE

\* select reports the descriptor: what a TLS session holds does not count.
Readable == Len(channel) > decrypted \/ fin

\* PlayerConnection::process, in a visit of the master loop during which n
\* units can be read.
Visit ==
  /\ status # "closed"
  /\ Readable
  /\ \E n \in 0 .. Len(channel) :
       /\ n >= decrypted
       /\ channel # <<>> => n > 0
       /\ IF status = "new"
          THEN VerCheck(n)
          ELSE ReadFrame(n, version) /\ UNCHANGED version

\* processWrite, once the socket has room.
SocketTakes ==
  /\ status # "closed"
  /\ backlog
  /\ backlog' = FALSE
  /\ status' = IF sendandclose THEN "closed" ELSE status
  /\ UNCHANGED <<sent, channel, decrypted, tls, fin, version, rheaderbuff,
                 rdatabuff, sendandclose, read, drained>>

\* The client sends a frame, in as many packets as it takes.
Send ==
  /\ Len(sent) < MaxFrames
  /\ ~fin
  /\ Pipelining \/ channel = <<>>
  /\ \E c \in ClientFrames :
       LET f == [version |-> c.version, type |-> c.type, len |-> c.len,
                 start |-> Total]
       IN /\ sent' = Append(sent, f)
          /\ channel' = channel \o [i \in 1 .. Size(f) |-> Total + i]
  /\ UNCHANGED <<decrypted, tls, fin, status, version, rheaderbuff, rdatabuff,
                 backlog, sendandclose, read, drained>>

\* The client shuts down its side.
ShutDown ==
  /\ ~fin
  /\ fin' = TRUE
  /\ UNCHANGED <<sent, channel, decrypted, tls, status, version, rheaderbuff,
                 rdatabuff, backlog, sendandclose, read, drained>>

Client == Send \/ ShutDown

Next == Visit \/ SocketTakes \/ Client

Spec == Init /\ [][Next]_vars

\* The master loop visits a readable connection again and again.  Nothing is
\* assumed of the client, or of the room in the socket.
FairSpec == Spec /\ WF_vars(Visit)

-----------------------------------------------------------------------------
(* Properties.                                                             *)

\* The connection is within its bounds: a buffer never holds more than the
\* header, or the body announced in it.
TypeOK ==
  /\ sent \in Seq(Frame)
  /\ channel \in Seq(Nat)
  /\ decrypted \in 0 .. Len(channel)
  /\ tls \in BOOLEAN /\ fin \in BOOLEAN
  /\ status \in {"new", "open", "closed"}
  /\ version \in Supported \cup {"future"}
  /\ rheaderbuff \in Seq(Nat) /\ Len(rheaderbuff) <= HeaderLength
  /\ rdatabuff \in Seq(Nat)
  /\ rdatabuff # <<>> => Len(rheaderbuff) = HeaderLength
  /\ backlog \in BOOLEAN /\ sendandclose \in BOOLEAN
  /\ read \in Seq(Nat)
  /\ drained \in BOOLEAN

\* What the buffers hold and what is still to be read.
Unread == rheaderbuff \o rdatabuff \o channel

\* However the stream is cut up on its way, and however visits end early for
\* want of bytes, as long as no version was turned down the frames read are
\* the frames sent, each once and in order, and the buffers continue the
\* stream where the last of them ended: no byte is read twice, skipped, or
\* given to the wrong frame, after a refused frame no more than after others.
NothingMixed ==
  ~drained =>
    /\ \A i \in DOMAIN read : read[i] = i
    /\ LET base == IF Len(read) < Len(sent) THEN sent[Len(read) + 1].start
                   ELSE Total
       IN /\ Len(Unread) = Total - base
          /\ \A i \in DOMAIN Unread : Unread[i] = base + i

\* On a plain connection, a frame of a client that shows a supported version
\* is read in the end, unless the connection is closed or about to be.
EveryFrameRead ==
  \A k \in 1 .. MaxFrames :
    (~tls /\ k <= Len(sent)) ~>
      (k \in {read[i] : i \in DOMAIN read} \/ drained \/ sendandclose
       \/ status = "closed")

\* A client that shuts down its side has its connection closed, once what the
\* server owes it is sent.
EofCloses ==
  fin ~> (status = "closed" \/ sendandclose \/ drained)
=============================================================================
