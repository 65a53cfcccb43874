--------------------------- MODULE NetworkProofs ---------------------------
(***************************************************************************)
(* What a connection took to send is in order between the client, the      *)
(* socket and the queue, and what waits will be written: for any number of *)
(* connections, descriptors and frames, whatever the clients do and        *)
(* however often descriptors are used again.                               *)
(***************************************************************************)
EXTENDS Network, SequencesExt, SequenceTheorems, FiniteSetTheorems,
        WellFoundedInduction, TLAPS

-----------------------------------------------------------------------------
(* Natural numbers and finite sets *)

LessThan == {p \in Nat \X Nat : p[1] < p[2]}

LEMMA LessThanWellFounded == IsWellFoundedOn(LessThan, Nat)
  BY NatLessThanWellFounded DEF OpToRel, LessThan

\* A set of naturals that is not empty has a least element.
LEMMA LeastElement ==
  ASSUME NEW T, T \subseteq Nat, T # {}
  PROVE  \E x \in T : \A y \in T : x <= y
<1>1. PICK x \in T : \A y \in T : ~ (<<y, x>> \in LessThan)
  BY LessThanWellFounded, WFMin
<1>2. \A y \in T : ~ (y < x)
  BY <1>1 DEF LessThan
<1>3. QED BY <1>2

-----------------------------------------------------------------------------
(* The inductive invariant *)

\* The frames of a connection, from the client's end.
Stream(c) == c.got \o c.buffer \o c.queue

UpTo(n) == [i \in 1 .. n |-> i]

InOrder(c) == c.peer # "reset" => Stream(c) = UpTo(c.sent)

\* A connection as its operations leave it.  One that has frames is open; one
\* that still takes frames and is not open has been reset, so that what it takes
\* is dropped (login sets the status of a connection that its answer closed).
Sane(c) ==
  /\ c \in Connection
  /\ Len(c.buffer) <= Room
  /\ c.sent + c.requests <= MaxFrames
  /\ c.queue # <<>> => c.open
  /\ c.status # 0 => c.open \/ c.peer = "reset"
  /\ c.open => c.fd \in Fd /\ c.life # "none"
  /\ InOrder(c)

LoopTypes ==
  /\ phase \in {"timers", "write", "read"}
  /\ cursor \in Fd \cup {0}
  /\ readable \in SUBSET Fd
  /\ writable \in SUBSET Fd
  /\ active \in BOOLEAN
  /\ crashed \in BOOLEAN

ListTypes ==
  /\ DOMAIN connections \subseteq Fd
  /\ \A f \in DOMAIN connections : connections[f] \in Conn

WaitTypes ==
  /\ DOMAIN writequeue \subseteq Fd
  /\ \A f \in DOMAIN writequeue : writequeue[f] \in Conn

AllSane == /\ conn = [c \in Conn |-> conn[c]]
           /\ \A c \in Conn : Sane(conn[c])

\* No two connections have the same open descriptor.
Apart ==
  \A c, d \in Conn : conn[c].open /\ conn[d].open /\ conn[c].fd = conn[d].fd => c = d

\* The loop knows the living by their descriptors.
Listed ==
  \A f \in DOMAIN connections :
    conn[connections[f]].life = "live" /\ conn[connections[f]].fd = f

\* So does the write queue; one that is to be closed has yet to write.
Waiting ==
  \A f \in DOMAIN writequeue :
    conn[writequeue[f]].life = "live" =>
      /\ conn[writequeue[f]].fd = f
      /\ conn[writequeue[f]].closing => conn[writequeue[f]].queue # <<>>

\* What waits to be written has been accepted.
WaitersMade == \A f \in DOMAIN writequeue : conn[writequeue[f]].life # "none"

\* What select() found writable waits until it is served.
Chosen == phase = "write" => writable \subseteq DOMAIN writequeue

Queue == WaitTypes /\ Waiting /\ WaitersMade /\ WriterQueued

IInv == LoopTypes /\ ListTypes /\ AllSane /\ Apart /\ Listed /\ Queue /\ Chosen

-----------------------------------------------------------------------------
(* Sequences of frames *)

FrameNo == 1 .. MaxFrames

LEMMA Associative ==
  ASSUME NEW S
  PROVE  \A s, t, u \in Seq(S) : (s \o t) \o u = s \o (t \o u)
  BY ConcatAssociative

LEMMA NoFrames == <<>> \in Seq(FrameNo)
  OBVIOUS

LEMMA Regroup ==
  \A g, b, p, r \in Seq(FrameNo) : (g \o (b \o p)) \o r = (g \o b) \o (p \o r)
<1> DEFINE S == FrameNo
<1> HIDE DEF S
<1> SUFFICES \A g, b, p, r \in Seq(S) : (g \o (b \o p)) \o r = (g \o b) \o (p \o r)
  BY DEF S
<1> TAKE g, b, p, r \in Seq(S)
<1>1. g \o b \in Seq(S)
  OBVIOUS
<1>2. (g \o b) \o p = g \o (b \o p)
  OBVIOUS
<1>3. \A s \in Seq(S) : (s \o p) \o r = s \o (p \o r)
  BY Associative
<1>4. ((g \o b) \o p) \o r = (g \o b) \o (p \o r)
  BY <1>1, <1>3, Zenon
<1>5. QED BY <1>2, <1>4, Zenon

\* The front of the queue goes to the end of the buffer.
SameStream(g, b, q, n) ==
  (g \o (b \o SubSeq(q, 1, n))) \o SubSeq(q, n + 1, Len(q)) = (g \o b) \o q

LEMMA MovedAlong ==
  ASSUME NEW g \in Seq(FrameNo), NEW b \in Seq(FrameNo), NEW q \in Seq(FrameNo), NEW n \in 0 .. Len(q)
  PROVE  SameStream(g, b, q, n)
<1> DEFINE p == SubSeq(q, 1, n)
           r == SubSeq(q, n + 1, Len(q))
<1>1. p \in Seq(FrameNo) /\ r \in Seq(FrameNo)
  OBVIOUS
<1>2. 1 \in 1 .. Len(q) + 1 /\ n \in 1 - 1 .. Len(q) /\ Len(q) \in n .. Len(q)
  OBVIOUS
<1>3. SubSeq(q, 1, n) \o SubSeq(q, n + 1, Len(q)) = SubSeq(q, 1, Len(q))
  BY <1>2, ConcatAdjacentSubSeq, Zenon
<1>4. SubSeq(q, 1, Len(q)) = q
  BY SubSeqFull, Zenon
<1>5. p \o r = q
  BY <1>3, <1>4, Zenon
<1> HIDE DEF p, r
<1>6. \A x, y \in Seq(FrameNo) : (g \o (b \o x)) \o y = (g \o b) \o (x \o y)
  BY Regroup
<1>7. (g \o (b \o p)) \o r = (g \o b) \o (p \o r)
  BY <1>1, <1>6, Zenon
<1>8. QED BY <1>5, <1>7, Zenon DEF p, r, SameStream

LEMMA NextNumber ==
  ASSUME NEW S, NEW n \in Nat, n + 1 \in S
  PROVE  \A s, q \in Seq(S) :
           s \o q = [i \in 1 .. n |-> i] => s \o Append(q, n + 1) = [i \in 1 .. n + 1 |-> i]
<1> TAKE s, q \in Seq(S)
<1> HAVE s \o q = [i \in 1 .. n |-> i]
<1>1. Append(q, n + 1) \in Seq(S) /\ Len(Append(q, n + 1)) = Len(q) + 1
  OBVIOUS
<1>2. Len(s) + Len(q) = n /\ Len(s) \in Nat /\ Len(q) \in Nat
  <2>1. Len(s \o q) = Len(s) + Len(q)
    BY ConcatProperties
  <2>2. Len([i \in 1 .. n |-> i]) = n
    OBVIOUS
  <2>3. QED BY <2>1, <2>2
<1>3. Len(s \o Append(q, n + 1)) = n + 1 /\ s \o Append(q, n + 1) \in Seq(S)
  BY <1>1, <1>2, ConcatProperties
<1>4. ASSUME NEW i \in 1 .. n + 1 PROVE (s \o Append(q, n + 1))[i] = i
  <2>1. CASE i = n + 1
    BY <1>1, <1>2, <2>1
  <2>2. CASE i # n + 1
    <3>1. i \in 1 .. n /\ i \in 1 .. Len(s) + Len(q)
      BY <1>2, <2>2
    <3>2. (s \o q)[i] = i
      BY <3>1
    <3>3. (s \o q)[i] = IF i <= Len(s) THEN s[i] ELSE q[i - Len(s)]
      BY <3>1, ConcatProperties, Zenon
    <3>4. (s \o Append(q, n + 1))[i] = IF i <= Len(s) THEN s[i] ELSE Append(q, n + 1)[i - Len(s)]
      BY <1>1, <1>2, <3>1, ConcatProperties
    <3>5. ~(i <= Len(s)) => Append(q, n + 1)[i - Len(s)] = q[i - Len(s)]
      BY <1>2, <3>1
    <3>6. QED BY <3>2, <3>3, <3>4, <3>5
  <2>3. QED BY <2>1, <2>2
<1>5. QED BY <1>1, <1>3, <1>4

\* A frame is taken into the queue.
LEMMA OneMore ==
  ASSUME NEW n \in Nat, n + 1 \in FrameNo
  PROVE  \A g, b, q \in Seq(FrameNo) :
           (g \o b) \o q = UpTo(n)
             => (g \o b) \o Append(q, n + 1) = UpTo(n + 1)
<1> DEFINE S == FrameNo
<1> HIDE DEF S
<1> SUFFICES ASSUME NEW g \in Seq(S), NEW b \in Seq(S), NEW q \in Seq(S), n + 1 \in S,
                    (g \o b) \o q = UpTo(n)
             PROVE  (g \o b) \o Append(q, n + 1) = UpTo(n + 1)
  BY Zenon DEF S
<1>1. g \o b \in Seq(S)
  OBVIOUS
<1>2. \A s, t \in Seq(S) : s \o t = UpTo(n) => s \o Append(t, n + 1) = UpTo(n + 1)
  BY NextNumber, Zenon DEF UpTo
<1>3. QED BY <1>1, <1>2, Zenon

\* The client takes the first frame of the buffer.
LEMMA OneRead ==
  \A g, b, q \in Seq(FrameNo) :
    b # <<>> => Append(g, Head(b)) \o Tail(b) \o q = g \o b \o q
<1> DEFINE S == FrameNo
<1> HIDE DEF S
<1> SUFFICES ASSUME NEW g \in Seq(S), NEW b \in Seq(S), NEW q \in Seq(S), b # <<>>
             PROVE  Append(g, Head(b)) \o Tail(b) \o q = g \o b \o q
  BY Zenon DEF S
<1>1. Head(b) \in S /\ Tail(b) \in Seq(S) /\ <<Head(b)>> \in Seq(S)
  OBVIOUS
<1>2. <<Head(b)>> \o Tail(b) = b
  BY <1>1
<1>3. Append(g, Head(b)) = g \o <<Head(b)>>
  BY <1>1, AppendIsConcat
<1>4. (g \o <<Head(b)>>) \o Tail(b) = g \o (<<Head(b)>> \o Tail(b))
  BY <1>1, ConcatAssociative
<1>5. QED BY <1>2, <1>3, <1>4, Zenon

-----------------------------------------------------------------------------
(* The operations of a connection *)

LEMMA Parts ==
  ASSUME NEW c \in Connection
  PROVE  /\ c.queue \in Seq(FrameNo) /\ c.buffer \in Seq(FrameNo) /\ c.got \in Seq(FrameNo)
         /\ c.sent \in 0 .. MaxFrames /\ c.requests \in 0 .. MaxFrames /\ c.status \in 0 .. 3
         /\ c.fd \in Fd \cup {0} /\ c.life \in {"none", "live", "deleted"}
         /\ c.peer \in {"open", "fin", "reset"} /\ c.closing \in BOOLEAN /\ c.open \in BOOLEAN
  BY DEF Connection, FrameNo

LEMMA ShutKeeps ==
  ASSUME NEW c, Sane(c), c.queue = <<>>
  PROVE  /\ Sane(Shut(c)) /\ Shut(c).life = c.life /\ Shut(c).fd = c.fd
         /\ Shut(c).queue = <<>> /\ ~Shut(c).open /\ Shut(c).status = 0
<1> USE ConstantsAssumption
<1>1. c \in Connection
  BY DEF Sane
<1>2. CASE c.requests > 0
  <2> DEFINE s == [c EXCEPT !.open = FALSE, !.status = 0, !.peer = "reset",
                            !.requests = 0, !.buffer = <<>>]
  <2>1. Shut(c) = s
    BY <1>2 DEF Shut
  <2>2. /\ s.peer = "reset" /\ s.requests = 0 /\ s.buffer = <<>> /\ s.status = 0 /\ s.open = FALSE
        /\ s.queue = c.queue /\ s.sent = c.sent /\ s.life = c.life /\ s.fd = c.fd
    BY <1>1 DEF Connection
  <2>3. s \in Connection
    <3>1. PICK z \in 0 .. 3 : z = 0
      OBVIOUS
    <3>2. PICK n \in 0 .. MaxFrames : n = 0
      OBVIOUS
    <3>3. [c EXCEPT !.open = FALSE, !.status = z, !.peer = "reset", !.requests = n, !.buffer = <<>>] \in Connection
      BY <1>1 DEF Connection
    <3>4. QED BY <3>1, <3>2, <3>3, Zenon
  <2> HIDE DEF s
  <2>4. Sane(s)
    BY <1>1, <2>2, <2>3, Parts DEF Sane, InOrder
  <2>5. QED BY <2>1, <2>2, <2>4
<1>3. CASE ~(c.requests > 0)
  <2> DEFINE s == [c EXCEPT !.open = FALSE, !.status = 0]
  <2>1. Shut(c) = s
    BY <1>3 DEF Shut
  <2>2. /\ s.peer = c.peer /\ s.requests = c.requests /\ s.buffer = c.buffer /\ s.status = 0 /\ s.open = FALSE
        /\ s.queue = c.queue /\ s.sent = c.sent /\ s.life = c.life /\ s.fd = c.fd /\ s.got = c.got
    BY <1>1 DEF Connection
  <2>3. s \in Connection
    <3>1. PICK z \in 0 .. 3 : z = 0
      OBVIOUS
    <3>2. [c EXCEPT !.open = FALSE, !.status = z] \in Connection
      BY <1>1 DEF Connection
    <3>3. QED BY <3>1, <3>2, Zenon
  <2> HIDE DEF s
  <2>4. Sane(s)
    BY <2>2, <2>3 DEF Sane, InOrder, Stream
  <2>5. QED BY <2>1, <2>2, <2>4
<1>4. QED BY <1>2, <1>3

LEMMA CloseKeeps ==
  ASSUME NEW c, Sane(c)
  PROVE  /\ Sane(Close(c)) /\ Close(c).life = c.life /\ Close(c).fd = c.fd
         /\ Close(c).queue = c.queue /\ (Close(c).open => c.open)
         /\ Close(c).closing => c.queue # <<>> \/ c.closing
<1>1. CASE c.queue = <<>>
  <2>1. Shut(c).closing = c.closing
    BY DEF Shut, Sane, Connection
  <2>2. QED BY <1>1, <2>1, ShutKeeps DEF Close
<1>2. CASE c.queue # <<>>
  <2> DEFINE s == [c EXCEPT !.closing = TRUE]
  <2>1. Close(c) = s
    BY <1>2 DEF Close
  <2>2. /\ s.peer = c.peer /\ s.requests = c.requests /\ s.buffer = c.buffer /\ s.status = c.status
        /\ s.queue = c.queue /\ s.sent = c.sent /\ s.life = c.life /\ s.fd = c.fd /\ s.got = c.got
        /\ s.open = c.open /\ s \in Connection
    BY DEF Sane, Connection
  <2> HIDE DEF s
  <2>3. Sane(s)
    BY <2>2 DEF Sane, InOrder, Stream
  <2>4. QED BY <1>2, <2>1, <2>2, <2>3
<1>3. QED BY <1>1, <1>2

LEMMA WrittenKeeps ==
  ASSUME NEW c, Sane(c)
  PROVE  /\ Sane(Written(c)) /\ Written(c).life = c.life /\ Written(c).fd = c.fd
         /\ Written(c).open = c.open /\ Written(c).closing = c.closing /\ Written(c).status = c.status
<1> USE ConstantsAssumption
<1>1. c \in Connection /\ Len(c.buffer) <= Room
  BY DEF Sane
<1>2. c.queue \in Seq(FrameNo) /\ c.buffer \in Seq(FrameNo) /\ c.got \in Seq(FrameNo)
  BY <1>1, Parts
<1>3. Fits(c) \in 0 .. Len(c.queue) /\ Fits(c) <= Room - Len(c.buffer)
  <2> DEFINE l == Len(c.queue)
             m == Len(c.buffer)
  <2>1. l \in Nat /\ m \in Nat /\ Room \in Nat /\ m <= Room
    BY <1>1, <1>2
  <2>2. Fits(c) = IF l <= Room - m THEN l ELSE Room - m
    BY Zenon DEF Fits
  <2> HIDE DEF l, m
  <2>3. Fits(c) \in 0 .. l /\ Fits(c) <= Room - m
    BY <2>1, <2>2
  <2>4. QED BY <2>3 DEF l, m
<1> DEFINE p == SubSeq(c.queue, 1, Fits(c))
           r == SubSeq(c.queue, Fits(c) + 1, Len(c.queue))
           s == [c EXCEPT !.buffer = @ \o p, !.queue = r]
<1>4. Written(c) = s
  BY DEF Written
<1>5. /\ p \in Seq(FrameNo) /\ Len(p) = Fits(c) /\ r \in Seq(FrameNo)
      /\ c.queue = <<>> => r = <<>>
  BY <1>2, <1>3
<1>6. (c.got \o (c.buffer \o p)) \o r = (c.got \o c.buffer) \o c.queue
  <2>1. SameStream(c.got, c.buffer, c.queue, Fits(c))
    BY <1>2, <1>3, MovedAlong
  <2>2. QED BY <2>1, Zenon DEF SameStream
<1> HIDE DEF p, r
<1>7. c.buffer \o p \in Seq(FrameNo) /\ Len(c.buffer \o p) <= Room
  BY <1>1, <1>2, <1>3, <1>5, ConcatProperties
<1>8. /\ s.peer = c.peer /\ s.requests = c.requests /\ s.status = c.status
      /\ s.sent = c.sent /\ s.life = c.life /\ s.fd = c.fd /\ s.got = c.got
      /\ s.open = c.open /\ s.closing = c.closing /\ s.queue = r /\ s.buffer = c.buffer \o p
  BY <1>1 DEF Connection
<1>9. s \in Connection
  BY <1>1, <1>5, <1>7 DEF Connection, FrameNo
<1> HIDE DEF s
<1>10. InOrder(s)
  <2>1. Stream(s) = Stream(c)
    BY <1>6, <1>8, Zenon DEF Stream
  <2>2. QED BY <1>8, <2>1, Zenon DEF InOrder, Sane
<1>11. Sane(s)
  BY <1>5, <1>7, <1>8, <1>9, <1>10 DEF Sane
<1>12. QED BY <1>4, <1>8, <1>11

LEMMA ProcessWriteKeeps ==
  ASSUME NEW c, Sane(c)
  PROVE  /\ Sane(ProcessWrite(c)) /\ ProcessWrite(c).life = c.life /\ ProcessWrite(c).fd = c.fd
         /\ (ProcessWrite(c).open => c.open) /\ ProcessWrite(c).closing = c.closing
         /\ c.peer = "reset" => ProcessWrite(c).queue = <<>> /\ ProcessWrite(c).peer = "reset"
         /\ c.open /\ ~c.closing => ProcessWrite(c).open \/ ProcessWrite(c).peer = "reset"
<1>1. CASE c.queue # <<>> /\ c.peer = "reset"
  <2> DEFINE s == [c EXCEPT !.queue = <<>>]
  <2>1. ProcessWrite(c) = Shut(s)
    BY <1>1 DEF ProcessWrite
  <2>2. /\ s.peer = c.peer /\ s.requests = c.requests /\ s.buffer = c.buffer /\ s.status = c.status
        /\ s.queue = <<>> /\ s.sent = c.sent /\ s.life = c.life /\ s.fd = c.fd /\ s.got = c.got
        /\ s.open = c.open /\ s.closing = c.closing /\ s \in Connection
    <3>1. PICK q \in Seq(FrameNo) : q = <<>>
      BY NoFrames, Zenon
    <3>2. [c EXCEPT !.queue = q] \in Connection
      BY DEF Sane, Connection, FrameNo
    <3>3. s \in Connection
      BY <3>1, <3>2, Zenon
    <3>4. QED BY <3>3 DEF Sane, Connection
  <2> HIDE DEF s
  <2>3. Sane(s)
    BY <1>1, <2>2 DEF Sane, InOrder
  <2>4. Shut(s).closing = c.closing /\ Shut(s).peer = "reset"
    BY <1>1, <2>2 DEF Shut, Connection
  <2>5. QED BY <1>1, <2>1, <2>2, <2>3, <2>4, ShutKeeps
<1>2. CASE ~(c.queue # <<>> /\ c.peer = "reset")
  <2> DEFINE w == Written(c)
  <2>1. ProcessWrite(c) = IF w.queue = <<>> /\ w.closing THEN Shut(w) ELSE w
    BY <1>2 DEF ProcessWrite
  <2>2. /\ Sane(w) /\ w.life = c.life /\ w.fd = c.fd
        /\ w.open = c.open /\ w.closing = c.closing /\ w.status = c.status
    BY WrittenKeeps
  <2>3. (c.queue = <<>> => w.queue = <<>>) /\ w.peer = c.peer
    BY DEF Written, Sane, Connection, Fits
  <2> HIDE DEF w
  <2>4. Shut(w).closing = w.closing /\ (w.peer = "reset" => Shut(w).peer = "reset")
    BY <2>2 DEF Shut, Sane, Connection
  <2>5. QED BY <1>2, <2>1, <2>2, <2>3, <2>4, ShutKeeps
<1>3. QED BY <1>1, <1>2

LEMMA SendFrameKeeps ==
  ASSUME NEW c, Sane(c), c.sent + c.requests < MaxFrames
  PROVE  /\ Sane(SendFrame(c)) /\ SendFrame(c).life = c.life /\ SendFrame(c).fd = c.fd
         /\ (SendFrame(c).open => c.open) /\ SendFrame(c).closing = c.closing
         /\ ~TakesFrames(c) => SendFrame(c) = c
         /\ c.status # 0 /\ ~c.closing => SendFrame(c).open \/ SendFrame(c).peer = "reset"
<1> USE ConstantsAssumption
<1>1. CASE ~TakesFrames(c)
  BY <1>1 DEF SendFrame, Sane
<1>2. CASE TakesFrames(c) /\ c.open
  <2> DEFINE s == [c EXCEPT !.queue = Append(@, c.sent + 1), !.sent = @ + 1]
  <2>1. SendFrame(c) = ProcessWrite(s)
    BY <1>2 DEF SendFrame
  <2>2. c \in Connection
    BY DEF Sane
  <2>3. /\ c.queue \in Seq(FrameNo) /\ c.buffer \in Seq(FrameNo) /\ c.got \in Seq(FrameNo)
        /\ c.sent \in Nat /\ c.requests \in Nat
    BY <2>2, Parts
  <2>4. c.sent + 1 \in FrameNo /\ c.sent + 1 \in 0 .. MaxFrames
    BY <2>3 DEF FrameNo
  <2>5. Append(c.queue, c.sent + 1) \in Seq(FrameNo)
    BY <2>3, <2>4
  <2>6. /\ s.peer = c.peer /\ s.requests = c.requests /\ s.buffer = c.buffer /\ s.status = c.status
        /\ s.queue = Append(c.queue, c.sent + 1) /\ s.sent = c.sent + 1 /\ s.life = c.life
        /\ s.fd = c.fd /\ s.got = c.got /\ s.open = c.open /\ s.closing = c.closing
    BY <2>2 DEF Connection
  <2>7. s \in Connection
    <3>1. PICK n \in 0 .. MaxFrames : n = c.sent + 1
      BY <2>4
    <3>2. PICK q \in Seq(FrameNo) : q = Append(c.queue, c.sent + 1)
      BY <2>5
    <3>3. [c EXCEPT !.queue = q, !.sent = n] \in Connection
      BY <2>2 DEF Connection, FrameNo
    <3>4. QED BY <3>1, <3>2, <3>3, Zenon
  <2> HIDE DEF s
  <2>8. InOrder(s)
    <3>1. SUFFICES ASSUME s.peer # "reset" PROVE Stream(s) = UpTo(s.sent)
      BY Zenon DEF InOrder
    <3>2. (c.got \o c.buffer) \o c.queue = UpTo(c.sent)
      BY <2>6, <3>1, Zenon DEF Sane, InOrder, Stream
    <3>3. \A g, b, q \in Seq(FrameNo) :
            (g \o b) \o q = UpTo(c.sent)
              => (g \o b) \o Append(q, c.sent + 1) = UpTo(c.sent + 1)
      BY <2>3, <2>4, OneMore, Zenon
    <3>4. (c.got \o c.buffer) \o Append(c.queue, c.sent + 1) = UpTo(c.sent + 1)
      BY <2>3, <3>2, <3>3, Zenon
    <3>5. QED BY <2>6, <3>4, Zenon DEF Stream
  <2>9. Sane(s)
    BY <1>2, <2>3, <2>6, <2>7, <2>8 DEF Sane
  <2>10. SendFrame(c).open \/ SendFrame(c).peer = "reset"
    <3>1. s.open /\ ~s.closing
      BY <1>2, <2>6, Zenon DEF TakesFrames
    <3>2. ProcessWrite(s).open \/ ProcessWrite(s).peer = "reset"
      BY <2>9, <3>1, ProcessWriteKeeps, Zenon
    <3>3. QED BY <2>1, <3>2, Zenon
  <2>11. QED BY <1>2, <2>1, <2>6, <2>9, <2>10, ProcessWriteKeeps
<1>3. CASE TakesFrames(c) /\ ~c.open
  <2> DEFINE s == [c EXCEPT !.queue = Append(@, c.sent + 1), !.sent = @ + 1]
             t == [s EXCEPT !.queue = <<>>]
  <2>1. c \in Connection /\ c.peer = "reset"
    BY <1>3 DEF Sane, TakesFrames
  <2>2. c.sent \in Nat /\ c.requests \in Nat /\ c.queue \in Seq(FrameNo)
    BY <2>1, Parts
  <2>3. s.queue # <<>> /\ s.peer = "reset"
    <3>1. s.queue = Append(c.queue, c.sent + 1) /\ s.peer = c.peer
      BY <2>1 DEF Connection
    <3>2. Append(c.queue, c.sent + 1) # <<>>
      BY <2>2
    <3>3. QED BY <2>1, <3>1, <3>2
  <2>4. SendFrame(c) = Shut(t)
    BY <1>3, <2>3 DEF SendFrame, ProcessWrite
  <2>5. /\ t.peer = c.peer /\ t.requests = c.requests /\ t.buffer = c.buffer /\ t.status = c.status
        /\ t.queue = <<>> /\ t.sent = c.sent + 1 /\ t.life = c.life
        /\ t.fd = c.fd /\ t.got = c.got /\ t.open = c.open /\ t.closing = c.closing
    BY <2>1 DEF Connection
  <2>6. t \in Connection
    <3>1. PICK n \in 0 .. MaxFrames : n = c.sent + 1
      BY <2>2
    <3>2. PICK q \in Seq(FrameNo) : q = <<>>
      BY NoFrames, Zenon
    <3>3. [c EXCEPT !.queue = q, !.sent = n] \in Connection
      BY <2>1 DEF Connection, FrameNo
    <3>4. t = [c EXCEPT !.queue = <<>>, !.sent = c.sent + 1]
      BY <2>1 DEF Connection
    <3>5. QED BY <3>1, <3>2, <3>3, <3>4, Zenon
  <2> HIDE DEF s, t
  <2>7. Sane(t)
    BY <1>3, <2>1, <2>2, <2>5, <2>6 DEF Sane, InOrder
  <2>8. Shut(t).closing = t.closing /\ Shut(t).peer = "reset"
    BY <2>1, <2>5, <2>6 DEF Shut, Connection
  <2>9. QED BY <1>3, <2>1, <2>4, <2>5, <2>7, <2>8, ShutKeeps
<1>4. QED BY <1>1, <1>2, <1>3

LEMMA UnusedIsSane == Sane(Unused)
<1> USE ConstantsAssumption
<1>1. PICK n \in 0 .. MaxFrames : n = 0
  OBVIOUS
<1>2. PICK z \in 0 .. 3 : z = 0
  OBVIOUS
<1>3. PICK q \in Seq(FrameNo) : q = <<>>
  BY NoFrames, Zenon
<1>4. PICK h \in Fd \cup {0} : h = 0
  OBVIOUS
<1>5. [life |-> "none", fd |-> h, status |-> z, queue |-> q, closing |-> FALSE, open |-> FALSE,
       peer |-> "open", requests |-> n, buffer |-> q, got |-> q, sent |-> n] \in Connection
  BY DEF Connection, FrameNo
<1>6. Unused \in Connection
  BY <1>1, <1>2, <1>3, <1>4, <1>5, Zenon DEF Unused
<1>7. Stream(Unused) = UpTo(Unused.sent)
  <2>1. UpTo(0) = <<>>
    BY DEF UpTo
  <2>2. (<<>> \o <<>>) \o <<>> = <<>>
    OBVIOUS
  <2>3. QED BY <2>1, <2>2 DEF Unused, Stream
<1>8. QED BY <1>6, <1>7 DEF Sane, InOrder, Unused

\* A connection that has just been accepted
Accepted(h) == [Unused EXCEPT !.life = "live", !.open = TRUE, !.fd = h, !.status = 1]

LEMMA AcceptedIsSane ==
  ASSUME NEW h \in Fd
  PROVE  Sane(Accepted(h)) /\ Accepted(h).queue = <<>> /\ Accepted(h).fd = h /\ Accepted(h).life = "live"
         /\ Accepted(h).open
<1> USE ConstantsAssumption
<1> DEFINE s == Accepted(h)
<1>1. PICK o \in 0 .. 3 : o = 1
  OBVIOUS
<1>2. [Unused EXCEPT !.life = "live", !.open = TRUE, !.fd = h, !.status = o] \in Connection
  BY UnusedIsSane DEF Sane, Connection
<1>3. s \in Connection
  BY <1>1, <1>2, Zenon DEF Accepted
<1>4. /\ s.peer = Unused.peer /\ s.requests = Unused.requests /\ s.buffer = Unused.buffer
      /\ s.queue = Unused.queue /\ s.sent = Unused.sent /\ s.got = Unused.got
      /\ s.life = "live" /\ s.fd = h /\ s.open = TRUE
  BY UnusedIsSane DEF Accepted, Sane, Connection
<1> HIDE DEF s
<1>5. Unused.queue = <<>>
  BY DEF Unused
<1>6. Sane(s)
  BY <1>3, <1>4, <1>5, UnusedIsSane DEF Sane, InOrder, Stream
<1>7. QED BY <1>4, <1>5, <1>6 DEF s

\* A frame is taken from the receive buffer, and the connection may break.
LEMMA TakenKeeps ==
  ASSUME NEW c, Sane(c), c.requests > 0, NEW r \in Breaks([c EXCEPT !.requests = @ - 1])
  PROVE  /\ Sane(r) /\ r.life = c.life /\ r.fd = c.fd /\ r.open = c.open /\ r.closing = c.closing
         /\ r.status = c.status /\ r.sent + r.requests < MaxFrames
<1> USE ConstantsAssumption
<1> DEFINE s == [c EXCEPT !.requests = @ - 1]
           t == [s EXCEPT !.peer = "reset"]
<1>1. c \in Connection
  BY DEF Sane
<1>2. c.requests \in 0 .. MaxFrames /\ c.sent \in 0 .. MaxFrames
  BY <1>1, Parts
<1>3. s \in Connection
  <2>1. PICK n \in 0 .. MaxFrames : n = c.requests - 1
    BY <1>2
  <2>2. [c EXCEPT !.requests = n] \in Connection
    BY <1>1 DEF Connection
  <2>3. QED BY <2>1, <2>2, Zenon
<1>4. /\ s.peer = c.peer /\ s.requests = c.requests - 1 /\ s.buffer = c.buffer /\ s.status = c.status
      /\ s.queue = c.queue /\ s.sent = c.sent /\ s.life = c.life /\ s.fd = c.fd /\ s.got = c.got
      /\ s.open = c.open /\ s.closing = c.closing
  BY <1>1 DEF Connection
<1>5. r = s \/ r = t
  BY DEF Breaks
<1> HIDE DEF s
<1>6. /\ t.peer = "reset" /\ t.requests = s.requests /\ t.buffer = s.buffer /\ t.status = s.status
      /\ t.queue = s.queue /\ t.sent = s.sent /\ t.life = s.life /\ t.fd = s.fd /\ t.got = s.got
      /\ t.open = s.open /\ t.closing = s.closing /\ t \in Connection
  BY <1>3 DEF Connection
<1> HIDE DEF t
<1>7. c.sent + c.requests <= MaxFrames
  BY DEF Sane
<1>8. s.sent + s.requests < MaxFrames /\ s.sent + s.requests <= MaxFrames
  BY <1>2, <1>4, <1>7
<1>9. Sane(s)
  BY <1>3, <1>4, <1>8 DEF Sane, InOrder, Stream
<1>10. Sane(t)
  BY <1>3, <1>4, <1>6, <1>8, <1>9 DEF Sane, InOrder
<1>11. QED BY <1>4, <1>5, <1>6, <1>8, <1>9, <1>10

\* A status that is not 0 is set where there was one.
LEMMA StatusKeeps ==
  ASSUME NEW c, Sane(c), NEW z \in 1 .. 3, c.open \/ c.peer = "reset"
  PROVE  LET s == [c EXCEPT !.status = z]
         IN  /\ Sane(s) /\ s.life = c.life /\ s.fd = c.fd /\ s.open = c.open /\ s.closing = c.closing
             /\ s.queue = c.queue /\ s.status = z /\ s.sent = c.sent /\ s.requests = c.requests
<1> DEFINE s == [c EXCEPT !.status = z]
<1>1. c \in Connection
  BY DEF Sane
<1>2. s \in Connection
  <2>1. PICK y \in 0 .. 3 : y = z
    OBVIOUS
  <2>2. [c EXCEPT !.status = y] \in Connection
    BY <1>1 DEF Connection
  <2>3. QED BY <2>1, <2>2, Zenon
<1>3. /\ s.peer = c.peer /\ s.requests = c.requests /\ s.buffer = c.buffer /\ s.status = z
      /\ s.queue = c.queue /\ s.sent = c.sent /\ s.life = c.life /\ s.fd = c.fd /\ s.got = c.got
      /\ s.open = c.open /\ s.closing = c.closing
  BY <1>1 DEF Connection
<1> HIDE DEF s
<1>4. Sane(s)
  BY <1>2, <1>3 DEF Sane, InOrder, Stream
<1>5. QED BY <1>3, <1>4 DEF s

LEMMA DeletedKeeps ==
  ASSUME NEW c, Sane(c)
  PROVE  /\ Sane(Deleted(c)) /\ Deleted(c).fd = c.fd /\ Deleted(c).open = c.open
         /\ Deleted(c).closing = c.closing /\ Deleted(c).queue = c.queue /\ Deleted(c).status = c.status
         /\ (Deleted(c).life = "live" => c.life = "live") /\ (c.life # "none" => Deleted(c).life # "none")
         /\ (c.status # 0 => Deleted(c).life = c.life)
         /\ (c.status = 0 => Deleted(c).life = "deleted")
<1> DEFINE s == [c EXCEPT !.life = "deleted"]
<1>1. /\ s.peer = c.peer /\ s.requests = c.requests /\ s.buffer = c.buffer /\ s.status = c.status
      /\ s.queue = c.queue /\ s.sent = c.sent /\ s.life = "deleted" /\ s.fd = c.fd /\ s.got = c.got
      /\ s.open = c.open /\ s.closing = c.closing /\ s \in Connection
  BY DEF Sane, Connection
<1>2. Deleted(c) = IF c.status = 0 THEN s ELSE c
  BY DEF Deleted
<1> HIDE DEF s
<1>3. Sane(s)
  BY <1>1 DEF Sane, InOrder, Stream
<1>4. QED BY <1>1, <1>2, <1>3

\* The queue of a connection that was reset is dropped.
LEMMA DroppedKeeps ==
  ASSUME NEW c, Sane(c), c.peer = "reset"
  PROVE  LET s == [c EXCEPT !.queue = <<>>]
         IN  /\ Sane(s) /\ s.life = c.life /\ s.fd = c.fd /\ s.open = c.open /\ s.closing = c.closing
             /\ s.queue = <<>>
<1> DEFINE s == [c EXCEPT !.queue = <<>>]
<1>1. s \in Connection
  <2>1. PICK q \in Seq(FrameNo) : q = <<>>
    BY NoFrames, Zenon
  <2>2. [c EXCEPT !.queue = q] \in Connection
    BY DEF Sane, Connection, FrameNo
  <2>3. QED BY <2>1, <2>2, Zenon
<1>2. /\ s.peer = c.peer /\ s.requests = c.requests /\ s.buffer = c.buffer /\ s.status = c.status
      /\ s.queue = <<>> /\ s.sent = c.sent /\ s.life = c.life /\ s.fd = c.fd /\ s.got = c.got
      /\ s.open = c.open /\ s.closing = c.closing
  BY DEF Sane, Connection
<1> HIDE DEF s
<1>3. Sane(s)
  BY <1>1, <1>2 DEF Sane, InOrder
<1>4. QED BY <1>2, <1>3 DEF s

-----------------------------------------------------------------------------
(* What a step leaves of the tables *)

\* What a step may do to a connection that has been accepted
Kept(c) ==
  /\ Sane(conn'[c])
  /\ conn'[c].fd = conn[c].fd
  /\ conn'[c].open => conn[c].open
  /\ conn'[c].life = "live" => conn[c].life = "live"
  /\ conn[c].life # "none" => conn'[c].life # "none"

AllKept == conn' = [c \in Conn |-> conn'[c]] /\ \A c \in Conn : Kept(c)

LEMMA KeptApart ==
  ASSUME Apart, AllKept
  PROVE  AllSane' /\ Apart'
<1>1. AllSane'
  BY DEF AllKept, Kept, AllSane
<1>2. Apart'
  BY DEF AllKept, Kept, Apart
<1>3. QED BY <1>1, <1>2

\* A step that leaves the write queue alone gives nobody frames to write.
LEMMA QueueKept ==
  ASSUME Queue, AllKept, UNCHANGED writequeue,
         \A c \in Conn : conn'[c].life = "live" =>
           /\ conn'[c].queue # <<>> => conn[c].queue # <<>>
           /\ conn'[c].closing =>
                conn'[c].queue # <<>> \/ (conn[c].closing /\ conn'[c].queue = conn[c].queue)
  PROVE  Queue'
<1>1. WaitTypes'
  BY DEF Queue, WaitTypes
<1>2. Waiting'
  BY DEF Queue, WaitTypes, Waiting, AllKept, Kept
<1>3. WaitersMade'
  BY DEF Queue, WaitTypes, WaitersMade, AllKept, Kept
<1>4. WriterQueued'
  BY DEF Queue, WriterQueued, AllKept, Kept
<1>5. QED BY <1>1, <1>2, <1>3, <1>4 DEF Queue

\* The connections cs have tried to write.
LEMMA QueueAdded ==
  ASSUME Queue, AllSane, Apart, AllKept,
         NEW queue, DOMAIN queue \subseteq DOMAIN writequeue,
         \A f \in DOMAIN queue : queue[f] = writequeue[f],
         NEW cs \in SUBSET Conn, \A c \in cs : conn[c].life = "live",
         \A c \in Conn : c \notin cs /\ conn'[c].queue # <<>> =>
           conn[c].queue # <<>> /\ (conn[c].life = "live" => conn[c].fd \in DOMAIN queue),
         \A f \in DOMAIN queue :
           conn'[queue[f]].life = "live" /\ conn'[queue[f]].closing => conn'[queue[f]].queue # <<>>,
         writequeue' = AddToWriteQueue(queue, cs)
  PROVE  Queue'
<1> DEFINE waiting == {c \in cs : conn'[c].queue # <<>>}
           fds == {conn[c].fd : c \in waiting}
           who(f) == CHOOSE c \in waiting : conn[c].fd = f
<1>1. writequeue' = [f \in DOMAIN queue \cup fds |-> IF f \in fds THEN who(f) ELSE queue[f]]
  BY DEF AddToWriteQueue
<1>2. \A f \in fds : who(f) \in waiting /\ conn[who(f)].fd = f
  OBVIOUS
<1>3. \A c \in waiting : conn'[c].open /\ conn[c].open /\ conn[c].fd \in Fd /\ conn'[c].fd = conn[c].fd
  BY DEF AllKept, Kept, Sane
<1>4. ASSUME NEW c \in waiting PROVE who(conn[c].fd) = c
  <2>1. conn[c].fd \in fds
    OBVIOUS
  <2> DEFINE d == who(conn[c].fd)
  <2>2. d \in waiting /\ conn[d].fd = conn[c].fd
    BY <1>2, <2>1
  <2> HIDE DEF d
  <2>3. d \in Conn /\ c \in Conn /\ conn[d].open /\ conn[c].open
    BY <1>3, <2>2
  <2>4. d = c
    BY <2>2, <2>3 DEF Apart
  <2>5. QED BY <2>4 DEF d
<1> HIDE DEF who
<1>5. \A f \in DOMAIN writequeue' :
         \/ f \in fds /\ writequeue'[f] \in waiting /\ conn[writequeue'[f]].fd = f
         \/ f \in DOMAIN queue /\ writequeue'[f] = queue[f]
  BY <1>1, <1>2
<1>6. DOMAIN writequeue' = DOMAIN queue \cup fds /\ fds \subseteq Fd
  BY <1>1, <1>3
<1> HIDE DEF fds
<1>7. WaitTypes'
  BY <1>5, <1>6 DEF WaitTypes, Queue
<1>8. Waiting'
  <2>1. SUFFICES ASSUME NEW f \in DOMAIN writequeue', conn'[writequeue'[f]].life = "live"
                 PROVE  /\ conn'[writequeue'[f]].fd = f
                        /\ conn'[writequeue'[f]].closing => conn'[writequeue'[f]].queue # <<>>
    BY DEF Waiting
  <2>2. CASE f \in fds /\ writequeue'[f] \in waiting /\ conn[writequeue'[f]].fd = f
    BY <2>2 DEF AllKept, Kept
  <2>3. CASE f \in DOMAIN queue /\ writequeue'[f] = queue[f]
    BY <2>1, <2>3 DEF AllKept, Kept, Queue, Waiting, WaitTypes
  <2>4. QED BY <1>5, <2>2, <2>3
<1>9. WaitersMade'
  <2>1. SUFFICES ASSUME NEW f \in DOMAIN writequeue' PROVE conn'[writequeue'[f]].life # "none"
    BY DEF WaitersMade
  <2>2. CASE f \in fds /\ writequeue'[f] \in waiting
    BY <2>2 DEF AllKept, Kept
  <2>3. CASE f \in DOMAIN queue /\ writequeue'[f] = queue[f]
    BY <2>3 DEF AllKept, Kept, Queue, WaitersMade, WaitTypes
  <2>4. QED BY <1>5, <2>2, <2>3
<1>10. WriterQueued'
  <2>1. SUFFICES ASSUME NEW c \in Conn, conn'[c].life = "live", conn'[c].queue # <<>>
                 PROVE  conn'[c].fd \in DOMAIN writequeue' /\ writequeue'[conn'[c].fd] = c
    BY DEF WriterQueued
  <2>2. conn'[c].fd = conn[c].fd /\ conn[c].life = "live"
    BY <2>1 DEF AllKept, Kept
  <2>3. CASE c \in cs
    <3>1. c \in waiting
      BY <2>1, <2>3
    <3>2. conn[c].fd \in fds
      BY <3>1 DEF fds
    <3>3. QED BY <1>1, <1>4, <1>6, <2>2, <3>1, <3>2
  <2>4. CASE c \notin cs
    <3>1. conn[c].queue # <<>> /\ conn[c].fd \in DOMAIN queue
      BY <2>1, <2>2, <2>4
    <3>2. queue[conn[c].fd] = c
      BY <2>2, <3>1 DEF Queue, WriterQueued
    <3>3. conn[c].fd \notin fds
      <4>1. SUFFICES ASSUME conn[c].fd \in fds PROVE FALSE
        OBVIOUS
      <4>2. PICK d \in waiting : conn[d].fd = conn[c].fd
        BY <4>1 DEF fds
      <4>3. conn[c].open /\ conn[d].open
        BY <1>3, <3>1 DEF AllSane, Sane
      <4>4. d = c
        BY <4>2, <4>3 DEF Apart
      <4>5. QED BY <2>4, <4>4
    <3>4. QED BY <1>1, <1>6, <2>2, <3>1, <3>2, <3>3
  <2>5. QED BY <2>3, <2>4
<1>11. QED BY <1>7, <1>8, <1>9, <1>10 DEF Queue

\* The loop leaves a connection that is not deleted where it was.
LEMMA ListedKept ==
  ASSUME ListTypes, Listed, AllKept,
         DOMAIN connections' \subseteq DOMAIN connections,
         \A f \in DOMAIN connections' :
           connections'[f] = connections[f] /\ conn'[connections[f]].life = conn[connections[f]].life
  PROVE  ListTypes' /\ Listed'
  BY DEF ListTypes, Listed, AllKept, Kept

-----------------------------------------------------------------------------
(* The visits of the loop *)

LEMMA VisitKeeps ==
  ASSUME IInv, NEW f \in Fd, Visits(f), EndVisit(f), NEW s, Sane(s),
         conn' = [conn EXCEPT ![connections[f]] = s],
         s.fd = conn[connections[f]].fd, s.open => conn[connections[f]].open,
         s.life # "none", s.status # 0 => s.life = "live"
  PROVE  AllKept /\ LoopTypes' /\ ListTypes' /\ AllSane' /\ Apart' /\ Listed' /\ Chosen'
<1> DEFINE c == connections[f]
<1>1. f \in DOMAIN connections /\ c \in Conn /\ conn[c].life = "live" /\ conn[c].fd = f /\ phase = "read"
  BY DEF Visits, NextFds, IInv, ListTypes, Listed
<1> HIDE DEF c
<1>2. /\ conn' = [d \in Conn |-> conn'[d]] /\ conn'[c] = s
      /\ \A d \in Conn : d # c => conn'[d] = conn[d]
  BY <1>1 DEF IInv, AllSane, c
<1>3. AllKept
  <2>1. Kept(c)
    BY <1>1, <1>2 DEF Kept, c
  <2>2. ASSUME NEW d \in Conn, d # c PROVE Kept(d)
    BY <1>2, <2>2 DEF Kept, IInv, AllSane
  <2>3. QED BY <1>2, <2>1, <2>2 DEF AllKept
<1>4. AllSane' /\ Apart'
  BY <1>3, KeptApart DEF IInv
<1>5. CASE s.status = 0
  <2>1. connections' = Without(connections, f) /\ phase' = "timers" /\ cursor' = 0
    BY <1>2, <1>5 DEF EndVisit, c
  <2>2. LoopTypes'
    BY <2>1 DEF IInv, LoopTypes, EndVisit
  <2>3. DOMAIN connections' = DOMAIN connections \ {f}
        /\ \A g \in DOMAIN connections' : connections'[g] = connections[g]
    BY <2>1 DEF Without
  <2>4. \A g \in DOMAIN connections' : connections[g] # c /\ connections[g] \in Conn
    BY <1>1, <2>3 DEF IInv, ListTypes, Listed
  <2>5. ListTypes' /\ Listed'
    BY <1>2, <1>3, <2>3, <2>4, ListedKept DEF IInv
  <2>6. QED BY <1>3, <1>4, <2>1, <2>2, <2>5 DEF Chosen
<1>6. CASE s.status # 0
  <2>1. cursor' = f /\ phase' = phase /\ connections' = connections
    BY <1>2, <1>6 DEF EndVisit, c
  <2>2. LoopTypes'
    BY <2>1 DEF IInv, LoopTypes, EndVisit
  <2>3. ListTypes' /\ Listed'
    <3>1. \A g \in DOMAIN connections : connections[g] \in Conn
      BY DEF IInv, ListTypes
    <3>2. \A d \in Conn : conn'[d].life = conn[d].life
      BY <1>1, <1>2, <1>6
    <3>3. QED BY <1>3, <2>1, <3>1, <3>2, ListedKept DEF IInv
  <2>4. QED BY <1>1, <1>3, <1>4, <2>1, <2>2, <2>3 DEF Chosen
<1>7. QED BY <1>5, <1>6

\* The connection was sent something.
LEMMA VisitSends ==
  ASSUME IInv, NEW f \in Fd, Visits(f), EndVisit(f), NEW s, Sane(s),
         conn' = [conn EXCEPT ![connections[f]] = s],
         s.fd = conn[connections[f]].fd, s.open => conn[connections[f]].open,
         s.life # "none", s.status # 0 => s.life = "live",
         s.closing => s.queue # <<>>,
         writequeue' = AddToWriteQueue(writequeue, {connections[f]})
  PROVE  IInv'
<1> DEFINE c == connections[f]
<1>1. c \in Conn /\ conn[c].life = "live"
  BY DEF Visits, NextFds, IInv, ListTypes, Listed
<1> HIDE DEF c
<1>2. conn'[c] = s /\ \A d \in Conn : d # c => conn'[d] = conn[d]
  BY <1>1 DEF IInv, AllSane, c
<1>3. AllKept /\ LoopTypes' /\ ListTypes' /\ AllSane' /\ Apart' /\ Listed' /\ Chosen'
  BY VisitKeeps
<1>4. \A d \in Conn : d \notin {c} /\ conn'[d].queue # <<>> =>
        conn[d].queue # <<>> /\ (conn[d].life = "live" => conn[d].fd \in DOMAIN writequeue)
  BY <1>2 DEF IInv, Queue, WriterQueued
<1>5. \A g \in DOMAIN writequeue :
        conn'[writequeue[g]].life = "live" /\ conn'[writequeue[g]].closing
          => conn'[writequeue[g]].queue # <<>>
  BY <1>2 DEF IInv, Queue, Waiting, WaitTypes
<1>6. Queue'
  BY <1>1, <1>3, <1>4, <1>5, QueueAdded DEF IInv, c
<1>7. QED BY <1>3, <1>6 DEF IInv

\* The connection was not sent anything.
LEMMA VisitOnly ==
  ASSUME IInv, NEW f \in Fd, Visits(f), EndVisit(f), NEW s, Sane(s),
         conn' = [conn EXCEPT ![connections[f]] = s],
         s.fd = conn[connections[f]].fd, s.open => conn[connections[f]].open,
         s.life # "none", s.status # 0 => s.life = "live",
         s.queue # <<>> => conn[connections[f]].queue # <<>>,
         s.closing =>
           s.queue # <<>> \/ (conn[connections[f]].closing /\ s.queue = conn[connections[f]].queue),
         UNCHANGED writequeue
  PROVE  IInv'
<1> DEFINE c == connections[f]
<1>1. c \in Conn /\ conn[c].life = "live"
  BY DEF Visits, NextFds, IInv, ListTypes, Listed
<1> HIDE DEF c
<1>2. conn'[c] = s /\ \A d \in Conn : d # c => conn'[d] = conn[d]
  BY <1>1 DEF IInv, AllSane, c
<1>3. AllKept /\ LoopTypes' /\ ListTypes' /\ AllSane' /\ Apart' /\ Listed' /\ Chosen'
  BY VisitKeeps
<1>4. \A d \in Conn : conn'[d].life = "live" =>
        /\ conn'[d].queue # <<>> => conn[d].queue # <<>>
        /\ conn'[d].closing =>
             conn'[d].queue # <<>> \/ (conn[d].closing /\ conn'[d].queue = conn[d].queue)
  BY <1>2 DEF c
<1>5. Queue'
  BY <1>3, <1>4, QueueKept DEF IInv
<1>6. QED BY <1>3, <1>5 DEF IInv

\* The connection that is visited
LEMMA Visited ==
  ASSUME IInv, NEW f \in Fd, Visits(f)
  PROVE  /\ connections[f] \in Conn /\ conn = [c \in Conn |-> conn[c]]
         /\ Sane(conn[connections[f]]) /\ conn[connections[f]].life = "live"
  BY DEF Visits, NextFds, IInv, ListTypes, Listed, AllSane

LEMMA AnswerKeeps ==
  ASSUME IInv, NEW f \in Fd, Answer(f)
  PROVE  IInv'
<1> DEFINE c == conn[connections[f]]
<1>1. Visits(f) /\ EndVisit(f) /\ ~c.closing /\ c.requests > 0
      /\ writequeue' = AddToWriteQueue(writequeue, {connections[f]})
  BY DEF Answer
<1>2. Sane(c) /\ c.life = "live"
  BY <1>1, Visited
<1>3. PICK r \in Breaks([c EXCEPT !.requests = @ - 1]) :
       \/ conn' = [conn EXCEPT ![connections[f]] = Deleted(SendFrame(r))]
       \/ /\ r.status = 1
          /\ conn' = [conn EXCEPT ![connections[f]] = Deleted(SendFrame([r EXCEPT !.status = 2]))]
       \/ /\ r.status = 2
          /\ conn' = [conn EXCEPT ![connections[f]] = [SendFrame(r) EXCEPT !.status = 3]]
  BY DEF Answer
<1>4. /\ Sane(r) /\ r.life = "live" /\ r.fd = c.fd /\ r.open = c.open /\ ~r.closing
      /\ r.status = c.status /\ r.sent + r.requests < MaxFrames
  <2> HIDE DEF c
  <2> QED BY <1>1, <1>2, TakenKeeps
<1> HIDE DEF c
<1>5. ASSUME NEW t, Sane(t), t.life = "live", t.fd = c.fd, t.open = c.open, ~t.closing,
             t.sent + t.requests < MaxFrames,
             conn' = [conn EXCEPT ![connections[f]] = Deleted(SendFrame(t))]
      PROVE  IInv'
  <2> DEFINE u == SendFrame(t)
             s == Deleted(u)
  <2>1. Sane(u) /\ u.life = "live" /\ u.fd = c.fd /\ (u.open => c.open) /\ ~u.closing
    BY <1>5, SendFrameKeeps
  <2> HIDE DEF u
  <2>2. /\ Sane(s) /\ s.fd = c.fd /\ (s.open => c.open) /\ ~s.closing
        /\ s.life # "none" /\ (s.status # 0 => s.life = "live")
    BY <2>1, DeletedKeeps
  <2>3. conn' = [conn EXCEPT ![connections[f]] = s]
    BY <1>5 DEF u
  <2> HIDE DEF s
  <2>4. QED BY <1>1, <2>2, <2>3, VisitSends DEF c
<1>6. CASE conn' = [conn EXCEPT ![connections[f]] = Deleted(SendFrame(r))]
  BY <1>4, <1>5, <1>6
<1>7. CASE /\ r.status = 1
           /\ conn' = [conn EXCEPT ![connections[f]] = Deleted(SendFrame([r EXCEPT !.status = 2]))]
  <2> DEFINE t == [r EXCEPT !.status = 2]
  <2>1. r.open \/ r.peer = "reset"
    BY <1>4, <1>7 DEF Sane
  <2>2. PICK z \in 1 .. 3 : z = 2
    OBVIOUS
  <2>3. LET w == [r EXCEPT !.status = z]
        IN  /\ Sane(w) /\ w.life = r.life /\ w.fd = r.fd /\ w.open = r.open /\ w.closing = r.closing
            /\ w.sent = r.sent /\ w.requests = r.requests
    BY <1>4, <2>1, StatusKeeps
  <2>4. Sane(t) /\ t.life = r.life /\ t.fd = r.fd /\ t.open = r.open /\ t.closing = r.closing
        /\ t.sent = r.sent /\ t.requests = r.requests
    BY <2>2, <2>3, Zenon
  <2>5. conn' = [conn EXCEPT ![connections[f]] = Deleted(SendFrame(t))]
    BY <1>7
  <2> HIDE DEF t
  <2>6. QED BY <1>4, <1>5, <2>4, <2>5
<1>8. CASE /\ r.status = 2
           /\ conn' = [conn EXCEPT ![connections[f]] = [SendFrame(r) EXCEPT !.status = 3]]
  <2> DEFINE u == SendFrame(r)
             s == [u EXCEPT !.status = 3]
  <2>1. /\ Sane(u) /\ u.life = "live" /\ u.fd = c.fd /\ (u.open => c.open) /\ u.closing = r.closing
        /\ u.open \/ u.peer = "reset"
    BY <1>4, <1>8, SendFrameKeeps
  <2> HIDE DEF u
  <2>2. PICK z \in 1 .. 3 : z = 3
    OBVIOUS
  <2>3. LET w == [u EXCEPT !.status = z]
        IN  /\ Sane(w) /\ w.life = u.life /\ w.fd = u.fd /\ w.open = u.open /\ w.closing = u.closing
    BY <2>1, StatusKeeps
  <2>4. Sane(s) /\ s.life = u.life /\ s.fd = u.fd /\ s.open = u.open /\ s.closing = u.closing
    BY <2>2, <2>3, Zenon
  <2>5. conn' = [conn EXCEPT ![connections[f]] = s]
    BY <1>8 DEF u
  <2> HIDE DEF s
  <2>6. QED BY <1>1, <1>4, <2>1, <2>4, <2>5, VisitSends DEF c
<1>9. QED BY <1>3, <1>6, <1>7, <1>8

LEMMA RefuseKeeps ==
  ASSUME IInv, NEW f \in Fd, Refuse(f)
  PROVE  IInv'
<1> DEFINE c == conn[connections[f]]
<1>1. Visits(f) /\ EndVisit(f) /\ ~c.closing /\ c.requests > 0
      /\ writequeue' = AddToWriteQueue(writequeue, {connections[f]})
  BY DEF Refuse
<1>2. Sane(c) /\ c.life = "live"
  BY <1>1, Visited
<1>3. PICK r \in Breaks([c EXCEPT !.requests = @ - 1]) :
       conn' = [conn EXCEPT ![connections[f]] = Deleted(Close(SendFrame(r)))]
  BY DEF Refuse
<1>4. /\ Sane(r) /\ r.life = "live" /\ r.fd = c.fd /\ r.open = c.open /\ ~r.closing
      /\ r.sent + r.requests < MaxFrames
  <2> HIDE DEF c
  <2> QED BY <1>1, <1>2, TakenKeeps
<1> HIDE DEF c
<1> DEFINE t == SendFrame(r)
           u == Close(t)
           s == Deleted(u)
<1>5. Sane(t) /\ t.life = "live" /\ t.fd = c.fd /\ (t.open => c.open) /\ ~t.closing
  BY <1>4, SendFrameKeeps
<1> HIDE DEF t
<1>6. /\ Sane(u) /\ u.life = "live" /\ u.fd = c.fd /\ (u.open => c.open)
      /\ u.closing => u.queue # <<>>
  BY <1>5, CloseKeeps
<1> HIDE DEF u
<1>7. /\ Sane(s) /\ s.fd = c.fd /\ (s.open => c.open) /\ s.life # "none"
      /\ (s.status # 0 => s.life = "live") /\ (s.closing => s.queue # <<>>)
  BY <1>6, DeletedKeeps
<1>8. conn' = [conn EXCEPT ![connections[f]] = s]
  BY <1>3 DEF t, u
<1> HIDE DEF s
<1>9. QED BY <1>1, <1>7, <1>8, VisitSends DEF c

LEMMA EofKeeps ==
  ASSUME IInv, NEW f \in Fd, Eof(f)
  PROVE  IInv'
<1> DEFINE c == conn[connections[f]]
           u == Close(c)
           s == Deleted(u)
<1>1. Visits(f) /\ EndVisit(f) /\ ~c.closing /\ UNCHANGED writequeue
      /\ conn' = [conn EXCEPT ![connections[f]] = s]
  <2>1. conn' = [conn EXCEPT ![connections[f]] = Deleted(Close(@))]
    BY DEF Eof
  <2>2. connections[f] \in Conn
    BY Visited DEF Eof
  <2>3. QED BY <2>1, <2>2 DEF Eof, IInv, AllSane
<1>2. Sane(c) /\ c.life = "live"
  BY <1>1, Visited
<1> HIDE DEF c
<1>3. /\ Sane(u) /\ u.life = "live" /\ u.fd = c.fd /\ (u.open => c.open) /\ u.queue = c.queue
      /\ u.closing => u.queue # <<>>
  BY <1>1, <1>2, CloseKeeps
<1> HIDE DEF u
<1>4. /\ Sane(s) /\ s.fd = c.fd /\ (s.open => c.open) /\ s.life # "none" /\ s.queue = c.queue
      /\ (s.status # 0 => s.life = "live") /\ (s.closing => s.queue # <<>>)
  BY <1>3, DeletedKeeps
<1> HIDE DEF s
<1>5. QED BY <1>1, <1>4, VisitOnly DEF c

LEMMA ReadErrorKeeps ==
  ASSUME IInv, NEW f \in Fd, ReadError(f)
  PROVE  IInv'
<1> DEFINE c == conn[connections[f]]
           t == IF c.status = 1 THEN c ELSE [c EXCEPT !.queue = <<>>]
           u == Close(t)
           s == Deleted(u)
<1>1. Visits(f) /\ EndVisit(f) /\ ~c.closing /\ UNCHANGED writequeue /\ c.peer = "reset"
      /\ conn' = [conn EXCEPT ![connections[f]] = s]
  BY DEF ReadError
<1>2. Sane(c) /\ c.life = "live"
  BY <1>1, Visited
<1> HIDE DEF c
<1>3. Sane(t) /\ t.life = "live" /\ t.fd = c.fd /\ (t.open => c.open) /\ ~t.closing
      /\ (t.queue # <<>> => c.queue # <<>>)
  BY <1>1, <1>2, DroppedKeeps
<1> HIDE DEF t
<1>4. /\ Sane(u) /\ u.life = "live" /\ u.fd = c.fd /\ (u.open => c.open) /\ u.queue = t.queue
      /\ u.closing => u.queue # <<>>
  BY <1>3, CloseKeeps
<1> HIDE DEF u
<1>5. /\ Sane(s) /\ s.fd = c.fd /\ (s.open => c.open) /\ s.life # "none" /\ s.queue = t.queue
      /\ (s.status # 0 => s.life = "live") /\ (s.closing => s.queue # <<>>)
  BY <1>4, DeletedKeeps
<1> HIDE DEF s
<1>6. QED BY <1>1, <1>3, <1>5, VisitOnly DEF c

LEMMA PassKeeps ==
  ASSUME IInv, NEW f \in Fd, Pass(f)
  PROVE  IInv'
<1> DEFINE c == conn[connections[f]]
           s == Deleted(c)
<1>1. Visits(f) /\ EndVisit(f) /\ UNCHANGED writequeue
      /\ conn' = [conn EXCEPT ![connections[f]] = s]
  <2>1. conn' = [conn EXCEPT ![connections[f]] = Deleted(@)]
    BY DEF Pass
  <2>2. connections[f] \in Conn
    BY Visited DEF Pass
  <2>3. QED BY <2>1, <2>2 DEF Pass, IInv, AllSane
<1>2. Sane(c) /\ c.life = "live"
  BY <1>1, Visited
<1> HIDE DEF c
<1>3. /\ Sane(s) /\ s.fd = c.fd /\ (s.open => c.open) /\ s.life # "none" /\ s.queue = c.queue
      /\ (s.status # 0 => s.life = "live") /\ s.closing = c.closing
  BY <1>2, DeletedKeeps
<1> HIDE DEF s
<1>4. QED BY <1>1, <1>3, VisitOnly DEF c

-----------------------------------------------------------------------------
(* The other steps of the loop *)

LEMMA SendToAllKeeps ==
  ASSUME IInv, SendToAll
  PROVE  IInv'
<1> DEFINE cs == {c \in InGame : TakesFrames(conn[c])}
<1>1. InGame \in SUBSET Conn /\ \A c \in InGame : conn[c].life = "live"
  BY DEF InGame, IInv, ListTypes, Listed
<1>2. conn' = [c \in Conn |-> IF c \in InGame THEN SendFrame(conn[c]) ELSE conn[c]]
  BY DEF SendToAll
<1>3. ASSUME NEW c \in InGame
      PROVE  /\ Sane(conn'[c]) /\ conn'[c].life = conn[c].life /\ conn'[c].fd = conn[c].fd
             /\ (conn'[c].open => conn[c].open) /\ conn'[c].closing = conn[c].closing
             /\ ~TakesFrames(conn[c]) => conn'[c] = conn[c]
  <2>1. c \in Conn /\ conn'[c] = SendFrame(conn[c])
    BY <1>1, <1>2
  <2>2. Sane(conn[c]) /\ conn[c].sent + conn[c].requests < MaxFrames
    BY <2>1 DEF IInv, AllSane, SendToAll, MaySend
  <2> DEFINE d == conn[c]
  <2> HIDE DEF d
  <2>3. Sane(d) /\ d.sent + d.requests < MaxFrames
    BY <2>2 DEF d
  <2>4. /\ Sane(SendFrame(d)) /\ SendFrame(d).life = d.life /\ SendFrame(d).fd = d.fd
        /\ (SendFrame(d).open => d.open) /\ SendFrame(d).closing = d.closing
        /\ ~TakesFrames(d) => SendFrame(d) = d
    BY <2>3, SendFrameKeeps
  <2>5. QED BY <2>1, <2>4 DEF d
<1>4. \A c \in Conn : c \notin InGame => conn'[c] = conn[c]
  BY <1>2
<1>5. AllKept
  <2>1. ASSUME NEW c \in Conn PROVE Kept(c)
    BY <1>3, <1>4 DEF Kept, IInv, AllSane
  <2>2. QED BY <1>2, <2>1 DEF AllKept
<1>6. AllSane' /\ Apart'
  BY <1>5, KeptApart DEF IInv
<1>7. LoopTypes' /\ Chosen' /\ UNCHANGED connections
  BY DEF IInv, LoopTypes, Chosen, SendToAll, loop
<1>8. \A c \in Conn : conn'[c].life = conn[c].life /\ conn'[c].closing = conn[c].closing
  BY <1>3, <1>4
<1>9. ListTypes' /\ Listed'
  BY <1>5, <1>7, <1>8, ListedKept DEF IInv, ListTypes
<1>10. \A c \in Conn : c \notin cs => conn'[c] = conn[c]
  BY <1>3, <1>4
<1>11. \A c \in Conn : c \notin cs /\ conn'[c].queue # <<>> =>
         conn[c].queue # <<>> /\ (conn[c].life = "live" => conn[c].fd \in DOMAIN writequeue)
  BY <1>10 DEF IInv, Queue, WriterQueued
<1>12. \A f \in DOMAIN writequeue :
         conn'[writequeue[f]].life = "live" /\ conn'[writequeue[f]].closing
           => conn'[writequeue[f]].queue # <<>>
  <2>1. ASSUME NEW f \in DOMAIN writequeue, conn'[writequeue[f]].life = "live", conn'[writequeue[f]].closing
        PROVE  conn'[writequeue[f]].queue # <<>>
    <3> DEFINE c == writequeue[f]
    <3>1. c \in Conn
      BY DEF IInv, Queue, WaitTypes
    <3>2. conn[c].closing /\ conn[c].queue # <<>>
      BY <1>8, <2>1, <3>1 DEF IInv, Queue, Waiting
    <3>3. c \notin cs
      BY <3>2 DEF TakesFrames
    <3>4. QED BY <1>10, <3>1, <3>2, <3>3
  <2>2. QED BY <2>1
<1>13. cs \in SUBSET Conn /\ \A c \in cs : conn[c].life = "live"
  BY <1>1
<1>14. writequeue' = AddToWriteQueue(writequeue, cs)
  BY DEF SendToAll
<1> HIDE DEF cs
<1>15. Queue'
  BY <1>5, <1>11, <1>12, <1>13, <1>14, QueueAdded DEF IInv
<1>16. QED BY <1>6, <1>7, <1>9, <1>15 DEF IInv

\* Nothing but the loop's own state
LEMMA LoopOnly ==
  ASSUME IInv, LoopTypes', Chosen', UNCHANGED <<connections, writequeue, conn>>
  PROVE  IInv'
  BY DEF IInv, ListTypes, AllSane, Apart, Listed, Queue, WaitTypes, Waiting, WaitersMade, WriterQueued

LEMMA SelectKeeps ==
  ASSUME IInv, Select
  PROVE  IInv'
<1>1. writable' \subseteq DOMAIN writequeue /\ readable' \subseteq DOMAIN connections
  BY DEF Select, Writers
<1>2. LoopTypes' /\ Chosen'
  BY <1>1 DEF Select, IInv, LoopTypes, Chosen, ListTypes, Queue, WaitTypes
<1>3. QED BY <1>2, LoopOnly DEF Select

LEMMA NoWriterKeeps ==
  ASSUME IInv, NoWriter
  PROVE  IInv'
<1>1. LoopTypes' /\ Chosen'
  BY DEF NoWriter, IInv, LoopTypes, Chosen
<1>2. QED BY <1>1, LoopOnly DEF NoWriter

LEMMA EndPassKeeps ==
  ASSUME IInv, EndPass
  PROVE  IInv'
<1>1. LoopTypes' /\ Chosen'
  BY DEF EndPass, IInv, LoopTypes, Chosen
<1>2. QED BY <1>1, LoopOnly DEF EndPass

LEMMA StartKeeps ==
  ASSUME IInv, Start
  PROVE  IInv'
<1>1. LoopTypes' /\ Chosen'
  BY DEF Start, IInv, LoopTypes, Chosen, loop
<1>2. QED BY <1>1, LoopOnly DEF Start

LEMMA WriterKeeps ==
  ASSUME IInv, NEW f \in Fd, Writer(f)
  PROVE  IInv'
<1> DEFINE c == writequeue[f]
           queue == Without(writequeue, f)
<1>1. phase = "write" /\ f \in writable /\ phase' = "read"
      /\ UNCHANGED <<cursor, readable, writable, active, connections>>
  BY DEF Writer
<1>2. f \in DOMAIN writequeue /\ c \in Conn
  BY <1>1 DEF IInv, Chosen, Queue, WaitTypes
<1>3. LoopTypes' /\ Chosen'
  <2>1. crashed' \in BOOLEAN
    BY DEF Writer, IInv, LoopTypes
  <2>2. QED BY <1>1, <2>1 DEF IInv, LoopTypes, Chosen
<1>4. DOMAIN queue = DOMAIN writequeue \ {f} /\ \A g \in DOMAIN queue : queue[g] = writequeue[g]
  BY DEF Without
<1>5. CASE conn[c].life = "live"
  <2>1. conn[c].fd = f /\ (conn[c].closing => conn[c].queue # <<>>)
    BY <1>2, <1>5 DEF IInv, Queue, Waiting
  <2>2. ASSUME NEW d \in Conn PROVE ~ClosesAgain(conn[c], d)
    BY <2>1 DEF ClosesAgain
  <2>3. conn' = [d \in Conn |-> IF d = c THEN ProcessWrite(conn[c]) ELSE conn[d]]
    <3>1. conn' = [d \in Conn |->
                    IF d = c THEN ProcessWrite(conn[c])
                    ELSE IF ClosesAgain(conn[c], d) THEN [conn[d] EXCEPT !.open = FALSE]
                    ELSE conn[d]]
      BY <1>5 DEF Writer
    <3>2. QED BY <2>2, <3>1, Zenon
  <2>4. /\ Sane(conn'[c]) /\ conn'[c].life = conn[c].life /\ conn'[c].fd = conn[c].fd
        /\ (conn'[c].open => conn[c].open)
    <3>1. Sane(conn[c])
      BY <1>2 DEF IInv, AllSane
    <3>2. conn'[c] = ProcessWrite(conn[c])
      BY <1>2, <2>3
    <3> DEFINE d == conn[c]
    <3> HIDE DEF d
    <3>3. /\ Sane(ProcessWrite(d)) /\ ProcessWrite(d).life = d.life /\ ProcessWrite(d).fd = d.fd
          /\ (ProcessWrite(d).open => d.open)
      BY <3>1, ProcessWriteKeeps DEF d
    <3>4. QED BY <3>2, <3>3 DEF d
  <2>5. \A d \in Conn : d # c => conn'[d] = conn[d]
    BY <2>3
  <2>6. AllKept
    <3>1. ASSUME NEW d \in Conn PROVE Kept(d)
      BY <2>4, <2>5 DEF Kept, IInv, AllSane
    <3>2. QED BY <2>3, <3>1 DEF AllKept
  <2>7. AllSane' /\ Apart'
    BY <2>6, KeptApart DEF IInv
  <2>8. ListTypes' /\ Listed'
    <3>1. \A d \in Conn : conn'[d].life = conn[d].life
      BY <2>4, <2>5
    <3>2. QED BY <1>1, <2>6, <3>1, ListedKept DEF IInv, ListTypes
  <2>9. \A d \in Conn : d \notin {c} /\ conn'[d].queue # <<>> =>
          conn[d].queue # <<>> /\ (conn[d].life = "live" => conn[d].fd \in DOMAIN queue)
    <3>1. SUFFICES ASSUME NEW d \in Conn, d # c, conn[d].queue # <<>>, conn[d].life = "live"
                   PROVE  conn[d].fd \in DOMAIN writequeue /\ conn[d].fd # f
      BY <1>4, <2>5
    <3>2. conn[d].fd \in DOMAIN writequeue /\ writequeue[conn[d].fd] = d
      BY <3>1 DEF IInv, Queue, WriterQueued
    <3>3. QED BY <3>1, <3>2
  <2>10. \A g \in DOMAIN queue :
          conn'[queue[g]].life = "live" /\ conn'[queue[g]].closing => conn'[queue[g]].queue # <<>>
    <3>1. SUFFICES ASSUME NEW g \in DOMAIN writequeue, g # f, conn'[writequeue[g]].life = "live",
                          conn'[writequeue[g]].closing
                   PROVE  conn'[writequeue[g]].queue # <<>>
      BY <1>4
    <3>2. writequeue[g] \in Conn
      BY DEF IInv, Queue, WaitTypes
    <3>3. conn[writequeue[g]].fd = g
      BY <2>4, <2>5, <3>1, <3>2 DEF IInv, Queue, Waiting
    <3>4. writequeue[g] # c
      BY <2>1, <3>1, <3>3
    <3>5. QED BY <2>5, <3>1, <3>2, <3>4 DEF IInv, Queue, Waiting
  <2>11. writequeue' = AddToWriteQueue(queue, {c})
    BY <1>5 DEF Writer
  <2>12. {c} \in SUBSET Conn /\ \A d \in {c} : conn[d].life = "live"
    BY <1>2, <1>5
  <2> HIDE DEF queue, c
  <2>13. Queue'
    BY <1>4, <2>6, <2>9, <2>10, <2>11, <2>12, QueueAdded DEF IInv
  <2>14. QED BY <1>3, <2>7, <2>8, <2>13 DEF IInv
<1>6. CASE conn[c].life # "live"
  <2>1. writequeue' = queue /\ UNCHANGED conn
    BY <1>6 DEF Writer
  <2>2. WaitTypes' /\ Waiting' /\ WaitersMade'
    BY <1>4, <2>1 DEF IInv, Queue, WaitTypes, Waiting, WaitersMade
  <2>3. WriterQueued'
    <3>1. SUFFICES ASSUME NEW d \in Conn, conn[d].life = "live", conn[d].queue # <<>>
                   PROVE  conn[d].fd \in DOMAIN queue /\ queue[conn[d].fd] = d
      BY <2>1 DEF WriterQueued
    <3>2. conn[d].fd \in DOMAIN writequeue /\ writequeue[conn[d].fd] = d
      BY <3>1 DEF IInv, Queue, WriterQueued
    <3>3. QED BY <1>4, <1>6, <3>1, <3>2
  <2>4. ListTypes' /\ AllSane' /\ Apart' /\ Listed'
    BY <1>1, <2>1 DEF IInv, ListTypes, AllSane, Apart, Listed
  <2>5. QED BY <1>3, <2>2, <2>3, <2>4 DEF IInv, Queue
<1>7. QED BY <1>5, <1>6

\* A connection that has not been accepted leaves a descriptor free.
LEMMA FdLeft ==
  ASSUME IInv, NEW c \in Conn, conn[c].life = "none"
  PROVE  Fd \ OpenFds # {}
<1> USE ConstantsAssumption
<1> DEFINE others == {d \in Conn : conn[d].open}
           fdOf(d) == conn[d].fd
<1>1. others \subseteq Conn \ {c}
  BY DEF IInv, AllSane, Sane
<1>2. IsFiniteSet(Conn \ {c}) /\ Cardinality(Conn \ {c}) = Cardinality(Conn) - 1
      /\ Cardinality(Conn) \in Nat
  BY FS_RemoveElement, FS_CardinalityType
<1>3. IsFiniteSet(others) /\ Cardinality(others) <= Cardinality(Conn \ {c})
  BY <1>1, <1>2, FS_Subset
<1>4. OpenFds = {fdOf(d) : d \in others}
  BY DEF OpenFds
<1> DEFINE fds == [d \in others |-> conn[d].fd]
<1>5. OpenFds = Range(fds)
  BY <1>4 DEF Range
<1>6. fds \in Surjection(others, OpenFds)
  BY <1>5 DEF Surjection, Range
<1> HIDE DEF others, fdOf, fds
<1>7. IsFiniteSet(OpenFds) /\ Cardinality(OpenFds) <= Cardinality(others)
  BY <1>3, <1>6, FS_Surjection
<1>8. IsFiniteSet(Fd) /\ Cardinality(Fd) = MaxFd
  BY FS_Interval DEF Fd
<1>9. ASSUME Fd \subseteq OpenFds PROVE FALSE
  <2>1. Cardinality(Fd) <= Cardinality(OpenFds)
    BY <1>7, <1>9, FS_Subset
  <2>2. Cardinality(others) \in Nat /\ Cardinality(OpenFds) \in Nat
    BY <1>3, <1>7, FS_CardinalityType
  <2>3. QED BY <1>2, <1>3, <1>7, <1>8, <2>1, <2>2
<1>10. QED BY <1>9

LEMMA LowestIsFree ==
  ASSUME IInv, NEW c \in Conn, conn[c].life = "none"
  PROVE  LowestFree \in Fd \ OpenFds
<1>1. Fd \ OpenFds # {} /\ Fd \ OpenFds \subseteq Nat
  BY FdLeft DEF Fd
<1>2. \E f \in Fd \ OpenFds : \A g \in Fd \ OpenFds : f <= g
  BY <1>1, LeastElement
<1>3. QED BY <1>2, Zenon DEF LowestFree

LEMMA AcceptKeeps ==
  ASSUME IInv, NEW c \in Conn, Accept(c)
  PROVE  IInv'
<1> DEFINE h == LowestFree
<1>1. conn[c].life = "none" /\ phase = "read" /\ UNCHANGED <<loop, active, writequeue, crashed>>
  BY DEF Accept
<1>2. h \in Fd /\ \A d \in Conn : conn[d].open => conn[d].fd # h
  BY <1>1, LowestIsFree DEF OpenFds
<1>3. conn' = [conn EXCEPT ![c] = Accepted(h)]
      /\ connections' = [f \in DOMAIN connections \cup {h} |-> IF f = h THEN c ELSE connections[f]]
  BY DEF Accept, Accepted
<1> HIDE DEF h
<1>4. conn' = [d \in Conn |-> conn'[d]] /\ conn'[c] = Accepted(h)
      /\ \A d \in Conn : d # c => conn'[d] = conn[d]
  BY <1>3 DEF IInv, AllSane
<1>5. Sane(conn'[c]) /\ conn'[c].queue = <<>> /\ conn'[c].fd = h /\ conn'[c].life = "live" /\ conn'[c].open
  BY <1>2, <1>4, AcceptedIsSane
<1>6. LoopTypes' /\ Chosen'
  BY <1>1 DEF IInv, LoopTypes, Chosen, loop
<1>7. AllSane'
  BY <1>4, <1>5 DEF IInv, AllSane
<1>8. Apart'
  BY <1>2, <1>4, <1>5 DEF IInv, Apart
<1>9. ListTypes'
  BY <1>2, <1>3 DEF IInv, ListTypes
<1>10. Listed'
  <2>1. SUFFICES ASSUME NEW f \in DOMAIN connections'
                 PROVE  conn'[connections'[f]].life = "live" /\ conn'[connections'[f]].fd = f
    BY DEF Listed
  <2>2. CASE f = h
    BY <1>3, <1>5, <2>2
  <2>3. CASE f # h
    <3>1. f \in DOMAIN connections /\ connections'[f] = connections[f]
      BY <1>3, <2>3
    <3>2. connections[f] \in Conn /\ connections[f] # c
      BY <1>1, <3>1 DEF IInv, ListTypes, Listed
    <3>3. QED BY <1>4, <3>1, <3>2 DEF IInv, Listed
  <2>4. QED BY <2>2, <2>3
<1>11. \A f \in DOMAIN writequeue : writequeue[f] \in Conn /\ writequeue[f] # c
  BY <1>1 DEF IInv, Queue, WaitTypes, WaitersMade
<1>12. Queue'
  <2>1. WaitTypes' /\ Waiting' /\ WaitersMade'
    BY <1>1, <1>4, <1>11 DEF IInv, Queue, WaitTypes, Waiting, WaitersMade
  <2>2. WriterQueued'
    BY <1>1, <1>4, <1>5 DEF IInv, Queue, WriterQueued
  <2>3. QED BY <2>1, <2>2 DEF Queue
<1>13. QED BY <1>6, <1>7, <1>8, <1>9, <1>10, <1>12 DEF IInv

\* The connections that are closed for good
LEMMA StoppedKeeps ==
  ASSUME NEW c, Sane(c)
  PROVE  LET s == [Close(Close(c)) EXCEPT !.life = "deleted"]
         IN  Sane(s) /\ s.fd = c.fd /\ (s.open => c.open) /\ s.life = "deleted"
<1> DEFINE t == Close(c)
           u == Close(t)
           s == [u EXCEPT !.life = "deleted"]
<1>1. Sane(t) /\ t.fd = c.fd /\ (t.open => c.open)
  BY CloseKeeps
<1> HIDE DEF t
<1>2. Sane(u) /\ u.fd = c.fd /\ (u.open => c.open)
  BY <1>1, CloseKeeps
<1> HIDE DEF u
<1>3. /\ s.peer = u.peer /\ s.requests = u.requests /\ s.buffer = u.buffer /\ s.status = u.status
      /\ s.queue = u.queue /\ s.sent = u.sent /\ s.life = "deleted" /\ s.fd = u.fd /\ s.got = u.got
      /\ s.open = u.open /\ s \in Connection
  BY <1>2 DEF Sane, Connection
<1> HIDE DEF s
<1>4. Sane(s)
  BY <1>2, <1>3 DEF Sane, InOrder, Stream
<1>5. QED BY <1>2, <1>3, <1>4 DEF s, u, t

LEMMA StopKeeps ==
  ASSUME IInv, Stop
  PROVE  IInv'
<1> DEFINE Ends(c) == \E f \in DOMAIN connections : connections[f] = c
           Stopped(c) == [Close(Close(conn[c])) EXCEPT !.life = "deleted"]
<1>1. conn' = [c \in Conn |-> IF Ends(c) THEN Stopped(c) ELSE conn[c]]
  BY DEF Stop
<1>2. \A c \in Conn : Sane(conn[c])
  BY DEF IInv, AllSane
<1>3. ASSUME NEW c \in Conn
      PROVE  /\ Sane(Stopped(c)) /\ Stopped(c).fd = conn[c].fd
             /\ (Stopped(c).open => conn[c].open) /\ Stopped(c).life = "deleted"
  BY <1>2, StoppedKeeps
<1> HIDE DEF Stopped, Ends
<1>4. \A c \in Conn : (Ends(c) /\ conn'[c] = Stopped(c)) \/ conn'[c] = conn[c]
  BY <1>1
<1>5. AllKept
  <2>1. ASSUME NEW c \in Conn PROVE Kept(c)
    BY <1>2, <1>3, <1>4 DEF Kept
  <2>2. QED BY <1>1, <2>1 DEF AllKept
<1>6. AllSane' /\ Apart'
  BY <1>5, KeptApart DEF IInv
<1>7. LoopTypes' /\ Chosen'
  BY DEF Stop, IInv, LoopTypes, Chosen, loop
<1>8. ListTypes' /\ Listed'
  BY DEF Stop, ListTypes, Listed
<1>9. \A c \in Conn : conn'[c].life = "live" => conn'[c] = conn[c]
  BY <1>3, <1>4
<1>10. Queue'
  BY <1>5, <1>9, QueueKept DEF IInv, Stop
<1>11. QED BY <1>6, <1>7, <1>8, <1>10 DEF IInv

-----------------------------------------------------------------------------
(* The clients *)

\* A step of a client leaves the tables of the loop, and what a connection
\* has to send.
LEMMA ClientStep ==
  ASSUME IInv, UNCHANGED <<loop, active, connections, writequeue, crashed>>,
         NEW c \in Conn, NEW s, Sane(s), conn' = [conn EXCEPT ![c] = s],
         s.fd = conn[c].fd, s.open = conn[c].open, s.life = conn[c].life,
         s.queue = conn[c].queue, s.closing = conn[c].closing
  PROVE  IInv'
<1>1. conn' = [d \in Conn |-> conn'[d]] /\ conn'[c] = s
      /\ \A d \in Conn : d # c => conn'[d] = conn[d]
  BY DEF IInv, AllSane
<1>2. AllKept
  <2>1. ASSUME NEW d \in Conn PROVE Kept(d)
    BY <1>1 DEF Kept, IInv, AllSane
  <2>2. QED BY <1>1, <2>1 DEF AllKept
<1>3. AllSane' /\ Apart'
  BY <1>2, KeptApart DEF IInv
<1>4. LoopTypes' /\ Chosen'
  BY DEF IInv, LoopTypes, Chosen, loop
<1>5. ListTypes' /\ Listed'
  <2>1. \A d \in Conn : conn'[d].life = conn[d].life
    BY <1>1
  <2>2. QED BY <1>2, <2>1, ListedKept DEF IInv, ListTypes
<1>6. \A d \in Conn : conn'[d].queue = conn[d].queue /\ conn'[d].closing = conn[d].closing
  BY <1>1
<1>7. Queue'
  BY <1>2, <1>6, QueueKept DEF IInv
<1>8. QED BY <1>3, <1>4, <1>5, <1>7 DEF IInv

LEMMA RequestKeeps ==
  ASSUME IInv, NEW c \in Conn, Request(c)
  PROVE  IInv'
<1> USE ConstantsAssumption
<1> DEFINE k == conn[c]
           s == [k EXCEPT !.requests = @ + 1]
<1>1. Sane(k) /\ k.sent + k.requests < MaxFrames
  BY DEF IInv, AllSane, Request, MaySend
<1>2. conn' = [conn EXCEPT ![c] = s]
  BY DEF Request, IInv, AllSane
<1> HIDE DEF k
<1>3. k \in Connection
  BY <1>1 DEF Sane
<1>4. k.sent \in 0 .. MaxFrames /\ k.requests \in 0 .. MaxFrames
  BY <1>3, Parts
<1>5. s \in Connection
  <2>1. PICK n \in 0 .. MaxFrames : n = k.requests + 1
    BY <1>1, <1>4
  <2>2. [k EXCEPT !.requests = n] \in Connection
    BY <1>3 DEF Connection
  <2>3. QED BY <2>1, <2>2, Zenon
<1>6. /\ s.peer = k.peer /\ s.requests = k.requests + 1 /\ s.buffer = k.buffer /\ s.status = k.status
      /\ s.queue = k.queue /\ s.sent = k.sent /\ s.life = k.life /\ s.fd = k.fd /\ s.got = k.got
      /\ s.open = k.open /\ s.closing = k.closing
  BY <1>3 DEF Connection
<1>7. s.sent + s.requests <= MaxFrames
  BY <1>1, <1>4, <1>6
<1> HIDE DEF s
<1>8. Sane(s)
  BY <1>1, <1>5, <1>6, <1>7 DEF Sane, InOrder, Stream
<1>9. QED BY <1>2, <1>6, <1>8, ClientStep DEF k, Request

LEMMA ReadAnswerKeeps ==
  ASSUME IInv, NEW c \in Conn, ReadAnswer(c)
  PROVE  IInv'
<1> DEFINE k == conn[c]
           s == [k EXCEPT !.got = Append(k.got, Head(k.buffer)), !.buffer = Tail(k.buffer)]
<1>1. Sane(k) /\ k.buffer # <<>>
  BY DEF IInv, AllSane, ReadAnswer
<1>2. conn' = [conn EXCEPT ![c] = s]
  BY DEF ReadAnswer, IInv, AllSane
<1> HIDE DEF k
<1>3. k \in Connection /\ Len(k.buffer) <= Room
  BY <1>1 DEF Sane
<1>4. k.queue \in Seq(FrameNo) /\ k.buffer \in Seq(FrameNo) /\ k.got \in Seq(FrameNo)
  BY <1>3, Parts
<1> DEFINE g == Append(k.got, Head(k.buffer))
           b == Tail(k.buffer)
<1>5. g \in Seq(FrameNo) /\ b \in Seq(FrameNo) /\ Len(b) <= Room
  <2> DEFINE l == Len(k.buffer)
  <2>1. Len(b) = l - 1 /\ l \in Nat
    BY <1>1, <1>4
  <2>2. g \in Seq(FrameNo) /\ b \in Seq(FrameNo)
    BY <1>1, <1>4
  <2> HIDE DEF l, b
  <2>3. l <= Room
    BY <1>3 DEF l
  <2>4. Len(b) <= Room
    BY <2>1, <2>3, ConstantsAssumption
  <2>5. QED BY <2>2, <2>4
<1>6. g \o b \o k.queue = k.got \o k.buffer \o k.queue
  BY <1>1, <1>4, OneRead, Zenon
<1> HIDE DEF g, b
<1>7. /\ s.peer = k.peer /\ s.requests = k.requests /\ s.buffer = b /\ s.status = k.status
      /\ s.queue = k.queue /\ s.sent = k.sent /\ s.life = k.life /\ s.fd = k.fd /\ s.got = g
      /\ s.open = k.open /\ s.closing = k.closing
  BY <1>3 DEF Connection, g, b
<1>8. s \in Connection
  <2>1. [k EXCEPT !.got = g, !.buffer = b] \in Connection
    BY <1>3, <1>5 DEF Connection, FrameNo
  <2>2. QED BY <2>1, Zenon DEF g, b
<1> HIDE DEF s
<1>9. InOrder(s)
  <2>1. Stream(s) = Stream(k)
    BY <1>6, <1>7, Zenon DEF Stream
  <2>2. QED BY <1>1, <1>7, <2>1, Zenon DEF InOrder, Sane
<1>10. Sane(s)
  BY <1>1, <1>5, <1>7, <1>8, <1>9 DEF Sane
<1>11. QED BY <1>2, <1>7, <1>10, ClientStep DEF k, ReadAnswer

LEMMA FinKeeps ==
  ASSUME IInv, NEW c \in Conn, Fin(c)
  PROVE  IInv'
<1> DEFINE k == conn[c]
           s == [k EXCEPT !.peer = "fin"]
<1>1. Sane(k) /\ k.peer = "open" /\ k.open
  BY DEF IInv, AllSane, Fin, Connected
<1>2. conn' = [conn EXCEPT ![c] = s]
  BY DEF Fin, IInv, AllSane
<1> HIDE DEF k
<1>3. /\ s.peer = "fin" /\ s.requests = k.requests /\ s.buffer = k.buffer /\ s.status = k.status
      /\ s.queue = k.queue /\ s.sent = k.sent /\ s.life = k.life /\ s.fd = k.fd /\ s.got = k.got
      /\ s.open = k.open /\ s.closing = k.closing /\ s \in Connection
  BY <1>1 DEF Sane, Connection
<1> HIDE DEF s
<1>4. Sane(s)
  BY <1>1, <1>3 DEF Sane, InOrder, Stream
<1>5. QED BY <1>2, <1>3, <1>4, ClientStep DEF k, Fin

LEMMA ResetKeeps ==
  ASSUME IInv, NEW c \in Conn, Reset(c)
  PROVE  IInv'
<1> USE ConstantsAssumption
<1> DEFINE k == conn[c]
           s == [k EXCEPT !.peer = "reset", !.requests = 0, !.buffer = <<>>]
<1>1. Sane(k)
  BY DEF IInv, AllSane
<1>2. conn' = [conn EXCEPT ![c] = s]
  BY DEF Reset, IInv, AllSane
<1> HIDE DEF k
<1>3. k \in Connection
  BY <1>1 DEF Sane
<1>4. s \in Connection
  <2>1. PICK n \in 0 .. MaxFrames : n = 0
    OBVIOUS
  <2>2. PICK q \in Seq(FrameNo) : q = <<>>
    BY NoFrames, Zenon
  <2>3. [k EXCEPT !.peer = "reset", !.requests = n, !.buffer = q] \in Connection
    BY <1>3 DEF Connection, FrameNo
  <2>4. QED BY <2>1, <2>2, <2>3, Zenon
<1>5. /\ s.peer = "reset" /\ s.requests = 0 /\ s.buffer = <<>> /\ s.status = k.status
      /\ s.queue = k.queue /\ s.sent = k.sent /\ s.life = k.life /\ s.fd = k.fd
      /\ s.open = k.open /\ s.closing = k.closing
  BY <1>3 DEF Connection
<1>6. k.sent \in 0 .. MaxFrames
  BY <1>3, Parts
<1> HIDE DEF s
<1>7. s.sent + s.requests <= MaxFrames /\ Len(s.buffer) <= Room
  BY <1>5, <1>6
<1>8. Sane(s)
  BY <1>1, <1>4, <1>5, <1>7 DEF Sane, InOrder
<1>9. QED BY <1>2, <1>5, <1>8, ClientStep DEF k, Reset

-----------------------------------------------------------------------------
(* The theorems *)

LEMMA InitKeeps == Init => IInv
<1> SUFFICES ASSUME Init PROVE IInv
  OBVIOUS
<1>1. LoopTypes /\ Chosen
  BY DEF Init, LoopTypes, Chosen
<1>2. ListTypes /\ WaitTypes
  BY DEF Init, ListTypes, WaitTypes
<1>3. AllSane
  BY UnusedIsSane DEF Init, AllSane
<1>4. \A c \in Conn : ~conn[c].open /\ conn[c].life = "none"
  BY DEF Init, Unused
<1>5. Apart /\ Listed
  BY <1>4 DEF Init, Apart, Listed
<1>6. Waiting /\ WaitersMade /\ WriterQueued
  BY <1>4 DEF Init, Waiting, WaitersMade, WriterQueued
<1>7. QED BY <1>1, <1>2, <1>3, <1>5, <1>6 DEF IInv, Queue

LEMMA StepKeeps == IInv /\ [Next]_vars => IInv'
<1> SUFFICES ASSUME IInv, [Next]_vars PROVE IInv'
  OBVIOUS
<1>1. CASE SendToAll
  BY <1>1, SendToAllKeeps
<1>2. CASE MasterLoop
  <2>1. ASSUME NEW f \in Fd, Writer(f) \/ Answer(f) \/ Refuse(f) \/ Eof(f) \/ ReadError(f) \/ Pass(f)
        PROVE  IInv'
    BY <2>1, WriterKeeps, AnswerKeeps, RefuseKeeps, EofKeeps, ReadErrorKeeps, PassKeeps
  <2>2. QED BY <1>2, <2>1, SelectKeeps, NoWriterKeeps, EndPassKeeps DEF MasterLoop
<1>3. CASE Stop
  BY <1>3, StopKeeps
<1>4. CASE Start
  BY <1>4, StartKeeps
<1>5. ASSUME NEW c \in Conn, Accept(c) \/ Request(c) \/ ReadAnswer(c) \/ Fin(c) \/ Reset(c)
      PROVE  IInv'
  BY <1>5, AcceptKeeps, RequestKeeps, ReadAnswerKeeps, FinKeeps, ResetKeeps
<1>6. CASE UNCHANGED vars
  BY <1>6, LoopOnly DEF vars, loop, IInv, LoopTypes, Chosen
<1>7. QED BY <1>1, <1>2, <1>3, <1>4, <1>5, <1>6 DEF Next

LEMMA Consequences == IInv => QueuesConsistent /\ NothingLost
<1> SUFFICES ASSUME IInv PROVE QueuesConsistent /\ NothingLost
  OBVIOUS
<1>1. conn \in [Conn -> Connection]
  BY DEF IInv, AllSane, Sane
<1>2. TypeOK
  BY <1>1 DEF IInv, LoopTypes, ListTypes, Queue, WaitTypes, TypeOK
<1>3. NothingLost
  BY DEF IInv, AllSane, Sane, InOrder, NothingLost, Stream, UpTo
<1>4. QED BY <1>2, <1>3 DEF QueuesConsistent, IInv, Queue

\* What the loop knows of the connections is so in every state that is reached:
\* a connection with frames that did not fit waits in the write queue, under
\* its own descriptor, whichever descriptors were closed and used again.
THEOREM LoopInvariant == Spec => []IInv
<1>1. QED BY InitKeeps, StepKeeps, PTL DEF Spec

\* The tables of the loop keep their types, and a connection with frames that
\* did not fit is in the write queue (Network::addToWriteQueue).
THEOREM QueuesAreConsistent == Spec => []QueuesConsistent
<1>1. QED BY LoopInvariant, Consequences, PTL

\* What sendFrame took is read by the client in that order and without a gap,
\* for any number of connections, also when connections are closed meanwhile.
THEOREM NothingIsLost == Spec => []NothingLost
<1>1. QED BY LoopInvariant, Consequences, PTL

OthersLeftOpen ==
  \A f \in DOMAIN writequeue, d \in Conn :
    conn[writequeue[f]].life = "live" => ~ClosesAgain(conn[writequeue[f]], d)

\* PlayerTcpConnection::processWrite never closes the descriptor of another
\* connection: one that is to be closed, and still has its place in the write
\* queue, has frames to write.
THEOREM OthersAreLeftOpen == Spec => []OthersLeftOpen
<1>1. IInv => OthersLeftOpen
  BY DEF IInv, Queue, Waiting, OthersLeftOpen, ClosesAgain
<1>2. QED BY <1>1, LoopInvariant, PTL
=============================================================================
