--------------------------- MODULE ReceiveProofs ---------------------------
(***************************************************************************)
(* No byte of a frame is read twice, skipped or given to another frame,    *)
(* for all lengths of headers and bodies, every number of frames and every *)
(* way the stream is cut up.                                               *)
(***************************************************************************)
EXTENDS Receive, SequenceTheorems, TLAPS

-----------------------------------------------------------------------------
(* The inductive invariant *)

\* Where frame k of the frames s ends.
EndOf(s, k) == IF k = 0 THEN 0 ELSE s[k].start + Size(s[k])

\* Each frame begins where the one before it ends.
Consecutive(s) ==
  /\ \A k \in 1 .. Len(s) : s[k].start = EndOf(s, k - 1)
  /\ \A i, j \in 1 .. Len(s) : i < j => s[i].start < s[j].start

\* The units after unit b of the stream, in order.
Run(s, b) == \A i \in 1 .. Len(s) : s[i] = b + i

\* Everything up to here has been read, or thrown away.
Base == EndOf(sent, Len(sent)) - Len(channel) - Len(rdatabuff) - Len(rheaderbuff)

\* The version of the frame that unit u begins.
ShownAt(u) ==
  IF StartsFrame(u) THEN sent[CHOOSE k \in DOMAIN sent : sent[k].start + 1 = u].version
  ELSE "other"

\* A version field that was turned down is left in the buffer.
Stuck ==
  /\ drained
  /\ status # "open"
  /\ Len(rheaderbuff) = VersionLength
  /\ rdatabuff = <<>>
  /\ ShownAt(rheaderbuff[1]) = "future"

\* verCheck reads beyond the version field only when it supports the version.
KeptVersion ==
  status = "new" /\ Len(rheaderbuff) > VersionLength =>
    ShownAt(rheaderbuff[1]) \in Supported

\* The next unit to be given to a frame is the first one of frame k + 1.
At(k) ==
  /\ Base = EndOf(sent, k)
  /\ ~drained => k = Len(read) /\ \A i \in 1 .. k : read[i] = i
  /\ rdatabuff # <<>> => k < Len(sent) /\ Len(rdatabuff) < sent[k + 1].len

ChannelInv ==
  /\ Len(channel) <= EndOf(sent, Len(sent))
  /\ Run(channel, EndOf(sent, Len(sent)) - Len(channel))

BufferInv ==
  /\ Base >= 0
  /\ Run(rheaderbuff, Base)
  /\ Run(rdatabuff, Base + Len(rheaderbuff))

\* Bytes that were thrown away may have been cut off in the middle of a frame,
\* but not once a whole version field that the server supports was found.
InStep == status = "open" \/ Len(rheaderbuff) > VersionLength \/ ~drained

IInv ==
  /\ TypeOK
  /\ Consecutive(sent)
  /\ ChannelInv
  /\ KeptVersion
  /\ Stuck \/ (BufferInv /\ (InStep => \E k \in 0 .. Len(sent) : At(k)))

-----------------------------------------------------------------------------
(* Sequences *)

LEMMA DropPart ==
  ASSUME NEW s \in Seq(Nat), NEW n \in 0 .. Len(s)
  PROVE  /\ Drop(s, n) \in Seq(Nat)
         /\ Len(Drop(s, n)) = Len(s) - n
         /\ \A i \in 1 .. Len(s) - n : Drop(s, n)[i] = s[n + i]
<1>1. \A i \in n + 1 .. Len(s) : s[i] \in Nat
  OBVIOUS
<1>2. n + 1 \in Int /\ Len(s) \in Int
  OBVIOUS
<1>3. /\ SubSeq(s, n + 1, Len(s)) \in Seq(Nat)
      /\ Len(SubSeq(s, n + 1, Len(s))) =
           IF n + 1 <= Len(s) THEN Len(s) - (n + 1) + 1 ELSE 0
      /\ \A i \in 1 .. Len(s) - (n + 1) + 1 :
           SubSeq(s, n + 1, Len(s))[i] = s[n + 1 + i - 1]
  BY <1>1, <1>2, SubSeqProperties
<1>4. QED BY <1>3 DEF Drop

\* A part of a run, appended to the run it continues.
LEMMA RunOn ==
  ASSUME NEW a \in Seq(Nat), NEW c \in Seq(Nat), NEW b \in Int,
         NEW m \in Nat, NEW n \in Nat, m + n <= Len(c),
         Run(a, b), n > 0 => Run(c, b + Len(a) - m)
  PROVE  /\ a \o SubSeq(c, m + 1, m + n) \in Seq(Nat)
         /\ Len(a \o SubSeq(c, m + 1, m + n)) = Len(a) + n
         /\ Run(a \o SubSeq(c, m + 1, m + n), b)
<1> DEFINE p == SubSeq(c, m + 1, m + n)
<1>1. \A i \in m + 1 .. m + n : c[i] \in Nat
  OBVIOUS
<1>2. m + 1 \in Int /\ m + n \in Int
  OBVIOUS
<1>3. /\ p \in Seq(Nat)
      /\ Len(p) = IF m + 1 <= m + n THEN m + n - (m + 1) + 1 ELSE 0
      /\ \A i \in 1 .. m + n - (m + 1) + 1 : p[i] = c[m + 1 + i - 1]
  BY <1>1, <1>2, SubSeqProperties
<1>4. Len(p) = n /\ \A i \in 1 .. n : p[i] = c[m + i]
  BY <1>3
<1> HIDE DEF p
<1>5. /\ a \o p \in Seq(Nat) /\ Len(a \o p) = Len(a) + n
      /\ \A i \in 1 .. Len(a) + n :
           (a \o p)[i] = IF i <= Len(a) THEN a[i] ELSE p[i - Len(a)]
  BY <1>3, <1>4, ConcatProperties
<1>6. ASSUME NEW i \in 1 .. Len(a) + n PROVE (a \o p)[i] = b + i
  <2>1. CASE i <= Len(a)
    BY <2>1, <1>5 DEF Run
  <2>2. CASE ~ (i <= Len(a))
    <3>1. i - Len(a) \in 1 .. n /\ m + (i - Len(a)) \in 1 .. Len(c)
      BY <2>2
    <3>2. (a \o p)[i] = c[m + (i - Len(a))]
      BY <2>2, <3>1, <1>4, <1>5
    <3>3. c[m + (i - Len(a))] = b + Len(a) - m + (m + (i - Len(a)))
      BY <2>2, <3>1 DEF Run
    <3>4. QED BY <3>2, <3>3
  <2>3. QED BY <2>1, <2>2
<1>7. QED BY <1>5, <1>6 DEF Run, p

LEMMA RunDropped ==
  ASSUME NEW s \in Seq(Nat), NEW n \in 0 .. Len(s), NEW b \in Int, Run(s, b)
  PROVE  Run(Drop(s, n), b + n)
<1>1. ASSUME NEW i \in 1 .. Len(s) - n PROVE Drop(s, n)[i] = b + n + i
  <2>1. n + i \in 1 .. Len(s) /\ s[n + i] = b + (n + i)
    BY DEF Run
  <2>2. QED BY <2>1, DropPart
<1>2. QED BY <1>1, DropPart DEF Run

-----------------------------------------------------------------------------
(* Frames *)

LEMMA EndsInOrder ==
  ASSUME NEW s \in Seq(Frame), NEW k \in 0 .. Len(s)
  PROVE  EndOf(s, k) \in Nat
<1>1. k # 0 => s[k] \in Frame
  OBVIOUS
<1>2. QED BY <1>1, LengthsAssumption DEF EndOf, Size, Frame

\* The first unit of a frame tells which one it is.
LEMMA StartTells ==
  ASSUME TypeOK, Consecutive(sent), NEW j \in 1 .. Len(sent),
         NEW header, header[1] = sent[j].start + 1
  PROVE  StartsFrame(header[1]) /\ FrameOf(header) = j
<1>1. DOMAIN sent = 1 .. Len(sent) /\ \A i \in DOMAIN sent : sent[i] \in Frame
  BY DEF TypeOK
<1>2. \A i \in DOMAIN sent : sent[i].start \in Nat
  BY <1>1 DEF Frame
<1>3. StartsFrame(header[1])
  BY <1>1 DEF StartsFrame
<1>4. \A i \in DOMAIN sent : sent[i].start + 1 = header[1] => i = j
  <2>1. TAKE i \in DOMAIN sent
  <2>2. i \in 1 .. Len(sent) /\ i \in Int /\ j \in Int
    BY <1>1, <2>1
  <2>3. i < j => sent[i].start < sent[j].start
    BY <2>2 DEF Consecutive
  <2>4. j < i => sent[j].start < sent[i].start
    BY <2>2 DEF Consecutive
  <2>5. QED BY <2>2, <2>3, <2>4, <1>1, <1>2
<1>5. QED BY <1>1, <1>3, <1>4 DEF FrameOf

\* While there is more to read there is a frame to read it for.
LEMMA NextFrame ==
  ASSUME TypeOK, Consecutive(sent), NEW k \in 0 .. Len(sent),
         Base = EndOf(sent, k),
         Len(channel) + Len(rdatabuff) + Len(rheaderbuff) > 0
  PROVE  /\ k + 1 \in 1 .. Len(sent)
         /\ sent[k + 1] \in Frame
         /\ sent[k + 1].start = EndOf(sent, k)
         /\ EndOf(sent, k + 1) = Base + HeaderLength + sent[k + 1].len
<1>1. Len(sent) \in Nat /\ Len(channel) \in Nat /\ Len(rdatabuff) \in Nat
      /\ Len(rheaderbuff) \in Nat /\ \A i \in 1 .. Len(sent) : sent[i] \in Frame
  BY DEF TypeOK
<1>2. EndOf(sent, Len(sent)) \in Nat /\ EndOf(sent, k) \in Nat
  BY <1>1, EndsInOrder DEF TypeOK
<1>3. k # Len(sent)
  BY <1>1, <1>2 DEF Base
<1>4. k + 1 \in 1 .. Len(sent) /\ (k + 1) - 1 = k /\ k + 1 # 0
  BY <1>1, <1>3
<1>5. sent[k + 1].start = EndOf(sent, k)
  BY <1>4 DEF Consecutive
<1>6. sent[k + 1] \in Frame
  BY <1>1, <1>4
<1>7. EndOf(sent, k + 1) = sent[k + 1].start + (HeaderLength + sent[k + 1].len)
  BY <1>4 DEF EndOf, Size
<1>8. sent[k + 1].len \in Nat
  BY <1>6 DEF Frame
<1>9. QED BY <1>2, <1>4, <1>5, <1>6, <1>7, <1>8, LengthsAssumption

-----------------------------------------------------------------------------
(* What the server may do with what it reads *)

\* A read that changes none of the buffers.
LEMMA NothingRead ==
  ASSUME IInv, TypeOK',
         UNCHANGED <<sent, channel, rheaderbuff, rdatabuff, read, drained>>,
         status' = status \/ status' = "closed"
  PROVE  IInv'
<1>1. Consecutive(sent)' /\ ChannelInv' /\ (BufferInv => BufferInv')
  BY DEF IInv, Consecutive, ChannelInv, BufferInv, Base, Run, EndOf, Size
<1>2. InStep' => InStep
  BY DEF InStep
<1>3. \A k \in 0 .. Len(sent) : At(k) => At(k)'
  BY DEF At, Base, EndOf, Size
<1>4. Stuck => Stuck'
  BY DEF Stuck, ShownAt, StartsFrame
<1>5. KeptVersion'
  BY DEF IInv, KeptVersion, ShownAt, StartsFrame
<1>6. QED BY <1>1, <1>2, <1>3, <1>4, <1>5 DEF IInv

\* h units are added to the header and the d after them to the body.
LEMMA Buffered ==
  ASSUME TypeOK, Consecutive(sent), ChannelInv, BufferInv,
         NEW h \in Nat, NEW d \in Nat, h + d <= Len(channel),
         h > 0 => rdatabuff = <<>>,
         rheaderbuff' = HeaderWith(h),
         rdatabuff' = BodyWith(h, d),
         channel' = Drop(channel, h + d),
         UNCHANGED <<sent, read, drained>>,
         InStep' => \E k \in 0 .. Len(sent) :
                      /\ At(k)
                      /\ d > 0 => k < Len(sent)
                                  /\ Len(rdatabuff) + d < sent[k + 1].len
  PROVE  /\ Consecutive(sent)' /\ ChannelInv' /\ BufferInv'
         /\ InStep' => \E k \in 0 .. Len(sent') : At(k)'
         /\ rheaderbuff' \in Seq(Nat) /\ Len(rheaderbuff') = Len(rheaderbuff) + h
         /\ rdatabuff' \in Seq(Nat) /\ Len(rdatabuff') = Len(rdatabuff) + d
         /\ channel' \in Seq(Nat) /\ Len(channel') = Len(channel) - (h + d)
<1>1. /\ rheaderbuff \in Seq(Nat) /\ rdatabuff \in Seq(Nat) /\ channel \in Seq(Nat)
      /\ sent \in Seq(Frame)
  BY DEF TypeOK
<1>2. PICK e \in Nat : e = EndOf(sent, Len(sent))
  <2>1. Len(sent) \in 0 .. Len(sent)
    BY <1>1
  <2>2. QED BY <1>1, <2>1, EndsInOrder
<1>3. PICK lh \in Nat, ld \in Nat, lc \in Nat :
        Len(rheaderbuff) = lh /\ Len(rdatabuff) = ld /\ Len(channel) = lc
  BY <1>1
<1>4. PICK b \in Int : b = e - lc - ld - lh
  OBVIOUS
<1>5. Base = b
  BY <1>2, <1>3, <1>4 DEF Base
<1>6. lc <= e /\ Run(channel, e - lc)
  BY <1>2, <1>3 DEF ChannelInv
<1>7. b >= 0 /\ Run(rheaderbuff, b) /\ Run(rdatabuff, b + lh)
  BY <1>3, <1>5 DEF BufferInv
<1>8. h + d <= lc /\ (h > 0 => ld = 0)
  BY <1>3
<1>9. /\ rheaderbuff' \in Seq(Nat) /\ Len(rheaderbuff') = lh + h
      /\ Run(rheaderbuff', b)
  <2>1. 0 \in Nat /\ 0 + h <= Len(channel) /\ 0 + 1 = 1 /\ 0 + h = h
    BY <1>3, <1>8
  <2>2. h > 0 => b + lh - 0 = e - lc
    BY <1>4, <1>8
  <2>3. h > 0 => Run(channel, b + Len(rheaderbuff) - 0)
    BY <1>3, <1>6, <2>2
  <2>4. /\ rheaderbuff \o SubSeq(channel, 0 + 1, 0 + h) \in Seq(Nat)
        /\ Len(rheaderbuff \o SubSeq(channel, 0 + 1, 0 + h)) = Len(rheaderbuff) + h
        /\ Run(rheaderbuff \o SubSeq(channel, 0 + 1, 0 + h), b)
    BY <1>1, <1>7, <2>1, <2>3, RunOn
  <2>5. QED BY <1>3, <2>1, <2>4 DEF HeaderWith
<1>10. /\ rdatabuff' \in Seq(Nat) /\ Len(rdatabuff') = ld + d
       /\ Run(rdatabuff', b + lh + h)
  <2>1. PICK a \in Int : a = b + lh + h
    OBVIOUS
  <2>2. a + ld - h = e - lc
    BY <1>4, <2>1
  <2>3. Run(rdatabuff, a)
    <3>1. CASE h = 0
      <4>1. a = b + lh
        BY <2>1, <3>1
      <4>2. QED BY <1>7, <4>1
    <3>2. CASE h > 0
      BY <3>2, <1>3, <1>8 DEF Run
    <3>3. QED BY <3>1, <3>2
  <2>4. d > 0 => Run(channel, a + Len(rdatabuff) - h)
    BY <1>3, <1>6, <2>2
  <2>5. h + d <= Len(channel)
    OBVIOUS
  <2>6. /\ rdatabuff \o SubSeq(channel, h + 1, h + d) \in Seq(Nat)
        /\ Len(rdatabuff \o SubSeq(channel, h + 1, h + d)) = Len(rdatabuff) + d
        /\ Run(rdatabuff \o SubSeq(channel, h + 1, h + d), a)
    BY <1>1, <2>3, <2>4, <2>5, RunOn
  <2>7. QED BY <1>3, <2>1, <2>6 DEF BodyWith
<1>11. /\ channel' \in Seq(Nat) /\ Len(channel') = lc - (h + d)
       /\ Run(channel', e - (lc - (h + d)))
  <2>1. h + d \in 0 .. Len(channel)
    BY <1>3, <1>8
  <2>2. e - lc + (h + d) = e - (lc - (h + d)) /\ e - lc \in Int
    OBVIOUS
  <2>3. Run(Drop(channel, h + d), e - lc + (h + d))
    BY <1>1, <1>6, <2>1, <2>2, RunDropped
  <2>4. /\ Drop(channel, h + d) \in Seq(Nat)
        /\ Len(Drop(channel, h + d)) = Len(channel) - (h + d)
    BY <1>1, <2>1, DropPart
  <2>5. QED BY <1>3, <2>2, <2>3, <2>4
<1>12. EndOf(sent, Len(sent))' = e
  BY <1>2 DEF EndOf, Size
<1>13. Base' = b
  <2>1. Base' = e - (lc - (h + d)) - (ld + d) - (lh + h)
    BY <1>9, <1>10, <1>11, <1>12 DEF Base
  <2>2. QED BY <1>4, <2>1
<1>14. ChannelInv'
  <2>1. lc - (h + d) <= e
    BY <1>6
  <2>2. QED BY <1>11, <1>12, <2>1 DEF ChannelInv
<1>15. BufferInv'
  <2>1. b + (lh + h) = b + lh + h
    OBVIOUS
  <2>2. QED BY <1>7, <1>9, <1>10, <1>13, <2>1 DEF BufferInv
<1>16. ASSUME InStep' PROVE \E k \in 0 .. Len(sent') : At(k)'
  <2>1. PICK k \in 0 .. Len(sent) :
          At(k) /\ (d > 0 => k < Len(sent) /\ Len(rdatabuff) + d < sent[k + 1].len)
    BY <1>16
  <2>2. Base' = EndOf(sent, k)'
    BY <2>1, <1>5, <1>13 DEF At, EndOf, Size
  <2>3. (~drained => k = Len(read) /\ \A i \in 1 .. k : read[i] = i)'
    BY <2>1 DEF At
  <2>4. (rdatabuff # <<>> => k < Len(sent) /\ Len(rdatabuff) < sent[k + 1].len)'
    <3>1. CASE d > 0
      BY <2>1, <3>1, <1>3, <1>10
    <3>2. CASE d = 0
      <4>1. SubSeq(channel, h + 1, h + d) = <<>>
        BY <3>2, SubSeqEmpty
      <4>2. rdatabuff' = rdatabuff
        BY <4>1, <1>1, ConcatEmptySeq DEF BodyWith
      <4>3. QED BY <4>2, <2>1 DEF At
    <3>3. QED BY <3>1, <3>2
  <2>5. QED BY <2>1, <2>2, <2>3, <2>4 DEF At
<1>17. Consecutive(sent)'
  BY DEF Consecutive, EndOf, Size
<1>18. QED BY <1>3, <1>9, <1>10, <1>11, <1>14, <1>15, <1>16, <1>17

\* What is taken off the channel is the right number of units.
LEMMA ReadTypes ==
  ASSUME TypeOK, NEW n \in 0 .. Len(channel), Read(n)
  PROVE  /\ channel' = Drop(channel, n) /\ channel' \in Seq(Nat)
         /\ decrypted' \in 0 .. Len(channel')
         /\ sent' = sent /\ tls' \in BOOLEAN /\ fin' \in BOOLEAN
<1>1. channel \in Seq(Nat) /\ decrypted \in 0 .. Len(channel)
  BY DEF TypeOK
<1>2. channel' = Drop(channel, n) /\ channel' \in Seq(Nat)
      /\ Len(channel') = Len(channel) - n
  BY <1>1, DropPart DEF Read
<1>3. PICK lc \in Nat : Len(channel) = lc
  BY <1>1
<1>4. decrypted' \in 0 .. lc - n
  <2>1. decrypted' \in IF n = 0 \/ n < decrypted \/ ~tls
                       THEN {IF n < decrypted THEN decrypted - n ELSE 0}
                       ELSE 0 .. lc - n
    BY <1>3 DEF Read
  <2>2. decrypted \in 0 .. lc /\ n \in 0 .. lc
    BY <1>1, <1>3
  <2> HIDE <1>2, <1>1
  <2>3. QED BY <2>1, <2>2
<1>5. sent' = sent /\ tls' = tls /\ fin' = fin
  BY DEF Read
<1>6. QED BY <1>2, <1>3, <1>4, <1>5 DEF TypeOK

LEMMA CloseTypes ==
  ASSUME TypeOK, NEW queued \in BOOLEAN, Close(queued)
  PROVE  /\ status' = status \/ status' = "closed"
         /\ backlog' \in BOOLEAN /\ sendandclose' \in BOOLEAN
  BY DEF TypeOK, Close

LEMMA QueuedTypes == ASSUME TypeOK PROVE Queued \subseteq BOOLEAN
  BY DEF TypeOK, Queued

LEMMA WaitingTypes ==
  ASSUME TypeOK, NEW n, NEW atStart, StillWaiting(n, atStart)
  PROVE  /\ status' = status \/ status' = "closed"
         /\ backlog' \in BOOLEAN /\ sendandclose' \in BOOLEAN
         /\ read' = read /\ drained' = drained
<1>1. backlog \in BOOLEAN
  BY DEF TypeOK
<1>2. CASE Starved(n, atStart)
  <2>1. Close(backlog) /\ read' = read /\ drained' = drained
    BY <1>2 DEF StillWaiting
  <2>2. QED BY <1>1, <2>1, CloseTypes
<1>3. CASE ~ Starved(n, atStart)
  BY <1>3 DEF StillWaiting, sendVars, TypeOK
<1>4. QED BY <1>2, <1>3

LEMMA HeaderTypes ==
  ASSUME TypeOK, NEW h \in Nat, h <= Len(channel)
  PROVE  /\ HeaderWith(h) \in Seq(Nat)
         /\ Len(HeaderWith(h)) = Len(rheaderbuff) + h
         /\ HeaderWith(h) # <<>> =>
              HeaderWith(h)[1] = IF rheaderbuff # <<>> THEN rheaderbuff[1] ELSE channel[1]
<1>1. rheaderbuff \in Seq(Nat) /\ channel \in Seq(Nat)
  BY DEF TypeOK
<1>2. PICK lc \in Nat, lh \in Nat : Len(channel) = lc /\ Len(rheaderbuff) = lh
  BY <1>1
<1>3. \A i \in 1 .. h : channel[i] \in Nat
  <2>1. \A i \in 1 .. h : i \in 1 .. Len(channel)
    BY <1>2
  <2>2. QED BY <1>1, <2>1, ElementOfSeq
<1>4. /\ SubSeq(channel, 1, h) \in Seq(Nat)
      /\ Len(SubSeq(channel, 1, h)) = IF 1 <= h THEN h - 1 + 1 ELSE 0
      /\ \A i \in 1 .. h - 1 + 1 : SubSeq(channel, 1, h)[i] = channel[1 + i - 1]
  BY <1>3, SubSeqProperties
<1>5. Len(SubSeq(channel, 1, h)) = h /\ (h > 0 => SubSeq(channel, 1, h)[1] = channel[1])
  BY <1>4
<1>6. /\ HeaderWith(h) \in Seq(Nat) /\ Len(HeaderWith(h)) = lh + h
      /\ \A i \in 1 .. lh + h : HeaderWith(h)[i] =
           IF i <= lh THEN rheaderbuff[i] ELSE SubSeq(channel, 1, h)[i - lh]
  <2> DEFINE p == SubSeq(channel, 1, h)
  <2>1. p \in Seq(Nat) /\ Len(p) = h
    BY <1>4, <1>5
  <2> HIDE DEF p
  <2>2. /\ rheaderbuff \o p \in Seq(Nat) /\ Len(rheaderbuff \o p) = Len(rheaderbuff) + Len(p)
        /\ \A i \in 1 .. Len(rheaderbuff) + Len(p) : (rheaderbuff \o p)[i] =
             IF i <= Len(rheaderbuff) THEN rheaderbuff[i] ELSE p[i - Len(rheaderbuff)]
    BY <1>1, <2>1, ConcatProperties
  <2>3. QED BY <1>2, <2>1, <2>2 DEF HeaderWith, p
<1>7. ASSUME HeaderWith(h) # <<>>
      PROVE HeaderWith(h)[1] = IF rheaderbuff # <<>> THEN rheaderbuff[1] ELSE channel[1]
  <2>1. lh + h \in Nat \ {0}
    BY <1>6, <1>7, EmptySeq
  <2>2. lh = 0 <=> rheaderbuff = <<>>
    BY <1>1, <1>2, EmptySeq
  <2>3. 1 \in 1 .. lh + h
    BY <2>1
  <2>4. CASE lh = 0
    BY <2>1, <2>2, <2>3, <2>4, <1>5, <1>6
  <2>5. CASE lh # 0
    BY <2>2, <2>3, <2>5, <1>6
  <2>6. QED BY <2>4, <2>5
<1>8. QED BY <1>2, <1>6, <1>7

LEMMA BodyTypes ==
  ASSUME TypeOK, NEW h \in Nat, NEW d \in Nat, h + d <= Len(channel)
  PROVE  BodyWith(h, d) \in Seq(Nat) /\ Len(BodyWith(h, d)) = Len(rdatabuff) + d
<1> DEFINE p == SubSeq(channel, h + 1, h + d)
<1>1. rdatabuff \in Seq(Nat) /\ channel \in Seq(Nat)
  BY DEF TypeOK
<1>2. \A i \in h + 1 .. h + d : channel[i] \in Nat
  <2>1. \A i \in h + 1 .. h + d : i \in 1 .. Len(channel)
    BY <1>1
  <2>2. QED BY <1>1, <2>1, ElementOfSeq
<1>3. h + 1 \in Int /\ h + d \in Int
  OBVIOUS
<1>4. p \in Seq(Nat) /\ Len(p) = IF h + 1 <= h + d THEN h + d - (h + 1) + 1 ELSE 0
  BY <1>2, <1>3, SubSeqProperties
<1>5. Len(p) = d
  BY <1>4
<1> HIDE DEF p
<1>6. rdatabuff \o p \in Seq(Nat) /\ Len(rdatabuff \o p) = Len(rdatabuff) + Len(p)
  BY <1>1, <1>4, ConcatProperties
<1>7. QED BY <1>5, <1>6 DEF BodyWith, p

\* The header being read starts where the stream was left.
LEMMA HeaderStart ==
  ASSUME TypeOK, ChannelInv, BufferInv, NEW h \in Nat, h <= Len(channel),
         rdatabuff # <<>> => rheaderbuff # <<>>, HeaderWith(h) # <<>>
  PROVE  HeaderWith(h)[1] = Base + 1
<1>1. rheaderbuff \in Seq(Nat) /\ rdatabuff \in Seq(Nat) /\ channel \in Seq(Nat)
  BY DEF TypeOK
<1>2. PICK lh \in Nat, ld \in Nat, lc \in Nat :
        Len(rheaderbuff) = lh /\ Len(rdatabuff) = ld /\ Len(channel) = lc
  BY <1>1
<1>3. CASE rheaderbuff # <<>>
  <2>1. 1 \in 1 .. Len(rheaderbuff)
    BY <1>1, <1>3, EmptySeq
  <2>2. rheaderbuff[1] = Base + 1
    BY <2>1 DEF BufferInv, Run
  <2>3. QED BY <1>3, <2>2, HeaderTypes
<1>4. CASE rheaderbuff = <<>>
  <2>1. lh = 0 /\ ld = 0
    BY <1>2, <1>4, EmptySeq
  <2>2. Len(HeaderWith(h)) = lh + h
    BY <1>2, HeaderTypes
  <2>3. h # 0
    <3>1. HeaderWith(h) \in Seq(Nat)
      BY HeaderTypes
    <3>2. Len(HeaderWith(h)) # 0
      BY <3>1, EmptySeq
    <3>3. QED BY <2>1, <2>2, <3>2
  <2>4. 1 \in 1 .. Len(channel)
    BY <1>2, <2>3
  <2>5. PICK e \in Nat : e = EndOf(sent, Len(sent))
    <3>1. sent \in Seq(Frame) /\ Len(sent) \in 0 .. Len(sent)
      BY DEF TypeOK
    <3>2. QED BY <3>1, EndsInOrder
  <2>6. channel[1] = e - lc + 1
    BY <1>2, <2>4, <2>5 DEF ChannelInv, Run
  <2>7. Base = e - lc - 0 - 0
    BY <1>2, <2>1, <2>5 DEF Base
  <2>8. HeaderWith(h)[1] = channel[1]
    BY <1>4, HeaderTypes
  <2>9. QED BY <2>6, <2>7, <2>8
<1>5. QED BY <1>3, <1>4

-----------------------------------------------------------------------------
(* readFrame *)

\* Units are added to the buffers, and the connection may be closed.
LEMMA BufferedKeeps ==
  ASSUME TypeOK, Consecutive(sent), ChannelInv, BufferInv,
         NEW h \in Nat, NEW d \in Nat, h + d <= Len(channel),
         Len(rheaderbuff) + h <= HeaderLength,
         h > 0 => rdatabuff = <<>>,
         d > 0 => Len(rheaderbuff) + h = HeaderLength,
         rheaderbuff' = HeaderWith(h), rdatabuff' = BodyWith(h, d), Read(h + d),
         status' = status \/ status' = "closed",
         backlog' \in BOOLEAN, sendandclose' \in BOOLEAN,
         version' \in Supported \cup {"future"},
         UNCHANGED <<read, drained>>,
         status = "new" /\ Len(rheaderbuff) + h > VersionLength =>
           ShownAt(HeaderWith(h)[1]) \in Supported,
         InStep' => \E k \in 0 .. Len(sent) :
                      /\ At(k)
                      /\ d > 0 => k < Len(sent)
                                  /\ Len(rdatabuff) + d < sent[k + 1].len
  PROVE  IInv'
<1>1. h + d \in 0 .. Len(channel)
  <2>1. Len(channel) \in Nat
    BY DEF TypeOK
  <2>2. QED BY <2>1
<1>2. /\ channel' = Drop(channel, h + d) /\ channel' \in Seq(Nat)
      /\ decrypted' \in 0 .. Len(channel')
      /\ sent' = sent /\ tls' \in BOOLEAN /\ fin' \in BOOLEAN
  BY <1>1, ReadTypes
<1>3. /\ Consecutive(sent)' /\ ChannelInv' /\ BufferInv'
      /\ InStep' => \E k \in 0 .. Len(sent') : At(k)'
      /\ rheaderbuff' \in Seq(Nat) /\ Len(rheaderbuff') = Len(rheaderbuff) + h
      /\ rdatabuff' \in Seq(Nat) /\ Len(rdatabuff') = Len(rdatabuff) + d
  BY <1>2, Buffered
<1>4. rdatabuff' # <<>> => Len(rheaderbuff') = HeaderLength
  <2>1. PICK lh \in Nat, ld \in Nat : Len(rheaderbuff) = lh /\ Len(rdatabuff) = ld
    BY DEF TypeOK
  <2>2. rdatabuff' # <<>> => ld + d # 0
    BY <1>3, <2>1, EmptySeq
  <2>3. ld # 0 => h = 0 /\ lh = HeaderLength
    BY <2>1, EmptySeq DEF TypeOK
  <2>4. QED BY <1>3, <2>1, <2>2, <2>3
<1>5. TypeOK'
  BY <1>2, <1>3, <1>4 DEF TypeOK
<1>6. KeptVersion'
  BY <1>2, <1>3 DEF KeptVersion, ShownAt, StartsFrame
<1>7. QED BY <1>3, <1>5, <1>6 DEF IInv

LEMMA ChannelKeeps ==
  ASSUME TypeOK, ChannelInv, NEW n \in 0 .. Len(channel),
         channel' = Drop(channel, n), sent' = sent
  PROVE  ChannelInv'
<1>1. PICK lc \in Nat : Len(channel) = lc
  BY DEF TypeOK
<1>2. PICK e \in Nat : e = EndOf(sent, Len(sent))
  <2>1. sent \in Seq(Frame) /\ Len(sent) \in 0 .. Len(sent)
    BY DEF TypeOK
  <2>2. QED BY <2>1, EndsInOrder
<1>3. EndOf(sent, Len(sent))' = e
  BY <1>2 DEF EndOf, Size
<1>4. lc <= e /\ Run(channel, e - lc)
  BY <1>1, <1>2 DEF ChannelInv
<1>5. e - lc \in Int /\ e - lc + n = e - (lc - n) /\ lc - n <= e
  BY <1>1, <1>4
<1>6. channel \in Seq(Nat)
  BY DEF TypeOK
<1>7. Run(Drop(channel, n), e - lc + n)
  BY <1>4, <1>5, <1>6, RunDropped
<1>8. Len(channel') = lc - n
  BY <1>1, <1>6, DropPart
<1>9. QED BY <1>3, <1>5, <1>7, <1>8 DEF ChannelInv

\* A frame was read whole: the next one follows.
LEMMA FrameReadKeeps ==
  ASSUME TypeOK, Consecutive(sent), ChannelInv, BufferInv,
         NEW k \in 0 .. Len(sent), At(k), k + 1 \in 1 .. Len(sent),
         NEW n \in 0 .. Len(channel),
         Len(rheaderbuff) + Len(rdatabuff) + n = HeaderLength + sent[k + 1].len,
         sent[k + 1] \in Frame,
         NEW v, Read(n), FrameRead(k + 1, v),
         version' \in Supported \cup {"future"}
  PROVE  IInv'
<1>1. /\ channel' = Drop(channel, n) /\ channel' \in Seq(Nat)
      /\ decrypted' \in 0 .. Len(channel')
      /\ sent' = sent /\ tls' \in BOOLEAN /\ fin' \in BOOLEAN
  BY ReadTypes
<1>2. /\ rheaderbuff' = <<>> /\ rdatabuff' = <<>> /\ drained' = drained
      /\ read' = Append(read, k + 1)
      /\ backlog' \in BOOLEAN /\ sendandclose' \in BOOLEAN
      /\ status' \in {status, "open"}
  BY QueuedTypes DEF FrameRead, Reply, TypeOK
<1>3. read \in Seq(Nat) /\ read' \in Seq(Nat) /\ Len(read') = Len(read) + 1
      /\ \A i \in 1 .. Len(read) : read'[i] = read[i]
      /\ read'[Len(read) + 1] = k + 1
  <2>1. read \in Seq(Nat) /\ k + 1 \in Nat
    BY DEF TypeOK
  <2>2. QED BY <1>2, <2>1
<1>4. TypeOK'
  <2>1. <<>> \in Seq(Nat) /\ Len(<<>>) <= HeaderLength
    BY EmptySeq, LengthsAssumption
  <2>2. status' \in {"new", "open", "closed"} /\ drained' \in BOOLEAN
    BY <1>2 DEF TypeOK
  <2>3. sent' \in Seq(Frame)
    BY <1>1 DEF TypeOK
  <2>4. QED BY <1>1, <1>2, <1>3, <2>1, <2>2, <2>3 DEF TypeOK
<1>5. PICK lh \in Nat, ld \in Nat, lc \in Nat :
        Len(rheaderbuff) = lh /\ Len(rdatabuff) = ld /\ Len(channel) = lc
  BY DEF TypeOK
<1>6. PICK e \in Nat : e = EndOf(sent, Len(sent))
  <2>1. sent \in Seq(Frame) /\ Len(sent) \in 0 .. Len(sent)
    BY DEF TypeOK
  <2>2. QED BY <2>1, EndsInOrder
<1>7. EndOf(sent, Len(sent))' = e
  BY <1>1, <1>6 DEF EndOf, Size
<1>8. Len(channel') = lc - n
  BY <1>1, <1>5, DropPart DEF TypeOK
<1>9. ChannelInv'
  BY <1>1, ChannelKeeps
<1>10. Base = e - lc - ld - lh /\ Base' = e - (lc - n)
  <2>1. Base' = e - (lc - n) - 0 - 0
    BY <1>2, <1>7, <1>8 DEF Base
  <2>2. QED BY <1>5, <1>6, <2>1 DEF Base
<1>11. BufferInv'
  <2>1. Base' >= 0
    <3>1. lc <= e
      BY <1>5, <1>6 DEF ChannelInv
    <3>2. QED BY <1>5, <1>10, <3>1
  <2>2. Len(<<>>) = 0 /\ 1 .. 0 = {}
    OBVIOUS
  <2>3. QED BY <1>2, <2>1, <2>2 DEF BufferInv, Run
<1>12. At(k + 1)'
  <2>1. PICK l \in Nat : l = sent[k + 1].len
    BY DEF Frame
  <2>2. PICK s \in Nat : s = sent[k + 1].start
    BY DEF Frame
  <2>3. s = Base
    BY <2>2 DEF Consecutive, At
  <2>4. EndOf(sent, k + 1) = s + (HeaderLength + l)
    BY <2>1, <2>2 DEF EndOf, Size
  <2>5. Base' = EndOf(sent, k + 1)
    BY <1>5, <1>10, <2>1, <2>3, <2>4, LengthsAssumption
  <2>6. Base' = EndOf(sent, k + 1)'
    BY <1>1, <2>5 DEF EndOf, Size
  <2>7. (~drained => k + 1 = Len(read) /\ \A i \in 1 .. k + 1 : read[i] = i)'
    BY <1>2, <1>3 DEF At
  <2>8. QED BY <1>2, <2>6, <2>7 DEF At
<1>13. Consecutive(sent)'
  BY <1>1 DEF Consecutive, EndOf, Size
<1>14. k + 1 \in 0 .. Len(sent')
  BY <1>1
<1>15. KeptVersion'
  <2>1. Len(rheaderbuff') = 0
    BY <1>2, EmptySeq
  <2>2. QED BY <2>1, LengthsAssumption DEF KeptVersion
<1>16. QED BY <1>4, <1>9, <1>11, <1>12, <1>13, <1>14, <1>15 DEF IInv

LEMMA ReadFrameKeeps ==
  ASSUME IInv, BufferInv, NEW k \in 0 .. Len(sent), At(k),
         NEW n \in 0 .. Len(channel), NEW v, ReadFrame(n, v),
         status = "new" => ShownAt(Base + 1) \in Supported,
         version' \in Supported \cup {"future"}
  PROVE  IInv'
<1> DEFINE h == Min(n, HeaderLength - Len(rheaderbuff))
           header == HeaderWith(h)
           f == FrameOf(header)
           d == Min(n - h, sent[f].len - Len(rdatabuff))
           data == BodyWith(h, d)
<1>1. TypeOK /\ Consecutive(sent) /\ ChannelInv
  BY DEF IInv
<1>2. PICK lh \in Nat, ld \in Nat, lc \in Nat :
        Len(rheaderbuff) = lh /\ Len(rdatabuff) = ld /\ Len(channel) = lc
  BY <1>1 DEF TypeOK
<1>3. lh <= HeaderLength /\ HeaderLength \in Nat /\ 0 < HeaderLength /\ n \in 0 .. lc
  BY <1>1, <1>2, LengthsAssumption DEF TypeOK
<1>4. /\ h \in Nat /\ h <= n /\ h + 0 <= lc /\ lh + h <= HeaderLength
      /\ lh + h < HeaderLength => h = n
  BY <1>2, <1>3 DEF Min
<1>5. h > 0 => rdatabuff = <<>>
  <2>1. rdatabuff # <<>> => lh = HeaderLength
    BY <1>1, <1>2 DEF TypeOK
  <2>2. lh = HeaderLength => h = 0
    BY <1>2, <1>3 DEF Min
  <2>3. QED BY <2>1, <2>2
<1> HIDE DEF h
<1>6. header \in Seq(Nat) /\ Len(header) = lh + h
  <2>1. h <= Len(channel)
    BY <1>2, <1>4
  <2>2. QED BY <1>1, <1>2, <1>4, <2>1, HeaderTypes
<1>7. BodyWith(h, 0) = rdatabuff
  <2>1. SubSeq(channel, h + 1, h + 0) = <<>>
    BY <1>4, SubSeqEmpty
  <2>2. QED BY <1>1, <2>1, ConcatEmptySeq DEF BodyWith, TypeOK
<1>0. ASSUME status = "new", Len(rheaderbuff) + h > VersionLength
      PROVE ShownAt(HeaderWith(h)[1]) \in Supported
  <2>1. header # <<>>
    BY <1>0, <1>2, <1>4, <1>6, EmptySeq, LengthsAssumption
  <2>2. rdatabuff # <<>> => rheaderbuff # <<>>
    BY <1>1, <1>3, EmptySeq DEF TypeOK
  <2>3. header[1] = Base + 1
    BY <1>1, <1>2, <1>4, <2>1, <2>2, HeaderStart
  <2>4. QED BY <1>0, <2>3
<1>8. CASE sendandclose
  <2>1. /\ Read(0)
        /\ UNCHANGED <<rheaderbuff, rdatabuff, status, backlog, sendandclose, read, drained>>
    BY <1>8 DEF ReadFrame
  <2>2. 0 \in 0 .. Len(channel)
    BY <1>2
  <2>3. /\ channel' = Drop(channel, 0) /\ channel' \in Seq(Nat)
        /\ decrypted' \in 0 .. Len(channel')
        /\ sent' = sent /\ tls' \in BOOLEAN /\ fin' \in BOOLEAN
    BY <1>1, <2>1, <2>2, ReadTypes
  <2>4. channel' = channel
    BY <1>1, <2>3, SubSeqFull DEF Drop, TypeOK
  <2>5. TypeOK'
    BY <1>1, <2>1, <2>3, <2>4 DEF TypeOK
  <2>6. QED BY <2>1, <2>3, <2>4, <2>5, NothingRead
<1>9. CASE ~sendandclose /\ Len(header) < HeaderLength
  <2>1. /\ Read(h)
        /\ rheaderbuff' = header
        /\ rdatabuff' = rdatabuff
        /\ StillWaiting(h, Len(header) = VersionLength /\ status = "new")
    BY <1>9 DEF ReadFrame, h
  <2>2. /\ status' = status \/ status' = "closed"
        /\ backlog' \in BOOLEAN /\ sendandclose' \in BOOLEAN
        /\ read' = read /\ drained' = drained
    BY <1>1, <2>1, WaitingTypes
  <2>3. rdatabuff' = BodyWith(h, 0) /\ Read(h + 0) /\ 0 \in Nat /\ ~ (0 > 0)
    BY <1>4, <1>7, <2>1
  <2>4. QED BY <1>1, <1>2, <1>4, <1>5, <1>0, <2>1, <2>2, <2>3, BufferedKeeps
<1>10. CASE ~sendandclose /\ ~ (Len(header) < HeaderLength)
  <2>1. lh + h = HeaderLength /\ Len(header) = HeaderLength
    BY <1>3, <1>4, <1>6, <1>10
  <2>2. header # <<>> /\ (rdatabuff # <<>> => rheaderbuff # <<>>)
    <3>1. header # <<>>
      BY <1>3, <1>6, <2>1, EmptySeq
    <3>2. rdatabuff # <<>> => lh = HeaderLength
      BY <1>1, <1>2 DEF TypeOK
    <3>3. rheaderbuff = <<>> => lh = 0
      BY <1>2, EmptySeq
    <3>4. QED BY <1>3, <3>1, <3>2, <3>3
  <2>3. header[1] = Base + 1
    BY <1>1, <1>2, <1>4, <2>2, HeaderStart
  <2>4. Len(channel) + Len(rdatabuff) + Len(rheaderbuff) > 0
    BY <1>2, <1>3, <1>4, <2>1
  <2>5. /\ k + 1 \in 1 .. Len(sent)
        /\ sent[k + 1] \in Frame
        /\ sent[k + 1].start = EndOf(sent, k)
    BY <1>1, <2>4, NextFrame DEF At
  <2>6. f = k + 1
    <3>1. header[1] = sent[k + 1].start + 1
      BY <2>3, <2>5 DEF At
    <3>2. QED BY <1>1, <2>5, <3>1, StartTells
  <2>7. PICK l \in Nat : l = sent[k + 1].len
    BY <2>5 DEF Frame
  <2>8. ld <= l /\ (ld > 0 => ld < l)
    <3>1. ld = 0 \/ rdatabuff # <<>>
      BY <1>2, EmptySeq
    <3>2. QED BY <1>2, <2>7, <3>1 DEF At
  <2>9. d \in Nat /\ h + d <= n /\ ld + d <= l
    <3>1. d = Min(n - h, l - ld)
      BY <1>2, <2>6, <2>7
    <3>2. d = IF n - h < l - ld THEN n - h ELSE l - ld
      BY <3>1 DEF Min
    <3> HIDE DEF d
    <3>3. QED BY <1>3, <1>4, <2>8, <3>2
  <2> HIDE DEF d
  <2>10. Len(data) = ld + d
    <3>1. h + d <= Len(channel)
      BY <1>2, <1>3, <1>4, <2>9
    <3>2. QED BY <1>1, <1>2, <1>4, <2>9, <3>1, BodyTypes
  <2>11. CASE sent[f].type = "invalid"
    <3>1. Read(h) /\ InvalidHeader(header)
      BY <1>10, <2>11 DEF ReadFrame, h
    <3>2. /\ rheaderbuff' = header /\ rdatabuff' = rdatabuff
          /\ read' = read /\ drained' = drained
          /\ \E queued \in Queued : Close(queued)
      BY <3>1 DEF InvalidHeader
    <3>3. /\ status' = status \/ status' = "closed"
          /\ backlog' \in BOOLEAN /\ sendandclose' \in BOOLEAN
      BY <1>1, <3>2, QueuedTypes, CloseTypes
    <3>4. rdatabuff' = BodyWith(h, 0) /\ Read(h + 0) /\ 0 \in Nat /\ ~ (0 > 0)
      BY <1>4, <1>7, <3>1, <3>2
    <3>5. QED BY <1>1, <1>2, <1>4, <1>5, <1>0, <3>2, <3>3, <3>4, BufferedKeeps
  <2>12. CASE sent[f].type # "invalid" /\ Len(data) < sent[f].len
    <3>1. /\ Read(h + d)
          /\ rheaderbuff' = header
          /\ rdatabuff' = data
          /\ StillWaiting(h + d, data = <<>>)
      BY <1>10, <2>12 DEF ReadFrame, h, d
    <3>2. /\ status' = status \/ status' = "closed"
          /\ backlog' \in BOOLEAN /\ sendandclose' \in BOOLEAN
          /\ read' = read /\ drained' = drained
      BY <1>1, <3>1, WaitingTypes
    <3>3. h + d <= Len(channel) /\ Len(rheaderbuff) + h <= HeaderLength
          /\ Len(rheaderbuff) + h = HeaderLength
      BY <1>2, <1>3, <1>4, <2>1, <2>9
    <3>4. k < Len(sent) /\ Len(rdatabuff) + d < sent[k + 1].len
      BY <1>1, <1>2, <2>5, <2>6, <2>10, <2>12 DEF TypeOK
    <3>5. QED BY <1>1, <1>4, <1>5, <1>0, <2>9, <3>1, <3>2, <3>3, <3>4, BufferedKeeps
  <2>13. CASE sent[f].type # "invalid" /\ ~ (Len(data) < sent[f].len)
    <3>1. Read(h + d) /\ FrameRead(f, v)
      BY <1>10, <2>13 DEF ReadFrame, h, d
    <3>2. ld + d = l
      BY <2>6, <2>7, <2>9, <2>10, <2>13
    <3>3. Len(rheaderbuff) + Len(rdatabuff) + (h + d) = HeaderLength + sent[k + 1].len
      BY <1>2, <1>4, <2>1, <2>7, <2>9, <3>2
    <3>4. h + d \in 0 .. Len(channel)
      BY <1>2, <1>3, <1>4, <2>9
    <3>5. QED BY <1>1, <2>5, <2>6, <3>1, <3>3, <3>4, FrameReadKeeps
  <2>14. QED BY <2>11, <2>12, <2>13
<1>11. QED BY <1>8, <1>9, <1>10

-----------------------------------------------------------------------------
(* verCheck *)

\* A version is turned down: what has arrived is thrown away.
LEMMA TurnDownKeeps ==
  ASSUME IInv, status = "new", rdatabuff = <<>>,
         NEW n \in 0 .. Len(channel), NEW kept \in Seq(Nat), TurnDown(n, kept),
         version' \in Supported \cup {"future"},
         \/ kept = <<>>
         \/ Len(kept) = VersionLength /\ ShownAt(kept[1]) = "future"
  PROVE  IInv'
<1>1. TypeOK /\ Consecutive(sent) /\ ChannelInv
  BY DEF IInv
<1>2. /\ Read(n) /\ rheaderbuff' = kept /\ drained' = TRUE
      /\ rdatabuff' = <<>> /\ read' = read /\ status' = "new"
      /\ backlog' \in BOOLEAN /\ sendandclose' \in BOOLEAN
  BY <1>1, QueuedTypes DEF TurnDown, Reply, TypeOK
<1>3. /\ channel' = Drop(channel, n) /\ channel' \in Seq(Nat)
      /\ decrypted' \in 0 .. Len(channel')
      /\ sent' = sent /\ tls' \in BOOLEAN /\ fin' \in BOOLEAN
  BY <1>1, <1>2, ReadTypes
<1>4. Len(<<>>) = 0 /\ <<>> \in Seq(Nat)
  BY EmptySeq
<1>5. Len(kept) <= VersionLength /\ Len(kept) <= HeaderLength
  BY <1>4, LengthsAssumption
<1>6. TypeOK'
  BY <1>1, <1>2, <1>3, <1>4, <1>5 DEF TypeOK
<1>7. ChannelInv'
  BY <1>1, <1>3, ChannelKeeps
<1>8. KeptVersion'
  <2>1. ~ (Len(rheaderbuff') > VersionLength)
    BY <1>2, <1>5, LengthsAssumption
  <2>2. QED BY <2>1 DEF KeptVersion
<1>9. Consecutive(sent)'
  <2>1. sent' = sent
    BY <1>3
  <2>2. QED BY <1>1, <2>1 DEF Consecutive, EndOf, Size
<1>10. CASE kept = <<>>
  <2>1. ~ InStep'
    BY <1>2, <1>4, <1>10, LengthsAssumption DEF InStep
  <2>2. Base' = EndOf(sent, Len(sent))' - Len(channel') - 0 - 0
    BY <1>2, <1>4, <1>10 DEF Base
  <2>3. PICK e \in Nat : e = EndOf(sent, Len(sent))'
    <3>1. sent' \in Seq(Frame) /\ Len(sent') \in 0 .. Len(sent')
      BY <1>6 DEF TypeOK
    <3>2. EndOf(sent', Len(sent')) \in Nat
      BY <3>1, EndsInOrder
    <3>3. QED BY <3>2 DEF EndOf, Size
  <2>4. Len(channel') <= e /\ Len(channel') \in Nat
    BY <1>3, <1>7, <2>3 DEF ChannelInv
  <2>5. Base' >= 0
    BY <2>2, <2>3, <2>4
  <2>6. BufferInv'
    BY <1>2, <1>4, <1>10, <2>5 DEF BufferInv, Run
  <2>7. QED BY <1>6, <1>7, <1>8, <1>9, <2>1, <2>6 DEF IInv
<1>11. CASE Len(kept) = VersionLength /\ ShownAt(kept[1]) = "future"
  <2>1. Stuck'
    BY <1>2, <1>3, <1>11 DEF Stuck, ShownAt, StartsFrame
  <2>2. QED BY <1>6, <1>7, <1>8, <1>9, <2>1 DEF IInv
<1>12. QED BY <1>10, <1>11

LEMMA VerCheckKeeps ==
  ASSUME IInv, status = "new", NEW n \in 0 .. Len(channel), VerCheck(n)
  PROVE  IInv'
<1> DEFINE h == IF Len(rheaderbuff) < VersionLength
                THEN Min(n, VersionLength - Len(rheaderbuff)) ELSE 0
           header == HeaderWith(h)
           shown == VersionShown(header)
<1>1. TypeOK /\ Consecutive(sent) /\ ChannelInv /\ KeptVersion
  BY DEF IInv
<1>2. PICK lh \in Nat, lc \in Nat : Len(rheaderbuff) = lh /\ Len(channel) = lc
  BY <1>1 DEF TypeOK
<1>3. /\ lh <= HeaderLength /\ n \in 0 .. lc
      /\ VersionLength \in Nat /\ 0 < VersionLength
      /\ HeaderLength \in Nat /\ VersionLength < HeaderLength
  BY <1>1, <1>2, LengthsAssumption DEF TypeOK
<1>4. /\ h \in Nat /\ h <= n /\ h <= lc /\ h + 0 <= lc /\ lh + h <= HeaderLength
      /\ h > 0 => lh + h <= VersionLength
      /\ lh >= VersionLength => h = 0
  BY <1>2, <1>3 DEF Min
<1> HIDE DEF h
<1>5. header \in Seq(Nat) /\ Len(header) = lh + h
      /\ (header # <<>> => header[1] = IF rheaderbuff # <<>> THEN rheaderbuff[1]
                                       ELSE channel[1])
  <2>1. h <= Len(channel)
    BY <1>2, <1>4
  <2>2. QED BY <1>1, <1>2, <1>4, <2>1, HeaderTypes
<1>6. BodyWith(h, 0) = rdatabuff
  <2>1. SubSeq(channel, h + 1, h + 0) = <<>>
    BY <1>4, SubSeqEmpty
  <2>2. QED BY <1>1, <2>1, ConcatEmptySeq DEF BodyWith, TypeOK
<1>7. rdatabuff # <<>> => lh = HeaderLength /\ h = 0
  BY <1>1, <1>2, <1>3, <1>4 DEF TypeOK
<1>8. shown = ShownAt(header[1])
  BY DEF VersionShown, ShownAt, FrameOf
<1>9. Stuck => lh = VersionLength /\ shown = "future"
  <2> SUFFICES ASSUME Stuck PROVE lh = VersionLength /\ shown = "future"
    OBVIOUS
  <2>1. lh = VersionLength /\ ShownAt(rheaderbuff[1]) = "future"
    BY <1>2 DEF Stuck
  <2>2. rheaderbuff # <<>> /\ header # <<>>
    BY <1>2, <1>3, <1>4, <1>5, <2>1, EmptySeq
  <2>3. QED BY <1>5, <1>8, <2>1, <2>2
<1>10. CASE Len(header) < VersionLength
  <2>1. /\ Read(h) /\ rheaderbuff' = header
        /\ UNCHANGED <<version, rdatabuff>>
        /\ StillWaiting(h, FALSE)
    BY <1>10 DEF VerCheck, h
  <2>2. /\ status' = status \/ status' = "closed"
        /\ backlog' \in BOOLEAN /\ sendandclose' \in BOOLEAN
        /\ read' = read /\ drained' = drained
    BY <1>1, <2>1, WaitingTypes
  <2>3. rdatabuff' = BodyWith(h, 0) /\ Read(h + 0) /\ 0 \in Nat /\ ~ (0 > 0)
    BY <1>4, <1>6, <2>1
  <2>4. lh < VersionLength /\ lh + h < VersionLength
    BY <1>3, <1>4, <1>5, <1>10
  <2>5. BufferInv /\ (InStep => \E k \in 0 .. Len(sent) : At(k))
    BY <1>3, <1>9, <2>4 DEF IInv
  <2>6. InStep' => InStep
    BY <1>3, <1>5, <2>1, <2>2, <2>4 DEF InStep
  <2>7. ~ (Len(rheaderbuff) + h > VersionLength)
    BY <1>2, <1>3, <1>4, <2>4
  <2>8. h > 0 => rdatabuff = <<>>
    BY <1>4, <1>7
  <2>9. version' \in Supported \cup {"future"}
    BY <1>1, <2>1 DEF TypeOK
  <2>10. h + 0 <= Len(channel) /\ Len(rheaderbuff) + h <= HeaderLength
    BY <1>2, <1>4
  <2>11. QED BY <1>1, <1>4, <2>1, <2>2, <2>3, <2>5, <2>6, <2>7, <2>8, <2>9, <2>10,
                BufferedKeeps
<1>11. CASE ~ (Len(header) < VersionLength)
  <2>1. lh + h >= VersionLength /\ header # <<>>
    BY <1>3, <1>4, <1>5, <1>11, EmptySeq
  <2>2. lh > VersionLength => shown \in Supported
    <3> SUFFICES ASSUME lh > VersionLength PROVE shown \in Supported
      OBVIOUS
    <3>1. rheaderbuff # <<>>
      BY <1>2, <1>3, EmptySeq
    <3>2. QED BY <1>1, <1>2, <1>5, <1>8, <2>1, <3>1 DEF KeptVersion
  <2>3. lh <= VersionLength => lh + h = VersionLength /\ rdatabuff = <<>>
    BY <1>3, <1>4, <1>7, <2>1
  <2>4. ~ Stuck => header[1] = Base + 1
    <3> SUFFICES ASSUME ~ Stuck PROVE header[1] = Base + 1
      OBVIOUS
    <3>1. BufferInv
      BY DEF IInv
    <3>2. rdatabuff # <<>> => rheaderbuff # <<>>
      BY <1>2, <1>3, <1>7, EmptySeq
    <3>3. h <= Len(channel)
      BY <1>2, <1>4
    <3>4. QED BY <1>1, <1>4, <2>1, <3>1, <3>2, <3>3, HeaderStart
  <2>5. CASE shown \in Supported
    <3>1. version' = shown /\ ReadFrame(n, shown)
      BY <1>11, <2>5 DEF VerCheck, h, Supported
    <3>2. ~ Stuck /\ BufferInv
      BY <1>9, <2>5 DEF IInv, Supported
    <3>3. \E k \in 0 .. Len(sent) : At(k)
      <4>1. CASE InStep
        BY <3>2, <4>1 DEF IInv
      <4>2. CASE ~InStep
        <5>1. drained /\ lh <= VersionLength
          BY <1>2, <1>3, <4>2 DEF InStep
        <5>2. StartsFrame(header[1])
          BY <1>8, <2>5 DEF ShownAt, Supported
        <5>3. PICK j \in 1 .. Len(sent) : sent[j].start + 1 = Base + 1
          <6>1. DOMAIN sent = 1 .. Len(sent)
            BY <1>1 DEF TypeOK
          <6>2. PICK j \in DOMAIN sent : sent[j].start + 1 = header[1]
            BY <5>2 DEF StartsFrame
          <6>3. QED BY <2>4, <3>2, <6>1, <6>2
        <5>4. sent[j].start = EndOf(sent, j - 1)
          BY <1>1 DEF Consecutive
        <5>5. PICK b \in Int : b = Base
          <6>1. sent \in Seq(Frame) /\ Len(sent) \in 0 .. Len(sent)
            BY <1>1 DEF TypeOK
          <6>2. EndOf(sent, Len(sent)) \in Nat /\ Len(rdatabuff) \in Nat
            BY <1>1, <6>1, EndsInOrder DEF TypeOK
          <6>3. QED BY <1>2, <6>2 DEF Base
        <5>6. sent[j].start \in Nat
          <6>1. sent[j] \in Frame
            BY <1>1 DEF TypeOK
          <6>2. QED BY <6>1 DEF Frame
        <5>7. Base = EndOf(sent, j - 1)
          BY <5>3, <5>4, <5>5, <5>6
        <5>8. At(j - 1)
          BY <2>3, <5>1, <5>7 DEF At
        <5>9. j - 1 \in 0 .. Len(sent)
          BY <1>1 DEF TypeOK
        <5>10. QED BY <5>8, <5>9
      <4>3. QED BY <4>1, <4>2
    <3>4. ShownAt(Base + 1) \in Supported
      BY <1>8, <2>4, <2>5, <3>2
    <3>5. QED BY <2>5, <3>1, <3>2, <3>3, <3>4, ReadFrameKeeps
  <2>6. CASE shown = "future"
    <3>1. version' \in {version, "future"} /\ TurnDown(n, header)
      BY <1>11, <2>6 DEF VerCheck, h, Supported
    <3>2. lh <= VersionLength
      BY <1>3, <2>2, <2>6 DEF Supported
    <3>3. rdatabuff = <<>> /\ Len(header) = VersionLength /\ ShownAt(header[1]) = "future"
      BY <1>5, <1>8, <2>3, <2>6, <3>2
    <3>4. version' \in Supported \cup {"future"}
      BY <1>1, <3>1 DEF TypeOK
    <3>5. QED BY <1>5, <3>1, <3>3, <3>4, TurnDownKeeps
  <2>7. CASE shown = "unknown"
    <3>1. version' = version /\ TurnDown(n, <<>>)
      BY <1>11, <2>7 DEF VerCheck, h, Supported
    <3>2. lh <= VersionLength
      BY <1>3, <2>2, <2>7 DEF Supported
    <3>3. rdatabuff = <<>> /\ <<>> \in Seq(Nat)
      BY <2>3, <3>2, EmptySeq
    <3>4. version' \in Supported \cup {"future"}
      BY <1>1, <3>1 DEF TypeOK
    <3>5. QED BY <3>1, <3>3, <3>4, TurnDownKeeps
  <2>8. CASE shown \notin Supported /\ shown # "future" /\ shown # "unknown"
    <3>1. /\ Read(h) /\ rheaderbuff' = header
          /\ SendDataAndClose
          /\ UNCHANGED <<version, rdatabuff, read, drained>>
      BY <1>11, <2>8 DEF VerCheck, h
    <3>2. PICK queued \in BOOLEAN : Close(queued)
      BY <3>1 DEF SendDataAndClose
    <3>3. /\ status' = status \/ status' = "closed"
          /\ backlog' \in BOOLEAN /\ sendandclose' \in BOOLEAN
      BY <1>1, <3>2, CloseTypes
    <3>4. rdatabuff' = BodyWith(h, 0) /\ Read(h + 0) /\ 0 \in Nat /\ ~ (0 > 0)
      BY <1>4, <1>6, <3>1
    <3>5. lh <= VersionLength /\ lh + h = VersionLength
      BY <1>3, <2>2, <2>3, <2>8
    <3>6. BufferInv /\ (InStep => \E k \in 0 .. Len(sent) : At(k))
      BY <1>9, <2>8 DEF IInv
    <3>7. InStep' => InStep
      BY <1>3, <1>5, <3>1, <3>3, <3>5 DEF InStep
    <3>8. ~ (Len(rheaderbuff) + h > VersionLength)
      BY <1>2, <1>3, <3>5
    <3>9. h > 0 => rdatabuff = <<>>
      BY <1>4, <1>7
    <3>10. version' \in Supported \cup {"future"}
      BY <1>1, <3>1 DEF TypeOK
    <3>11. h + 0 <= Len(channel) /\ Len(rheaderbuff) + h <= HeaderLength
      BY <1>2, <1>4
    <3>12. QED BY <1>1, <1>4, <3>1, <3>3, <3>4, <3>6, <3>7, <3>8, <3>9, <3>10, <3>11,
                  BufferedKeeps
  <2>9. QED BY <2>5, <2>6, <2>7, <2>8
<1>12. QED BY <1>10, <1>11

-----------------------------------------------------------------------------
(* The actions *)

LEMMA TotalIsEnd == ASSUME sent \in Seq(Frame) PROVE Total = EndOf(sent, Len(sent))
<1>1. sent = <<>> <=> Len(sent) = 0
  BY EmptySeq
<1>2. QED BY <1>1 DEF Total, EndOf

LEMMA InitGood == Init => IInv
<1> SUFFICES ASSUME Init PROVE IInv
  OBVIOUS
<1>1. /\ \A S : <<>> \in Seq(S)
      /\ Len(<<>>) = 0
  BY EmptySeq
<1>2. TypeOK
  <2>1. sent \in Seq(Frame) /\ channel \in Seq(Nat) /\ rheaderbuff \in Seq(Nat)
        /\ rdatabuff \in Seq(Nat) /\ read \in Seq(Nat)
    BY <1>1 DEF Init
  <2>2. Len(channel) = 0 /\ Len(rheaderbuff) = 0
    BY <1>1 DEF Init
  <2>3. decrypted \in 0 .. Len(channel) /\ Len(rheaderbuff) <= HeaderLength
    BY <2>2, LengthsAssumption DEF Init
  <2>4. QED BY <2>1, <2>3 DEF Init, TypeOK, Supported
<1>3. EndOf(sent, 0) = 0 /\ Len(sent) = 0 /\ Len(channel) = 0
      /\ Len(rheaderbuff) = 0 /\ Len(rdatabuff) = 0 /\ Len(read) = 0
  BY <1>1 DEF Init, EndOf
<1>4. Base = 0
  BY <1>3 DEF Base
<1>5. ChannelInv /\ BufferInv /\ KeptVersion
  BY <1>3, <1>4, LengthsAssumption DEF ChannelInv, BufferInv, Run, KeptVersion
<1>6. At(0)
  BY <1>3, <1>4 DEF At, Init
<1>7. Consecutive(sent)
  BY <1>3 DEF Consecutive
<1>8. 0 \in 0 .. Len(sent)
  BY <1>3
<1>9. QED BY <1>2, <1>5, <1>6, <1>7, <1>8 DEF IInv

\* The client sends one more frame.
LEMMA SendKeeps == ASSUME IInv, Send PROVE IInv'
<1>1. TypeOK /\ Consecutive(sent) /\ ChannelInv /\ KeptVersion
  BY DEF IInv
<1>2. PICK c \in ClientFrames :
        LET f == [version |-> c.version, type |-> c.type, len |-> c.len, start |-> Total]
        IN /\ sent' = Append(sent, f)
           /\ channel' = channel \o [i \in 1 .. Size(f) |-> Total + i]
  BY DEF Send
<1>3. UNCHANGED <<decrypted, tls, fin, status, version, rheaderbuff, rdatabuff,
                  backlog, sendandclose, read, drained>>
  BY DEF Send
<1> DEFINE f == [version |-> c.version, type |-> c.type, len |-> c.len, start |-> Total]
           more == [i \in 1 .. Size(f) |-> Total + i]
<1>4. sent \in Seq(Frame) /\ channel \in Seq(Nat)
  BY <1>1 DEF TypeOK
<1>5. PICK N \in Nat, lc \in Nat, lh \in Nat, ld \in Nat :
        /\ N = Len(sent) /\ Len(channel) = lc
        /\ Len(rheaderbuff) = lh /\ Len(rdatabuff) = ld
  BY <1>1 DEF TypeOK
<1>6. PICK e \in Nat : e = EndOf(sent, N) /\ e = Total
  BY <1>4, <1>5, TotalIsEnd, EndsInOrder
<1>7. f \in Frame /\ f.start = e
  BY <1>2, <1>6, LengthsAssumption DEF Frame
<1>8. PICK z \in Nat : z = Size(f) /\ z > 0
  BY <1>7, LengthsAssumption DEF Size, Frame
<1>9. sent' = Append(sent, f) /\ channel' = channel \o more
  BY <1>2
<1> HIDE DEF f
<1>10. /\ sent' \in Seq(Frame) /\ Len(sent') = N + 1
       /\ \A k \in 1 .. N : sent'[k] = sent[k]
       /\ sent'[N + 1] = f
  BY <1>4, <1>5, <1>7, <1>9
<1>11. more \in Seq(Nat) /\ Len(more) = z /\ \A i \in 1 .. z : more[i] = e + i
  <2>1. more \in [1 .. z -> Nat]
    BY <1>6, <1>8
  <2>2. \A i \in 1 .. z : more[i] = e + i
    BY <1>6, <1>8
  <2> HIDE DEF more
  <2>3. more \in Seq(Nat) /\ Len(more) = z
    BY <2>1
  <2>4. QED BY <2>2, <2>3
<1> HIDE DEF more
<1>12. /\ channel' \in Seq(Nat) /\ Len(channel') = lc + z
       /\ \A i \in 1 .. lc + z : channel'[i] = IF i <= lc THEN channel[i] ELSE more[i - lc]
  <2>1. /\ channel \o more \in Seq(Nat)
        /\ Len(channel \o more) = Len(channel) + Len(more)
        /\ \A i \in 1 .. Len(channel) + Len(more) :
             (channel \o more)[i] = IF i <= Len(channel) THEN channel[i]
                                    ELSE more[i - Len(channel)]
    BY <1>4, <1>11, ConcatProperties
  <2>2. QED BY <1>5, <1>9, <1>11, <2>1
<1>13. TypeOK'
  <2>1. decrypted' \in 0 .. Len(channel')
    BY <1>1, <1>3, <1>5, <1>12 DEF TypeOK
  <2>2. QED BY <1>1, <1>3, <1>10, <1>12, <2>1 DEF TypeOK
<1>14. ASSUME NEW k \in 0 .. N PROVE EndOf(sent', k) = EndOf(sent, k)
  BY <1>10 DEF EndOf
<1>15. EndOf(sent', N + 1) = e + z /\ N + 1 = Len(sent')
  BY <1>7, <1>8, <1>10 DEF EndOf
<1>16. Consecutive(sent')
  <2>1. ASSUME NEW k \in 1 .. N + 1 PROVE sent'[k].start = EndOf(sent', k - 1)
    <3>1. CASE k \in 1 .. N
      <4>1. sent[k].start = EndOf(sent, k - 1)
        BY <1>1, <1>5, <3>1 DEF Consecutive
      <4>2. EndOf(sent', k - 1) = EndOf(sent, k - 1)
        BY <1>14, <3>1
      <4>3. QED BY <1>10, <3>1, <4>1, <4>2
    <3>2. CASE k = N + 1
      <4>1. N \in 0 .. N /\ k - 1 = N
        BY <3>2
      <4>2. EndOf(sent', k - 1) = e
        BY <1>6, <1>14, <4>1
      <4>3. QED BY <1>7, <1>10, <3>2, <4>2
    <3>3. QED BY <3>1, <3>2
  <2>2. ASSUME NEW i \in 1 .. N PROVE sent[i].start < e
    <3>1. sent[i] \in Frame /\ sent[N] \in Frame /\ N \in 1 .. N
      BY <1>4, <1>5
    <3>2. PICK a \in Nat, b \in Nat, l \in Nat :
            sent[i].start = a /\ sent[N].start = b /\ sent[N].len = l
      BY <3>1 DEF Frame
    <3>3. e = b + (HeaderLength + l)
      BY <1>6, <3>1, <3>2 DEF EndOf, Size
    <3>4. i < N => a < b
      BY <1>1, <1>5, <3>1, <3>2 DEF Consecutive
    <3>5. i = N => a = b
      BY <3>2
    <3>6. QED BY <3>2, <3>3, <3>4, <3>5, LengthsAssumption
  <2>3. ASSUME NEW i \in 1 .. N + 1, NEW j \in 1 .. N + 1, i < j
        PROVE  sent'[i].start < sent'[j].start
    <3>1. i \in 1 .. N
      BY <2>3
    <3>2. CASE j \in 1 .. N
      BY <1>1, <1>5, <1>10, <2>3, <3>1, <3>2 DEF Consecutive
    <3>3. CASE j = N + 1
      BY <1>7, <1>10, <2>2, <3>1, <3>3
    <3>4. QED BY <3>2, <3>3
  <2>4. QED BY <1>10, <2>1, <2>3 DEF Consecutive
<1>17. ChannelInv'
  <2>1. lc <= e /\ Run(channel, e - lc)
    BY <1>1, <1>5, <1>6 DEF ChannelInv
  <2>2. \A i \in 1 .. lc : channel[i] = e - lc + i
    BY <1>5, <2>1 DEF Run
  <2>3. ASSUME NEW i \in 1 .. lc + z PROVE channel'[i] = e - lc + i
    <3>1. CASE i <= lc
      BY <1>12, <2>2, <3>1
    <3>2. CASE ~ (i <= lc)
      <4>1. i - lc \in 1 .. z
        BY <3>2
      <4>2. more[i - lc] = e + (i - lc)
        BY <1>11, <4>1
      <4>3. QED BY <1>12, <3>2, <4>2
    <3>3. QED BY <3>1, <3>2
  <2>4. e + z - (lc + z) = e - lc /\ lc + z <= e + z
    BY <2>1
  <2>5. EndOf(sent, Len(sent))' = e + z
    BY <1>15 DEF EndOf, Size
  <2>6. QED BY <1>12, <2>3, <2>4, <2>5 DEF ChannelInv, Run
<1>18. PICK b \in Int : b = Base /\ b = Base'
  <2>1. EndOf(sent, Len(sent))' = e + z
    BY <1>15 DEF EndOf, Size
  <2>2. Base' = e + z - (lc + z) - ld - lh
    BY <1>3, <1>5, <1>12, <2>1 DEF Base
  <2>3. Base = e - lc - ld - lh
    BY <1>5, <1>6 DEF Base
  <2>4. QED BY <2>2, <2>3
<1>19. BufferInv => BufferInv'
  BY <1>3, <1>18 DEF BufferInv, Run
<1>20. ASSUME NEW u, ShownAt(u) # "other" PROVE ShownAt(u)' = ShownAt(u)
  <2>1. DOMAIN sent = 1 .. N /\ DOMAIN sent' = 1 .. N + 1
    BY <1>4, <1>5, <1>10
  <2>2. PICK j \in 1 .. N : sent[j].start + 1 = u
    BY <1>20, <2>1 DEF ShownAt, StartsFrame
  <2>3. ShownAt(u) = sent[j].version
    <3>1. <<u>>[1] = sent[j].start + 1 /\ j \in 1 .. Len(sent)
      BY <1>5, <2>2
    <3>2. StartsFrame(<<u>>[1]) /\ FrameOf(<<u>>) = j
      BY <1>1, <3>1, StartTells
    <3>3. QED BY <3>2 DEF ShownAt, FrameOf
  <2>4. /\ j \in DOMAIN sent' /\ sent'[j].start + 1 = u
        /\ \A k \in DOMAIN sent' : sent'[k].start + 1 = u => k = j
    <3>1. j \in DOMAIN sent' /\ sent'[j].start + 1 = u
      BY <1>10, <2>1, <2>2
    <3>2. ASSUME NEW k \in 1 .. N + 1, sent'[k].start + 1 = u PROVE k = j
      <4>1. sent'[k] \in Frame /\ sent'[j] \in Frame /\ j \in 1 .. N + 1
        BY <1>10
      <4>2. PICK a \in Nat, d \in Nat : sent'[k].start = a /\ sent'[j].start = d
        BY <4>1 DEF Frame
      <4>3. a = d
        BY <3>1, <3>2, <4>2
      <4>4. (k < j => a < d) /\ (j < k => d < a)
        BY <1>10, <1>16, <4>1, <4>2 DEF Consecutive
      <4>5. QED BY <4>3, <4>4
    <3>3. QED BY <2>1, <3>1, <3>2
  <2>5. ShownAt(u)' = sent'[j].version
    BY <2>4 DEF ShownAt, StartsFrame
  <2>6. QED BY <1>10, <2>3, <2>5
<1>21. ShownAt(rheaderbuff[1]) # "other" =>
         ShownAt(rheaderbuff[1])' = ShownAt(rheaderbuff[1])
  <2>1. PICK u : u = rheaderbuff[1]
    OBVIOUS
  <2>2. rheaderbuff'[1] = u
    BY <1>3, <2>1
  <2>3. ShownAt(rheaderbuff[1]) = ShownAt(u)
    BY <2>1
  <2>4. ShownAt(rheaderbuff[1])' = ShownAt(u)'
    BY <2>2 DEF ShownAt, StartsFrame
  <2>5. ShownAt(u) # "other" => ShownAt(u)' = ShownAt(u)
    BY <1>20
  <2>6. QED BY <2>3, <2>4, <2>5
<1>22. KeptVersion'
  <2> SUFFICES ASSUME status = "new", Len(rheaderbuff) > VersionLength
               PROVE ShownAt(rheaderbuff[1])' \in Supported
    BY <1>3 DEF KeptVersion
  <2>1. ShownAt(rheaderbuff[1]) \in Supported
    BY <1>1 DEF KeptVersion
  <2>2. ShownAt(rheaderbuff[1])' = ShownAt(rheaderbuff[1])
    <3>1. ShownAt(rheaderbuff[1]) # "other"
      BY <2>1 DEF Supported
    <3>2. QED BY <3>1, <1>21
  <2>3. QED BY <2>1, <2>2
<1>23. Stuck => Stuck'
  <2> SUFFICES ASSUME Stuck PROVE Stuck'
    OBVIOUS
  <2>1. ShownAt(rheaderbuff[1]) = "future" /\ rheaderbuff' = rheaderbuff
    BY <1>3 DEF Stuck
  <2>2. ShownAt(rheaderbuff[1])' = "future"
    BY <1>21, <2>1
  <2>3. QED BY <1>3, <2>2 DEF Stuck
<1>24. ASSUME NEW k \in 0 .. N, At(k) PROVE At(k)'
  <2>1. Base' = EndOf(sent, k)'
    <3>1. Base' = EndOf(sent', k)
      BY <1>14, <1>18, <1>24 DEF At
    <3>2. QED BY <3>1 DEF EndOf, Size
  <2>2. (~drained => k = Len(read) /\ \A i \in 1 .. k : read[i] = i)'
    BY <1>3, <1>24 DEF At
  <2>3. (rdatabuff # <<>> => k < Len(sent) /\ Len(rdatabuff) < sent[k + 1].len)'
    <3> SUFFICES ASSUME rdatabuff # <<>>
                 PROVE  k < Len(sent') /\ Len(rdatabuff) < sent'[k + 1].len
      BY <1>3
    <3>1. k < N /\ Len(rdatabuff) < sent[k + 1].len
      BY <1>5, <1>24 DEF At
    <3>2. k + 1 \in 1 .. N
      BY <3>1
    <3>3. QED BY <1>10, <3>1, <3>2
  <2>4. QED BY <2>1, <2>2, <2>3 DEF At
<1>25. InStep' => InStep
  BY <1>3 DEF InStep
<1>26. ASSUME BufferInv, InStep => \E k \in 0 .. Len(sent) : At(k)
       PROVE  InStep' => \E k \in 0 .. Len(sent') : At(k)'
  <2> SUFFICES ASSUME InStep' PROVE \E k \in 0 .. Len(sent') : At(k)'
    OBVIOUS
  <2>1. PICK k \in 0 .. N : At(k)
    BY <1>5, <1>25, <1>26
  <2>2. k \in 0 .. Len(sent')
    BY <1>10
  <2>3. QED BY <1>24, <2>1, <2>2
<1>27. Consecutive(sent)'
  BY <1>16 DEF Consecutive, EndOf, Size
<1>28. QED BY <1>13, <1>17, <1>19, <1>22, <1>23, <1>26, <1>27 DEF IInv

LEMMA NextKeeps == IInv /\ [Next]_vars => IInv'
<1> SUFFICES ASSUME IInv, [Next]_vars PROVE IInv'
  OBVIOUS
<1>1. TypeOK
  BY DEF IInv
<1>2. CASE Visit
  <2>1. PICK n \in 0 .. Len(channel) :
          IF status = "new" THEN VerCheck(n)
          ELSE ReadFrame(n, version) /\ UNCHANGED version
    BY <1>2 DEF Visit
  <2>2. CASE status = "new"
    BY <2>1, <2>2, VerCheckKeeps
  <2>3. CASE status # "new"
    <3>1. status = "open"
      BY <1>1, <1>2, <2>3 DEF Visit, TypeOK
    <3>2. BufferInv /\ \E k \in 0 .. Len(sent) : At(k)
      BY <3>1 DEF IInv, Stuck, InStep
    <3>3. version' \in Supported \cup {"future"}
      BY <1>1, <2>1, <2>3 DEF TypeOK
    <3>4. QED BY <2>1, <2>3, <3>2, <3>3, ReadFrameKeeps
  <2>4. QED BY <2>2, <2>3
<1>3. CASE SocketTakes
  <2>1. TypeOK'
    BY <1>1, <1>3 DEF TypeOK, SocketTakes
  <2>2. status' = status \/ status' = "closed"
    BY <1>3 DEF SocketTakes
  <2>3. UNCHANGED <<sent, channel, rheaderbuff, rdatabuff, read, drained>>
    BY <1>3 DEF SocketTakes
  <2>4. QED BY <2>1, <2>2, <2>3, NothingRead
<1>4. CASE Send
  BY <1>4, SendKeeps
<1>5. CASE ShutDown
  <2>1. TypeOK'
    BY <1>1, <1>5 DEF TypeOK, ShutDown
  <2>2. UNCHANGED <<sent, channel, status, rheaderbuff, rdatabuff, read, drained>>
    BY <1>5 DEF ShutDown
  <2>3. QED BY <2>1, <2>2, NothingRead
<1>6. CASE UNCHANGED vars
  <2>1. TypeOK'
    BY <1>1, <1>6 DEF TypeOK, vars
  <2>2. UNCHANGED <<sent, channel, status, rheaderbuff, rdatabuff, read, drained>>
    BY <1>6 DEF vars
  <2>3. QED BY <2>1, <2>2, NothingRead
<1>7. QED BY <1>2, <1>3, <1>4, <1>5, <1>6 DEF Next, Client

-----------------------------------------------------------------------------
(* What follows from the invariant *)

LEMMA NotMixed == IInv => NothingMixed
<1> SUFFICES ASSUME IInv, ~drained PROVE NothingMixed
  BY DEF NothingMixed
<1>1. TypeOK /\ Consecutive(sent) /\ ChannelInv /\ BufferInv
  BY DEF IInv, Stuck
<1>2. PICK k \in 0 .. Len(sent) : At(k)
  BY DEF IInv, Stuck, InStep
<1>3. k = Len(read) /\ (\A i \in 1 .. k : read[i] = i) /\ Base = EndOf(sent, k)
  BY <1>2 DEF At
<1>4. rheaderbuff \in Seq(Nat) /\ rdatabuff \in Seq(Nat) /\ channel \in Seq(Nat)
      /\ sent \in Seq(Frame) /\ read \in Seq(Nat)
  BY <1>1 DEF TypeOK
<1>5. PICK lh \in Nat, ld \in Nat, lc \in Nat, N \in Nat :
        /\ Len(rheaderbuff) = lh /\ Len(rdatabuff) = ld /\ Len(channel) = lc
        /\ Len(sent) = N
  BY <1>4
<1>6. PICK e \in Nat : e = EndOf(sent, N) /\ e = Total
  <2>1. N \in 0 .. Len(sent)
    BY <1>5
  <2>2. EndOf(sent, N) \in Nat
    BY <1>1, <1>4, <2>1, EndsInOrder
  <2>3. Total = EndOf(sent, N)
    BY <1>4, <1>5, TotalIsEnd
  <2>4. QED BY <2>2, <2>3
<1>7. PICK b \in Int : b = Base /\ b = e - lc - ld - lh
  BY <1>5, <1>6 DEF Base
<1> DEFINE base == IF Len(read) < Len(sent) THEN sent[Len(read) + 1].start ELSE Total
<1>8. base = b
  <2>1. CASE k < N
    <3>1. k + 1 \in 1 .. N /\ (k + 1) - 1 = k
      BY <1>5, <2>1
    <3>2. sent[k + 1].start = EndOf(sent, k)
      BY <1>1, <1>5, <3>1 DEF Consecutive
    <3>3. Len(read) = k /\ Len(sent) = N /\ b = EndOf(sent, k)
      BY <1>3, <1>5, <1>7
    <3>4. base = sent[k + 1].start
      BY <2>1, <3>3
    <3> HIDE DEF base
    <3>5. QED BY <3>2, <3>3, <3>4
  <2>2. CASE ~ (k < N)
    <3>1. k = N
      BY <1>5, <2>2
    <3>2. Len(read) = k /\ Len(sent) = N /\ b = e
      BY <1>3, <1>5, <1>6, <1>7, <3>1
    <3>3. base = Total
      BY <2>2, <3>2
    <3> HIDE DEF base
    <3>4. QED BY <1>6, <3>2, <3>3
  <2>3. QED BY <2>1, <2>2
<1> DEFINE buffers == rheaderbuff \o rdatabuff
<1>9. /\ buffers \in Seq(Nat) /\ Len(buffers) = lh + ld
      /\ \A i \in 1 .. lh + ld :
           buffers[i] = IF i <= lh THEN rheaderbuff[i] ELSE rdatabuff[i - lh]
  <2>1. /\ buffers \in Seq(Nat) /\ Len(buffers) = Len(rheaderbuff) + Len(rdatabuff)
        /\ \A i \in 1 .. Len(rheaderbuff) + Len(rdatabuff) :
             buffers[i] = IF i <= Len(rheaderbuff) THEN rheaderbuff[i]
                          ELSE rdatabuff[i - Len(rheaderbuff)]
    BY <1>4, ConcatProperties
  <2> HIDE DEF buffers
  <2>2. QED BY <1>5, <2>1
<1> HIDE DEF buffers
<1>10. /\ buffers \o channel \in Seq(Nat) /\ Len(buffers \o channel) = lh + ld + lc
       /\ \A i \in 1 .. lh + ld + lc : (buffers \o channel)[i] =
            IF i <= lh + ld THEN buffers[i] ELSE channel[i - (lh + ld)]
  <2>1. /\ buffers \o channel \in Seq(Nat)
        /\ Len(buffers \o channel) = Len(buffers) + Len(channel)
        /\ \A i \in 1 .. Len(buffers) + Len(channel) : (buffers \o channel)[i] =
             IF i <= Len(buffers) THEN buffers[i] ELSE channel[i - Len(buffers)]
    BY <1>4, <1>9, ConcatProperties
  <2>2. QED BY <1>5, <1>9, <2>1
<1>11. Unread = buffers \o channel
  BY DEF Unread, buffers
<1>12. \A i \in 1 .. lh : rheaderbuff[i] = b + i
  BY <1>1, <1>5, <1>7 DEF BufferInv, Run
<1>13. \A i \in 1 .. ld : rdatabuff[i] = b + lh + i
  BY <1>1, <1>5, <1>7 DEF BufferInv, Run
<1>14. \A i \in 1 .. lc : channel[i] = e - lc + i
  BY <1>1, <1>5, <1>6 DEF ChannelInv, Run
<1>15. ASSUME NEW i \in 1 .. lh + ld + lc PROVE Unread[i] = b + i
  <2>1. CASE i <= lh
    <3>1. i \in 1 .. lh /\ i \in 1 .. lh + ld /\ i <= lh + ld
      BY <2>1
    <3>2. buffers[i] = rheaderbuff[i]
      BY <1>9, <2>1, <3>1
    <3>3. Unread[i] = buffers[i]
      BY <1>10, <1>11, <3>1
    <3>4. QED BY <1>12, <3>1, <3>2, <3>3
  <2>2. CASE ~ (i <= lh) /\ i <= lh + ld
    <3>1. i - lh \in 1 .. ld /\ i \in 1 .. lh + ld
      BY <2>2
    <3>2. buffers[i] = rdatabuff[i - lh]
      BY <1>9, <2>2, <3>1
    <3>3. Unread[i] = buffers[i]
      BY <1>10, <1>11, <2>2
    <3>4. rdatabuff[i - lh] = b + lh + (i - lh)
      BY <1>13, <3>1
    <3>5. QED BY <3>2, <3>3, <3>4
  <2>3. CASE ~ (i <= lh + ld)
    <3>1. i - (lh + ld) \in 1 .. lc
      BY <2>3
    <3>2. Unread[i] = channel[i - (lh + ld)]
      BY <1>10, <1>11, <2>3
    <3>3. channel[i - (lh + ld)] = e - lc + (i - (lh + ld))
      BY <1>14, <3>1
    <3>4. QED BY <1>7, <3>2, <3>3
  <2>4. QED BY <2>1, <2>2, <2>3
<1>16. Len(Unread) = Total - base /\ DOMAIN Unread = 1 .. lh + ld + lc
  <2>1. Len(Unread) = lh + ld + lc /\ Unread \in Seq(Nat)
    BY <1>10, <1>11
  <2>2. lh + ld + lc = e - b
    BY <1>7
  <2>3. QED BY <1>6, <1>8, <2>1, <2>2
<1>17. \A i \in DOMAIN read : read[i] = i
  BY <1>3, <1>4
<1> HIDE DEF base
<1>18. \A i \in DOMAIN Unread : Unread[i] = base + i
  BY <1>8, <1>15, <1>16
<1>19. QED BY <1>16, <1>17, <1>18 DEF NothingMixed, base

LEMMA Invariance == Spec => []IInv
  BY InitGood, NextKeeps, PTL DEF Spec

\* The types of the connection, and the bounds on what its buffers hold, for
\* headers and bodies of every length.
THEOREM TypeCorrect == Spec => []TypeOK
<1>1. IInv => TypeOK
  BY DEF IInv
<1>2. QED BY <1>1, Invariance, PTL

\* However the stream of a client whose version is never turned down is cut up,
\* verCheck and readFrame read the frames that were sent, in order, and give no
\* byte to the wrong one.
THEOREM FramesNotMixed == Spec => []NothingMixed
  BY NotMixed, Invariance, PTL
=============================================================================
