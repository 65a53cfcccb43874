--------------------------- MODULE AccountsProofs ---------------------------
(***************************************************************************)
(* What Accounts keeps: every player has a board and a name of his own     *)
(* (EachOwnBoard, PlayersConsistent) and every board shows what was posted *)
(* to it (MailKept), also when the server dies between two statements.     *)
(***************************************************************************)
EXTENDS Accounts, SequencesExt, SequenceTheorems, FiniteSetTheorems,
        WellFoundedInduction, TLAPS

-----------------------------------------------------------------------------
(* Natural numbers and finite sets *)

LessThan == {p \in Nat \X Nat : p[1] < p[2]}

LEMMA LessThanWellFounded == IsWellFoundedOn(LessThan, Nat)
  BY NatLessThanWellFounded DEF OpToRel, LessThan

\* A set of naturals that is not empty has a least element.
LEMMA LeastElement ==
  ASSUME NEW T, T \subseteq Nat, T # {}
  PROVE  \E x \in T : \A y \in T : x <= y
<1>1. PICK x \in T : \A y \in T : ~ (<<y, x>> \in LessThan)
  BY LessThanWellFounded, WFMin
<1>2. \A y \in T : ~ (y < x)
  BY <1>1 DEF LessThan
<1>3. QED BY <1>2

\* A bounded set of naturals that is not empty has a greatest element: Max.
LEMMA MaxBounded ==
  ASSUME NEW S, S \subseteq Nat, S # {}, NEW b \in Nat, \A x \in S : x <= b
  PROVE  Max(S) \in S /\ \A x \in S : x <= Max(S)
<1> DEFINE Bound == {n \in Nat : \A x \in S : x <= n}
<1>1. PICK m \in Bound : \A n \in Bound : m <= n
  <2>1. Bound \subseteq Nat /\ b \in Bound
    OBVIOUS
  <2>2. QED BY <2>1, LeastElement
<1>2. m \in Nat /\ \A x \in S : x <= m
  BY <1>1
<1>3. m \in S
  <2>1. SUFFICES ASSUME m \notin S PROVE FALSE
    OBVIOUS
  <2>2. \A x \in S : x <= m - 1
    BY <1>2, <2>1
  <2>3. m - 1 \in Nat
    <3>1. PICK x \in S : x <= m - 1
      BY <2>2
    <3>2. x \in Nat
      OBVIOUS
    <3>3. QED BY <1>2, <3>1, <3>2
  <2>4. m - 1 \in Bound
    BY <2>2, <2>3
  <2>5. QED BY <1>1, <1>2, <2>4
<1>4. \E x \in S : \A y \in S : x >= y
  BY <1>2, <1>3
<1>5. Max(S) \in S /\ \A y \in S : Max(S) >= y
  BY <1>4 DEF Max
<1>6. QED BY <1>5

-----------------------------------------------------------------------------
(* Lists *)

LEMMA InsertAtProperties ==
  ASSUME NEW S, NEW s \in Seq(S), NEW e \in S, NEW pos \in 1 .. Len(s) + 1
  PROVE  /\ InsertAt(s, pos, e) \in Seq(S)
         /\ Len(InsertAt(s, pos, e)) = Len(s) + 1
         /\ \A i \in 1 .. Len(s) + 1 : InsertAt(s, pos, e)[i] =
              IF i < pos THEN s[i] ELSE IF i = pos THEN e ELSE s[i - 1]
<1> DEFINE front == SubSeq(s, 1, pos - 1)
           back == SubSeq(s, pos, Len(s))
           mid == front \o <<e>>
<1>1. Len(s) \in Nat /\ \A i \in 1 .. Len(s) : s[i] \in S
  OBVIOUS
<1>2. /\ front \in Seq(S)
      /\ Len(front) = pos - 1
      /\ \A i \in 1 .. pos - 1 : front[i] = s[i]
  <2>1. \A i \in 1 .. pos - 1 : s[i] \in S
    BY <1>1
  <2>2. 1 \in Int /\ pos - 1 \in Int
    BY <1>1
  <2>3. /\ front \in Seq(S)
        /\ Len(front) = IF 1 <= pos - 1 THEN (pos - 1) - 1 + 1 ELSE 0
        /\ \A i \in 1 .. (pos - 1) - 1 + 1 : front[i] = s[1 + i - 1]
    BY <2>1, <2>2, SubSeqProperties
  <2>4. QED BY <2>3, <1>1
<1>3. /\ back \in Seq(S)
      /\ Len(back) = Len(s) + 1 - pos
      /\ \A i \in 1 .. Len(s) + 1 - pos : back[i] = s[pos + i - 1]
  <2>1. \A i \in pos .. Len(s) : s[i] \in S
    BY <1>1
  <2>2. Len(s) \in Int /\ pos \in Int
    BY <1>1
  <2>3. /\ back \in Seq(S)
        /\ Len(back) = IF pos <= Len(s) THEN Len(s) - pos + 1 ELSE 0
        /\ \A i \in 1 .. Len(s) - pos + 1 : back[i] = s[pos + i - 1]
    BY <2>1, <2>2, SubSeqProperties
  <2>4. QED BY <2>3, <1>1
<1> HIDE DEF front, back
<1>4. /\ mid \in Seq(S)
      /\ Len(mid) = pos
      /\ \A i \in 1 .. pos : mid[i] = IF i < pos THEN s[i] ELSE e
  <2>1. <<e>> \in Seq(S) /\ Len(<<e>>) = 1 /\ <<e>>[1] = e
    OBVIOUS
  <2>2. /\ mid \in Seq(S)
        /\ Len(mid) = Len(front) + Len(<<e>>)
        /\ \A i \in 1 .. Len(front) + Len(<<e>>) :
             mid[i] = IF i <= Len(front) THEN front[i] ELSE <<e>>[i - Len(front)]
    BY <1>2, <2>1, ConcatProperties
  <2> HIDE DEF mid
  <2>3. Len(front) = pos - 1 /\ pos \in Nat
    BY <1>2
  <2>4. Len(mid) = pos
    BY <2>1, <2>2, <2>3
  <2>5. ASSUME NEW i \in 1 .. pos PROVE mid[i] = IF i < pos THEN s[i] ELSE e
    <3>1. mid[i] = IF i <= pos - 1 THEN front[i] ELSE <<e>>[i - (pos - 1)]
      BY <2>1, <2>2, <2>3
    <3>2. CASE i < pos
      BY <3>1, <3>2, <1>2, <2>3
    <3>3. CASE i = pos
      BY <3>1, <3>3, <2>1, <2>3
    <3>4. QED BY <3>2, <3>3, <2>3
  <2>6. QED BY <2>2, <2>4, <2>5
<1> HIDE DEF mid
<1>5. /\ mid \o back \in Seq(S)
      /\ Len(mid \o back) = Len(mid) + Len(back)
      /\ \A i \in 1 .. Len(mid) + Len(back) :
           (mid \o back)[i] = IF i <= Len(mid) THEN mid[i] ELSE back[i - Len(mid)]
  BY <1>3, <1>4, ConcatProperties
<1>6. InsertAt(s, pos, e) = mid \o back
  BY DEF InsertAt, mid, front, back
<1>7. ASSUME NEW i \in 1 .. Len(s) + 1, i > pos
      PROVE  (mid \o back)[i] = s[i - 1]
  <2>1. (mid \o back)[i] = back[i - pos]
    BY <1>1, <1>3, <1>4, <1>5, <1>7
  <2>2. i - pos \in 1 .. Len(s) + 1 - pos /\ pos + (i - pos) - 1 = i - 1
    BY <1>1, <1>7
  <2>3. back[i - pos] = s[pos + (i - pos) - 1]
    BY <2>2, <1>3
  <2>4. QED BY <2>1, <2>2, <2>3
<1>8. ASSUME NEW i \in 1 .. Len(s) + 1, i <= pos
      PROVE  (mid \o back)[i] = IF i < pos THEN s[i] ELSE e
  BY <1>1, <1>3, <1>4, <1>5, <1>8
<1>9. Len(mid \o back) = Len(s) + 1
  BY <1>1, <1>3, <1>4, <1>5
<1>10. ASSUME NEW i \in 1 .. Len(s) + 1
       PROVE  InsertAt(s, pos, e)[i] = IF i < pos THEN s[i] ELSE IF i = pos THEN e ELSE s[i - 1]
  <2>0. i \in Nat /\ pos \in Nat
    BY <1>1
  <2>1. CASE i < pos
    <3>1. i <= pos
      BY <2>0, <2>1
    <3>2. QED BY <1>6, <1>8, <2>1, <3>1
  <2>2. CASE i = pos
    <3>1. i <= pos /\ ~ (i < pos)
      BY <2>0, <2>2
    <3>2. QED BY <1>6, <1>8, <2>2, <3>1
  <2>3. CASE i > pos
    <3>1. ~ (i < pos) /\ i # pos
      BY <2>0, <2>3
    <3>2. QED BY <1>6, <1>7, <2>3, <3>1
  <2>4. QED BY <2>0, <2>1, <2>2, <2>3
<1>11. InsertAt(s, pos, e) \in Seq(S) /\ Len(InsertAt(s, pos, e)) = Len(s) + 1
  BY <1>5, <1>6, <1>9
<1>12. QED BY <1>10, <1>11

\* Taking one element out leaves no repetitions: the rest is found elsewhere in the list.
LEMMA ThinnedUnique ==
  ASSUME NEW S, NEW s \in Seq(S), IsInjective(s), NEW t \in Seq(S),
         NEW from \in [1 .. Len(t) -> 1 .. Len(s)], IsInjective(from),
         \A i \in 1 .. Len(t) : t[i] = s[from[i]]
  PROVE  IsInjective(t) /\ ToSet(t) \subseteq ToSet(s)
<1>1. DOMAIN t = 1 .. Len(t) /\ DOMAIN s = 1 .. Len(s)
  OBVIOUS
<1>2. IsInjective(t)
  <2>1. SUFFICES ASSUME NEW i \in 1 .. Len(t), NEW j \in 1 .. Len(t), t[i] = t[j]
                 PROVE  i = j
    BY <1>1 DEF IsInjective
  <2>2. from[i] \in DOMAIN s /\ from[j] \in DOMAIN s /\ s[from[i]] = s[from[j]]
    BY <1>1, <2>1
  <2>3. from[i] = from[j]
    BY <2>2 DEF IsInjective
  <2>4. QED BY <2>3 DEF IsInjective
<1>3. ToSet(t) \subseteq ToSet(s)
  BY <1>1 DEF ToSet
<1>4. QED BY <1>2, <1>3

LEMMA RemoveAtProperties ==
  ASSUME NEW S, NEW s \in Seq(S), NEW pos \in 1 .. Len(s)
  PROVE  /\ RemoveAt(s, pos) \in Seq(S)
         /\ Len(RemoveAt(s, pos)) = Len(s) - 1
         /\ \A i \in 1 .. Len(s) - 1 : RemoveAt(s, pos)[i] = IF i < pos THEN s[i] ELSE s[i + 1]
<1> DEFINE front == SubSeq(s, 1, pos - 1)
           back == SubSeq(s, pos + 1, Len(s))
           t == front \o back
           n == Len(s)
<1>1. n \in Nat /\ pos \in 1 .. n /\ \A i \in 1 .. n : s[i] \in S
  OBVIOUS
<1>2. /\ front \in Seq(S)
      /\ Len(front) = pos - 1
      /\ \A i \in 1 .. pos - 1 : front[i] = s[i]
  <2>1. \A i \in 1 .. pos - 1 : s[i] \in S
    BY <1>1
  <2>2. 1 \in Int /\ pos - 1 \in Int
    BY <1>1
  <2>3. /\ front \in Seq(S)
        /\ Len(front) = IF 1 <= pos - 1 THEN (pos - 1) - 1 + 1 ELSE 0
        /\ \A i \in 1 .. (pos - 1) - 1 + 1 : front[i] = s[1 + i - 1]
    BY <2>1, <2>2, SubSeqProperties
  <2>4. QED BY <2>3, <1>1
<1>3. /\ back \in Seq(S)
      /\ Len(back) = n - pos
      /\ \A i \in 1 .. n - pos : back[i] = s[pos + i]
  <2>1. \A i \in pos + 1 .. n : s[i] \in S
    BY <1>1
  <2>2. n \in Int /\ pos + 1 \in Int
    BY <1>1
  <2>3. /\ back \in Seq(S)
        /\ Len(back) = IF pos + 1 <= n THEN n - (pos + 1) + 1 ELSE 0
        /\ \A i \in 1 .. n - (pos + 1) + 1 : back[i] = s[(pos + 1) + i - 1]
    BY <2>1, <2>2, SubSeqProperties
  <2>4. QED BY <2>3, <1>1
<1> HIDE DEF front, back
<1>4. /\ t \in Seq(S)
      /\ Len(t) = Len(front) + Len(back)
      /\ \A i \in 1 .. Len(front) + Len(back) :
           t[i] = IF i <= Len(front) THEN front[i] ELSE back[i - Len(front)]
  BY <1>2, <1>3, ConcatProperties
<1> HIDE DEF t, n
<1>5. Len(t) = n - 1
  BY <1>1, <1>2, <1>3, <1>4
<1>6. ASSUME NEW i \in 1 .. n - 1 PROVE t[i] = IF i < pos THEN s[i] ELSE s[i + 1]
  <2>1. CASE i < pos
    BY <2>1, <1>1, <1>2, <1>3, <1>4
  <2>2. CASE ~ (i < pos)
    <3>1. t[i] = back[i - (pos - 1)]
      BY <2>2, <1>1, <1>2, <1>3, <1>4
    <3>2. i - (pos - 1) \in 1 .. n - pos /\ pos + (i - (pos - 1)) = i + 1
      BY <2>2, <1>1
    <3>3. back[i - (pos - 1)] = s[pos + (i - (pos - 1))]
      BY <3>2, <1>3
    <3>4. QED BY <2>2, <3>1, <3>2, <3>3
  <2>3. QED BY <2>1, <2>2
<1>7. RemoveAt(s, pos) = t
  BY DEF RemoveAt, t, front, back, n
<1>8. QED BY <1>4, <1>5, <1>6, <1>7 DEF n

LEMMA RemoveUnique ==
  ASSUME NEW S, NEW s \in Seq(S), IsInjective(s), NEW pos \in 1 .. Len(s)
  PROVE  /\ RemoveAt(s, pos) \in Seq(S)
         /\ IsInjective(RemoveAt(s, pos))
         /\ ToSet(RemoveAt(s, pos)) = ToSet(s) \ {s[pos]}
<1> DEFINE t == RemoveAt(s, pos)
           n == Len(s)
           from == [i \in 1 .. n - 1 |-> IF i < pos THEN i ELSE i + 1]
<1>1. n \in Nat /\ pos \in 1 .. n /\ \A i \in 1 .. n : s[i] \in S
  OBVIOUS
<1>2. t \in Seq(S) /\ Len(t) = n - 1 /\ \A i \in 1 .. n - 1 : t[i] = IF i < pos THEN s[i] ELSE s[i + 1]
  BY RemoveAtProperties
<1> HIDE DEF t, n
<1>3. Len(t) = n - 1
  BY <1>2
<1>4. \A i \in 1 .. n - 1 : t[i] = s[from[i]]
  BY <1>2
<1>5. from \in [1 .. n - 1 -> 1 .. n] /\ IsInjective(from)
  BY <1>1 DEF IsInjective
<1>6. \A i \in 1 .. n - 1 : from[i] # pos
  BY <1>1
<1>7. \A j \in 1 .. n : j # pos => \E i \in 1 .. n - 1 : from[i] = j
  <2>1. SUFFICES ASSUME NEW j \in 1 .. n, j # pos PROVE \E i \in 1 .. n - 1 : from[i] = j
    OBVIOUS
  <2>2. CASE j < pos
    <3>1. j \in 1 .. n - 1 /\ from[j] = j
      BY <1>1, <2>2
    <3>2. QED BY <3>1
  <2>3. CASE ~(j < pos)
    <3>1. j - 1 \in 1 .. n - 1 /\ from[j - 1] = j
      BY <1>1, <2>1, <2>3
    <3>2. QED BY <3>1
  <2>4. QED BY <2>2, <2>3
<1> HIDE DEF from
<1>8. IsInjective(t) /\ ToSet(t) \subseteq ToSet(s)
  BY <1>2, <1>3, <1>4, <1>5, ThinnedUnique DEF n
<1>9. DOMAIN s = 1 .. n /\ DOMAIN t = 1 .. n - 1
  BY <1>2, <1>3 DEF n
<1>10. s[pos] \notin ToSet(t)
  <2>1. SUFFICES ASSUME NEW i \in 1 .. n - 1, t[i] = s[pos] PROVE FALSE
    BY <1>9 DEF ToSet
  <2>2. from[i] \in 1 .. n /\ s[from[i]] = s[pos] /\ from[i] # pos
    BY <1>4, <1>5, <1>6, <2>1
  <2>3. QED BY <1>1, <1>9, <2>2 DEF IsInjective
<1>11. ToSet(s) \ {s[pos]} \subseteq ToSet(t)
  <2>1. SUFFICES ASSUME NEW j \in 1 .. n, s[j] # s[pos] PROVE s[j] \in ToSet(t)
    BY <1>9 DEF ToSet
  <2>2. PICK i \in 1 .. n - 1 : from[i] = j
    BY <1>7, <2>1
  <2>3. t[i] = s[j]
    BY <1>4, <2>2
  <2>4. QED BY <1>9, <2>3 DEF ToSet
<1>12. QED BY <1>2, <1>8, <1>10, <1>11 DEF t

-----------------------------------------------------------------------------
(* Sequences put one after the other *)

IsFlat(f, ss) == f = [i \in 1 .. Len(ss) |-> IF i = 1 THEN ss[i] ELSE f[i - 1] \o ss[i]]

LEMMA FlatExists ==
  ASSUME NEW S, NEW ss \in Seq(Seq(S))
  PROVE  \E f : IsFlat(f, ss)
<1> DEFINE n == Len(ss)
           Flat(m, f) == f = [i \in 1 .. m |-> IF i = 1 THEN ss[i] ELSE f[i - 1] \o ss[i]]
           Missing == {m \in 0 .. n : ~ \E f : Flat(m, f)}
<1>1. n \in Nat
  OBVIOUS
<1> HIDE DEF n
<1>2. ASSUME Missing # {} PROVE FALSE
  <2>1. PICK m \in Missing : \A k \in Missing : m <= k
    <3> HIDE DEF Flat
    <3>1. Missing \subseteq Nat
      BY <1>1
    <3> HIDE DEF Missing
    <3>2. QED BY <1>2, <3>1, LeastElement
  <2>2. m \in 0 .. n /\ \A f : ~ Flat(m, f)
    BY <2>1
  <2>3. CASE m = 0
    <3>1. Flat(0, [i \in 1 .. 0 |-> <<>>])
      OBVIOUS
    <3> HIDE DEF Flat
    <3>2. QED BY <2>2, <2>3, <3>1
  <2>4. CASE m # 0
    <3>1. m - 1 \in 0 .. n /\ ~ (m <= m - 1)
      BY <1>1, <2>2, <2>4
    <3>2. m - 1 \notin Missing
      <4> HIDE DEF Missing
      <4>1. QED BY <2>1, <3>1
    <3>3. PICK f : Flat(m - 1, f)
      <4> HIDE DEF Flat
      <4>1. QED BY <3>1, <3>2
    <3> DEFINE g == [i \in 1 .. m |-> IF i < m THEN f[i] ELSE IF i = 1 THEN ss[i] ELSE f[i - 1] \o ss[i]]
    <3>4. ASSUME NEW i \in 1 .. m
          PROVE  g[i] = IF i = 1 THEN ss[i] ELSE g[i - 1] \o ss[i]
      <4>1. i # 1 => i - 1 \in 1 .. m /\ i - 1 < m /\ g[i - 1] = f[i - 1]
        BY <1>1, <2>2
      <4>2. CASE i < m
        <5>1. i \in 1 .. m - 1 /\ g[i] = f[i]
          BY <1>1, <2>2, <4>2
        <5>2. f[i] = IF i = 1 THEN ss[i] ELSE f[i - 1] \o ss[i]
          BY <3>3, <5>1
        <5>3. QED BY <4>1, <5>1, <5>2
      <4>3. CASE ~ (i < m)
        <5>1. g[i] = IF i = 1 THEN ss[i] ELSE f[i - 1] \o ss[i]
          BY <4>3
        <5>2. QED BY <4>1, <5>1
      <4>4. QED BY <4>2, <4>3
    <3>5. Flat(m, g)
      <4>1. DOMAIN g = 1 .. m /\ g = [i \in 1 .. m |-> g[i]]
        OBVIOUS
      <4> HIDE DEF g
      <4>2. QED BY <3>4, <4>1
    <3> HIDE DEF g, Flat
    <3>6. QED BY <2>2, <3>5
  <2>5. QED BY <2>3, <2>4
<1>3. n \in 0 .. n
  BY <1>1
<1>4. \E f : Flat(n, f)
  <2> HIDE DEF Flat
  <2>1. QED BY <1>2, <1>3
<1>5. QED BY <1>4 DEF IsFlat, n

\* The sequence t is in s, after the first c.
Block(s, t, c) == /\ c \in Nat /\ c + Len(t) <= Len(s)
                  /\ \A j \in 1 .. Len(t) : s[c + j] = t[j]

LEMMA BlockStays ==
  ASSUME NEW S, NEW s \in Seq(S), NEW t \in Seq(S), NEW c, Block(s, t, c), NEW u \in Seq(S)
  PROVE  Block(s \o u, t, c)
<1>1. Len(s) \in Nat /\ Len(t) \in Nat /\ Len(u) \in Nat /\ c \in Nat /\ c + Len(t) <= Len(s)
  BY DEF Block
<1>2. Len(s \o u) = Len(s) + Len(u) /\ \A i \in 1 .. Len(s) : (s \o u)[i] = s[i]
  OBVIOUS
<1>3. ASSUME NEW j \in 1 .. Len(t) PROVE (s \o u)[c + j] = t[j]
  <2>1. c + j \in 1 .. Len(s)
    BY <1>1
  <2>2. s[c + j] = t[j]
    BY DEF Block
  <2>3. QED BY <1>2, <2>1, <2>2
<1>4. c + Len(t) <= Len(s \o u)
  BY <1>1, <1>2
<1>5. QED BY <1>1, <1>3, <1>4 DEF Block

LEMMA BlockShifted ==
  ASSUME NEW S, NEW s \in Seq(S), NEW t \in Seq(S), NEW c, Block(s, t, c), NEW u \in Seq(S)
  PROVE  Block(u \o s, t, Len(u) + c)
<1>1. Len(s) \in Nat /\ Len(t) \in Nat /\ Len(u) \in Nat /\ c \in Nat /\ c + Len(t) <= Len(s)
  BY DEF Block
<1>2. Len(u \o s) = Len(u) + Len(s) /\ \A i \in 1 .. Len(s) : (u \o s)[Len(u) + i] = s[i]
  OBVIOUS
<1>3. ASSUME NEW j \in 1 .. Len(t) PROVE (u \o s)[(Len(u) + c) + j] = t[j]
  <2>1. c + j \in 1 .. Len(s) /\ (Len(u) + c) + j = Len(u) + (c + j)
    BY <1>1
  <2>2. s[c + j] = t[j]
    BY DEF Block
  <2>3. QED BY <1>2, <2>1, <2>2
<1>4. Len(u) + c \in Nat /\ (Len(u) + c) + Len(t) <= Len(u \o s)
  BY <1>1, <1>2
<1>5. QED BY <1>3, <1>4 DEF Block

LEMMA BlockWhole ==
  ASSUME NEW S, NEW s \in Seq(S)
  PROVE  Block(s, s, 0)
BY DEF Block

\* The members of ss up to the m-th are in s, and nothing else.
Covers(s, ss, m) ==
  /\ \A i \in 1 .. m : \E c : Block(s, ss[i], c)
  /\ \A k \in 1 .. Len(s) : \E i \in 1 .. m : \E c :
       Block(s, ss[i], c) /\ k \in c + 1 .. c + Len(ss[i])

LEMMA CoversOneMore ==
  ASSUME NEW S, NEW ss \in Seq(Seq(S)), NEW m \in 1 .. Len(ss), NEW s \in Seq(S), Covers(s, ss, m - 1)
  PROVE  Covers(s \o ss[m], ss, m)
<1> DEFINE t == ss[m]
           u == s \o t
<1>1. t \in Seq(S) /\ \A i \in 1 .. Len(ss) : ss[i] \in Seq(S)
  OBVIOUS
<1>2. u \in Seq(S) /\ Len(u) = Len(s) + Len(t) /\ Len(s) \in Nat /\ Len(t) \in Nat /\ m \in Nat /\ Len(ss) \in Nat
  BY <1>1
<1>3. Block(u, t, Len(s))
  <2>1. Block(t, t, 0)
    BY <1>1, BlockWhole
  <2>2. Block(s \o t, t, Len(s) + 0)
    BY <1>1, <2>1, BlockShifted
  <2>3. QED BY <1>2, <2>2
<1>4. ASSUME NEW i \in 1 .. m - 1, NEW c, Block(s, ss[i], c) PROVE Block(u, ss[i], c)
  <2>1. ss[i] \in Seq(S)
    BY <1>1, <1>2
  <2>2. QED BY <1>1, <1>4, <2>1, BlockStays
<1> HIDE DEF t, u
<1>5. ASSUME NEW i \in 1 .. m PROVE \E c : Block(u, ss[i], c)
  <2>1. CASE i = m
    BY <1>3, <2>1 DEF t
  <2>2. CASE i # m
    <3>1. i \in 1 .. m - 1
      BY <1>2, <2>2
    <3>2. PICK c : Block(s, ss[i], c)
      BY <3>1 DEF Covers
    <3>3. QED BY <1>4, <3>1, <3>2
  <2>3. QED BY <2>1, <2>2
<1>6. ASSUME NEW k \in 1 .. Len(u)
      PROVE  \E i \in 1 .. m : \E c : Block(u, ss[i], c) /\ k \in c + 1 .. c + Len(ss[i])
  <2>1. CASE k <= Len(s)
    <3>1. k \in 1 .. Len(s)
      BY <1>2, <2>1
    <3>2. PICK i \in 1 .. m - 1 : \E c : Block(s, ss[i], c) /\ k \in c + 1 .. c + Len(ss[i])
      BY <3>1 DEF Covers
    <3>3. PICK c : Block(s, ss[i], c) /\ k \in c + 1 .. c + Len(ss[i])
      BY <3>2
    <3>4. Block(u, ss[i], c)
      BY <1>4, <3>3
    <3>5. i \in 1 .. m
      BY <1>2
    <3>6. QED BY <3>3, <3>4, <3>5
  <2>2. CASE ~ (k <= Len(s))
    <3>1. k \in Len(s) + 1 .. Len(s) + Len(t) /\ m \in 1 .. m
      BY <1>2, <2>2
    <3>2. QED BY <1>3, <3>1 DEF t
  <2>3. QED BY <2>1, <2>2
<1>7. QED BY <1>5, <1>6 DEF Covers, u, t

LEMMA FlattenSeqCovers ==
  ASSUME NEW S, NEW ss \in Seq(Seq(S))
  PROVE  FlattenSeq(ss) \in Seq(S) /\ Covers(FlattenSeq(ss), ss, Len(ss))
<1>1. Len(ss) \in Nat /\ \A i \in 1 .. Len(ss) : ss[i] \in Seq(S)
  OBVIOUS
<1>2. CASE Len(ss) = 0
  <2>1. ss = <<>> /\ FlattenSeq(ss) = ss
    BY <1>2 DEF FlattenSeq
  <2>2. Len(ss) = 0 /\ ss \in Seq(S)
    BY <1>2, <2>1
  <2>3. \A i \in 1 .. 0 : FALSE
    OBVIOUS
  <2>4. Covers(ss, ss, Len(ss))
    BY <2>2, <2>3 DEF Covers
  <2>5. QED BY <2>1, <2>2, <2>4
<1>3. CASE Len(ss) # 0
  <2> DEFINE f == CHOOSE g : IsFlat(g, ss)
             Wrong == {m \in 1 .. Len(ss) : ~ (f[m] \in Seq(S) /\ Covers(f[m], ss, m))}
  <2>1. FlattenSeq(ss) = f[Len(ss)]
    BY <1>3 DEF FlattenSeq, IsFlat
  <2>2. IsFlat(f, ss)
    <3>1. \E g : IsFlat(g, ss)
      BY FlatExists
    <3>2. QED BY <3>1
  <2> HIDE DEF f
  <2>3. \A i \in 1 .. Len(ss) : f[i] = IF i = 1 THEN ss[i] ELSE f[i - 1] \o ss[i]
    BY <2>2 DEF IsFlat
  <2>4. ASSUME Wrong # {} PROVE FALSE
    <3>1. PICK m \in Wrong : \A k \in Wrong : m <= k
      <4>1. Wrong \subseteq Nat
        BY <1>1
      <4> HIDE DEF Wrong
      <4>2. QED BY <2>4, <4>1, LeastElement
    <3>2. m \in 1 .. Len(ss) /\ ~ (f[m] \in Seq(S) /\ Covers(f[m], ss, m))
      BY <3>1
    <3>3. CASE m = 1
      <4>1. Len(<<>>) = 0 /\ <<>> \in Seq(S)
        OBVIOUS
      <4>2. Covers(<<>>, ss, 1 - 1)
        BY <4>1 DEF Covers
      <4>3. Covers(<<>> \o ss[1], ss, 1)
        BY <3>2, <3>3, <4>1, <4>2, CoversOneMore
      <4>4. <<>> \o ss[1] = ss[1] /\ f[1] = ss[1] /\ ss[1] \in Seq(S)
        BY <1>1, <2>3, <3>2, <3>3
      <4>5. QED BY <3>2, <3>3, <4>3, <4>4
    <3>4. CASE m # 1
      <4>1. m - 1 \in 1 .. Len(ss) /\ ~ (m <= m - 1)
        BY <1>1, <3>2, <3>4
      <4>2. m - 1 \notin Wrong
        <5> HIDE DEF Wrong
        <5>1. QED BY <3>1, <4>1
      <4>3. f[m - 1] \in Seq(S) /\ Covers(f[m - 1], ss, m - 1)
        BY <4>1, <4>2
      <4>4. Covers(f[m - 1] \o ss[m], ss, m)
        BY <3>2, <4>3, CoversOneMore
      <4>5. f[m] = f[m - 1] \o ss[m]
        BY <2>3, <3>2, <3>4
      <4> HIDE DEF Wrong
      <4>6. ss[m] \in Seq(S)
        BY <1>1, <3>2
      <4>7. f[m - 1] \o ss[m] \in Seq(S)
        BY <4>3, <4>6
      <4>8. QED BY <3>2, <4>4, <4>5, <4>7
    <3>5. QED BY <3>3, <3>4
  <2>5. Len(ss) \in 1 .. Len(ss)
    BY <1>1, <1>3
  <2>6. QED BY <2>1, <2>4, <2>5
<1>4. QED BY <1>2, <1>3

-----------------------------------------------------------------------------
(* Statements that are still to be sent *)

Statement ==
  [table : {"player"}, id : Pids, value : Row]
  \cup [table : {"owned"}, id : Pids, value : SUBSET Objects]
  \cup [table : {"board"}, id : Bids, value : Nat]
  \cup [table : {"slots"}, id : Bids, value : Seq(Mids)]
  \cup [table : {"message"}, id : Mids, value : Message \cup {None}]

\* A statement of s is about the row.
Has(s, table, id) == \E k \in 1 .. Len(s) : s[k].table = table /\ s[k].id = id

\* What a statement needs is in s, after it or in it.
Answered(s, needs) ==
  \A k \in 1 .. Len(s) : \A X \in needs[s[k]] : \E j \in k .. Len(s) : s[j] \in X

LEMMA Concatenation ==
  ASSUME NEW S, NEW s \in Seq(S), NEW t \in Seq(S)
  PROVE  /\ Len(s) \in Nat /\ Len(t) \in Nat /\ Len(s \o t) = Len(s) + Len(t)
         /\ \A k \in 1 .. Len(s) : (s \o t)[k] = s[k]
         /\ \A k \in 1 .. Len(t) : (s \o t)[Len(s) + k] = t[k]
<1>1. Len(s) \in Nat /\ Len(t) \in Nat /\ Len(s \o t) = Len(s) + Len(t)
  OBVIOUS
<1>2. \A k \in 1 .. Len(s) : (s \o t)[k] = s[k]
  OBVIOUS
<1>3. ASSUME NEW k \in 1 .. Len(t) PROVE (s \o t)[Len(s) + k] = t[k]
  <2>1. Len(s) + k \in 1 .. Len(s) + Len(t) /\ ~ (Len(s) + k <= Len(s)) /\ (Len(s) + k) - Len(s) = k
    BY <1>1
  <2>2. QED BY <2>1
<1>4. QED BY <1>1, <1>2, <1>3

LEMMA HasConcat ==
  ASSUME NEW S, NEW s \in Seq(S), NEW t \in Seq(S), NEW table, NEW id
  PROVE  Has(s \o t, table, id) <=> Has(s, table, id) \/ Has(t, table, id)
<1>1. /\ Len(s) \in Nat /\ Len(t) \in Nat /\ Len(s \o t) = Len(s) + Len(t)
      /\ \A k \in 1 .. Len(s) : (s \o t)[k] = s[k]
      /\ \A k \in 1 .. Len(t) : (s \o t)[Len(s) + k] = t[k]
  BY Concatenation
<1> DEFINE u == s \o t
           m == Len(s)
           n == Len(t)
<1> HIDE DEF u, m, n
<1>2. /\ m \in Nat /\ n \in Nat /\ Len(u) = m + n
      /\ \A k \in 1 .. m : u[k] = s[k]
      /\ \A k \in 1 .. n : u[m + k] = t[k]
  BY <1>1 DEF u, m, n
<1>3. ASSUME Has(u, table, id) PROVE Has(s, table, id) \/ Has(t, table, id)
  <2>1. PICK k \in 1 .. Len(u) : u[k].table = table /\ u[k].id = id
    BY <1>3 DEF Has
  <2>2. CASE k <= m
    <3>1. k \in 1 .. m
      BY <1>2, <2>2
    <3>2. QED BY <1>2, <2>1, <3>1 DEF Has, m
  <2>3. CASE ~ (k <= m)
    <3>1. k - m \in 1 .. n /\ m + (k - m) = k
      BY <1>2, <2>3
    <3>2. t[k - m] = u[k]
      BY <1>2, <3>1
    <3>3. QED BY <2>1, <3>1, <3>2 DEF Has, n
  <2>4. QED BY <2>2, <2>3
<1>4. ASSUME Has(s, table, id) PROVE Has(u, table, id)
  <2>1. PICK k \in 1 .. m : s[k].table = table /\ s[k].id = id
    BY <1>4 DEF Has, m
  <2>2. k \in 1 .. Len(u) /\ u[k] = s[k]
    BY <1>2
  <2>3. QED BY <2>1, <2>2 DEF Has
<1>5. ASSUME Has(t, table, id) PROVE Has(u, table, id)
  <2>1. PICK k \in 1 .. n : t[k].table = table /\ t[k].id = id
    BY <1>5 DEF Has, n
  <2>2. m + k \in 1 .. Len(u) /\ u[m + k] = t[k]
    BY <1>2
  <2>3. QED BY <2>1, <2>2 DEF Has
<1>6. QED BY <1>3, <1>4, <1>5 DEF u

LEMMA AnsweredConcat ==
  ASSUME NEW S, NEW s \in Seq(S), NEW t \in Seq(S), NEW needs, Answered(s, needs), Answered(t, needs)
  PROVE  Answered(s \o t, needs)
<1>1. /\ Len(s) \in Nat /\ Len(t) \in Nat /\ Len(s \o t) = Len(s) + Len(t)
      /\ \A k \in 1 .. Len(s) : (s \o t)[k] = s[k]
      /\ \A k \in 1 .. Len(t) : (s \o t)[Len(s) + k] = t[k]
  BY Concatenation
<1> DEFINE u == s \o t
           m == Len(s)
           n == Len(t)
<1> HIDE DEF u, m, n
<1>2. /\ m \in Nat /\ n \in Nat /\ Len(u) = m + n
      /\ \A k \in 1 .. m : u[k] = s[k]
      /\ \A k \in 1 .. n : u[m + k] = t[k]
  BY <1>1 DEF u, m, n
<1>3. SUFFICES ASSUME NEW k \in 1 .. Len(u), NEW X \in needs[u[k]]
               PROVE  \E j \in k .. Len(u) : u[j] \in X
  BY DEF Answered, u
<1>4. CASE k <= m
  <2>1. k \in 1 .. m /\ u[k] = s[k]
    BY <1>2, <1>4
  <2>2. PICK j \in k .. m : s[j] \in X
    BY <2>1 DEF Answered, m
  <2>3. j \in k .. Len(u) /\ u[j] = s[j]
    BY <1>2, <2>1
  <2>4. QED BY <2>2, <2>3
<1>5. CASE ~ (k <= m)
  <2>1. k - m \in 1 .. n /\ m + (k - m) = k
    BY <1>2, <1>5
  <2>2. t[k - m] = u[k]
    BY <1>2, <2>1
  <2>3. PICK j \in k - m .. n : t[j] \in X
    BY <2>1, <2>2 DEF Answered, n
  <2>4. m + j \in k .. Len(u) /\ j \in 1 .. n
    BY <1>2, <2>1
  <2>5. u[m + j] = t[j]
    BY <1>2, <2>4
  <2>6. QED BY <2>3, <2>4, <2>5
<1>6. QED BY <1>4, <1>5

LEMMA HasFlat ==
  ASSUME NEW S, NEW ss \in Seq(Seq(S)), NEW table, NEW id
  PROVE  Has(FlattenSeq(ss), table, id) <=> \E i \in 1 .. Len(ss) : Has(ss[i], table, id)
<1> DEFINE s == FlattenSeq(ss)
<1>1. Covers(s, ss, Len(ss)) /\ s \in Seq(S)
  BY FlattenSeqCovers
<1> HIDE DEF s
<1>2. Len(ss) \in Nat /\ \A i \in 1 .. Len(ss) : ss[i] \in Seq(S) /\ Len(ss[i]) \in Nat
  OBVIOUS
<1>3. ASSUME Has(s, table, id) PROVE \E i \in 1 .. Len(ss) : Has(ss[i], table, id)
  <2>1. PICK k \in 1 .. Len(s) : s[k].table = table /\ s[k].id = id
    BY <1>3 DEF Has
  <2>2. PICK i \in 1 .. Len(ss) : \E c : Block(s, ss[i], c) /\ k \in c + 1 .. c + Len(ss[i])
    BY <1>1, <2>1 DEF Covers
  <2>3. PICK c : Block(s, ss[i], c) /\ k \in c + 1 .. c + Len(ss[i])
    BY <2>2
  <2>4. k - c \in 1 .. Len(ss[i]) /\ c + (k - c) = k
    BY <1>2, <2>3 DEF Block
  <2>5. ss[i][k - c] = s[k]
    BY <2>3, <2>4 DEF Block
  <2>6. QED BY <2>1, <2>4, <2>5 DEF Has
<1>4. ASSUME NEW i \in 1 .. Len(ss), Has(ss[i], table, id) PROVE Has(s, table, id)
  <2>1. PICK j \in 1 .. Len(ss[i]) : ss[i][j].table = table /\ ss[i][j].id = id
    BY <1>4 DEF Has
  <2>2. PICK c : Block(s, ss[i], c)
    BY <1>1 DEF Covers
  <2>3. c + j \in 1 .. Len(s) /\ s[c + j] = ss[i][j]
    <3>1. c \in Nat /\ c + Len(ss[i]) <= Len(s) /\ Len(s) \in Nat /\ s[c + j] = ss[i][j]
      BY <1>1, <2>2 DEF Block
    <3>2. QED BY <1>2, <3>1
  <2>4. QED BY <2>1, <2>3 DEF Has
<1>5. QED BY <1>3, <1>4 DEF s

LEMMA AnsweredFlat ==
  ASSUME NEW S, NEW ss \in Seq(Seq(S)), NEW needs, \A i \in 1 .. Len(ss) : Answered(ss[i], needs)
  PROVE  Answered(FlattenSeq(ss), needs)
<1> DEFINE s == FlattenSeq(ss)
<1>1. Covers(s, ss, Len(ss)) /\ s \in Seq(S)
  BY FlattenSeqCovers
<1> HIDE DEF s
<1>2. Len(ss) \in Nat /\ \A i \in 1 .. Len(ss) : ss[i] \in Seq(S) /\ Len(ss[i]) \in Nat
  OBVIOUS
<1>3. SUFFICES ASSUME NEW k \in 1 .. Len(s), NEW X \in needs[s[k]]
               PROVE  \E j \in k .. Len(s) : s[j] \in X
  BY DEF Answered, s
<1>a. PICK i \in 1 .. Len(ss) : \E c : Block(s, ss[i], c) /\ k \in c + 1 .. c + Len(ss[i])
  BY <1>1 DEF Covers
<1>4. PICK c : Block(s, ss[i], c) /\ k \in c + 1 .. c + Len(ss[i])
  BY <1>a
<1>5. /\ c \in Nat /\ c + Len(ss[i]) <= Len(s) /\ Len(s) \in Nat
      /\ \A j \in 1 .. Len(ss[i]) : s[c + j] = ss[i][j]
  BY <1>1, <1>4 DEF Block
<1>6. k - c \in 1 .. Len(ss[i]) /\ c + (k - c) = k
  BY <1>2, <1>4, <1>5
<1>7. ss[i][k - c] = s[k]
  BY <1>5, <1>6
<1>8. PICK j \in k - c .. Len(ss[i]) : ss[i][j] \in X
  BY <1>6, <1>7 DEF Answered
<1>9. c + j \in k .. Len(s) /\ j \in 1 .. Len(ss[i])
  BY <1>2, <1>5, <1>6
<1>10. QED BY <1>5, <1>8, <1>9

LEMMA TailOf ==
  ASSUME NEW S, NEW s \in Seq(S), s # <<>>
  PROVE  /\ Tail(s) \in Seq(S) /\ Len(Tail(s)) = Len(s) - 1 /\ Len(s) \in Nat /\ Len(s) >= 1
         /\ Head(s) = s[1] /\ Head(s) \in S
         /\ \A k \in 1 .. Len(s) - 1 : Tail(s)[k] = s[k + 1]
  OBVIOUS

LEMMA HasTail ==
  ASSUME NEW S, NEW s \in Seq(S), s # <<>>, NEW table, NEW id
  PROVE  /\ Has(Tail(s), table, id) => Has(s, table, id)
         /\ Has(s, table, id) => Has(Tail(s), table, id) \/ (Head(s).table = table /\ Head(s).id = id)
<1> DEFINE t == Tail(s)
           n == Len(s)
<1>1. /\ t \in Seq(S) /\ Len(t) = n - 1 /\ n \in Nat /\ n >= 1 /\ Head(s) = s[1]
      /\ \A k \in 1 .. n - 1 : t[k] = s[k + 1]
  BY TailOf
<1> HIDE DEF t
<1>2. ASSUME Has(t, table, id) PROVE Has(s, table, id)
  <2>1. PICK k \in 1 .. n - 1 : t[k].table = table /\ t[k].id = id
    BY <1>1, <1>2 DEF Has
  <2>2. k + 1 \in 1 .. n /\ s[k + 1] = t[k]
    BY <1>1
  <2>3. QED BY <2>1, <2>2 DEF Has
<1>3. ASSUME Has(s, table, id) PROVE Has(t, table, id) \/ (Head(s).table = table /\ Head(s).id = id)
  <2>1. PICK k \in 1 .. n : s[k].table = table /\ s[k].id = id
    BY <1>3 DEF Has
  <2>2. CASE k = 1
    BY <1>1, <2>1, <2>2
  <2>3. CASE k # 1
    <3>1. k - 1 \in 1 .. n - 1 /\ (k - 1) + 1 = k
      BY <1>1, <2>3
    <3>2. t[k - 1] = s[k]
      BY <1>1, <3>1
    <3>3. QED BY <1>1, <2>1, <3>1, <3>2 DEF Has
  <2>4. QED BY <2>2, <2>3
<1>4. QED BY <1>2, <1>3 DEF t

LEMMA AnsweredTail ==
  ASSUME NEW S, NEW s \in Seq(S), s # <<>>, NEW needs, Answered(s, needs)
  PROVE  Answered(Tail(s), needs)
<1> DEFINE t == Tail(s)
           n == Len(s)
<1>1. /\ t \in Seq(S) /\ Len(t) = n - 1 /\ n \in Nat /\ n >= 1
      /\ \A k \in 1 .. n - 1 : t[k] = s[k + 1]
  BY TailOf
<1> HIDE DEF t
<1>2. SUFFICES ASSUME NEW k \in 1 .. n - 1, NEW X \in needs[t[k]]
               PROVE  \E j \in k .. n - 1 : t[j] \in X
  BY <1>1 DEF Answered, t
<1>3. k + 1 \in 1 .. n /\ s[k + 1] = t[k]
  BY <1>1
<1>4. PICK j \in k + 1 .. n : s[j] \in X
  BY <1>3 DEF Answered
<1>5. j - 1 \in k .. n - 1 /\ j - 1 \in 1 .. n - 1 /\ (j - 1) + 1 = j
  BY <1>1
<1>6. t[j - 1] = s[j]
  BY <1>1, <1>5
<1>7. QED BY <1>4, <1>5, <1>6

-----------------------------------------------------------------------------
(* The inductive invariant of the players *)

Shapes ==
  /\ player \in [Pids -> Row \cup {None}] /\ owned \in [Pids -> SUBSET Objects]
  /\ board \in [Bids -> Nat \cup {None}] /\ slots \in [Bids -> Seq(Mids)]
  /\ message \in [Mids -> Message \cup {None}]
  /\ up \in BOOLEAN /\ (todo # <<>> => up)
  /\ players \in [Pids -> Account \cup Row \cup {None}]
  /\ loaded \subseteq Known /\ \A p \in loaded : players[p] \in Account
  /\ nums \in [Bids -> Nat \cup {None}] /\ lists \in [Bids -> Seq(Mids)]
  /\ nextid \in 1 .. MaxPlayer + 1 /\ nextbid \in 1 .. MaxBoard + 1 /\ nextmid \in 1 .. MaxMessage + 1
  /\ posts \in 0 .. MaxPosts
  /\ torn \in [boards : SUBSET Bids, players : SUBSET Pids]

\* The entries of the players, read in or not.
Held == [p \in Known |-> Entry(p)]

\* The name and the board of a player.
Home(a) == [name |-> a.name, boardid |-> a.boardid]

\* A player has one entry, which the row agrees with, and a name and a board of his own.
Entries ==
  /\ \A p \in Known \ loaded : player[p] # None
  /\ \A p \in Pids : player[p] # None => p \in Known /\ player[p] = Home(Held[p])
  /\ \A p, q \in Known : p # q => Held[p].name # Held[q].name /\ Held[p].boardid # Held[q].boardid

\* Ids that are given next are new.
Ids ==
  /\ \A p \in Known : p < nextid /\ Held[p].boardid < nextbid
  /\ \A b \in Bids : board[b] # None \/ nums[b] # None => b < nextbid

\* Statements are about players who are read in and boards that have an id.
Sent ==
  {q \in Statement :
     /\ q.table = "player" => q.id \in loaded /\ q.value = Home(Held[q.id])
     /\ q.table = "owned" => q.id \in loaded
     /\ q.table = "board" => q.id < nextbid}

\* What is deleted of the objects of a player is written again.
OwnNeeds(h) ==
  [q \in Statement |-> IF q.table = "owned" THEN {{Sql("owned", q.id, h[q.id].owns)}} ELSE {}]

\* The row of a board comes before that of its player.
Housed ==
  /\ \A p \in Pids : player[p] # None => board[player[p].boardid] # None
  /\ \A k \in 1 .. Len(todo) : todo[k].table = "player" =>
       \/ board[todo[k].value.boardid] # None
       \/ \E j \in 1 .. k : todo[j].table = "board" /\ todo[j].id = todo[k].value.boardid

\* What memory has is stored or still to be written.
Written ==
  /\ up => \A p \in loaded : Has(todo, "player", p) \/ player[p] = Home(Held[p])
  /\ \A p \in loaded : \/ Has(todo, "owned", p) \/ owned[p] = Held[p].owns
                       \/ ~up /\ p \in torn.players

\* What a player has is his alone.
Apart ==
  \A p, q \in Known \ torn.players : p # q => Held[p].owns \cap Held[q].owns = {}

PlayersInv ==
  /\ Shapes /\ Entries /\ Ids /\ Housed /\ Written /\ Apart
  /\ todo \in Seq(Sent) /\ Answered(todo, OwnNeeds(Held))

-----------------------------------------------------------------------------
(* Facts about players *)

LEMMA StatementParts ==
  ASSUME NEW q \in Statement
  PROVE  /\ q.table \in {"player", "owned", "board", "slots", "message"}
         /\ q.table = "player" => q.id \in Pids /\ q.value \in Row
         /\ q.table = "owned" => q.id \in Pids /\ q.value \in SUBSET Objects
         /\ q.table = "board" => q.id \in Bids /\ q.value \in Nat
         /\ q.table = "slots" => q.id \in Bids /\ q.value \in Seq(Mids)
         /\ q.table = "message" => q.id \in Mids /\ q.value \in Message \cup {None}
         /\ q = Sql(q.table, q.id, q.value)
BY DEF Statement, Sql

LEMMA SqlParts ==
  ASSUME NEW table, NEW id, NEW value
  PROVE  /\ Sql(table, id, value).table = table /\ Sql(table, id, value).id = id
         /\ Sql(table, id, value).value = value
BY DEF Sql

LEMMA SqlStatements ==
  /\ \A p \in Pids, v \in Row : Sql("player", p, v) \in Statement
  /\ \A p \in Pids, v \in SUBSET Objects : Sql("owned", p, v) \in Statement
  /\ \A b \in Bids, v \in Nat : Sql("board", b, v) \in Statement
  /\ \A b \in Bids, v \in Seq(Mids) : Sql("slots", b, v) \in Statement
  /\ \A m \in Mids, v \in Message \cup {None} : Sql("message", m, v) \in Statement
BY DEF Sql, Statement

LEMMA HomeOf ==
  ASSUME NEW a \in Account
  PROVE  /\ Home(a) \in Row /\ Home(a) # None
         /\ Home(a).name = a.name /\ Home(a).boardid = a.boardid /\ a.boardid \in Bids
         /\ a.name \in Names /\ a.owns \in SUBSET Objects /\ a # None
BY NoneAssumption DEF Home, Account, Row

LEMMA KnownFacts ==
  ASSUME Shapes, \A p \in Known \ loaded : player[p] # None
  PROVE  /\ Held \in [Known -> Account] /\ Known \subseteq Pids
         /\ \A p \in Known : Held[p] = Entry(p)
         /\ \A p \in loaded : Held[p] = players[p]
         /\ \A p \in Known \ loaded : Held[p] = Stored(p) /\ Held[p].owns = owned[p]
<1>1. Known \subseteq Pids
  BY DEF Known
<1>2. \A p \in Known : Held[p] = Entry(p)
  BY DEF Held
<1>3. \A p \in loaded : Held[p] = players[p] /\ Held[p] \in Account /\ p \in Known
  BY <1>2 DEF Entry, Shapes
<1>4. ASSUME NEW p \in Known \ loaded
      PROVE  Held[p] = Stored(p) /\ Held[p].owns = owned[p] /\ Held[p] \in Account
  <2>1. player[p] \in Row /\ owned[p] \in SUBSET Objects
    BY <1>1 DEF Shapes
  <2>2. Held[p] = Stored(p)
    BY <1>2 DEF Entry
  <2>3. QED BY <2>1, <2>2 DEF Stored, Row, Account
<1>5. Held \in [Known -> Account]
  <2>1. \A p \in Known : Held[p] \in Account
    BY <1>3, <1>4
  <2>2. DOMAIN Held = Known /\ Held = [p \in Known |-> Held[p]]
    BY DEF Held
  <2>3. QED BY <2>1, <2>2
<1>6. QED BY <1>1, <1>2, <1>3, <1>4, <1>5

\* No statement is about anything when none is left.
LEMMA NothingToSend ==
  ASSUME NEW table, NEW id
  PROVE  ~ Has(<<>>, table, id)
BY DEF Has

\* Between two requests the tables are as memory is.
LEMMA FreeFacts ==
  ASSUME PlayersInv, Free
  PROVE  \A p \in Known : /\ player[p] = Home(Held[p]) /\ player[p] # None
                          /\ owned[p] = Held[p].owns /\ Held[p] \in Account
                          /\ board[Held[p].boardid] # None
<1>1. Shapes /\ Entries /\ Written /\ Housed /\ up /\ todo = <<>>
  BY DEF PlayersInv, Free
<1>2. Held \in [Known -> Account] /\ Known \subseteq Pids
      /\ \A p \in Known \ loaded : Held[p].owns = owned[p]
  BY <1>1, KnownFacts DEF Entries
<1>3. SUFFICES ASSUME NEW p \in Known
      PROVE  /\ player[p] = Home(Held[p]) /\ player[p] # None
             /\ owned[p] = Held[p].owns /\ Held[p] \in Account
             /\ board[Held[p].boardid] # None
  OBVIOUS
<1>4. Held[p] \in Account /\ p \in Pids
  BY <1>2
<1>5. Home(Held[p]) # None /\ Home(Held[p]).boardid = Held[p].boardid
  BY <1>4, HomeOf
<1>6. player[p] = Home(Held[p])
  <2>1. CASE p \in loaded
    BY <1>1, <2>1, NothingToSend DEF Written
  <2>2. CASE p \notin loaded
    BY <1>1, <1>4, <2>2 DEF Entries
  <2>3. QED BY <2>1, <2>2
<1>7. owned[p] = Held[p].owns
  <2>1. CASE p \in loaded
    BY <1>1, <2>1, NothingToSend DEF Written
  <2>2. CASE p \notin loaded
    BY <1>2, <2>2
  <2>3. QED BY <2>1, <2>2
<1>8. board[Held[p].boardid] # None
  BY <1>1, <1>4, <1>5, <1>6 DEF Housed
<1>9. QED BY <1>4, <1>5, <1>6, <1>7, <1>8

\* Reading players in changes nothing of what they are.
LEMMA ReadingFacts ==
  ASSUME Shapes, Entries, NEW S \in SUBSET Known
  PROVE  /\ Reading(S) \in [Pids -> Account \cup Row \cup {None}]
         /\ \A p \in S : Reading(S)[p] = Held[p] /\ Held[p] \in Account
         /\ \A p \in Pids \ S : Reading(S)[p] = players[p]
         /\ \A p \in loaded : Reading(S)[p] = Held[p]
         /\ {p \in Pids : Reading(S)[p] # None} = Known
<1>1. /\ Held \in [Known -> Account] /\ Known \subseteq Pids
      /\ \A p \in Known : Held[p] = Entry(p)
      /\ \A p \in loaded : Held[p] = players[p]
  BY KnownFacts DEF Entries
<1>2. \A p \in Pids : Reading(S)[p] = IF p \in S THEN Entry(p) ELSE players[p]
  BY DEF Reading
<1>3. \A p \in S : Reading(S)[p] = Held[p] /\ Held[p] \in Account
  BY <1>1, <1>2
<1>4. \A p \in Pids \ S : Reading(S)[p] = players[p]
  BY <1>2
<1>5. players \in [Pids -> Account \cup Row \cup {None}] /\ loaded \subseteq Known
  BY DEF Shapes
<1>6. Reading(S) \in [Pids -> Account \cup Row \cup {None}]
  <2>1. Reading(S) = [p \in Pids |-> Reading(S)[p]]
    BY DEF Reading
  <2>2. \A p \in Pids : Reading(S)[p] \in Account \cup Row \cup {None}
    BY <1>3, <1>4, <1>5
  <2>3. QED BY <2>1, <2>2
<1>7. \A p \in loaded : Reading(S)[p] = Held[p]
  BY <1>1, <1>3, <1>4, <1>5
<1>8. \A p \in Pids : Reading(S)[p] # None <=> players[p] # None
  BY <1>1, <1>3, <1>4, HomeOf DEF Known
<1>9. QED BY <1>3, <1>4, <1>6, <1>7, <1>8 DEF Known

-----------------------------------------------------------------------------
(* The players, step by step: the statements, and the death of the server *)

LEMMA SentIsStatement ==
  ASSUME NEW s \in Seq(Sent)
  PROVE  s \in Seq(Statement)
<1>1. Sent \subseteq Statement
  BY DEF Sent
<1> HIDE DEF Sent
<1>2. QED BY <1>1

LEMMA InitPlayers == ASSUME Init PROVE PlayersInv
<1> USE DEF Init
<1>1. Known = {}
  BY DEF Known
<1>2. Shapes
  BY <1>1, AccountsAssumption DEF Shapes, Pids, Bids, Mids
<1>3. Entries /\ Ids /\ Apart
  BY <1>1 DEF Entries, Ids, Apart, Pids, Bids
<1>4. Len(todo) = 0 /\ todo \in Seq(Sent)
  OBVIOUS
<1>5. Housed /\ Written /\ Answered(todo, OwnNeeds(Held))
  BY <1>4 DEF Housed, Written, Answered
<1>6. QED BY <1>2, <1>3, <1>4, <1>5 DEF PlayersInv

\* What a statement changes: the row it is about.
SendFacts ==
  /\ up /\ up' = up /\ todo # <<>> /\ todo' = Tail(todo)
  /\ Head(todo) = todo[1] /\ Len(todo) \in Nat /\ 1 \in 1 .. Len(todo)
  /\ Head(todo) \in Sent /\ Head(todo) \in Statement
  /\ todo' \in Seq(Sent) /\ Len(todo') = Len(todo) - 1 /\ \A k \in 1 .. Len(todo) - 1 : todo'[k] = todo[k + 1]
  /\ \A table, id : Has(todo', table, id) => Has(todo, table, id)
  /\ \A table, id : Has(todo, table, id) =>
       Has(todo', table, id) \/ (Head(todo).table = table /\ Head(todo).id = id)

SendTables ==
  LET q == Head(todo) IN
  /\ player' = IF q.table = "player" THEN [player EXCEPT ![q.id] = q.value] ELSE player
  /\ owned' = IF q.table = "owned" THEN [owned EXCEPT ![q.id] = q.value] ELSE owned
  /\ board' = IF q.table = "board" THEN [board EXCEPT ![q.id] = q.value] ELSE board
  /\ slots' = IF q.table = "slots" THEN [slots EXCEPT ![q.id] = q.value] ELSE slots
  /\ message' = IF q.table = "message" THEN [message EXCEPT ![q.id] = q.value] ELSE message

LEMMA SendDoes ==
  ASSUME PlayersInv, Send
  PROVE  SendFacts /\ SendTables
<1>1. todo \in Seq(Sent) /\ todo # <<>> /\ todo' = Tail(todo) /\ up /\ up' = up
  BY DEF PlayersInv, Send
<1>2. /\ Tail(todo) \in Seq(Sent) /\ Len(Tail(todo)) = Len(todo) - 1 /\ Len(todo) \in Nat /\ Len(todo) >= 1
      /\ Head(todo) = todo[1] /\ Head(todo) \in Sent
      /\ \A k \in 1 .. Len(todo) - 1 : Tail(todo)[k] = todo[k + 1]
  <2> HIDE DEF Sent
  <2>1. QED BY <1>1, TailOf
<1>3. \A table, id :
        /\ Has(todo', table, id) => Has(todo, table, id)
        /\ Has(todo, table, id) =>
             Has(todo', table, id) \/ (Head(todo).table = table /\ Head(todo).id = id)
  <2> HIDE DEF Sent
  <2>1. QED BY <1>1, HasTail
<1>4. Head(todo) \in Statement
  BY <1>2 DEF Sent
<1>5. SendTables
  BY Zenon DEF Send, SendTables
<1>6. 1 \in 1 .. Len(todo)
  BY <1>2
<1>7. QED BY <1>1, <1>2, <1>3, <1>4, <1>5, <1>6 DEF SendFacts

LEMMA SendHeld ==
  ASSUME PlayersInv, Send
  PROVE  Held' = Held /\ Known' = Known /\ loaded' = loaded
<1> DEFINE q == Head(todo)
<1>1. q \in Sent /\ SendTables
  BY SendDoes DEF SendFacts
<1>2. /\ q.table = "player" => q.id \in loaded
      /\ q.table = "owned" => q.id \in loaded
  BY <1>1 DEF Sent
<1> HIDE DEF q
<1>3. players' = players /\ loaded' = loaded
  BY DEF Send, memory
<1>4. Known' = Known
  BY <1>3 DEF Known
<1>5. ASSUME NEW p \in Known PROVE Entry(p)' = Entry(p)
  <2>1. CASE p \in loaded
    BY <1>3, <2>1 DEF Entry
  <2>2. CASE p \notin loaded
    <3>1. player'[p] = player[p] /\ owned'[p] = owned[p]
      BY <1>1, <1>2, <2>2 DEF SendTables, q
    <3>2. QED BY <1>3, <2>2, <3>1 DEF Entry, Stored
  <2>3. QED BY <2>1, <2>2
<1>6. QED BY <1>3, <1>4, <1>5 DEF Held

LEMMA SendShapes ==
  ASSUME PlayersInv, Send
  PROVE  Shapes'
<1> DEFINE q == Head(todo)
<1>1. q \in Statement /\ SendTables /\ todo' = Tail(todo) /\ up
  BY SendDoes DEF SendFacts
<1>2. Shapes
  BY DEF PlayersInv
<1>3. /\ q.table = "player" => q.id \in Pids /\ q.value \in Row
      /\ q.table = "owned" => q.id \in Pids /\ q.value \in SUBSET Objects
      /\ q.table = "board" => q.id \in Bids /\ q.value \in Nat
      /\ q.table = "slots" => q.id \in Bids /\ q.value \in Seq(Mids)
      /\ q.table = "message" => q.id \in Mids /\ q.value \in Message \cup {None}
  BY <1>1, StatementParts
<1>4. player' \in [Pids -> Row \cup {None}]
  BY <1>1, <1>2, <1>3 DEF SendTables, Shapes, q
<1>5. owned' \in [Pids -> SUBSET Objects]
  BY <1>1, <1>2, <1>3 DEF SendTables, Shapes, q
<1>6. board' \in [Bids -> Nat \cup {None}]
  BY <1>1, <1>2, <1>3 DEF SendTables, Shapes, q
<1>7. slots' \in [Bids -> Seq(Mids)]
  BY <1>1, <1>2, <1>3 DEF SendTables, Shapes, q
<1>8. message' \in [Mids -> Message \cup {None}]
  BY <1>1, <1>2, <1>3 DEF SendTables, Shapes, q
<1>9. UNCHANGED <<up, players, loaded, nums, lists, nextid, nextbid, nextmid, torn, posts>>
  BY DEF Send, memory, counters, bounds
<1>10. Known' = Known
  BY SendHeld
<1>11. QED BY <1>1, <1>2, <1>4, <1>5, <1>6, <1>7, <1>8, <1>9, <1>10 DEF Shapes

LEMMA SendPlayers ==
  ASSUME PlayersInv, Send
  PROVE  PlayersInv'
<1> DEFINE q == Head(todo)
<1>1. SendFacts /\ SendTables
  BY SendDoes
<1>2. Shapes /\ Entries /\ Ids /\ Housed /\ Written /\ Apart /\ Answered(todo, OwnNeeds(Held))
  BY DEF PlayersInv
<1>3. Held' = Held /\ Known' = Known /\ loaded' = loaded
  BY SendHeld
<1>4. UNCHANGED <<up, players, nums, lists, nextid, nextbid, nextmid, torn, posts>>
  BY DEF Send, memory, counters, bounds
<1>5. q \in Sent /\ q \in Statement
  BY <1>1 DEF SendFacts
<1>6. /\ q.table = "player" => q.id \in loaded /\ q.value = Home(Held[q.id]) /\ q.id \in Pids /\ q.value \in Row
      /\ q.table = "owned" => q.id \in loaded /\ q.id \in Pids
      /\ q.table = "board" => q.id \in Bids /\ q.value \in Nat /\ q.id < nextbid
  BY <1>5, StatementParts DEF Sent
<1> HIDE DEF q
<1>7. /\ Held \in [Known -> Account] /\ Known \subseteq Pids /\ loaded \subseteq Known
      /\ player \in [Pids -> Row \cup {None}] /\ owned \in [Pids -> SUBSET Objects]
      /\ board \in [Bids -> Nat \cup {None}]
  BY <1>2, KnownFacts DEF Entries, Shapes
<1>8. \A p \in Pids : player'[p] = IF q.table = "player" /\ q.id = p THEN q.value ELSE player[p]
  BY <1>1, <1>6, <1>7 DEF SendTables, q
<1>9. \A p \in Pids : owned'[p] = IF q.table = "owned" /\ q.id = p THEN q.value ELSE owned[p]
  BY <1>1, <1>6, <1>7 DEF SendTables, q
<1>10. \A b \in Bids : board'[b] = IF q.table = "board" /\ q.id = b THEN q.value ELSE board[b]
  BY <1>1, <1>6, <1>7 DEF SendTables, q
<1>11. Shapes'
  BY SendShapes
<1>12. Entries'
  <2>1. ASSUME NEW p \in Known \ loaded PROVE player'[p] # None
    BY <1>2, <1>6, <1>7, <1>8 DEF Entries
  <2>2. ASSUME NEW p \in Pids, player'[p] # None PROVE p \in Known /\ player'[p] = Home(Held[p])
    BY <1>2, <1>6, <1>7, <1>8, <2>2 DEF Entries
  <2>3. QED BY <1>2, <1>3, <2>1, <2>2 DEF Entries
<1>13. Ids'
  <2>1. ASSUME NEW b \in Bids, board'[b] # None \/ nums[b] # None PROVE b < nextbid
    BY <1>2, <1>6, <1>10, <2>1 DEF Ids
  <2>2. QED BY <1>2, <1>3, <1>4, <2>1 DEF Ids
<1>14. \A b \in Bids : board[b] # None => board'[b] # None
  BY <1>6, <1>10, NoneAssumption
<1>15. Housed'
  <2>1. ASSUME NEW p \in Pids, player'[p] # None PROVE board'[player'[p].boardid] # None
    <3>1. CASE q.table = "player" /\ q.id = p
      <4>1. player'[p] = q.value /\ q.value.boardid \in Bids
        BY <1>6, <1>8, <3>1 DEF Row
      <4>2. todo[1].table = "player" /\ 1 \in 1 .. Len(todo) /\ todo[1].value = q.value
        BY <1>1, <3>1 DEF SendFacts, q
      <4>3. \A j \in 1 .. 1 : todo[j].table # "board"
        BY <4>2
      <4>4. board[q.value.boardid] # None
        BY <1>2, <4>2, <4>3 DEF Housed
      <4>5. QED BY <1>14, <4>1, <4>4
    <3>2. CASE ~ (q.table = "player" /\ q.id = p)
      <4>1. player'[p] = player[p]
        BY <1>8, <3>2
      <4>2. player[p] \in Row /\ player[p].boardid \in Bids
        BY <1>7, <2>1, <4>1 DEF Row
      <4>3. QED BY <1>2, <1>14, <2>1, <4>1, <4>2 DEF Housed
    <3>3. QED BY <3>1, <3>2
  <2>2. ASSUME NEW k \in 1 .. Len(todo'), todo'[k].table = "player"
        PROVE  \/ board'[todo'[k].value.boardid] # None
               \/ \E j \in 1 .. k : todo'[j].table = "board" /\ todo'[j].id = todo'[k].value.boardid
    <3>1. /\ Len(todo) \in Nat /\ Len(todo') = Len(todo) - 1
          /\ \A i \in 1 .. Len(todo) - 1 : todo'[i] = todo[i + 1]
          /\ todo \in Seq(Statement) /\ Head(todo) = todo[1]
      BY <1>1, SentIsStatement DEF SendFacts, PlayersInv
    <3>2. k + 1 \in 1 .. Len(todo) /\ todo'[k] = todo[k + 1] /\ todo[k + 1] \in Statement
      BY <3>1
    <3>3. todo'[k].value \in Row /\ todo'[k].value.boardid \in Bids
      BY <2>2, <3>2, StatementParts DEF Row
    <3> DEFINE b == todo'[k].value.boardid
    <3>4. \/ board[b] # None
          \/ \E j \in 1 .. k + 1 : todo[j].table = "board" /\ todo[j].id = b
      BY <1>2, <2>2, <3>2 DEF Housed
    <3>5. CASE board[b] # None
      BY <1>14, <3>3, <3>5
    <3>6. ASSUME NEW j \in 1 .. k + 1, todo[j].table = "board", todo[j].id = b
          PROVE  \/ board'[b] # None
                 \/ \E i \in 1 .. k : todo'[i].table = "board" /\ todo'[i].id = b
      <4>1. CASE j = 1
        <5>1. q.table = "board" /\ q.id = b
          BY <3>1, <3>6, <4>1 DEF q
        <5>2. QED BY <1>6, <1>10, <3>3, <5>1, NoneAssumption
      <4>2. CASE j # 1
        <5>1. j - 1 \in 1 .. k /\ j - 1 \in 1 .. Len(todo) - 1 /\ (j - 1) + 1 = j
          BY <3>1, <3>2, <4>2
        <5>2. todo'[j - 1] = todo[j]
          BY <3>1, <5>1
        <5>3. QED BY <3>6, <5>1, <5>2
      <4>3. QED BY <4>1, <4>2
    <3>7. QED BY <3>4, <3>5, <3>6
  <2>3. QED BY <2>1, <2>2 DEF Housed
<1>16. Written'
  <2>1. ASSUME NEW p \in loaded PROVE Has(todo', "player", p) \/ player'[p] = Home(Held[p])
    <3>1. p \in Pids
      BY <1>7
    <3>2. CASE q.table = "player" /\ q.id = p
      BY <1>6, <1>8, <3>1, <3>2
    <3>3. CASE ~ (q.table = "player" /\ q.id = p)
      <4>1. player'[p] = player[p] /\ (Has(todo, "player", p) => Has(todo', "player", p))
        BY <1>1, <1>8, <3>1, <3>3 DEF SendFacts, q
      <4>2. Has(todo, "player", p) \/ player[p] = Home(Held[p])
        BY <1>1, <1>2 DEF Written, SendFacts
      <4>3. QED BY <4>1, <4>2
    <3>4. QED BY <3>2, <3>3
  <2>2. ASSUME NEW p \in loaded PROVE Has(todo', "owned", p) \/ owned'[p] = Held[p].owns
    <3>1. p \in Pids
      BY <1>7
    <3>2. CASE q.table = "owned" /\ q.id = p
      <4>1. PICK j \in 1 .. Len(todo) : todo[j] = Sql("owned", p, Held[p].owns)
        <5>1. OwnNeeds(Held)[q] = {{Sql("owned", p, Held[p].owns)}}
          BY <1>5, <3>2 DEF OwnNeeds
        <5>2. q = todo[1] /\ 1 \in 1 .. Len(todo)
          BY <1>1 DEF SendFacts, q
        <5>3. \E j \in 1 .. Len(todo) : todo[j] \in {Sql("owned", p, Held[p].owns)}
          BY <1>2, <5>1, <5>2 DEF Answered
        <5>4. QED BY <5>3
      <4>2. CASE j = 1
        <5>1. q.value = Held[p].owns
          BY <1>1, <4>1, <4>2, SqlParts DEF SendFacts, q
        <5>2. QED BY <1>9, <3>1, <3>2, <5>1
      <4>3. CASE j # 1
        <5>1. j - 1 \in 1 .. Len(todo') /\ todo'[j - 1] = todo[j]
          <6>1. /\ Len(todo) \in Nat /\ Len(todo') = Len(todo) - 1
                /\ \A i \in 1 .. Len(todo) - 1 : todo'[i] = todo[i + 1]
            BY <1>1 DEF SendFacts
          <6>2. j - 1 \in 1 .. Len(todo) - 1 /\ (j - 1) + 1 = j
            BY <4>3, <6>1
          <6>3. QED BY <6>1, <6>2
        <5>2. Has(todo', "owned", p)
          BY <4>1, <5>1, SqlParts DEF Has
        <5>3. QED BY <5>2
      <4>4. QED BY <4>2, <4>3
    <3>3. CASE ~ (q.table = "owned" /\ q.id = p)
      <4>1. owned'[p] = owned[p] /\ (Has(todo, "owned", p) => Has(todo', "owned", p))
        BY <1>1, <1>9, <3>1, <3>3 DEF SendFacts, q
      <4>2. Has(todo, "owned", p) \/ owned[p] = Held[p].owns
        BY <1>1, <1>2 DEF Written, SendFacts
      <4>3. QED BY <4>1, <4>2
    <3>4. QED BY <3>2, <3>3
  <2>3. QED BY <1>3, <2>1, <2>2 DEF Written
<1>17. Apart'
  BY <1>2, <1>3, <1>4 DEF Apart
<1>18. todo' \in Seq(Sent')
  <2>1. Sent' = Sent
    BY <1>3, <1>4 DEF Sent
  <2>2. todo' \in Seq(Sent)
    BY <1>1 DEF SendFacts
  <2>3. QED BY <2>1, <2>2
<1>19. Answered(todo', OwnNeeds(Held'))
  <2>1. todo \in Seq(Sent) /\ todo # <<>> /\ todo' = Tail(todo)
    BY <1>1 DEF SendFacts, PlayersInv
  <2> HIDE DEF Sent
  <2>2. QED BY <1>2, <1>3, <2>1, AnsweredTail
<1>20. QED BY <1>11, <1>12, <1>13, <1>15, <1>16, <1>17, <1>18, <1>19 DEF PlayersInv

\* What is pending when the server dies.
LEMMA PendingFacts ==
  ASSUME PlayersInv
  PROVE  /\ Pending({"board", "slots"}) \in SUBSET Bids
         /\ Pending({"player", "owned"}) \in SUBSET Pids
         /\ \A id : Has(todo, "owned", id) => id \in Pending({"player", "owned"})
         /\ \A id : Has(todo, "board", id) \/ Has(todo, "slots", id) => id \in Pending({"board", "slots"})
<1>1. todo \in Seq(Statement)
  BY SentIsStatement DEF PlayersInv
<1>2. \A k \in 1 .. Len(todo) : todo[k] \in Statement
  BY <1>1
<1>3. Pending({"board", "slots"}) \in SUBSET Bids
  BY <1>2, StatementParts DEF Pending
<1>4. Pending({"player", "owned"}) \in SUBSET Pids
  BY <1>2, StatementParts DEF Pending
<1>5. QED BY <1>3, <1>4 DEF Has, Pending

LEMMA CrashPlayers ==
  ASSUME PlayersInv, Crash
  PROVE  PlayersInv'
<1>1. Shapes /\ Entries /\ Ids /\ Housed /\ Written /\ Apart
  BY DEF PlayersInv
<1>2. /\ UNCHANGED <<player, owned, board, slots, message, players, loaded, nums, lists>>
      /\ UNCHANGED <<nextid, nextbid, nextmid, posts>>
      /\ up /\ ~ up' /\ todo' = <<>> /\ up' = FALSE
      /\ torn' = [boards |-> torn.boards \cup Pending({"board", "slots"}),
                  players |-> torn.players \cup Pending({"player", "owned"})]
  BY DEF Crash, tables, memory, counters
<1>3. Held' = Held /\ Known' = Known
  BY <1>2 DEF Held, Known, Entry, Stored
<1>4. torn' \in [boards : SUBSET Bids, players : SUBSET Pids] /\ torn.players \subseteq torn'.players
  BY <1>1, <1>2, PendingFacts DEF Shapes
<1>5. Shapes'
  BY <1>1, <1>2, <1>3, <1>4 DEF Shapes
<1>6. Entries'
  BY <1>1, <1>2, <1>3 DEF Entries
<1>7. Ids'
  BY <1>1, <1>2, <1>3 DEF Ids
<1>8. Len(todo') = 0 /\ todo' \in Seq(Sent')
  BY <1>2
<1>9. Housed'
  BY <1>1, <1>2, <1>8 DEF Housed
<1>10. Written'
  <2>1. ASSUME NEW p \in loaded PROVE owned[p] = Held[p].owns \/ p \in torn'.players
    BY <1>1, <1>2, PendingFacts DEF Written
  <2>2. QED BY <1>2, <1>3, <2>1 DEF Written
<1>11. Apart'
  BY <1>1, <1>3, <1>4 DEF Apart
<1>12. Answered(todo', OwnNeeds(Held'))
  BY <1>8 DEF Answered
<1>13. QED BY <1>5, <1>6, <1>7, <1>8, <1>9, <1>10, <1>11, <1>12 DEF PlayersInv

\* The greatest id in a table.
LEMMA MaxOfFacts ==
  ASSUME NEW n \in Nat, NEW table
  PROVE  MaxOf(table, 1 .. n) \in 0 .. n /\ \A i \in 1 .. n : table[i] # None => i <= MaxOf(table, 1 .. n)
<1> DEFINE S == {0} \cup {i \in 1 .. n : table[i] # None}
<1>1. S \subseteq Nat /\ S # {} /\ \A x \in S : x <= n
  OBVIOUS
<1> HIDE DEF S
<1>2. Max(S) \in S /\ \A x \in S : x <= Max(S)
  BY <1>1, MaxBounded
<1>3. MaxOf(table, 1 .. n) = Max(S)
  BY DEF MaxOf, S
<1> DEFINE m == Max(S)
<1> HIDE DEF m
<1>4. m \in 0 .. n
  <2>1. m \in S
    BY <1>2 DEF m
  <2>2. m \in Nat /\ m <= n
    BY <1>1, <2>1
  <2>3. QED BY <2>2
<1>5. \A i \in 1 .. n : table[i] # None => i \in S
  BY DEF S
<1>6. QED BY <1>2, <1>3, <1>4, <1>5 DEF m

LEMMA RestartPlayers ==
  ASSUME PlayersInv, Restart
  PROVE  PlayersInv'
<1>1. Shapes /\ Entries /\ Ids /\ Housed /\ Written /\ Apart
  BY DEF PlayersInv
<1>2. /\ UNCHANGED <<player, owned, board, slots, message, todo, torn, posts>>
      /\ ~ up /\ up' = TRUE /\ players' = player /\ loaded' = {}
      /\ nums' = [b \in Bids |-> None] /\ lists' = [b \in Bids |-> <<>>]
  BY DEF Restart, tables, bounds
<1>3. /\ nextid' = MaxOf(player, Pids) + 1 /\ nextbid' = MaxOf(board, Bids) + 1
      /\ nextmid' = MaxOf(message, Mids) + 1
  BY DEF Restart, NextIds
<1>4. /\ nextid' \in 1 .. MaxPlayer + 1 /\ nextbid' \in 1 .. MaxBoard + 1 /\ nextmid' \in 1 .. MaxMessage + 1
      /\ \A p \in Pids : player[p] # None => p < nextid'
      /\ \A b \in Bids : board[b] # None => b < nextbid'
  <2>1. /\ MaxOf(player, Pids) \in 0 .. MaxPlayer
        /\ \A p \in Pids : player[p] # None => p <= MaxOf(player, Pids)
    BY AccountsAssumption, MaxOfFacts DEF Pids
  <2>2. /\ MaxOf(board, Bids) \in 0 .. MaxBoard
        /\ \A b \in Bids : board[b] # None => b <= MaxOf(board, Bids)
    BY AccountsAssumption, MaxOfFacts DEF Bids
  <2>3. MaxOf(message, Mids) \in 0 .. MaxMessage
    BY AccountsAssumption, MaxOfFacts DEF Mids
  <2>4. /\ nextid' \in 1 .. MaxPlayer + 1
        /\ \A p \in Pids : player[p] # None => p < nextid'
    BY <1>3, <2>1, AccountsAssumption DEF Pids
  <2>5. /\ nextbid' \in 1 .. MaxBoard + 1
        /\ \A b \in Bids : board[b] # None => b < nextbid'
    BY <1>3, <2>2, AccountsAssumption DEF Bids
  <2>6. nextmid' \in 1 .. MaxMessage + 1
    BY <1>3, <2>3, AccountsAssumption
  <2>7. QED BY <2>4, <2>5, <2>6
<1>5. Held \in [Known -> Account] /\ Known \subseteq Pids /\ \A p \in Known \ loaded : Held[p].owns = owned[p]
  BY <1>1, KnownFacts DEF Entries
<1>6. Known' = {p \in Pids : player[p] # None}
  BY <1>2 DEF Known
<1>7. todo = <<>>
  BY <1>1, <1>2 DEF Shapes
<1>8. \A p \in Known' : /\ p \in Known /\ p \in Pids /\ player[p] = Home(Held[p]) /\ player[p] \in Row
                        /\ Held[p] \in Account
  <2>1. \A p \in Known' : p \in Pids /\ player[p] # None /\ player[p] \in Row
    BY <1>1, <1>6 DEF Shapes
  <2>2. QED BY <1>1, <1>5, <2>1 DEF Entries
<1>9. \A p \in Known' : Held'[p] = Stored(p)
  BY <1>2 DEF Held, Entry, Stored
<1>10. ASSUME NEW p \in Known'
       PROVE  /\ Held'[p].name = Held[p].name /\ Held'[p].boardid = Held[p].boardid
              /\ Held'[p].owns = owned[p] /\ Home(Held'[p]) = player[p]
  <2>1. /\ Held'[p].name = player[p].name /\ Held'[p].boardid = player[p].boardid
        /\ Held'[p].owns = owned[p]
    <3>1. Held'[p] = Stored(p)
      BY <1>9
    <3>2. QED BY <3>1 DEF Stored
  <2>2. Home(Held'[p]) = [name |-> player[p].name, boardid |-> player[p].boardid]
    BY <2>1 DEF Home
  <2>3. player[p] = [name |-> player[p].name, boardid |-> player[p].boardid]
    BY <1>8 DEF Row
  <2>4. player[p].name = Held[p].name /\ player[p].boardid = Held[p].boardid
    BY <1>8, HomeOf
  <2>5. QED BY <2>1, <2>2, <2>3, <2>4
<1>11. Shapes'
  <2>1. players' \in [Pids -> Account \cup Row \cup {None}]
    BY <1>1, <1>2 DEF Shapes
  <2>2. nums' \in [Bids -> Nat \cup {None}] /\ lists' \in [Bids -> Seq(Mids)]
    BY <1>2
  <2>3. QED BY <1>1, <1>2, <1>4, <1>7, <2>1, <2>2 DEF Shapes
<1>12. Entries'
  BY <1>1, <1>2, <1>6, <1>8, <1>10 DEF Entries
<1>13. Ids'
  <2>1. ASSUME NEW p \in Known' PROVE p < nextid' /\ Held'[p].boardid < nextbid'
    <3>1. p < nextid' /\ player[p] # None
      BY <1>4, <1>6
    <3>2. player[p].boardid \in Bids /\ player[p].boardid = Held'[p].boardid
      BY <1>8, <1>10, HomeOf
    <3>3. board[player[p].boardid] # None
      BY <1>1, <1>8, <3>1 DEF Housed
    <3>4. QED BY <1>4, <3>1, <3>2, <3>3
  <2>2. ASSUME NEW b \in Bids, board[b] # None \/ nums'[b] # None PROVE b < nextbid'
    BY <1>2, <1>4, <2>2
  <2>3. QED BY <1>2, <2>1, <2>2 DEF Ids
<1>14. Len(todo') = 0 /\ todo' \in Seq(Sent')
  BY <1>2, <1>7
<1>15. Housed'
  BY <1>1, <1>2, <1>14 DEF Housed
<1>16. Written'
  BY <1>2 DEF Written
<1>17. Apart'
  <2>1. ASSUME NEW p \in Known' \ torn.players
        PROVE  Held'[p].owns = Held[p].owns /\ p \in Known \ torn.players
    <3>1. p \in Known /\ Held'[p].owns = owned[p]
      BY <1>8, <1>10
    <3>2. CASE p \in loaded
      <4>1. ~ Has(todo, "owned", p)
        BY <1>7, NothingToSend
      <4>2. QED BY <1>1, <3>1, <3>2, <4>1 DEF Written
    <3>3. CASE p \notin loaded
      BY <1>5, <3>1, <3>3
    <3>4. QED BY <3>1, <3>2, <3>3
  <2>2. QED BY <1>1, <1>2, <2>1 DEF Apart
<1>18. Answered(todo', OwnNeeds(Held'))
  BY <1>14 DEF Answered
<1>19. QED BY <1>11, <1>12, <1>13, <1>14, <1>15, <1>16, <1>17, <1>18 DEF PlayersInv

-----------------------------------------------------------------------------
(* What is sent of boards and of players *)

LEMMA OneMoreAtEnd ==
  ASSUME NEW S, NEW s \in Seq(S), NEW d \in S
  PROVE  /\ s \o <<d>> \in Seq(S) /\ Len(s \o <<d>>) = Len(s) + 1
         /\ \A k \in 1 .. Len(s) : (s \o <<d>>)[k] = s[k]
         /\ (s \o <<d>>)[Len(s) + 1] = d
OBVIOUS

LEMMA FourInAll ==
  ASSUME NEW S, NEW a \in S, NEW b \in S, NEW c \in S, NEW d \in S
  PROVE  <<a>> \o <<b, c>> \o <<d>> = <<a, b, c, d>>
<1> DEFINE s == <<a>> \o <<b, c>>
           t == s \o <<d>>
           u == <<a, b, c, d>>
<1>1. s \in Seq(S) /\ Len(s) = 3 /\ s[1] = a /\ s[2] = b /\ s[3] = c
  OBVIOUS
<1> HIDE DEF s
<1>2. /\ s \o <<d>> \in Seq(S) /\ Len(s \o <<d>>) = Len(s) + 1
      /\ \A k \in 1 .. Len(s) : (s \o <<d>>)[k] = s[k]
      /\ (s \o <<d>>)[Len(s) + 1] = d
  BY <1>1, OneMoreAtEnd
<1>3. t \in Seq(S) /\ Len(t) = 4 /\ t[1] = a /\ t[2] = b /\ t[3] = c /\ t[4] = d
  BY <1>1, <1>2
<1> HIDE DEF t
<1>4. u \in Seq(S) /\ Len(u) = 4 /\ u[1] = a /\ u[2] = b /\ u[3] = c /\ u[4] = d
  OBVIOUS
<1> HIDE DEF u
<1>5. \A k \in 1 .. Len(t) : t[k] = u[k]
  <2>1. ASSUME NEW k \in 1 .. Len(t) PROVE t[k] = u[k]
    <3>1. k \in {1, 2, 3, 4}
      BY <1>3
    <3>2. QED BY <1>3, <1>4, <3>1
  <2>2. QED BY <2>1
<1>6. t = u
  BY <1>3, <1>4, <1>5, SeqEqual
<1>7. QED BY <1>6 DEF s, t, u

\* A message is written or deleted, then the list of its board and the board.
BoardStatements(m, value, b, list) ==
  << Sql("message", m, value), Sql("slots", b, <<>>), Sql("slots", b, list), Sql("board", b, Len(list)) >>

LEMMA FourStatements ==
  ASSUME NEW a, NEW b, NEW c, NEW d
  PROVE  <<a>> \o <<b, c>> \o <<d>> = <<a, b, c, d>>
<1> DEFINE S == {a, b, c, d}
<1>1. a \in S /\ b \in S /\ c \in S /\ d \in S
  OBVIOUS
<1> HIDE DEF S
<1>2. QED BY <1>1, FourInAll

LEMMA AddMessageIs ==
  ASSUME NEW b, NEW m, NEW no, NEW list
  PROVE  AddMessage(b, m, no, list) = BoardStatements(m, [to |-> b, no |-> no], b, list)
BY FourStatements DEF AddMessage, SaveMessageList, BoardStatements

LEMMA RemovalIs ==
  ASSUME NEW b, NEW m, NEW list
  PROVE  <<Sql("message", m, None)>> \o SaveMessageList(b, list) \o <<Sql("board", b, Len(list))>>
         = BoardStatements(m, None, b, list)
BY FourStatements DEF SaveMessageList, BoardStatements

LEMMA BoardStatementsAre ==
  ASSUME NEW b, NEW m, NEW value, NEW list
  PROVE  /\ Len(BoardStatements(m, value, b, list)) = 4
         /\ BoardStatements(m, value, b, list)[1] = Sql("message", m, value)
         /\ BoardStatements(m, value, b, list)[2] = Sql("slots", b, <<>>)
         /\ BoardStatements(m, value, b, list)[3] = Sql("slots", b, list)
         /\ BoardStatements(m, value, b, list)[4] = Sql("board", b, Len(list))
BY DEF BoardStatements

LEMMA BoardStatementsIn ==
  ASSUME NEW b, NEW m, NEW value, NEW list, NEW Z,
         Sql("message", m, value) \in Z, Sql("slots", b, <<>>) \in Z, Sql("slots", b, list) \in Z,
         Sql("board", b, Len(list)) \in Z
  PROVE  BoardStatements(m, value, b, list) \in Seq(Z)
BY DEF BoardStatements

LEMMA BoardStatementsTables ==
  ASSUME NEW b, NEW m, NEW value, NEW list, NEW k \in 1 .. Len(BoardStatements(m, value, b, list))
  PROVE  BoardStatements(m, value, b, list)[k].table \in {"message", "slots", "board"}
<1> DEFINE s == BoardStatements(m, value, b, list)
<1>1. /\ Len(s) = 4 /\ s[1] = Sql("message", m, value) /\ s[2] = Sql("slots", b, <<>>)
      /\ s[3] = Sql("slots", b, list) /\ s[4] = Sql("board", b, Len(list))
  BY BoardStatementsAre
<1> HIDE DEF s
<1>2. k \in {1, 2, 3, 4}
  BY <1>1 DEF s
<1>3. s[k].table \in {"message", "slots", "board"}
  BY <1>1, <1>2, SqlParts
<1>4. QED BY <1>3 DEF s

LEMMA UpdatePlayerIs ==
  ASSUME NEW p, NEW a
  PROVE  /\ Len(UpdatePlayer(p, a)) = 3
         /\ UpdatePlayer(p, a)[1] = Sql("player", p, Home(a))
         /\ UpdatePlayer(p, a)[2] = Sql("owned", p, {})
         /\ UpdatePlayer(p, a)[3] = Sql("owned", p, a.owns)
BY DEF UpdatePlayer, Home

LEMMA UpdatePlayerIn ==
  ASSUME NEW p, NEW a, NEW Z,
         Sql("player", p, Home(a)) \in Z, Sql("owned", p, {}) \in Z, Sql("owned", p, a.owns) \in Z
  PROVE  UpdatePlayer(p, a) \in Seq(Z)
BY DEF UpdatePlayer, Home

LEMMA UpdatePlayerHas ==
  ASSUME NEW p, NEW a
  PROVE  Has(UpdatePlayer(p, a), "player", p) /\ Has(UpdatePlayer(p, a), "owned", p)
<1> DEFINE s == UpdatePlayer(p, a)
<1>1. /\ Len(s) = 3 /\ s[1] = Sql("player", p, Home(a)) /\ s[2] = Sql("owned", p, {})
      /\ s[3] = Sql("owned", p, a.owns)
  BY UpdatePlayerIs
<1> HIDE DEF s
<1>2. 1 \in 1 .. Len(s) /\ 2 \in 1 .. Len(s)
  BY <1>1
<1>3. Has(s, "player", p) /\ Has(s, "owned", p)
  BY <1>1, <1>2, SqlParts DEF Has
<1>4. QED BY <1>3 DEF s

LEMMA UpdatePlayerAnswered ==
  ASSUME NEW p \in Pids, NEW a \in Account, NEW h, h[p].owns = a.owns
  PROVE  Answered(UpdatePlayer(p, a), OwnNeeds(h))
<1> DEFINE s == UpdatePlayer(p, a)
<1>1. /\ Len(s) = 3 /\ s[1] = Sql("player", p, Home(a)) /\ s[2] = Sql("owned", p, {})
      /\ s[3] = Sql("owned", p, a.owns)
  BY UpdatePlayerIs
<1>2. s[1] \in Statement /\ s[2] \in Statement /\ s[3] \in Statement
  BY <1>1, HomeOf, SqlStatements
<1> HIDE DEF s
<1>3. OwnNeeds(h)[s[1]] = {}
  BY <1>1, <1>2, SqlParts DEF OwnNeeds
<1>4. OwnNeeds(h)[s[2]] = {{Sql("owned", p, a.owns)}}
  <2>1. s[2].table = "owned" /\ s[2].id = p
    BY <1>1, SqlParts
  <2>2. QED BY <1>2, <2>1 DEF OwnNeeds
<1>5. OwnNeeds(h)[s[3]] = {{Sql("owned", p, a.owns)}}
  <2>1. s[3].table = "owned" /\ s[3].id = p
    BY <1>1, SqlParts
  <2>2. QED BY <1>2, <2>1 DEF OwnNeeds
<1>6. ASSUME NEW k \in 1 .. Len(s), NEW X \in OwnNeeds(h)[s[k]]
      PROVE  \E j \in k .. Len(s) : s[j] \in X
  <2>1. k \in {1, 2, 3}
    BY <1>1
  <2>2. X = {Sql("owned", p, a.owns)}
    BY <1>3, <1>4, <1>5, <1>6, <2>1
  <2>3. 3 \in k .. Len(s)
    BY <1>1, <2>1
  <2>4. QED BY <1>1, <2>2, <2>3
<1>7. QED BY <1>6 DEF Answered, s

LEMMA PlainAnswered ==
  ASSUME NEW s \in Seq(Statement), \A k \in 1 .. Len(s) : s[k].table # "owned", NEW h
  PROVE  Answered(s, OwnNeeds(h))
<1>1. \A k \in 1 .. Len(s) : OwnNeeds(h)[s[k]] = {}
  <2>1. \A k \in 1 .. Len(s) : s[k] \in Statement
    OBVIOUS
  <2>2. QED BY <2>1 DEF OwnNeeds
<1>2. QED BY <1>1 DEF Answered

\* Boards that come to share a message are torn.
LEMMA SharedFacts ==
  ASSUME Shapes, NEW ids, NEW bs \in SUBSET Bids
  PROVE  /\ Shared(ids, bs) \in [boards : SUBSET Bids, players : SUBSET Pids]
         /\ Shared(ids, bs).players = torn.players
         /\ \A b \in Bids : b \notin Shared(ids, bs).boards =>
              /\ b \notin torn.boards /\ Range(slots[b]) \cap ids = {}
              /\ b \in bs => \A c \in Bids : Range(slots[c]) \cap ids = {}
<1> DEFINE H == {b \in Bids : Range(slots[b]) \cap ids # {}}
<1>1. torn \in [boards : SUBSET Bids, players : SUBSET Pids]
  BY DEF Shapes
<1>2. Shared(ids, bs) = IF H = {} THEN torn ELSE [torn EXCEPT !.boards = @ \cup H \cup bs]
  BY DEF Shared
<1>3. H \subseteq Bids /\ \A b \in Bids : b \notin H => Range(slots[b]) \cap ids = {}
  OBVIOUS
<1> HIDE DEF H
<1>4. CASE H = {}
  BY <1>1, <1>2, <1>3, <1>4
<1>5. CASE H # {}
  <2>1. /\ Shared(ids, bs) \in [boards : SUBSET Bids, players : SUBSET Pids]
        /\ Shared(ids, bs).players = torn.players
        /\ Shared(ids, bs).boards = torn.boards \cup H \cup bs
    BY <1>1, <1>2, <1>3, <1>5
  <2>2. QED BY <1>3, <2>1
<1>6. QED BY <1>4, <1>5

-----------------------------------------------------------------------------
(* The players, step by step: messages *)

LEMMA ListFacts ==
  ASSUME Shapes, Ids, NEW b \in Bids, Num(b) # None
  PROVE  /\ List(b) \in Seq(Mids) /\ Len(List(b)) \in Nat /\ Num(b) \in Nat /\ b < nextbid
         /\ EndOf(Num(b), List(b)) \subseteq 0 .. Len(List(b))
<1>1. List(b) \in Seq(Mids) /\ Num(b) \in Nat
  BY DEF Shapes, List, Num
<1>2. Len(List(b)) \in Nat
  BY <1>1
<1>3. EndOf(Num(b), List(b)) \subseteq 0 .. Len(List(b))
  BY <1>1, <1>2 DEF EndOf
<1>4. b < nextbid
  BY DEF Num, Ids
<1>5. QED BY <1>1, <1>2, <1>3, <1>4

LEMMA AddedFacts ==
  ASSUME NEW S, NEW list \in Seq(S), NEW m \in S, NEW k \in 0 .. Len(list)
  PROVE  /\ Added(list, m, k) \in Seq(S) /\ Len(Added(list, m, k)) = Len(list) + 1
         /\ \A i \in 1 .. Len(list) + 1 : Added(list, m, k)[i] =
              IF i <= k THEN list[i] ELSE IF i = k + 1 THEN m ELSE list[i - 1]
<1> DEFINE p == k + 1
           t == InsertAt(list, p, m)
<1>1. p \in 1 .. Len(list) + 1
  OBVIOUS
<1>2. p = k + 1 /\ Added(list, m, k) = t
  BY DEF Added
<1> HIDE DEF p
<1>3. /\ t \in Seq(S) /\ Len(t) = Len(list) + 1
      /\ \A i \in 1 .. Len(list) + 1 : t[i] = IF i < p THEN list[i] ELSE IF i = p THEN m ELSE list[i - 1]
  BY <1>1, InsertAtProperties
<1> HIDE DEF t
<1>4. \A i \in 1 .. Len(list) + 1 : i < p <=> i <= k
  BY <1>2
<1>5. QED BY <1>2, <1>3, <1>4

\* The list of one board is written again.
BoardChange(b, m, value, list) ==
  /\ lists' = [lists EXCEPT ![b] = list] /\ nums' = [nums EXCEPT ![b] = Len(list)]
  /\ todo' = BoardStatements(m, value, b, list)

LEMMA BoardStep ==
  ASSUME PlayersInv, Free, NEW b \in Bids, b < nextbid, NEW m \in Mids, NEW value \in Message \cup {None},
         NEW list \in Seq(Mids), BoardChange(b, m, value, list),
         UNCHANGED <<tables, up, players, loaded, nextid, nextbid>>,
         nextmid' \in 1 .. MaxMessage + 1, posts' \in 0 .. MaxPosts,
         torn' \in [boards : SUBSET Bids, players : SUBSET Pids], torn'.players = torn.players
  PROVE  PlayersInv'
<1>1. Shapes /\ Entries /\ Ids /\ Housed /\ Written /\ Apart /\ up /\ up' = up
  BY DEF PlayersInv, Free
<1>2. /\ UNCHANGED <<player, owned, board, slots, message, up, players, loaded, nextid, nextbid>>
      /\ Held' = Held /\ Known' = Known
  BY DEF tables, Held, Known, Entry, Stored
<1>3. Len(list) \in Nat
  OBVIOUS
<1>4. /\ lists' \in [Bids -> Seq(Mids)] /\ nums' \in [Bids -> Nat \cup {None}]
      /\ \A c \in Bids : nums'[c] # None => nums[c] # None \/ c = b
  BY <1>1, <1>3 DEF Shapes, BoardChange
<1>5. Shapes'
  BY <1>1, <1>2, <1>4 DEF Shapes
<1>6. Entries' /\ Apart'
  BY <1>1, <1>2 DEF Entries, Apart
<1>7. Ids'
  BY <1>1, <1>2, <1>4 DEF Ids
<1>8. \A k \in 1 .. Len(todo') : todo'[k].table \in {"message", "slots", "board"}
  BY BoardStatementsTables DEF BoardChange
<1>9. Housed'
  <2>1. \A p \in Pids : player[p] # None => board[player[p].boardid] # None
    BY <1>1 DEF Housed
  <2>2. QED BY <1>2, <1>8, <2>1 DEF Housed
<1>10. Written'
  <2>1. \A p \in loaded : p \in Known
    BY <1>1 DEF Shapes
  <2>2. QED BY <1>2, <2>1, FreeFacts DEF Written
<1>11. todo' \in Seq(Sent') /\ todo' \in Seq(Statement)
  <2>1. /\ Sql("message", m, value) \in Statement /\ Sql("slots", b, <<>>) \in Statement
        /\ Sql("slots", b, list) \in Statement /\ Sql("board", b, Len(list)) \in Statement
    <3>1. <<>> \in Seq(Mids)
      OBVIOUS
    <3>2. QED BY <1>3, <3>1, SqlStatements
  <2>2. /\ Sql("message", m, value) \in Sent' /\ Sql("slots", b, <<>>) \in Sent'
        /\ Sql("slots", b, list) \in Sent' /\ Sql("board", b, Len(list)) \in Sent'
    BY <1>2, <2>1, SqlParts DEF Sent
  <2>3. QED BY <2>1, <2>2, BoardStatementsIn DEF BoardChange
<1>12. Answered(todo', OwnNeeds(Held'))
  BY <1>8, <1>11, PlainAnswered
<1>13. QED BY <1>5, <1>6, <1>7, <1>9, <1>10, <1>11, <1>12 DEF PlayersInv

\* Where a message may be posted.
LEMMA PostDoes ==
  ASSUME PlayersInv, NEW b \in Bids, NEW pos \in -1 .. MaxMessage, Post(b, pos)
  PROVE  \E k \in 0 .. Len(List(b)) :
           LET list == Added(List(b), nextmid, k)
           IN  /\ BoardChange(b, nextmid, [to |-> b, no |-> posts], list)
               /\ mail' = IF b \in torn.boards THEN mail
                          ELSE [mail EXCEPT ![b] = Added(@, [to |-> b, no |-> posts], k)]
               /\ list \in Seq(Mids)
<1>1. Shapes /\ Ids
  BY DEF PlayersInv
<1>2. Num(b) # None /\ nextmid \in Mids
  BY DEF Post
<1>3. EndOf(Num(b), List(b)) \subseteq 0 .. Len(List(b)) /\ List(b) \in Seq(Mids)
  BY <1>1, <1>2, ListFacts
<1> DEFINE K == IF pos = -1 THEN EndOf(Num(b), List(b)) ELSE {pos} \cap 0 .. Len(List(b))
           list(k) == Added(List(b), nextmid, k)
<1>4. PICK k \in K :
        /\ lists' = [lists EXCEPT ![b] = list(k)]
        /\ nums' = [nums EXCEPT ![b] = Len(list(k))]
        /\ todo' = AddMessage(b, nextmid, posts, list(k))
        /\ mail' = IF b \in torn.boards THEN mail
                   ELSE [mail EXCEPT ![b] = Added(@, [to |-> b, no |-> posts], k)]
  BY Zenon DEF Post
<1>5. k \in 0 .. Len(List(b))
  BY <1>3
<1>6. list(k) \in Seq(Mids)
  BY <1>2, <1>3, <1>5, AddedFacts
<1> HIDE DEF K
<1>7. BoardChange(b, nextmid, [to |-> b, no |-> posts], list(k))
  BY <1>4, AddMessageIs DEF BoardChange
<1>8. QED BY <1>4, <1>5, <1>6, <1>7

LEMMA PostPlayers ==
  ASSUME PlayersInv, NEW b \in Bids, NEW pos \in -1 .. MaxMessage, Post(b, pos)
  PROVE  PlayersInv'
<1>1. Shapes /\ Ids
  BY DEF PlayersInv
<1>2. /\ Free /\ posts < MaxPosts /\ nextmid \in Mids /\ Num(b) # None
      /\ nextmid' = nextmid + 1 /\ posts' = posts + 1 /\ torn' = Shared({nextmid}, {b})
      /\ UNCHANGED <<tables, up, players, loaded, nextid, nextbid>>
  BY DEF Post
<1>3. b < nextbid
  BY <1>1, <1>2, ListFacts
<1>4. PICK k : /\ BoardChange(b, nextmid, [to |-> b, no |-> posts], Added(List(b), nextmid, k))
               /\ Added(List(b), nextmid, k) \in Seq(Mids)
  BY PostDoes
<1>5. posts \in 0 .. MaxPosts /\ posts' \in 0 .. MaxPosts /\ nextmid' \in 1 .. MaxMessage + 1
  BY <1>1, <1>2, AccountsAssumption DEF Shapes, Mids
<1>6. [to |-> b, no |-> posts] \in Message
  BY <1>5 DEF Message
<1>7. torn' \in [boards : SUBSET Bids, players : SUBSET Pids] /\ torn'.players = torn.players
  BY <1>1, <1>2, SharedFacts
<1>8. QED BY <1>2, <1>3, <1>4, <1>5, <1>6, <1>7, BoardStep

LEMMA RemoveDoes ==
  ASSUME PlayersInv, NEW b \in Bids, NEW pos \in 0 .. MaxMessage, RemoveMessage(b, pos)
  PROVE  /\ pos + 1 \in 1 .. Len(List(b)) /\ List(b)[pos + 1] \in Mids /\ List(b) \in Seq(Mids)
         /\ RemoveAt(List(b), pos + 1) \in Seq(Mids)
         /\ BoardChange(b, List(b)[pos + 1], None, RemoveAt(List(b), pos + 1))
         /\ mail' = IF b \in torn.boards THEN mail ELSE [mail EXCEPT ![b] = RemoveAt(@, pos + 1)]
<1>1. Shapes /\ Ids
  BY DEF PlayersInv
<1>2. Num(b) # None /\ pos < Len(List(b))
  BY DEF RemoveMessage
<1>3. List(b) \in Seq(Mids) /\ Len(List(b)) \in Nat
  BY <1>1, <1>2, ListFacts
<1>4. pos + 1 \in 1 .. Len(List(b)) /\ List(b)[pos + 1] \in Mids
  BY <1>2, <1>3
<1>5. RemoveAt(List(b), pos + 1) \in Seq(Mids)
  BY <1>3, <1>4, RemoveAtProperties
<1>6. BoardChange(b, List(b)[pos + 1], None, RemoveAt(List(b), pos + 1))
  BY RemovalIs DEF RemoveMessage, BoardChange
<1>7. mail' = IF b \in torn.boards THEN mail ELSE [mail EXCEPT ![b] = RemoveAt(@, pos + 1)]
  BY DEF RemoveMessage
<1>8. QED BY <1>3, <1>4, <1>5, <1>6, <1>7

LEMMA RemovePlayers ==
  ASSUME PlayersInv, NEW b \in Bids, NEW pos \in 0 .. MaxMessage, RemoveMessage(b, pos)
  PROVE  PlayersInv'
<1>1. Shapes /\ Ids
  BY DEF PlayersInv
<1>2. /\ Free /\ posts < MaxPosts /\ Num(b) # None /\ posts' = posts + 1
      /\ UNCHANGED <<tables, up, players, loaded, nextid, nextbid, nextmid, torn>>
  BY DEF RemoveMessage, counters
<1>3. b < nextbid
  BY <1>1, <1>2, ListFacts
<1>4. posts' \in 0 .. MaxPosts /\ nextmid' \in 1 .. MaxMessage + 1
      /\ torn' \in [boards : SUBSET Bids, players : SUBSET Pids] /\ torn'.players = torn.players
  BY <1>1, <1>2, AccountsAssumption DEF Shapes
<1>5. /\ List(b)[pos + 1] \in Mids /\ RemoveAt(List(b), pos + 1) \in Seq(Mids)
      /\ BoardChange(b, List(b)[pos + 1], None, RemoveAt(List(b), pos + 1))
  BY RemoveDoes
<1>6. QED BY <1>2, <1>3, <1>4, <1>5, BoardStep

-----------------------------------------------------------------------------
(* The players, step by step: log in and the end of a turn *)

LEMMA InOrderFacts ==
  ASSUME NEW n \in Nat, NEW S \in SUBSET (1 .. n), NEW s \in InOrder(S)
  PROVE  /\ Cardinality(S) \in Nat /\ s \in [1 .. Cardinality(S) -> S] /\ DOMAIN s = 1 .. Cardinality(S)
         /\ IsInjective(s)
         /\ \A x \in S : \E i \in 1 .. Cardinality(S) : s[i] = x
<1> DEFINE m == Cardinality(S)
<1>1. IsFiniteSet(1 .. n)
  BY FS_Interval
<1>2. IsFiniteSet(S) /\ m \in Nat
  BY <1>1, FS_Subset, FS_CardinalityType
<1>3. s \in [1 .. m -> S] /\ \A i, j \in 1 .. m : i < j => s[i] < s[j]
  BY DEF InOrder
<1> HIDE DEF m
<1>4. \A i, j \in 1 .. m : s[i] = s[j] => i = j
  <2>1. SUFFICES ASSUME NEW i \in 1 .. m, NEW j \in 1 .. m, s[i] = s[j], i # j PROVE FALSE
    OBVIOUS
  <2>2. s[i] \in Nat /\ s[j] \in Nat
    <3>1. s[i] \in S /\ s[j] \in S
      BY <1>3
    <3>2. \A x \in S : x \in Nat
      OBVIOUS
    <3>3. QED BY <3>1, <3>2
  <2>3. i < j \/ j < i
    BY <1>2, <2>1
  <2>4. QED BY <1>3, <2>1, <2>2, <2>3
<1>5. ASSUME NEW x \in S, \A i \in 1 .. m : s[i] # x PROVE FALSE
  <2> DEFINE T == S \ {x}
  <2>1. IsFiniteSet(T) /\ Cardinality(T) = m - 1
    BY <1>2, FS_RemoveElement DEF m
  <2>2. IsFiniteSet(1 .. m) /\ Cardinality(1 .. m) = m
    <3>1. IsFiniteSet(1 .. m) /\ Cardinality(1 .. m) = IF 1 > m THEN 0 ELSE m - 1 + 1
      BY <1>2, FS_Interval
    <3>2. QED BY <1>2, <3>1
  <2>3. s \in [1 .. m -> T]
    BY <1>3, <1>5
  <2> HIDE DEF T
  <2>4. Cardinality(T) < Cardinality(1 .. m)
    BY <1>2, <2>1, <2>2
  <2>5. \E i, j \in 1 .. m : i # j /\ s[i] = s[j]
    BY <2>1, <2>2, <2>3, <2>4, FS_PigeonHole
  <2>6. QED BY <1>4, <2>5
<1>6. QED BY <1>2, <1>3, <1>4, <1>5 DEF m, IsInjective

LEMMA FoundPlayers ==
  ASSUME PlayersInv, Free, NEW n, NEW what, Found(n, what)
  PROVE  PlayersInv'
<1> DEFINE S == Searched(n)
<1>1. S \in SUBSET Known
  BY DEF Searched
<1>2. /\ players' = Reading(S) /\ loaded' = loaded \cup S
      /\ UNCHANGED <<player, owned, board, slots, message, up, nums, lists, nextid, nextbid, nextmid, todo, torn, posts>>
  BY DEF Found, tables, counters, bounds
<1> HIDE DEF S
<1>3. Shapes /\ Entries /\ Ids /\ Housed /\ Written /\ Apart /\ todo = <<>> /\ up
  BY DEF PlayersInv, Free
<1>4. /\ players' \in [Pids -> Account \cup Row \cup {None}]
      /\ \A p \in S : players'[p] = Held[p] /\ Held[p] \in Account
      /\ \A p \in Pids \ S : players'[p] = players[p]
      /\ \A p \in loaded : players'[p] = Held[p]
      /\ Known' = Known
  <2>1. {p \in Pids : players'[p] # None} = Known
    BY <1>1, <1>2, <1>3, ReadingFacts
  <2>2. Known' = Known
    BY <2>1 DEF Known
  <2>3. QED BY <1>1, <1>2, <1>3, <2>2, ReadingFacts
<1>5. /\ Held \in [Known -> Account] /\ Known \subseteq Pids /\ loaded \subseteq Known
      /\ \A p \in loaded : Held[p] = players[p]
      /\ \A p \in Known \ loaded : Held[p] = Stored(p)
  BY <1>3, KnownFacts DEF Entries, Shapes
<1>6. Held' = Held
  <2>1. ASSUME NEW p \in Known PROVE Entry(p)' = Held[p]
    <3>1. CASE p \in loaded'
      <4>1. players'[p] = Held[p]
        BY <1>2, <1>4, <3>1
      <4>2. QED BY <3>1, <4>1 DEF Entry
    <3>2. CASE p \notin loaded'
      <4>1. p \notin loaded
        BY <1>2, <3>2
      <4>2. QED BY <1>2, <1>5, <3>2, <4>1 DEF Entry, Stored
    <3>3. QED BY <3>1, <3>2
  <2>2. Held' = [p \in Known |-> Entry(p)']
    BY <1>4 DEF Held
  <2>3. Held' = [p \in Known |-> Held[p]]
    BY <2>1, <2>2
  <2>4. QED BY <1>5, <2>3
<1>7. Shapes'
  <2>1. loaded' \subseteq Known' /\ \A p \in loaded' : players'[p] \in Account
    BY <1>1, <1>2, <1>4, <1>5
  <2>2. QED BY <1>2, <1>3, <1>4, <2>1 DEF Shapes
<1>8. Entries'
  BY <1>2, <1>3, <1>4, <1>6 DEF Entries
<1>9. Ids' /\ Apart'
  BY <1>2, <1>3, <1>4, <1>6 DEF Ids, Apart
<1>10. Len(todo') = 0 /\ todo' \in Seq(Sent')
  BY <1>2, <1>3
<1>11. Housed'
  BY <1>2, <1>3, <1>10 DEF Housed
<1>12. Written'
  <2>1. \A p \in loaded' : p \in Known
    BY <1>1, <1>2, <1>5
  <2>2. QED BY <1>2, <1>6, <2>1, FreeFacts DEF Written
<1>13. Answered(todo', OwnNeeds(Held'))
  BY <1>10 DEF Answered
<1>14. QED BY <1>7, <1>8, <1>9, <1>10, <1>11, <1>12, <1>13 DEF PlayersInv

\* What the players have when an object has changed hands.
TurnFacts(p, q, o) ==
  /\ p \in Known /\ q \in Known /\ p # q /\ o \in Held[p].owns
  /\ loaded' = Known /\ Known' = Known
  /\ players' \in [Pids -> Account \cup Row \cup {None}]
  /\ \A r \in Known : /\ players'[r] \in Account
                      /\ players'[r].name = Held[r].name /\ players'[r].boardid = Held[r].boardid
                      /\ r # p /\ r # q => players'[r].owns = Held[r].owns
  /\ players'[p].owns = Held[p].owns \ {o} /\ players'[q].owns = Held[q].owns \cup {o}
  /\ \E all \in InOrder(Known) :
       todo' = FlattenSeq([k \in DOMAIN all |-> UpdatePlayer(all[k], players'[all[k]])])
  /\ torn' = IF p \in torn.players THEN [torn EXCEPT !.players = @ \cup {q}] ELSE torn

LEMMA TurnDoes ==
  ASSUME PlayersInv, NEW p \in Pids, NEW q \in Pids, NEW o \in Objects, Turn(p, q, o)
  PROVE  TurnFacts(p, q, o)
<1> DEFINE R == Reading(Known)
           now == [R EXCEPT ![p].owns = @ \ {o}, ![q].owns = @ \cup {o}]
<1>1. Shapes /\ Entries
  BY DEF PlayersInv
<1>2. p \in Known /\ q \in Known /\ p # q /\ o \in Entry(p).owns
  BY DEF Turn
<1>3. /\ players' = now /\ loaded' = loaded \cup Known
      /\ torn' = IF p \in torn.players THEN [torn EXCEPT !.players = @ \cup {q}] ELSE torn
      /\ \E all \in InOrder(Known) :
           todo' = FlattenSeq([k \in DOMAIN all |-> UpdatePlayer(all[k], players'[all[k]])])
  <2>1. players' = now
    BY DEF Turn
  <2>2. \E all \in InOrder(Known) :
          todo' = FlattenSeq([k \in DOMAIN all |-> UpdatePlayer(all[k], now[all[k]])])
    BY Zenon DEF Turn
  <2>3. loaded' = loaded \cup Known
    BY DEF Turn
  <2>4. torn' = IF p \in torn.players THEN [torn EXCEPT !.players = @ \cup {q}] ELSE torn
    BY Zenon DEF Turn
  <2> HIDE DEF now
  <2>5. QED BY <2>1, <2>2, <2>3, <2>4
<1>4. /\ R \in [Pids -> Account \cup Row \cup {None}]
      /\ \A r \in Known : R[r] = Held[r] /\ Held[r] \in Account
      /\ {r \in Pids : R[r] # None} = Known
  BY <1>1, ReadingFacts
<1>5. o \in Held[p].owns /\ loaded \subseteq Known
  BY <1>1, <1>2, KnownFacts DEF Entries, Shapes
<1> HIDE DEF R
<1>6. /\ \A r \in Pids : r # p /\ r # q => now[r] = R[r]
      /\ now[p] = [R[p] EXCEPT !.owns = @ \ {o}]
      /\ now[q] = [R[q] EXCEPT !.owns = @ \cup {o}]
      /\ now = [r \in Pids |-> now[r]]
  <2>1. DOMAIN R = Pids /\ R = [r \in Pids |-> R[r]] /\ p # q
    BY <1>2, <1>4
  <2>2. now = [r \in Pids |-> IF r = q THEN [R[q] EXCEPT !.owns = @ \cup {o}]
                            ELSE IF r = p THEN [R[p] EXCEPT !.owns = @ \ {o}] ELSE R[r]]
    BY <2>1
  <2> HIDE DEF now
  <2>3. QED BY <2>1, <2>2
<1> HIDE DEF now
<1>7. R[p] = Held[p] /\ R[q] = Held[q] /\ Held[p] \in Account /\ Held[q] \in Account
  BY <1>2, <1>4
<1>8. /\ now[p] \in Account /\ now[p].name = Held[p].name /\ now[p].boardid = Held[p].boardid
      /\ now[p].owns = Held[p].owns \ {o}
  BY <1>6, <1>7 DEF Account
<1>9. /\ now[q] \in Account /\ now[q].name = Held[q].name /\ now[q].boardid = Held[q].boardid
      /\ now[q].owns = Held[q].owns \cup {o}
  BY <1>6, <1>7 DEF Account
<1>10. ASSUME NEW r \in Known
       PROVE  /\ now[r] \in Account /\ now[r].name = Held[r].name /\ now[r].boardid = Held[r].boardid
              /\ r # p /\ r # q => now[r].owns = Held[r].owns
  <2>1. CASE r = p \/ r = q
    BY <1>8, <1>9, <2>1
  <2>2. CASE r # p /\ r # q
    <3>1. r \in Pids
      BY DEF Known
    <3>2. now[r] = Held[r]
      BY <1>4, <1>6, <2>2, <3>1
    <3>3. QED BY <1>4, <3>2
  <2>3. QED BY <2>1, <2>2
<1>11. now \in [Pids -> Account \cup Row \cup {None}]
  <2>1. \A r \in Pids : now[r] \in Account \cup Row \cup {None}
    BY <1>4, <1>6, <1>8, <1>9
  <2>2. QED BY <1>6, <2>1
<1>12. {r \in Pids : now[r] # None} = Known
  <2>1. \A r \in Pids : now[r] # None <=> R[r] # None
    BY <1>6, <1>7, <1>8, <1>9, HomeOf
  <2>2. QED BY <1>4, <2>1
<1>13. Known' = Known
  BY <1>3, <1>12 DEF Known
<1>14. loaded' = Known
  BY <1>3, <1>5
<1>15. QED BY <1>2, <1>3, <1>5, <1>8, <1>9, <1>10, <1>11, <1>13, <1>14 DEF TurnFacts

\* All players of a set are saved, as they are in a.
Saving(S, all, a, Z, h, u) ==
  /\ S \in SUBSET Pids /\ all \in InOrder(S) /\ \A r \in S : a[r] \in Account
  /\ \A r \in S : /\ Sql("player", r, Home(a[r])) \in Z /\ Sql("owned", r, {}) \in Z
                  /\ Sql("owned", r, a[r].owns) \in Z
  /\ \A r \in S : h[r].owns = a[r].owns
  /\ u = FlattenSeq([k \in DOMAIN all |-> UpdatePlayer(all[k], a[all[k]])])

LEMMA UpdatesFacts ==
  ASSUME NEW S, NEW all, NEW a, NEW Z, NEW h, NEW u, Saving(S, all, a, Z, h, u)
  PROVE  /\ u \in Seq(Z) /\ Answered(u, OwnNeeds(h))
         /\ \A r \in S : Has(u, "player", r) /\ Has(u, "owned", r)
<1> DEFINE n == Cardinality(S)
           ss == [k \in 1 .. n |-> UpdatePlayer(all[k], a[all[k]])]
<1>1. /\ S \in SUBSET Pids /\ all \in InOrder(S) /\ \A r \in S : a[r] \in Account
      /\ \A r \in S : /\ Sql("player", r, Home(a[r])) \in Z /\ Sql("owned", r, {}) \in Z
                      /\ Sql("owned", r, a[r].owns) \in Z
      /\ \A r \in S : h[r].owns = a[r].owns
      /\ u = FlattenSeq([k \in DOMAIN all |-> UpdatePlayer(all[k], a[all[k]])])
  BY DEF Saving
<1>2. /\ n \in Nat /\ all \in [1 .. n -> S] /\ DOMAIN all = 1 .. n
      /\ \A r \in S : \E i \in 1 .. n : all[i] = r
  <2>1. MaxPlayer \in Nat /\ S \in SUBSET (1 .. MaxPlayer) /\ all \in InOrder(S)
    BY <1>1, AccountsAssumption DEF Pids
  <2>2. QED BY <2>1, InOrderFacts
<1> HIDE DEF n
<1>3. \A k \in 1 .. n : UpdatePlayer(all[k], a[all[k]]) \in Seq(Z)
  <2>1. \A r \in S : UpdatePlayer(r, a[r]) \in Seq(Z)
    BY <1>1, UpdatePlayerIn
  <2>2. QED BY <1>2, <2>1
<1>4. ss \in Seq(Seq(Z)) /\ Len(ss) = n /\ \A k \in 1 .. n : ss[k] = UpdatePlayer(all[k], a[all[k]])
  BY <1>2, <1>3
<1>5. u = FlattenSeq(ss)
  BY <1>1, <1>2
<1> HIDE DEF ss
<1>6. u \in Seq(Z)
  BY <1>4, <1>5, FlattenSeqCovers
<1>7. Answered(u, OwnNeeds(h))
  <2>1. \A k \in 1 .. Len(ss) : Answered(ss[k], OwnNeeds(h))
    <3>1. SUFFICES ASSUME NEW k \in 1 .. n PROVE Answered(UpdatePlayer(all[k], a[all[k]]), OwnNeeds(h))
      BY <1>4
    <3>2. all[k] \in S /\ all[k] \in Pids
      BY <1>1, <1>2
    <3>3. QED BY <1>1, <3>2, UpdatePlayerAnswered
  <2>2. QED BY <1>4, <1>5, <2>1, AnsweredFlat
<1>8. ASSUME NEW r \in S PROVE Has(u, "player", r) /\ Has(u, "owned", r)
  <2>1. PICK i \in 1 .. n : all[i] = r
    BY <1>2
  <2>2. ss[i] = UpdatePlayer(r, a[r]) /\ i \in 1 .. Len(ss)
    BY <1>4, <2>1
  <2>3. Has(ss[i], "player", r) /\ Has(ss[i], "owned", r)
    BY <2>2, UpdatePlayerHas
  <2>4. QED BY <1>4, <1>5, <2>2, <2>3, HasFlat
<1>9. QED BY <1>6, <1>7, <1>8

LEMMA TurnPlayers ==
  ASSUME PlayersInv, NEW p \in Pids, NEW q \in Pids, NEW o \in Objects, Turn(p, q, o)
  PROVE  PlayersInv'
<1>1. TurnFacts(p, q, o)
  BY TurnDoes
<1>2. /\ Free /\ posts' = posts
      /\ UNCHANGED <<player, owned, board, slots, message, up, nums, lists, nextid, nextbid, nextmid>>
  BY DEF Turn, tables, counters
<1>3. Shapes /\ Entries /\ Ids /\ Housed /\ Written /\ Apart /\ up
  BY <1>2 DEF PlayersInv, Free
<1>4. /\ Held \in [Known -> Account] /\ Known \in SUBSET Pids
  BY <1>3, KnownFacts DEF Entries
<1>5. /\ Known' = Known /\ loaded' = Known
      /\ \A r \in Known : players'[r] \in Account
  BY <1>1 DEF TurnFacts
<1>6. Held' = [r \in Known |-> players'[r]]
  BY <1>5 DEF Held, Entry
<1>7. \A r \in Known : Held'[r].name = Held[r].name /\ Held'[r].boardid = Held[r].boardid
  BY <1>1, <1>6 DEF TurnFacts
<1>8. \A r \in Known : Home(Held'[r]) = Home(Held[r])
  BY <1>7 DEF Home
<1>9. /\ torn' \in [boards : SUBSET Bids, players : SUBSET Pids] /\ torn.players \subseteq torn'.players
      /\ p \in torn.players => q \in torn'.players
  <2>1. torn \in [boards : SUBSET Bids, players : SUBSET Pids]
    BY <1>3 DEF Shapes
  <2>2. CASE p \in torn.players
    <3>1. torn' = [torn EXCEPT !.players = @ \cup {q}]
      BY <1>1, <2>2 DEF TurnFacts
    <3>2. QED BY <2>1, <3>1
  <2>3. CASE p \notin torn.players
    BY <1>1, <2>1, <2>3 DEF TurnFacts
  <2>4. QED BY <2>2, <2>3
<1>10. PICK all \in InOrder(Known) :
         todo' = FlattenSeq([k \in DOMAIN all |-> UpdatePlayer(all[k], players'[all[k]])])
  BY <1>1 DEF TurnFacts
<1>11. ASSUME NEW r \in Known
       PROVE  /\ Sql("player", r, Home(players'[r])) \in Sent' /\ Sql("owned", r, {}) \in Sent'
              /\ Sql("owned", r, players'[r].owns) \in Sent'
  <2>1. r \in Pids /\ r \in loaded' /\ Home(players'[r]) \in Row /\ players'[r].owns \in SUBSET Objects
        /\ Held'[r] = players'[r]
    BY <1>4, <1>5, <1>6, HomeOf
  <2>2. /\ Sql("player", r, Home(players'[r])) \in Statement /\ Sql("owned", r, {}) \in Statement
        /\ Sql("owned", r, players'[r].owns) \in Statement
    BY <2>1, SqlStatements
  <2>3. QED BY <2>1, <2>2, SqlParts DEF Sent
<1>12. \A r \in Known : Held'[r].owns = players'[r].owns
  BY <1>6
<1>13. /\ todo' \in Seq(Sent') /\ Answered(todo', OwnNeeds(Held'))
       /\ \A r \in Known : Has(todo', "player", r) /\ Has(todo', "owned", r)
  <2> DEFINE Z == Sent'
             h == Held'
             a == players'
  <2> HIDE DEF Sent
  <2>1. Saving(Known, all, a, Z, h, todo')
    BY <1>4, <1>5, <1>10, <1>11, <1>12 DEF Saving
  <2> HIDE DEF Z, h, a
  <2>2. /\ todo' \in Seq(Z) /\ Answered(todo', OwnNeeds(h))
        /\ \A r \in Known : Has(todo', "player", r) /\ Has(todo', "owned", r)
    BY <2>1, UpdatesFacts
  <2>3. QED BY <2>2 DEF Z, h
<1>14. Shapes'
  <2>1. players' \in [Pids -> Account \cup Row \cup {None}]
    BY <1>1 DEF TurnFacts
  <2>2. QED BY <1>2, <1>3, <1>5, <1>9, <2>1 DEF Shapes
<1>15. Entries'
  <2>1. \A r \in Pids : player[r] # None => r \in Known /\ player[r] = Home(Held'[r])
    BY <1>3, <1>8 DEF Entries
  <2>2. \A r, s \in Known : r # s => Held'[r].name # Held'[s].name /\ Held'[r].boardid # Held'[s].boardid
    BY <1>3, <1>7 DEF Entries
  <2>3. QED BY <1>2, <1>5, <2>1, <2>2 DEF Entries
<1>16. Ids'
  BY <1>2, <1>3, <1>5, <1>7 DEF Ids
<1>17. Housed'
  <2>1. ASSUME NEW k \in 1 .. Len(todo'), todo'[k].table = "player"
        PROVE  board[todo'[k].value.boardid] # None
    <3>1. todo'[k] \in Sent'
      <4> HIDE DEF Sent
      <4>1. QED BY <1>13
    <3>2. todo'[k].id \in Known /\ todo'[k].value = Home(Held'[todo'[k].id])
      BY <1>5, <2>1, <3>1 DEF Sent
    <3>3. todo'[k].value.boardid = Held[todo'[k].id].boardid
      BY <1>7, <3>2 DEF Home
    <3>4. QED BY <1>2, <3>2, <3>3, FreeFacts
  <2>2. QED BY <1>2, <1>3, <2>1 DEF Housed
<1>18. Written'
  BY <1>2, <1>3, <1>5, <1>13 DEF Written
<1>19. Apart'
  <2>1. SUFFICES ASSUME NEW r \in Known \ torn'.players, NEW s \in Known \ torn'.players, r # s
                 PROVE  Held'[r].owns \cap Held'[s].owns = {}
    BY <1>5 DEF Apart
  <2>2. Held[r].owns \cap Held[s].owns = {}
    BY <1>3, <1>9, <2>1 DEF Apart
  <2>3. /\ \A x \in Known : x # p /\ x # q => Held'[x].owns = Held[x].owns
        /\ Held'[p].owns = Held[p].owns \ {o} /\ Held'[q].owns = Held[q].owns \cup {o}
        /\ p \in Known /\ q \in Known /\ p # q /\ o \in Held[p].owns
    BY <1>1, <1>12 DEF TurnFacts
  <2>4. \A x \in Known \ torn'.players : x # p /\ x # q => o \notin Held[x].owns \/ q \in torn'.players
    <3>1. CASE p \in torn.players
      BY <1>9, <3>1
    <3>2. CASE p \notin torn.players
      <4>1. \A x \in Known \ torn'.players : x # p => Held[x].owns \cap Held[p].owns = {}
        BY <1>3, <1>9, <2>3, <3>2 DEF Apart
      <4>2. QED BY <2>3, <4>1
    <3>3. QED BY <3>1, <3>2
  <2>5. CASE r = q
    <3>1. s # q /\ (s = p \/ o \notin Held[s].owns)
      BY <2>1, <2>4, <2>5
    <3>2. o \notin Held'[s].owns /\ Held'[s].owns \subseteq Held[s].owns
      BY <2>1, <2>3, <3>1
    <3>3. QED BY <2>2, <2>3, <2>5, <3>2
  <2>6. CASE s = q
    <3>1. r # q /\ (r = p \/ o \notin Held[r].owns)
      BY <2>1, <2>4, <2>6
    <3>2. o \notin Held'[r].owns /\ Held'[r].owns \subseteq Held[r].owns
      BY <2>1, <2>3, <3>1
    <3>3. QED BY <2>2, <2>3, <2>6, <3>2
  <2>7. CASE r # q /\ s # q
    <3>1. Held'[r].owns \subseteq Held[r].owns /\ Held'[s].owns \subseteq Held[s].owns
      BY <2>1, <2>3, <2>7
    <3>2. QED BY <2>2, <3>1
  <2>8. QED BY <2>5, <2>6, <2>7
<1>20. QED BY <1>13, <1>14, <1>15, <1>16, <1>17, <1>18, <1>19 DEF PlayersInv

-----------------------------------------------------------------------------
(* A new player *)

\* The boards of the others, and what their lists become.
Boards(others) == [k \in 1 .. Cardinality(Known) |-> Entry(others[k]).boardid]
Told(others, at) ==
  [k \in 1 .. Cardinality(Known) |-> Added(List(Boards(others)[k]), nextmid + k, at[k])]

\* What is sent to one of the others and of him.
Tell(others, at, k) ==
  BoardStatements(nextmid + k, [to |-> Boards(others)[k], no |-> posts], Boards(others)[k], Told(others, at)[k])
  \o UpdatePlayer(others[k], Held[others[k]])

NewAccount(n, home) == [name |-> n, boardid |-> nextbid, owns |-> home]

\* What is sent of a new player, and then of the others.
CreateSeq(b, m, value, p, a, tells) ==
  <<Sql("board", b, 0)>> \o BoardStatements(m, value, b, <<m>>) \o <<Sql("player", p, Home(a))>>
  \o UpdatePlayer(p, a) \o FlattenSeq(tells)

\* The others, each with a board of his own.
OthersFacts(others) ==
  /\ Cardinality(Known) \in Nat
  /\ \A k \in 1 .. Cardinality(Known) :
       /\ others[k] \in Known /\ Boards(others)[k] = Held[others[k]].boardid
       /\ Boards(others)[k] \in Bids /\ Boards(others)[k] < nextbid /\ Num(Boards(others)[k]) # None
  /\ \A k, l \in 1 .. Cardinality(Known) : Boards(others)[k] = Boards(others)[l] => k = l
  /\ \A p \in Known : \E k \in 1 .. Cardinality(Known) : others[k] = p

\* What they are told.
ToldFacts(others, at) ==
  \A k \in 1 .. Cardinality(Known) :
    /\ nextmid + k \in Mids /\ List(Boards(others)[k]) \in Seq(Mids)
    /\ at[k] \in 0 .. Len(List(Boards(others)[k])) /\ Told(others, at)[k] \in Seq(Mids)
    /\ Told(others, at)[k] = Added(List(Boards(others)[k]), nextmid + k, at[k])

LEMMA OthersAre ==
  ASSUME PlayersInv, Free, NEW others \in InOrder(Known)
  PROVE  OthersFacts(others)
<1> DEFINE m == Cardinality(Known)
           bo == Boards(others)
<1>1. Shapes /\ Entries /\ Ids
  BY DEF PlayersInv
<1>2. /\ Held \in [Known -> Account] /\ Known \subseteq Pids
      /\ \A p \in Known : Held[p] = Entry(p)
  BY <1>1, KnownFacts DEF Entries
<1>3. /\ m \in Nat /\ others \in [1 .. m -> Known]
      /\ \A i, j \in 1 .. m : others[i] = others[j] => i = j
      /\ \A x \in Known : \E i \in 1 .. m : others[i] = x
  <2>1. MaxPlayer \in Nat /\ Known \in SUBSET (1 .. MaxPlayer) /\ others \in InOrder(Known)
    BY <1>2, AccountsAssumption DEF Pids
  <2>2. m \in Nat /\ others \in [1 .. m -> Known]
    BY <2>1, InOrderFacts
  <2>3. IsInjective(others)
    BY <2>1, InOrderFacts
  <2>4. \A x \in Known : \E i \in 1 .. m : others[i] = x
    BY <2>1, InOrderFacts
  <2>5. QED BY <2>2, <2>3, <2>4 DEF IsInjective
<1>4. \A k \in 1 .. m : bo[k] = Entry(others[k]).boardid
  BY DEF Boards
<1> HIDE DEF m, bo
<1>5. ASSUME NEW k \in 1 .. m
      PROVE  /\ others[k] \in Known /\ bo[k] = Held[others[k]].boardid
             /\ bo[k] \in Bids /\ bo[k] < nextbid /\ Num(bo[k]) # None
  <2>1. others[k] \in Known
    BY <1>3
  <2>2. bo[k] = Held[others[k]].boardid /\ Held[others[k]] \in Account
    BY <1>2, <1>4, <2>1
  <2>3. bo[k] \in Bids
    BY <2>2, HomeOf
  <2>4. board[bo[k]] # None
    BY <2>1, <2>2, FreeFacts
  <2>5. Num(bo[k]) # None
    BY <2>4 DEF Num
  <2>6. bo[k] < nextbid
    BY <1>1, <2>1, <2>2 DEF Ids
  <2>7. QED BY <2>1, <2>2, <2>3, <2>5, <2>6
<1>6. ASSUME NEW k \in 1 .. m, NEW l \in 1 .. m, bo[k] = bo[l] PROVE k = l
  <2>1. others[k] = others[l]
    BY <1>1, <1>5, <1>6 DEF Entries
  <2>2. QED BY <1>3, <2>1
<1>7. QED BY <1>3, <1>5, <1>6 DEF OthersFacts, m, bo

LEMMA ToldAre ==
  ASSUME PlayersInv, Free, NEW others, OthersFacts(others), NEW at,
         nextmid + Cardinality(Known) \in Mids,
         \A k \in 1 .. Cardinality(Known) : at[k] \in EndOf(Num(Boards(others)[k]), List(Boards(others)[k]))
  PROVE  ToldFacts(others, at)
<1> DEFINE m == Cardinality(Known)
<1>1. Shapes /\ Ids /\ m \in Nat
  BY DEF PlayersInv, OthersFacts
<1>2. SUFFICES ASSUME NEW k \in 1 .. m
               PROVE  /\ nextmid + k \in Mids /\ List(Boards(others)[k]) \in Seq(Mids)
                      /\ at[k] \in 0 .. Len(List(Boards(others)[k])) /\ Told(others, at)[k] \in Seq(Mids)
                      /\ Told(others, at)[k] = Added(List(Boards(others)[k]), nextmid + k, at[k])
  BY DEF ToldFacts
<1>3. Boards(others)[k] \in Bids /\ Num(Boards(others)[k]) # None
  BY DEF OthersFacts
<1>4. Told(others, at)[k] = Added(List(Boards(others)[k]), nextmid + k, at[k])
  BY DEF Told
<1>5. nextmid + k \in Mids
  <2>1. nextmid \in 1 .. MaxMessage + 1 /\ MaxMessage \in Nat
    BY <1>1, AccountsAssumption DEF Shapes
  <2>2. nextmid + m <= MaxMessage
    BY DEF Mids
  <2> HIDE DEF m
  <2>3. QED BY <1>1, <2>1, <2>2 DEF Mids
<1>6. List(Boards(others)[k]) \in Seq(Mids) /\ at[k] \in 0 .. Len(List(Boards(others)[k]))
  BY <1>1, <1>3, ListFacts
<1>7. Told(others, at)[k] \in Seq(Mids)
  BY <1>4, <1>5, <1>6, AddedFacts
<1>8. QED BY <1>4, <1>5, <1>6, <1>7

\* Five sequences put one after the other.
InFive(Z, s, A, B, C, D, F) ==
  A \in Seq(Z) /\ B \in Seq(Z) /\ C \in Seq(Z) /\ D \in Seq(Z) /\ F \in Seq(Z)
  /\ s = A \o B \o C \o D \o F

\* One is put after the other.
OneByOne(Z, s, A, B, C, D, F, u, v, w) ==
  /\ A \in Seq(Z) /\ B \in Seq(Z) /\ C \in Seq(Z) /\ D \in Seq(Z) /\ F \in Seq(Z) /\ s \in Seq(Z)
  /\ u \in Seq(Z) /\ v \in Seq(Z) /\ w \in Seq(Z)
  /\ u = A \o B /\ v = u \o C /\ w = v \o D /\ s = w \o F

LEMMA FiveOneByOne ==
  ASSUME NEW Z, NEW s, NEW A, NEW B, NEW C, NEW D, NEW F, InFive(Z, s, A, B, C, D, F)
  PROVE  \E u, v, w : OneByOne(Z, s, A, B, C, D, F, u, v, w)
<1> DEFINE u == A \o B
           v == u \o C
           w == v \o D
<1>1. A \in Seq(Z) /\ B \in Seq(Z) /\ C \in Seq(Z) /\ D \in Seq(Z) /\ F \in Seq(Z) /\ s = w \o F
  BY DEF InFive
<1>2. u \in Seq(Z)
  BY <1>1
<1> HIDE DEF u
<1>3. v \in Seq(Z)
  BY <1>1, <1>2
<1> HIDE DEF v
<1>4. w \in Seq(Z)
  BY <1>1, <1>3
<1> HIDE DEF w
<1>5. s \in Seq(Z)
  BY <1>1, <1>4
<1>6. u = A \o B /\ v = u \o C /\ w = v \o D
  BY DEF u, v, w
<1>7. QED BY <1>1, <1>2, <1>3, <1>4, <1>5, <1>6 DEF OneByOne

LEMMA FiveHas ==
  ASSUME NEW Z, NEW s, NEW A, NEW B, NEW C, NEW D, NEW F, InFive(Z, s, A, B, C, D, F), NEW table, NEW id
  PROVE  Has(s, table, id) <=> \/ Has(A, table, id) \/ Has(B, table, id) \/ Has(C, table, id)
                               \/ Has(D, table, id) \/ Has(F, table, id)
<1>1. PICK u, v, w : OneByOne(Z, s, A, B, C, D, F, u, v, w)
  BY FiveOneByOne
<1>2. /\ A \in Seq(Z) /\ B \in Seq(Z) /\ C \in Seq(Z) /\ D \in Seq(Z) /\ F \in Seq(Z)
      /\ u \in Seq(Z) /\ v \in Seq(Z) /\ w \in Seq(Z)
  BY <1>1 DEF OneByOne
<1>3. u = A \o B /\ v = u \o C /\ w = v \o D /\ s = w \o F
  BY <1>1 DEF OneByOne
<1>4. Has(u, table, id) <=> Has(A, table, id) \/ Has(B, table, id)
  <2>1. Has(A \o B, table, id) <=> Has(A, table, id) \/ Has(B, table, id)
    BY <1>2, HasConcat
  <2>2. QED BY <1>3, <2>1, Zenon
<1>5. Has(v, table, id) <=> Has(u, table, id) \/ Has(C, table, id)
  <2>1. Has(u \o C, table, id) <=> Has(u, table, id) \/ Has(C, table, id)
    BY <1>2, HasConcat
  <2>2. QED BY <1>3, <2>1, Zenon
<1>6. Has(w, table, id) <=> Has(v, table, id) \/ Has(D, table, id)
  <2>1. Has(v \o D, table, id) <=> Has(v, table, id) \/ Has(D, table, id)
    BY <1>2, HasConcat
  <2>2. QED BY <1>3, <2>1, Zenon
<1>7. Has(s, table, id) <=> Has(w, table, id) \/ Has(F, table, id)
  <2>1. Has(w \o F, table, id) <=> Has(w, table, id) \/ Has(F, table, id)
    BY <1>2, HasConcat
  <2>2. QED BY <1>3, <2>1, Zenon
<1>8. QED BY <1>4, <1>5, <1>6, <1>7

LEMMA FiveAnswered ==
  ASSUME NEW Z, NEW s, NEW A, NEW B, NEW C, NEW D, NEW F, InFive(Z, s, A, B, C, D, F), NEW needs,
         Answered(A \o B, needs), Answered(C, needs), Answered(D, needs), Answered(F, needs)
  PROVE  Answered(s, needs)
<1>1. PICK u, v, w : OneByOne(Z, s, A, B, C, D, F, u, v, w)
  BY FiveOneByOne
<1>2. /\ A \in Seq(Z) /\ B \in Seq(Z) /\ C \in Seq(Z) /\ D \in Seq(Z) /\ F \in Seq(Z)
      /\ u \in Seq(Z) /\ v \in Seq(Z) /\ w \in Seq(Z)
  BY <1>1 DEF OneByOne
<1>3. u = A \o B /\ v = u \o C /\ w = v \o D /\ s = w \o F
  BY <1>1 DEF OneByOne
<1>4. Answered(v, needs)
  <2>1. Answered(u, needs)
    BY <1>3
  <2>2. Answered(u \o C, needs)
    BY <1>2, <2>1, AnsweredConcat
  <2>3. QED BY <1>3, <2>2
<1>5. Answered(w, needs)
  <2>1. Answered(v \o D, needs)
    BY <1>2, <1>4, AnsweredConcat
  <2>2. QED BY <1>3, <2>1
<1>6. Answered(w \o F, needs)
  BY <1>2, <1>5, AnsweredConcat
<1>7. QED BY <1>3, <1>6

LEMMA FirstStays ==
  ASSUME NEW Z, NEW s \in Seq(Z), s # <<>>, NEW t \in Seq(Z)
  PROVE  s \o t # <<>> /\ (s \o t)[1] = s[1]
<1>1. Len(s) \in Nat /\ Len(s) >= 1 /\ Len(t) \in Nat
  OBVIOUS
<1>2. Len(s \o t) = Len(s) + Len(t) /\ \A k \in 1 .. Len(s) : (s \o t)[k] = s[k]
  OBVIOUS
<1>3. Len(s \o t) # 0 /\ 1 \in 1 .. Len(s)
  BY <1>1, <1>2
<1>4. QED BY <1>2, <1>3

LEMMA FiveFirst ==
  ASSUME NEW Z, NEW s, NEW A, NEW B, NEW C, NEW D, NEW F, InFive(Z, s, A, B, C, D, F), A # <<>>
  PROVE  s[1] = A[1]
<1>1. PICK u, v, w : OneByOne(Z, s, A, B, C, D, F, u, v, w)
  BY FiveOneByOne
<1>2. /\ A \in Seq(Z) /\ B \in Seq(Z) /\ C \in Seq(Z) /\ D \in Seq(Z) /\ F \in Seq(Z)
      /\ u \in Seq(Z) /\ v \in Seq(Z) /\ w \in Seq(Z)
  BY <1>1 DEF OneByOne
<1>3. u = A \o B /\ v = u \o C /\ w = v \o D /\ s = w \o F
  BY <1>1 DEF OneByOne
<1>4. u # <<>> /\ u[1] = A[1]
  BY <1>2, <1>3, FirstStays
<1>5. v # <<>> /\ v[1] = u[1]
  BY <1>2, <1>3, <1>4, FirstStays
<1>6. w # <<>> /\ w[1] = v[1]
  BY <1>2, <1>3, <1>5, FirstStays
<1>7. s[1] = w[1]
  BY <1>2, <1>3, <1>6, FirstStays
<1>8. QED BY <1>4, <1>5, <1>6, <1>7

\* The parts of what is sent of a new player are of Z.
CreateParts(Z, b, m, value, p, a, tells) ==
  /\ Sql("board", b, 0) \in Z /\ BoardStatements(m, value, b, <<m>>) \in Seq(Z)
  /\ Sql("player", p, Home(a)) \in Z /\ UpdatePlayer(p, a) \in Seq(Z) /\ tells \in Seq(Seq(Z))

LEMMA CreateSeqParts ==
  ASSUME NEW Z, NEW b, NEW m, NEW value, NEW p, NEW a, NEW tells, CreateParts(Z, b, m, value, p, a, tells)
  PROVE  InFive(Z, CreateSeq(b, m, value, p, a, tells), <<Sql("board", b, 0)>>,
                BoardStatements(m, value, b, <<m>>), <<Sql("player", p, Home(a))>>,
                UpdatePlayer(p, a), FlattenSeq(tells))
<1>1. /\ <<Sql("board", b, 0)>> \in Seq(Z) /\ <<Sql("player", p, Home(a))>> \in Seq(Z)
      /\ BoardStatements(m, value, b, <<m>>) \in Seq(Z) /\ UpdatePlayer(p, a) \in Seq(Z)
  BY DEF CreateParts
<1>2. FlattenSeq(tells) \in Seq(Z)
  BY FlattenSeqCovers DEF CreateParts
<1>3. QED BY <1>1, <1>2, Zenon DEF InFive, CreateSeq

LEMMA HasOne ==
  ASSUME NEW t, NEW i, NEW v, NEW table, NEW id
  PROVE  Has(<<Sql(t, i, v)>>, table, id) <=> table = t /\ id = i
BY SqlParts DEF Has

LEMMA HasBoardStatements ==
  ASSUME NEW m, NEW value, NEW b, NEW list, NEW table, NEW id
  PROVE  Has(BoardStatements(m, value, b, list), table, id) <=>
           \/ table = "message" /\ id = m
           \/ table \in {"slots", "board"} /\ id = b
<1> DEFINE s == BoardStatements(m, value, b, list)
<1>1. /\ Len(s) = 4 /\ s[1] = Sql("message", m, value) /\ s[2] = Sql("slots", b, <<>>)
      /\ s[3] = Sql("slots", b, list) /\ s[4] = Sql("board", b, Len(list))
  BY BoardStatementsAre
<1> HIDE DEF s
<1>2. 1 .. Len(s) = {1, 2, 3, 4}
  BY <1>1
<1>3. /\ s[1].table = "message" /\ s[1].id = m /\ s[2].table = "slots" /\ s[2].id = b
      /\ s[3].table = "slots" /\ s[3].id = b /\ s[4].table = "board" /\ s[4].id = b
  BY <1>1, SqlParts
<1>4. Has(s, table, id) <=> \E k \in {1, 2, 3, 4} : s[k].table = table /\ s[k].id = id
  BY <1>2 DEF Has
<1>5. Has(s, table, id) <=> \/ table = "message" /\ id = m
                            \/ table \in {"slots", "board"} /\ id = b
  BY <1>3, <1>4
<1>6. QED BY <1>5 DEF s

LEMMA HasUpdatePlayer ==
  ASSUME NEW p, NEW a, NEW table, NEW id
  PROVE  Has(UpdatePlayer(p, a), table, id) <=> table \in {"player", "owned"} /\ id = p
<1> DEFINE s == UpdatePlayer(p, a)
<1>1. /\ Len(s) = 3 /\ s[1] = Sql("player", p, Home(a)) /\ s[2] = Sql("owned", p, {})
      /\ s[3] = Sql("owned", p, a.owns)
  BY UpdatePlayerIs
<1> HIDE DEF s
<1>2. 1 .. Len(s) = {1, 2, 3}
  BY <1>1
<1>3. /\ s[1].table = "player" /\ s[1].id = p /\ s[2].table = "owned" /\ s[2].id = p
      /\ s[3].table = "owned" /\ s[3].id = p
  BY <1>1, SqlParts
<1>4. Has(s, table, id) <=> \E k \in {1, 2, 3} : s[k].table = table /\ s[k].id = id
  BY <1>2 DEF Has
<1>5. Has(s, table, id) <=> table \in {"player", "owned"} /\ id = p
  BY <1>3, <1>4
<1>6. QED BY <1>5 DEF s

LEMMA CreateSeqHas ==
  ASSUME NEW Z, NEW b, NEW m, NEW value, NEW p, NEW a, NEW tells, CreateParts(Z, b, m, value, p, a, tells),
         NEW table, NEW id
  PROVE  Has(CreateSeq(b, m, value, p, a, tells), table, id) <=>
           \/ table \in {"slots", "board"} /\ id = b
           \/ table = "message" /\ id = m
           \/ table \in {"player", "owned"} /\ id = p
           \/ \E k \in 1 .. Len(tells) : Has(tells[k], table, id)
<1> DEFINE A == <<Sql("board", b, 0)>>
           B == BoardStatements(m, value, b, <<m>>)
           C == <<Sql("player", p, Home(a))>>
           D == UpdatePlayer(p, a)
           F == FlattenSeq(tells)
           s == CreateSeq(b, m, value, p, a, tells)
<1>1. InFive(Z, s, A, B, C, D, F)
  BY CreateSeqParts
<1>2. /\ Has(A, table, id) <=> table = "board" /\ id = b
      /\ Has(C, table, id) <=> table = "player" /\ id = p
  BY HasOne
<1>3. Has(B, table, id) <=> \/ table = "message" /\ id = m
                            \/ table \in {"slots", "board"} /\ id = b
  BY HasBoardStatements
<1>4. Has(D, table, id) <=> table \in {"player", "owned"} /\ id = p
  BY HasUpdatePlayer
<1>5. Has(F, table, id) <=> \E k \in 1 .. Len(tells) : Has(tells[k], table, id)
  BY HasFlat DEF CreateParts
<1> HIDE DEF A, B, C, D, F, s
<1>6. Has(s, table, id) <=> \/ Has(A, table, id) \/ Has(B, table, id) \/ Has(C, table, id)
                            \/ Has(D, table, id) \/ Has(F, table, id)
  BY <1>1, FiveHas
<1>7. QED BY <1>2, <1>3, <1>4, <1>5, <1>6 DEF s

LEMMA CreateSeqAnswered ==
  ASSUME NEW Z, NEW b, NEW m, NEW value, NEW p, NEW a, NEW tells, CreateParts(Z, b, m, value, p, a, tells),
         NEW needs,
         Answered(<<Sql("board", b, 0)>> \o BoardStatements(m, value, b, <<m>>), needs),
         Answered(<<Sql("player", p, Home(a))>>, needs), Answered(UpdatePlayer(p, a), needs),
         \A k \in 1 .. Len(tells) : Answered(tells[k], needs)
  PROVE  Answered(CreateSeq(b, m, value, p, a, tells), needs)
<1> DEFINE F == FlattenSeq(tells)
<1>1. Answered(F, needs)
  BY AnsweredFlat DEF CreateParts
<1>2. InFive(Z, CreateSeq(b, m, value, p, a, tells), <<Sql("board", b, 0)>>,
             BoardStatements(m, value, b, <<m>>), <<Sql("player", p, Home(a))>>, UpdatePlayer(p, a), F)
  BY CreateSeqParts
<1> HIDE DEF F
<1>3. QED BY <1>1, <1>2, FiveAnswered

LEMMA CreateSeqFirst ==
  ASSUME NEW Z, NEW b, NEW m, NEW value, NEW p, NEW a, NEW tells, CreateParts(Z, b, m, value, p, a, tells)
  PROVE  /\ CreateSeq(b, m, value, p, a, tells)[1] = Sql("board", b, 0)
         /\ CreateSeq(b, m, value, p, a, tells) \in Seq(Z)
<1> DEFINE A == <<Sql("board", b, 0)>>
<1>1. A # <<>> /\ A[1] = Sql("board", b, 0)
  OBVIOUS
<1>2. InFive(Z, CreateSeq(b, m, value, p, a, tells), A, BoardStatements(m, value, b, <<m>>),
             <<Sql("player", p, Home(a))>>, UpdatePlayer(p, a), FlattenSeq(tells))
  BY CreateSeqParts
<1> HIDE DEF A
<1>3. CreateSeq(b, m, value, p, a, tells) \in Seq(Z)
  BY <1>2, FiveOneByOne DEF OneByOne
<1>4. QED BY <1>1, <1>2, <1>3, FiveFirst

\* What a new player changes in memory, and what is sent.
CreateFacts(n, home, others, at) ==
  /\ OthersFacts(others) /\ ToldFacts(others, at)
  /\ lists' = [ob \in Bids |-> lists'[ob]] /\ lists'[nextbid] = <<nextmid>>
  /\ \A k \in 1 .. Cardinality(Known) : lists'[Boards(others)[k]] = Told(others, at)[k]
  /\ \A ob \in Bids \ {nextbid} : ob \notin Range(Boards(others)) => lists'[ob] = lists[ob]
  /\ nums' = [ob \in Bids |-> IF ob \in Range(Boards(others)) \cup {nextbid} THEN Len(lists'[ob]) ELSE nums[ob]]
  /\ mail' = [ob \in Bids |-> mail'[ob]] /\ mail'[nextbid] = <<[to |-> nextbid, no |-> posts]>>
  /\ \A k \in 1 .. Cardinality(Known) : mail'[Boards(others)[k]] =
       IF Boards(others)[k] \in torn.boards THEN mail[Boards(others)[k]]
       ELSE Added(mail[Boards(others)[k]], [to |-> Boards(others)[k], no |-> posts], at[k])
  /\ \A ob \in Bids \ {nextbid} : ob \notin Range(Boards(others)) => mail'[ob] = mail[ob]
  /\ todo' = CreateSeq(nextbid, nextmid, [to |-> nextbid, no |-> posts], nextid, NewAccount(n, home),
                       [k \in 1 .. Cardinality(Known) |-> Tell(others, at, k)])
  /\ torn' = Shared(nextmid .. nextmid + Cardinality(Known), Range(Boards(others)) \cup {nextbid})

LEMMA TellIs ==
  ASSUME NEW others, OthersFacts(others), NEW at, NEW k \in 1 .. Cardinality(Known)
  PROVE  AddMessage(Boards(others)[k], nextmid + k, posts, Told(others, at)[k])
         \o UpdatePlayer(others[k], Entry(others[k])) = Tell(others, at, k)
<1>1. Held[others[k]] = Entry(others[k])
  BY DEF OthersFacts, Held
<1>2. AddMessage(Boards(others)[k], nextmid + k, posts, Told(others, at)[k])
      = BoardStatements(nextmid + k, [to |-> Boards(others)[k], no |-> posts], Boards(others)[k], Told(others, at)[k])
  BY AddMessageIs
<1>3. QED BY <1>1, <1>2, Zenon DEF Tell

LEMMA CreateDoes ==
  ASSUME PlayersInv, Free, NEW n, NEW home, NEW what, CreateNewPlayer(n, home, what)
  PROVE  \E others, at : CreateFacts(n, home, others, at)
<1> DEFINE many == Cardinality(Known)
           K(others, ob) == CHOOSE k \in 1 .. many : Boards(others)[k] = ob
           tells(others, at) ==
             [k \in 1 .. many |-> AddMessage(Boards(others)[k], nextmid + k, posts, Told(others, at)[k])
                                  \o UpdatePlayer(others[k], Entry(others[k]))]
<1>1. PICK others \in InOrder(Known), at \in [1 .. many -> 0 .. MaxMessage] :
        /\ \A k \in 1 .. many : at[k] \in EndOf(Num(Boards(others)[k]), List(Boards(others)[k]))
        /\ lists' = [ob \in Bids |->
              IF ob = nextbid THEN <<nextmid>>
              ELSE IF ob \in Range(Boards(others)) THEN Told(others, at)[K(others, ob)] ELSE lists[ob]]
        /\ nums' = [ob \in Bids |-> IF ob \in Range(Boards(others)) \union {nextbid} THEN Len(lists'[ob])
                                    ELSE nums[ob]]
        /\ mail' = [ob \in Bids |->
              IF ob = nextbid THEN <<[to |-> nextbid, no |-> posts]>>
              ELSE IF ob \in Range(Boards(others)) \ torn.boards
              THEN Added(mail[ob], [to |-> ob, no |-> posts], at[K(others, ob)])
              ELSE mail[ob]]
        /\ todo' = <<Sql("board", nextbid, 0)>> \o AddMessage(nextbid, nextmid, posts, <<nextmid>>)
                   \o <<Sql("player", nextid, [name |-> n, boardid |-> nextbid])>>
                   \o UpdatePlayer(nextid, [name |-> n, boardid |-> nextbid, owns |-> home])
                   \o FlattenSeq(tells(others, at))
        /\ torn' = Shared(nextmid .. nextmid + many, Range(Boards(others)) \union {nextbid})
  BY Zenon DEF CreateNewPlayer, Boards, Told
<1>2. nextbid \in Bids /\ nextmid + many \in Mids
  BY DEF CreateNewPlayer
<1>3. OthersFacts(others)
  BY OthersAre
<1>4. ToldFacts(others, at)
  BY <1>1, <1>2, <1>3, ToldAre
<1> DEFINE bo == Boards(others)
<1>5. /\ many \in Nat /\ DOMAIN bo = 1 .. many
      /\ \A k \in 1 .. many : bo[k] \in Bids /\ bo[k] # nextbid /\ bo[k] \in Range(bo)
      /\ \A k, l \in 1 .. many : bo[k] = bo[l] => k = l
  <2>1. DOMAIN bo = 1 .. many
    BY DEF Boards
  <2>2. \A k \in 1 .. many : bo[k] \in Range(bo)
    <3> HIDE DEF bo, many
    <3>1. QED BY <2>1 DEF Range
  <2>3. /\ \A k \in 1 .. many : bo[k] \in Bids /\ bo[k] < nextbid
        /\ \A k, l \in 1 .. many : bo[k] = bo[l] => k = l
        /\ many \in Nat
    BY <1>3 DEF OthersFacts
  <2>4. \A k \in 1 .. many : bo[k] # nextbid
    <3>1. \A b \in Bids : b < nextbid => b # nextbid
      BY DEF Bids
    <3>2. QED BY <2>3, <3>1
  <2>5. QED BY <2>1, <2>2, <2>3, <2>4
<1>6. \A k \in 1 .. many : K(others, bo[k]) = k
  <2> HIDE DEF bo, many
  <2>1. ASSUME NEW k \in 1 .. many PROVE K(others, bo[k]) = k
    <3> DEFINE j == CHOOSE l \in 1 .. many : bo[l] = bo[k]
    <3>1. j \in 1 .. many /\ bo[j] = bo[k]
      OBVIOUS
    <3>2. j = k
      BY <1>5, <3>1
    <3>3. QED BY <3>2 DEF bo
  <2>2. QED BY <2>1
<1>7. todo' = CreateSeq(nextbid, nextmid, [to |-> nextbid, no |-> posts], nextid, NewAccount(n, home),
                        [k \in 1 .. many |-> Tell(others, at, k)])
  <2>1. tells(others, at) = [k \in 1 .. many |-> Tell(others, at, k)]
    BY <1>3, TellIs
  <2>2. AddMessage(nextbid, nextmid, posts, <<nextmid>>)
        = BoardStatements(nextmid, [to |-> nextbid, no |-> posts], nextbid, <<nextmid>>)
    BY AddMessageIs
  <2>3. Home(NewAccount(n, home)) = [name |-> n, boardid |-> nextbid]
    BY DEF Home, NewAccount
  <2>4. NewAccount(n, home) = [name |-> n, boardid |-> nextbid, owns |-> home]
    BY DEF NewAccount
  <2> HIDE DEF tells, many
  <2>5. QED BY <1>1, <2>1, <2>2, <2>3, <2>4, Zenon DEF CreateSeq
<1> HIDE DEF tells
<1>8. \A k \in 1 .. many : lists'[bo[k]] = Told(others, at)[k]
  <2> HIDE DEF K, many
  <2>1. QED BY <1>1, <1>5, <1>6
<1>9. \A k \in 1 .. many : mail'[bo[k]] =
        IF bo[k] \in torn.boards THEN mail[bo[k]] ELSE Added(mail[bo[k]], [to |-> bo[k], no |-> posts], at[k])
  <2> HIDE DEF K, many
  <2>1. ASSUME NEW k \in 1 .. many
        PROVE  mail'[bo[k]] =
          IF bo[k] \in Range(bo) \ torn.boards THEN Added(mail[bo[k]], [to |-> bo[k], no |-> posts], at[K(others, bo[k])])
          ELSE mail[bo[k]]
    BY <1>1, <1>5
  <2>2. QED BY <1>5, <1>6, <2>1
<1>10. /\ lists' = [ob \in Bids |-> lists'[ob]] /\ lists'[nextbid] = <<nextmid>>
       /\ \A ob \in Bids \ {nextbid} : ob \notin Range(bo) => lists'[ob] = lists[ob]
  <2> HIDE DEF K, many
  <2>1. QED BY <1>1, <1>2
<1>11. /\ mail' = [ob \in Bids |-> mail'[ob]] /\ mail'[nextbid] = <<[to |-> nextbid, no |-> posts]>>
       /\ \A ob \in Bids \ {nextbid} : ob \notin Range(bo) => mail'[ob] = mail[ob]
  <2> HIDE DEF K, many
  <2>1. QED BY <1>1, <1>2
<1>12. /\ nums' = [ob \in Bids |-> IF ob \in Range(bo) \cup {nextbid} THEN Len(lists'[ob]) ELSE nums[ob]]
       /\ torn' = Shared(nextmid .. nextmid + many, Range(bo) \cup {nextbid})
  BY <1>1
<1>13. QED BY <1>3, <1>4, <1>7, <1>8, <1>9, <1>10, <1>11, <1>12 DEF CreateFacts

\* What a new player is: his id, name and board are new.
NewFacts(n, home) ==
  /\ Known' = Known \cup {nextid} /\ loaded' = Known \cup {nextid} /\ nextid \notin Known
  /\ NewAccount(n, home) \in Account
  /\ players' \in [Pids -> Account \cup Row \cup {None}]
  /\ players'[nextid] = NewAccount(n, home) /\ Held'[nextid] = NewAccount(n, home)
  /\ \A p \in Known : players'[p] = Held[p] /\ Held'[p] = Held[p]
  /\ nextid \in Pids /\ nextbid \in Bids /\ nextid' = nextid + 1 /\ nextbid' = nextbid + 1
  /\ nextmid \in Mids /\ nextmid' \in 1 .. MaxMessage + 1 /\ posts' \in 0 .. MaxPosts

LEMMA NewDoes ==
  ASSUME PlayersInv, Free, NEW n \in Names, NEW home \in Homes, NEW what, posts < MaxPosts,
         CreateNewPlayer(n, home, what)
  PROVE  NewFacts(n, home)
<1> DEFINE R == Reading(Known)
           a == NewAccount(n, home)
<1>1. Shapes /\ Entries /\ Ids
  BY DEF PlayersInv
<1>2. /\ R \in [Pids -> Account \cup Row \cup {None}]
      /\ \A p \in Known : R[p] = Held[p] /\ Held[p] \in Account
      /\ \A p \in Pids \ Known : R[p] = players[p]
  BY <1>1, ReadingFacts
<1>3. /\ Held \in [Known -> Account] /\ Known \subseteq Pids /\ loaded \subseteq Known
  BY <1>1, KnownFacts DEF Entries, Shapes
<1>4. /\ players' = [R EXCEPT ![nextid] = a] /\ loaded' = loaded \cup Known \cup {nextid}
      /\ nextid \in Pids /\ nextbid \in Bids /\ nextmid + Cardinality(Known) \in Mids
      /\ nextid' = nextid + 1 /\ nextbid' = nextbid + 1
      /\ nextmid' = nextmid + 1 + Cardinality(Known) /\ posts' = posts + 1
  BY Zenon DEF CreateNewPlayer, NewAccount
<1>5. home \in SUBSET Objects
  BY DEF Homes
<1>6. a \in Account
  BY <1>4, <1>5 DEF NewAccount, Account
<1>7. nextid \notin Known
  BY <1>1, <1>4 DEF Ids, Pids
<1> HIDE DEF R, a
<1>8. /\ players'[nextid] = a /\ \A p \in Known : players'[p] = Held[p]
      /\ players' \in [Pids -> Account \cup Row \cup {None}]
      /\ \A p \in Pids \ Known : p # nextid => players'[p] = players[p]
  BY <1>2, <1>3, <1>4, <1>6, <1>7
<1>9. Known' = Known \cup {nextid}
  <2>1. \A p \in Pids : players'[p] # None <=> p \in Known \cup {nextid}
    BY <1>2, <1>6, <1>8, HomeOf DEF Known
  <2>2. QED BY <1>3, <1>4, <2>1 DEF Known
<1>10. loaded' = Known \cup {nextid}
  BY <1>3, <1>4
<1>11. Held' = [p \in Known \cup {nextid} |-> players'[p]]
  BY <1>9, <1>10 DEF Held, Entry
<1>12. Cardinality(Known) \in Nat
  <2>1. MaxPlayer \in Nat /\ Known \in SUBSET (1 .. MaxPlayer)
    BY <1>3, AccountsAssumption DEF Pids
  <2>2. IsFiniteSet(1 .. MaxPlayer)
    BY <2>1, FS_Interval
  <2>3. QED BY <2>1, <2>2, FS_Subset, FS_CardinalityType
<1>13. nextmid \in Mids /\ nextmid' \in 1 .. MaxMessage + 1 /\ posts' \in 0 .. MaxPosts
  <2> DEFINE many == Cardinality(Known)
  <2>1. nextmid \in 1 .. MaxMessage + 1 /\ MaxMessage \in Nat /\ MaxPosts \in Nat /\ posts \in 0 .. MaxPosts
    BY <1>1, AccountsAssumption DEF Shapes
  <2>2. many \in Nat /\ nextmid + many <= MaxMessage /\ nextmid' = nextmid + 1 + many /\ posts' = posts + 1
    BY <1>4, <1>12 DEF Mids
  <2> HIDE DEF many
  <2>3. QED BY <2>1, <2>2 DEF Mids
<1>14. QED BY <1>4, <1>6, <1>7, <1>8, <1>9, <1>10, <1>11, <1>13 DEF NewFacts, a

\* Each statement that is sent of a new player is one that may be sent.
LEMMA CreatedParts ==
  ASSUME PlayersInv, Free, NEW n, NEW home, NewFacts(n, home), NEW others, OthersFacts(others),
         NEW at, ToldFacts(others, at)
  PROVE  /\ CreateParts(Sent', nextbid, nextmid, [to |-> nextbid, no |-> posts], nextid, NewAccount(n, home),
                        [k \in 1 .. Cardinality(Known) |-> Tell(others, at, k)])
         /\ \A k \in 1 .. Cardinality(Known) : Answered(Tell(others, at, k), OwnNeeds(Held'))
         /\ \A k \in 1 .. Cardinality(Known) : Tell(others, at, k) \in Seq(Statement)
<1> DEFINE m == Cardinality(Known)
           a == NewAccount(n, home)
           Z == Sent'
           h == Held'
<1>1. Shapes /\ Entries /\ Ids
  BY DEF PlayersInv
<1>2. /\ Held \in [Known -> Account] /\ Known \subseteq Pids
  BY <1>1, KnownFacts DEF Entries
<1>3. posts \in 0 .. MaxPosts
  BY <1>1 DEF Shapes
<1>4. ASSUME NEW q \in Statement,
             q.table = "player" => q.id \in Known \cup {nextid} /\ q.value = Home(h[q.id]),
             q.table = "owned" => q.id \in Known \cup {nextid},
             q.table = "board" => q.id < nextbid + 1
      PROVE  q \in Z
  BY <1>4 DEF Sent, NewFacts
<1>5. /\ h[nextid] = a /\ a \in Account /\ nextid \in Pids /\ nextbid \in Bids /\ nextmid \in Mids
      /\ \A p \in Known : h[p] = Held[p]
  BY DEF NewFacts
<1> HIDE DEF Z, h, a
<1>6. ASSUME NEW p \in Known \cup {nextid}
      PROVE  /\ Sql("player", p, Home(h[p])) \in Z /\ Sql("owned", p, {}) \in Z
             /\ Sql("owned", p, h[p].owns) \in Z /\ p \in Pids /\ h[p] \in Account
  <2>1. p \in Pids /\ h[p] \in Account
    BY <1>2, <1>5
  <2>2. Home(h[p]) \in Row /\ h[p].owns \in SUBSET Objects
    BY <2>1, HomeOf
  <2>3. /\ Sql("player", p, Home(h[p])) \in Statement /\ Sql("owned", p, {}) \in Statement
        /\ Sql("owned", p, h[p].owns) \in Statement
    BY <2>1, <2>2, SqlStatements
  <2>4. QED BY <1>4, <2>1, <2>3, SqlParts
<1>7. ASSUME NEW b \in Bids, b < nextbid + 1, NEW i \in Mids, NEW list \in Seq(Mids)
      PROVE  /\ BoardStatements(i, [to |-> b, no |-> posts], b, list) \in Seq(Z)
             /\ BoardStatements(i, [to |-> b, no |-> posts], b, list) \in Seq(Statement)
             /\ \A g : Answered(BoardStatements(i, [to |-> b, no |-> posts], b, list), OwnNeeds(g))
  <2>1. [to |-> b, no |-> posts] \in Message
    BY <1>3 DEF Message
  <2>2. /\ Sql("message", i, [to |-> b, no |-> posts]) \in Statement /\ Sql("slots", b, <<>>) \in Statement
        /\ Sql("slots", b, list) \in Statement /\ Sql("board", b, Len(list)) \in Statement
    <3>1. <<>> \in Seq(Mids) /\ Len(list) \in Nat
      OBVIOUS
    <3>2. QED BY <2>1, <3>1, SqlStatements
  <2>3. /\ Sql("message", i, [to |-> b, no |-> posts]) \in Z /\ Sql("slots", b, <<>>) \in Z
        /\ Sql("slots", b, list) \in Z /\ Sql("board", b, Len(list)) \in Z
    BY <1>4, <1>7, <2>2, SqlParts
  <2>4. BoardStatements(i, [to |-> b, no |-> posts], b, list) \in Seq(Z)
    BY <2>3, BoardStatementsIn
  <2>5. BoardStatements(i, [to |-> b, no |-> posts], b, list) \in Seq(Statement)
    BY <2>2, BoardStatementsIn
  <2> DEFINE s == BoardStatements(i, [to |-> b, no |-> posts], b, list)
  <2>6. \A k \in 1 .. Len(s) : s[k].table # "owned"
    BY BoardStatementsTables
  <2>7. ASSUME NEW g PROVE Answered(s, OwnNeeds(g))
    BY <2>5, <2>6, PlainAnswered
  <2>8. QED BY <2>4, <2>5, <2>7
<1>8. ASSUME NEW k \in 1 .. m
      PROVE  Tell(others, at, k) \in Seq(Z) /\ Answered(Tell(others, at, k), OwnNeeds(h))
             /\ Tell(others, at, k) \in Seq(Statement)
  <2> DEFINE b == Boards(others)[k]
             list == Told(others, at)[k]
             p == others[k]
             B == BoardStatements(nextmid + k, [to |-> b, no |-> posts], b, list)
             U == UpdatePlayer(p, Held[p])
  <2>1. b \in Bids /\ b < nextbid /\ p \in Known
    BY DEF OthersFacts
  <2>2. nextmid + k \in Mids /\ list \in Seq(Mids)
    BY DEF ToldFacts
  <2>3. b < nextbid + 1
    BY <1>1, <2>1 DEF Shapes, Bids
  <2>4. B \in Seq(Z) /\ B \in Seq(Statement) /\ Answered(B, OwnNeeds(h))
    <3> HIDE DEF b, list
    <3>1. QED BY <1>7, <2>1, <2>2, <2>3
  <2>5. U \in Seq(Z) /\ Answered(U, OwnNeeds(h)) /\ U \in Seq(Statement)
    <3>1. h[p] = Held[p] /\ p \in Pids /\ h[p] \in Account
      BY <1>5, <1>6, <2>1
    <3>2. U \in Seq(Z)
      BY <1>6, <2>1, <3>1, UpdatePlayerIn
    <3>3. Answered(U, OwnNeeds(h))
      BY <3>1, UpdatePlayerAnswered
    <3>4. U \in Seq(Statement)
      <4>1. Home(h[p]) \in Row /\ h[p].owns \in SUBSET Objects
        BY <3>1, HomeOf
      <4>2. /\ Sql("player", p, Home(h[p])) \in Statement /\ Sql("owned", p, {}) \in Statement
            /\ Sql("owned", p, h[p].owns) \in Statement
        BY <3>1, <4>1, SqlStatements
      <4>3. QED BY <3>1, <4>2, UpdatePlayerIn
    <3>5. QED BY <3>2, <3>3, <3>4
  <2>6. Tell(others, at, k) = B \o U
    BY DEF Tell
  <2> HIDE DEF B, U
  <2>7. B \o U \in Seq(Z) /\ B \o U \in Seq(Statement)
    BY <2>4, <2>5
  <2>8. Answered(B \o U, OwnNeeds(h))
    BY <2>4, <2>5, AnsweredConcat
  <2>9. QED BY <2>6, <2>7, <2>8
<1>9. Sql("board", nextbid, 0) \in Z
  <2>1. nextbid < nextbid + 1
    BY <1>5 DEF Bids
  <2>2. Sql("board", nextbid, 0) \in Statement
    BY <1>5, SqlStatements
  <2>3. QED BY <1>4, <2>1, <2>2, SqlParts
<1>10. BoardStatements(nextmid, [to |-> nextbid, no |-> posts], nextbid, <<nextmid>>) \in Seq(Z)
  <2>1. nextbid < nextbid + 1
    BY <1>5 DEF Bids
  <2>2. <<nextmid>> \in Seq(Mids)
    BY <1>5
  <2>3. QED BY <1>5, <1>7, <2>1, <2>2
<1>11. Sql("player", nextid, Home(a)) \in Z /\ UpdatePlayer(nextid, a) \in Seq(Z)
  <2>1. /\ Sql("player", nextid, Home(a)) \in Z /\ Sql("owned", nextid, {}) \in Z
        /\ Sql("owned", nextid, a.owns) \in Z
    BY <1>5, <1>6
  <2>2. QED BY <2>1, UpdatePlayerIn
<1>12. [k \in 1 .. m |-> Tell(others, at, k)] \in Seq(Seq(Z))
  <2>1. m \in Nat
    BY DEF OthersFacts
  <2> HIDE DEF m
  <2>2. QED BY <1>8, <2>1
<1>13. CreateParts(Z, nextbid, nextmid, [to |-> nextbid, no |-> posts], nextid, a,
                   [k \in 1 .. m |-> Tell(others, at, k)])
  BY <1>9, <1>10, <1>11, <1>12 DEF CreateParts
<1>14. QED BY <1>8, <1>13 DEF Z, h, a

LEMMA CreatePlayers ==
  ASSUME PlayersInv, Free, NEW n \in Names, Named(n) = {}, NEW home \in Homes, NEW what, posts < MaxPosts,
         CreateNewPlayer(n, home, what)
  PROVE  PlayersInv'
<1> DEFINE m == Cardinality(Known)
           a == NewAccount(n, home)
           v == [to |-> nextbid, no |-> posts]
<1>1. Shapes /\ Entries /\ Ids /\ Housed /\ Written /\ Apart /\ up
  BY DEF PlayersInv, Free
<1>2. NewFacts(n, home)
  BY NewDoes
<1>3. PICK others, at : CreateFacts(n, home, others, at)
  BY CreateDoes
<1>4. OthersFacts(others) /\ ToldFacts(others, at)
  BY <1>3 DEF CreateFacts
<1> DEFINE tells == [k \in 1 .. m |-> Tell(others, at, k)]
<1>5. todo' = CreateSeq(nextbid, nextmid, v, nextid, a, tells)
  BY <1>3 DEF CreateFacts
<1>6. /\ CreateParts(Sent', nextbid, nextmid, v, nextid, a, tells)
      /\ \A k \in 1 .. m : Answered(Tell(others, at, k), OwnNeeds(Held'))
  BY <1>2, <1>4, CreatedParts
<1>7. UNCHANGED <<player, owned, board, slots, message, up>>
  BY DEF CreateNewPlayer, tables
<1>8. /\ Held \in [Known -> Account] /\ Known \subseteq Pids
      /\ \A p \in Known : Held[p] = Entry(p)
  BY <1>1, KnownFacts DEF Entries
<1>9. /\ Known' = Known \cup {nextid} /\ loaded' = Known \cup {nextid} /\ nextid \notin Known
      /\ a \in Account /\ players' \in [Pids -> Account \cup Row \cup {None}]
      /\ players'[nextid] = a /\ Held'[nextid] = a
      /\ \A p \in Known : players'[p] = Held[p] /\ Held'[p] = Held[p]
      /\ nextid \in Pids /\ nextbid \in Bids /\ nextid' = nextid + 1 /\ nextbid' = nextbid + 1
      /\ nextmid \in Mids /\ nextmid' \in 1 .. MaxMessage + 1 /\ posts' \in 0 .. MaxPosts
  BY <1>2 DEF NewFacts
<1>10. a.name = n /\ a.boardid = nextbid /\ a.owns = home
  BY DEF NewAccount
<1>11. \A p \in Known : Held[p].name # n /\ Held[p].boardid < nextbid /\ Held[p].boardid \in Bids
  <2>1. \A p \in Known : Held[p].name # n
    BY <1>8 DEF Named
  <2>2. \A p \in Known : Held[p].boardid < nextbid
    BY <1>1 DEF Ids
  <2>3. QED BY <1>8, <2>1, <2>2, HomeOf
<1> HIDE DEF a, m
<1>12. /\ \A k \in 1 .. m : Boards(others)[k] \in Bids /\ Boards(others)[k] < nextbid
       /\ DOMAIN Boards(others) = 1 .. m /\ m \in Nat
  BY <1>4 DEF OthersFacts, Boards, m
<1>13. Range(Boards(others)) \in SUBSET Bids /\ \A b \in Range(Boards(others)) : b < nextbid
  BY <1>12 DEF Range
<1>14. /\ lists' \in [Bids -> Seq(Mids)] /\ nums' \in [Bids -> Nat \cup {None}]
       /\ \A b \in Bids : nums'[b] # None => nums[b] # None \/ b = nextbid \/ b < nextbid
  <2>1. ASSUME NEW b \in Bids PROVE lists'[b] \in Seq(Mids)
    <3>1. CASE b = nextbid
      <4>1. lists'[nextbid] = <<nextmid>>
        BY <1>3 DEF CreateFacts
      <4>2. <<nextmid>> \in Seq(Mids)
        BY <1>9
      <4>3. QED BY <3>1, <4>1, <4>2
    <3>2. CASE b # nextbid /\ b \notin Range(Boards(others))
      BY <1>1, <1>3, <3>2 DEF CreateFacts, Shapes
    <3>3. CASE b \in Range(Boards(others))
      <4>1. PICK k \in 1 .. m : Boards(others)[k] = b
        BY <1>12, <3>3 DEF Range
      <4>2. lists'[b] = Told(others, at)[k]
        BY <1>3, <4>1 DEF CreateFacts, m
      <4>3. QED BY <1>4, <4>2 DEF ToldFacts, m
    <3>4. QED BY <3>1, <3>2, <3>3
  <2>2. lists' \in [Bids -> Seq(Mids)]
    BY <1>3, <2>1 DEF CreateFacts
  <2>3. nums' = [b \in Bids |-> IF b \in Range(Boards(others)) \cup {nextbid} THEN Len(lists'[b]) ELSE nums[b]]
    BY <1>3 DEF CreateFacts
  <2>4. \A b \in Bids : Len(lists'[b]) \in Nat
    BY <2>2
  <2>5. nums \in [Bids -> Nat \cup {None}]
    BY <1>1 DEF Shapes
  <2>6. nums' \in [Bids -> Nat \cup {None}]
    BY <2>3, <2>4, <2>5
  <2>7. QED BY <1>13, <2>2, <2>3, <2>6
<1>15. torn' \in [boards : SUBSET Bids, players : SUBSET Pids] /\ torn'.players = torn.players
  <2>1. Range(Boards(others)) \cup {nextbid} \in SUBSET Bids
    BY <1>9, <1>13
  <2>2. torn' = Shared(nextmid .. nextmid + m, Range(Boards(others)) \cup {nextbid})
    BY <1>3 DEF CreateFacts, m
  <2>3. QED BY <1>1, <2>1, <2>2, SharedFacts
<1>16. Shapes'
  <2>1. nextid' \in 1 .. MaxPlayer + 1 /\ nextbid' \in 1 .. MaxBoard + 1
    BY <1>9, AccountsAssumption DEF Pids, Bids
  <2>2. loaded' \subseteq Known' /\ \A p \in loaded' : players'[p] \in Account
    BY <1>8, <1>9
  <2>3. QED BY <1>1, <1>7, <1>9, <1>14, <1>15, <2>1, <2>2 DEF Shapes
<1>17. Entries'
  <2>1. \A p \in Pids : player[p] # None => p \in Known /\ player[p] = Home(Held[p])
    BY <1>1 DEF Entries
  <2>2. \A p, q \in Known : p # q => Held[p].name # Held[q].name /\ Held[p].boardid # Held[q].boardid
    BY <1>1 DEF Entries
  <2>3. \A p \in Known : Held[p].name # n /\ Held[p].boardid # nextbid
    <3>1. \A b \in Bids : b < nextbid => b # nextbid
      BY <1>9 DEF Bids
    <3>2. QED BY <1>11, <3>1
  <2>4. \A p, q \in Known \cup {nextid} : p # q =>
          Held'[p].name # Held'[q].name /\ Held'[p].boardid # Held'[q].boardid
    BY <1>9, <1>10, <2>2, <2>3
  <2>5. QED BY <1>7, <1>9, <2>1, <2>4 DEF Entries
<1>18. Ids'
  <2>1. nextid \in Nat /\ nextbid \in Nat
    BY <1>9 DEF Pids, Bids
  <2>2. \A p \in Known : p \in Nat /\ p < nextid /\ Held[p].boardid \in Nat /\ Held[p].boardid < nextbid
    BY <1>1, <1>8, <1>11 DEF Ids, Pids, Bids
  <2>3. \A p \in Known \cup {nextid} : p < nextid + 1 /\ Held'[p].boardid < nextbid + 1
    BY <1>9, <1>10, <2>1, <2>2
  <2>4. \A b \in Bids : board[b] # None \/ nums'[b] # None => b < nextbid + 1
    <3>1. \A b \in Bids : board[b] # None \/ nums[b] # None => b < nextbid
      BY <1>1 DEF Ids
    <3>2. \A b \in Bids : b < nextbid \/ b = nextbid => b < nextbid + 1
      BY <2>1 DEF Bids
    <3>3. QED BY <1>14, <3>1, <3>2
  <2>5. QED BY <1>7, <1>9, <2>3, <2>4 DEF Ids
<1>19. /\ todo'[1] = Sql("board", nextbid, 0) /\ todo' \in Seq(Sent')
       /\ Has(todo', "player", nextid) /\ Has(todo', "owned", nextid)
  <2> DEFINE Z == Sent'
  <2>1. CreateParts(Z, nextbid, nextmid, v, nextid, a, tells)
    BY <1>6 DEF a
  <2> HIDE DEF Z, tells, v
  <2> DEFINE s == CreateSeq(nextbid, nextmid, v, nextid, a, tells)
  <2>2. s[1] = Sql("board", nextbid, 0) /\ s \in Seq(Z)
    BY <2>1, CreateSeqFirst
  <2>3. Has(s, "player", nextid)
    BY <2>1, CreateSeqHas
  <2>4. Has(s, "owned", nextid)
    BY <2>1, CreateSeqHas
  <2>5. todo' = s
    BY <1>5 DEF a
  <2> HIDE DEF s
  <2>6. QED BY <2>2, <2>3, <2>4, <2>5 DEF Z
<1>20. Housed'
  <2>1. ASSUME NEW k \in 1 .. Len(todo'), todo'[k].table = "player"
        PROVE  \/ board'[todo'[k].value.boardid] # None
               \/ \E j \in 1 .. k : todo'[j].table = "board" /\ todo'[j].id = todo'[k].value.boardid
    <3>1. todo'[k] \in Sent'
      <4> HIDE DEF Sent
      <4>1. QED BY <1>19
    <3> DEFINE q == todo'[k]
    <3>2. q.id \in Known \cup {nextid} /\ q.value = Home(Held'[q.id])
      BY <1>9, <2>1, <3>1 DEF Sent
    <3> HIDE DEF q
    <3>3. CASE q.id \in Known
      <4>1. q.value.boardid = Held[q.id].boardid
        BY <1>8, <1>9, <3>2, <3>3, HomeOf
      <4>2. board[Held[q.id].boardid] # None
        BY <3>3, FreeFacts
      <4>3. QED BY <1>7, <4>1, <4>2 DEF q
    <3>4. CASE q.id = nextid
      <4>1. q.value.boardid = nextbid
        BY <1>9, <1>10, <3>2, <3>4, HomeOf
      <4>2. todo'[1].table = "board" /\ todo'[1].id = nextbid
        BY <1>19, SqlParts
      <4>3. 1 \in 1 .. k
        OBVIOUS
      <4>4. QED BY <4>1, <4>2, <4>3 DEF q
    <3>5. QED BY <3>2, <3>3, <3>4
  <2>2. QED BY <1>1, <1>7, <2>1 DEF Housed
<1>21. Written'
  <2>1. \A p \in Known : player[p] = Home(Held[p]) /\ owned[p] = Held[p].owns
    BY FreeFacts
  <2>2. \A p \in Known \cup {nextid} : /\ Has(todo', "player", p) \/ player[p] = Home(Held'[p])
                                       /\ Has(todo', "owned", p) \/ owned[p] = Held'[p].owns
    BY <1>9, <1>19, <2>1
  <2>3. QED BY <1>7, <1>9, <2>2 DEF Written
<1>22. Apart'
  <2>1. \A p \in Known : Held[p].owns \cap home = {}
    <3>1. \A p \in Known : home \cap Entry(p).owns = {}
      BY DEF Homes
    <3>2. QED BY <1>8, <3>1
  <2>2. \A p, q \in Known \ torn.players : p # q => Held[p].owns \cap Held[q].owns = {}
    BY <1>1 DEF Apart
  <2>3. \A p, q \in (Known \cup {nextid}) \ torn.players : p # q => Held'[p].owns \cap Held'[q].owns = {}
    BY <1>9, <1>10, <2>1, <2>2
  <2>4. QED BY <1>9, <1>15, <2>3 DEF Apart
<1>23. Answered(todo', OwnNeeds(Held'))
  <2> DEFINE h == Held'
             Z == Sent'
             A == <<Sql("board", nextbid, 0)>>
             B == BoardStatements(nextmid, v, nextbid, <<nextmid>>)
             C == <<Sql("player", nextid, Home(a))>>
  <2>1. h[nextid] = a
    BY <1>9
  <2>2. \A k \in 1 .. m : Answered(Tell(others, at, k), OwnNeeds(h))
    BY <1>6 DEF m
  <2>3. CreateParts(Z, nextbid, nextmid, v, nextid, a, tells)
    BY <1>6 DEF a
  <2> HIDE DEF h, Z
  <2>4. v \in Message
    BY <1>1, <1>9 DEF Shapes, Message
  <2> HIDE DEF v
  <2>5. A \in Seq(Statement) /\ A[1].table = "board" /\ Len(A) = 1
    BY <1>9, SqlStatements, SqlParts
  <2>6. C \in Seq(Statement) /\ C[1].table = "player" /\ Len(C) = 1
    BY <1>9, HomeOf, SqlStatements, SqlParts
  <2>7. B \in Seq(Statement)
    <3>1. <<nextmid>> \in Seq(Mids) /\ <<>> \in Seq(Mids) /\ Len(<<nextmid>>) \in Nat
      BY <1>9
    <3>2. QED BY <1>9, <2>4, <3>1, SqlStatements, BoardStatementsIn
  <2>8. \A k \in 1 .. Len(B) : B[k].table # "owned"
    BY BoardStatementsTables
  <2> HIDE DEF A, B, C
  <2>9. Answered(A, OwnNeeds(h)) /\ Answered(C, OwnNeeds(h))
    BY <2>5, <2>6, PlainAnswered
  <2>10. Answered(B, OwnNeeds(h))
    BY <2>7, <2>8, PlainAnswered
  <2>11. Answered(A \o B, OwnNeeds(h))
    BY <2>5, <2>7, <2>9, <2>10, AnsweredConcat
  <2>12. Answered(UpdatePlayer(nextid, a), OwnNeeds(h))
    BY <1>9, <2>1, UpdatePlayerAnswered
  <2>13. \A k \in 1 .. Len(tells) : Answered(tells[k], OwnNeeds(h))
    BY <1>12, <2>2
  <2> HIDE DEF tells
  <2>14. Answered(CreateSeq(nextbid, nextmid, v, nextid, a, tells), OwnNeeds(h))
    BY <2>3, <2>9, <2>11, <2>12, <2>13, CreateSeqAnswered DEF A, B, C
  <2>15. QED BY <1>5, <2>14 DEF h, a
<1>24. QED BY <1>16, <1>17, <1>18, <1>19, <1>20, <1>21, <1>22, <1>23 DEF PlayersInv

-----------------------------------------------------------------------------
(* Every player has a board and a name of his own *)

LEMMA StutterPlayers == ASSUME PlayersInv, UNCHANGED vars PROVE PlayersInv'
<1>1. /\ UNCHANGED <<player, owned, board, slots, message, up, players, loaded, nums, lists>>
      /\ UNCHANGED <<nextid, nextbid, nextmid, todo, posts, torn>>
  BY DEF vars, tables, memory, counters, bounds
<1>2. Held' = Held /\ Known' = Known
  BY <1>1 DEF Held, Known, Entry, Stored
<1>3. Sent' = Sent
  BY <1>1, <1>2 DEF Sent
<1>4. Shapes' /\ Entries'
  BY <1>1, <1>2 DEF PlayersInv, Shapes, Entries
<1>5. Ids' /\ Housed' /\ Written' /\ Apart'
  BY <1>1, <1>2 DEF PlayersInv, Ids, Housed, Written, Apart
<1>6. todo' \in Seq(Sent') /\ Answered(todo', OwnNeeds(Held'))
  BY <1>1, <1>2, <1>3 DEF PlayersInv
<1>7. QED BY <1>4, <1>5, <1>6 DEF PlayersInv

LEMMA StepPlayers == ASSUME PlayersInv, Next PROVE PlayersInv'
<1>1. CASE Send
  BY <1>1, SendPlayers
<1>2. CASE Crash
  BY <1>2, CrashPlayers
<1>3. CASE Restart
  BY <1>3, RestartPlayers
<1>4. ASSUME NEW b \in Bids, NEW pos \in -1 .. MaxMessage, Post(b, pos) PROVE PlayersInv'
  BY <1>4, PostPlayers
<1>5. ASSUME NEW b \in Bids, NEW pos \in 0 .. MaxMessage, RemoveMessage(b, pos) PROVE PlayersInv'
  BY <1>5, RemovePlayers
<1>6. ASSUME NEW n \in Names, NEW right \in BOOLEAN, Login(n, right) PROVE PlayersInv'
  <2>1. Free
    BY <1>6 DEF Login
  <2>2. \/ \E what : Found(n, what)
        \/ /\ Named(n) = {} /\ posts < MaxPosts
           /\ \E home \in Homes : CreateNewPlayer(n, home, "cannot create")
    BY <1>6, Zenon DEF Login, Refused
  <2>3. QED BY <2>1, <2>2, FoundPlayers, CreatePlayers
<1>7. ASSUME NEW n \in Names, CreateAccount(n) PROVE PlayersInv'
  <2>1. Free
    BY <1>7 DEF CreateAccount
  <2>2. \/ \E what : Found(n, what)
        \/ /\ Named(n) = {} /\ posts < MaxPosts
           /\ \E home \in Homes : CreateNewPlayer(n, home, "created")
    BY <1>7, Zenon DEF CreateAccount, Refused
  <2>3. QED BY <2>1, <2>2, FoundPlayers, CreatePlayers
<1>8. ASSUME NEW p \in Pids, NEW q \in Pids, NEW o \in Objects, Turn(p, q, o) PROVE PlayersInv'
  BY <1>8, TurnPlayers
<1>9. QED BY <1>1, <1>2, <1>3, <1>4, <1>5, <1>6, <1>7, <1>8 DEF Next

LEMMA PlayersInvariant == Spec => []PlayersInv
<1>1. PlayersInv /\ [Next]_vars => PlayersInv'
  BY StepPlayers, StutterPlayers
<1>2. QED BY <1>1, InitPlayers, PTL DEF Spec

LEMMA OwnBoards == ASSUME PlayersInv PROVE EachOwnBoard
<1>1. Shapes /\ Entries /\ Ids /\ Housed
  BY DEF PlayersInv
<1>2. Held \in [Known -> Account]
  BY <1>1, KnownFacts DEF Entries
<1>3. \A p \in Pids : player[p] # None => p \in Known /\ player[p].boardid = Held[p].boardid
  BY <1>1, <1>2, HomeOf DEF Entries
<1>4. \A p \in Pids : player[p] # None => board[player[p].boardid] # None
  BY <1>1 DEF Housed
<1>5. \A p, q \in Known : p # q => Held[p].boardid # Held[q].boardid
  BY <1>1 DEF Entries
<1>6. \A p \in Known : Held[p].boardid < nextbid
  BY <1>1 DEF Ids
<1>7. QED BY <1>3, <1>4, <1>5, <1>6 DEF EachOwnBoard

LEMMA Consistent == ASSUME PlayersInv PROVE PlayersConsistent
<1>1. Shapes /\ Entries /\ Apart
  BY DEF PlayersInv
<1>2. /\ Held \in [Known -> Account] /\ Known \subseteq Pids
      /\ \A p \in Known : Held[p] = Entry(p)
      /\ \A p \in loaded : Held[p] = players[p]
  BY <1>1, KnownFacts DEF Entries
<1>3. TypeOK
  BY <1>1 DEF Shapes, TypeOK
<1>4. NamesOnce
  <2>1. \A p \in Pids : player[p] # None => p \in Known /\ player[p].name = Held[p].name
    BY <1>1, <1>2, HomeOf DEF Entries
  <2>2. \A p, q \in Known : p # q => Held[p].name # Held[q].name
    BY <1>1 DEF Entries
  <2>3. \A p, q \in Pids : player[p] # None /\ player[q] # None /\ player[p].name = player[q].name => p = q
    BY <2>1, <2>2
  <2>4. ASSUME NEW n \in Names PROVE Cardinality(Named(n)) <= 1
    <3>1. \A p, q \in Named(n) : p = q
      BY <1>2, <2>2 DEF Named
    <3>2. CASE Named(n) = {}
      <4>1. Cardinality(Named(n)) = 0
        BY <3>2, FS_EmptySet
      <4>2. QED BY <4>1
    <3>3. CASE Named(n) # {}
      <4>1. PICK p : p \in Named(n)
        BY <3>3
      <4>2. Named(n) = {p}
        BY <3>1, <4>1
      <4>3. Cardinality(Named(n)) = 1
        BY <4>2, FS_Singleton
      <4>4. QED BY <4>3
    <3>4. QED BY <3>2, <3>3
  <2>5. QED BY <2>3, <2>4 DEF NamesOnce
<1>5. PlayersKept
  <2>1. ASSUME up, todo = <<>>, NEW p \in loaded PROVE players[p] = Stored(p)
    <3>1. Free /\ p \in Known
      BY <1>1, <2>1 DEF Free, Shapes
    <3>2. player[p] = Home(Held[p]) /\ owned[p] = Held[p].owns /\ Held[p] \in Account
      BY <3>1, FreeFacts
    <3>3. player[p].name = Held[p].name /\ player[p].boardid = Held[p].boardid
      BY <3>2, HomeOf
    <3>4. Stored(p) = [name |-> Held[p].name, boardid |-> Held[p].boardid, owns |-> Held[p].owns]
      BY <3>2, <3>3 DEF Stored
    <3>5. Stored(p) = Held[p]
      BY <3>2, <3>4 DEF Account
    <3>6. QED BY <1>2, <3>5
  <2>2. \A p, q \in Known \ torn.players : p # q => Entry(p).owns \cap Entry(q).owns = {}
    BY <1>1, <1>2 DEF Apart
  <2>3. QED BY <2>1, <2>2 DEF PlayersKept
<1>6. QED BY <1>3, <1>4, <1>5 DEF PlayersConsistent

\* Two players never share a board, and the board of a player has a row before
\* the player has one (PlayerManager::createNewPlayer, BoardManager::init).
THEOREM SpecEachOwnBoard == Spec => []EachOwnBoard
<1>1. PlayersInv => EachOwnBoard
  BY OwnBoards
<1>2. QED BY <1>1, PlayersInvariant, PTL

\* The players in memory are whole, known by one name each and as they are
\* stored, read in or not, before and after a restart (PlayerManager::findPlayer,
\* PlayerManager::updateAll, MysqlPersistence::updatePlayer).
THEOREM SpecPlayersConsistent == Spec => []PlayersConsistent
<1>1. PlayersInv => PlayersConsistent
  BY Consistent
<1>2. QED BY <1>1, PlayersInvariant, PTL

-----------------------------------------------------------------------------
(* The inductive invariant of the boards *)

\* Lists and messages that are sent are those that memory has.
MailSent(T, list, shown) ==
  {q \in Statement :
     /\ q.table = "slots" => q.value \in {<<>>, list[q.id]}
     /\ q.table = "message" =>
          \A b \in Bids \ T : \A i \in 1 .. Len(list[b]) : list[b][i] = q.id => q.value = shown[b][i]}

\* The messages a board has, in memory or in its slots.
Uses(slot, list) == [b \in Bids |-> Range(slot[b]) \cup Range(list[b])]

SlotsOf(b) == {q \in Statement : q.table = "slots" /\ q.id = b}

\* What is deleted of a board is written again, and a message is written or deleted
\* before the list that has it.
MailNeeds(T, num, list, uses) ==
  [q \in Statement |->
     IF q.table = "slots" THEN {{Sql("slots", q.id, list[q.id])}}
     ELSE IF q.table = "board" THEN {{Sql("board", q.id, num[q.id])}}
     ELSE IF q.table = "message" THEN {SlotsOf(b) : b \in {c \in Bids \ T : q.id \in uses[c]}}
     ELSE {}]

\* A message is in one place of one board.
Unmixed(T, slot, list) ==
  \A b \in Bids \ T :
    /\ IsInjective(slot[b]) /\ IsInjective(list[b])
    /\ \A c \in Bids \ {b} : Uses(slot, list)[b] \cap Uses(slot, list)[c] = {}

\* A board shows its mail, or will when its list is written.
Shown ==
  \A b \in Bids \ torn.boards :
    /\ Has(todo, "slots", b) =>
         /\ Len(lists[b]) = Len(mail[b])
         /\ \A i \in 1 .. Len(lists[b]) : message[lists[b][i]] = mail[b][i] \/ Has(todo, "message", lists[b][i])
    /\ ~ Has(todo, "slots", b) =>
         Len(slots[b]) = Len(mail[b]) /\ \A i \in 1 .. Len(slots[b]) : message[slots[b][i]] = mail[b][i]
    /\ board[b] # None => Has(todo, "board", b) \/ board[b] = Len(mail[b])
    /\ nums[b] # None => nums[b] = Len(mail[b])

\* The lists in memory are stored, or still to be.
Listed == up => \A b \in Bids : Has(todo, "slots", b) \/ lists[b] \in {<<>>, slots[b]}

MailInv ==
  /\ mail \in [Bids -> Seq(Message)] /\ todo \in Seq(MailSent(torn.boards, lists, mail))
  /\ Answered(todo, MailNeeds(torn.boards, nums, lists, Uses(slots, lists)))
  /\ Listed /\ Unmixed(torn.boards, slots, lists) /\ Shown

LEMMA AnsweredLess ==
  ASSUME NEW s, NEW needs, NEW less, Answered(s, needs), \A k \in 1 .. Len(s) : less[s[k]] \subseteq needs[s[k]]
  PROVE  Answered(s, less)
BY DEF Answered

\* What the first statement needs is in it or after it.
LEMMA AnsweredHead ==
  ASSUME SendFacts, NEW needs, Answered(todo, needs), NEW X \in needs[Head(todo)]
  PROVE  Head(todo) \in X \/ \E j \in 1 .. Len(todo') : todo'[j] \in X
<1>1. /\ Len(todo) \in Nat /\ 1 \in 1 .. Len(todo) /\ Head(todo) = todo[1] /\ Len(todo') = Len(todo) - 1
      /\ \A k \in 1 .. Len(todo) - 1 : todo'[k] = todo[k + 1]
  BY DEF SendFacts
<1>2. PICK j \in 1 .. Len(todo) : todo[j] \in X
  BY <1>1 DEF Answered
<1>3. CASE j = 1
  BY <1>1, <1>2, <1>3
<1>4. CASE j # 1
  <2>1. j - 1 \in 1 .. Len(todo) - 1 /\ (j - 1) + 1 = j
    BY <1>1, <1>4
  <2>2. todo'[j - 1] = todo[j]
    BY <1>1, <2>1
  <2>3. QED BY <1>1, <1>2, <2>1, <2>2
<1>5. QED BY <1>3, <1>4

LEMMA MailNeedsAre ==
  ASSUME NEW T, NEW num, NEW list, NEW uses, NEW q \in Statement
  PROVE  /\ q.table = "slots" => MailNeeds(T, num, list, uses)[q] = {{Sql("slots", q.id, list[q.id])}}
         /\ q.table = "board" => MailNeeds(T, num, list, uses)[q] = {{Sql("board", q.id, num[q.id])}}
         /\ q.table = "message" =>
              MailNeeds(T, num, list, uses)[q] = {SlotsOf(b) : b \in {c \in Bids \ T : q.id \in uses[c]}}
         /\ q.table \in {"player", "owned"} => MailNeeds(T, num, list, uses)[q] = {}
BY DEF MailNeeds

LEMMA MailNeedsLess ==
  ASSUME NEW T, NEW num, NEW list, NEW uses, NEW T2, NEW less, T \subseteq T2,
         \A b \in Bids : less[b] \subseteq uses[b], NEW q \in Statement
  PROVE  MailNeeds(T2, num, list, less)[q] \subseteq MailNeeds(T, num, list, uses)[q]
<1>1. q.table \in {"player", "owned", "board", "slots", "message"}
  BY StatementParts
<1>2. CASE q.table = "message"
  <2>1. /\ MailNeeds(T, num, list, uses)[q] = {SlotsOf(b) : b \in {c \in Bids \ T : q.id \in uses[c]}}
        /\ MailNeeds(T2, num, list, less)[q] = {SlotsOf(b) : b \in {c \in Bids \ T2 : q.id \in less[c]}}
    BY <1>2, MailNeedsAre
  <2>2. {c \in Bids \ T2 : q.id \in less[c]} \subseteq {c \in Bids \ T : q.id \in uses[c]}
    OBVIOUS
  <2>3. QED BY <2>1, <2>2
<1>3. CASE q.table = "slots"
  BY <1>3, MailNeedsAre
<1>4. CASE q.table = "board"
  BY <1>4, MailNeedsAre
<1>5. CASE q.table \in {"player", "owned"}
  BY <1>5, MailNeedsAre
<1>6. QED BY <1>1, <1>2, <1>3, <1>4, <1>5

\* A message is written before the list that has it.
LEMMA ListAfter ==
  ASSUME NEW s \in Seq(Statement), NEW T, NEW num, NEW list, NEW uses, Answered(s, MailNeeds(T, num, list, uses)),
         NEW id, Has(s, "message", id), NEW b \in Bids \ T, id \in uses[b]
  PROVE  Has(s, "slots", b)
<1>1. PICK k \in 1 .. Len(s) : s[k].table = "message" /\ s[k].id = id
  BY DEF Has
<1>2. s[k] \in Statement
  OBVIOUS
<1>3. MailNeeds(T, num, list, uses)[s[k]] = {SlotsOf(c) : c \in {d \in Bids \ T : s[k].id \in uses[d]}}
  BY <1>1, <1>2, MailNeedsAre
<1>4. SlotsOf(b) \in MailNeeds(T, num, list, uses)[s[k]]
  BY <1>1, <1>3
<1>5. PICK j \in k .. Len(s) : s[j] \in SlotsOf(b)
  BY <1>4 DEF Answered
<1>6. j \in 1 .. Len(s)
  BY <1>1
<1>7. QED BY <1>5, <1>6 DEF SlotsOf, Has

\* When a statement is the last one about a row, it is the right one.
LEMMA LastOnes ==
  ASSUME PlayersInv, MailInv, Send
  PROVE  LET q == Head(todo) IN
         /\ q.table = "slots" => /\ q.value \in {<<>>, lists[q.id]}
                                 /\ q.value = lists[q.id] \/ Has(todo', "slots", q.id)
         /\ q.table = "board" => q.value = nums[q.id] \/ Has(todo', "board", q.id)
         /\ q.table = "message" =>
              \A b \in Bids \ torn.boards :
                /\ \A i \in 1 .. Len(lists[b]) : lists[b][i] = q.id => q.value = mail[b][i]
                /\ q.id \in Uses(slots, lists)[b] => Has(todo', "slots", b)
<1> DEFINE q == Head(todo)
           N == MailNeeds(torn.boards, nums, lists, Uses(slots, lists))
<1>1. SendFacts /\ Answered(todo, N)
  BY SendDoes DEF MailInv
<1>2. q \in Statement /\ todo # <<>>
  BY <1>1 DEF SendFacts
<1>3. q \in MailSent(torn.boards, lists, mail)
  <2>1. todo \in Seq(MailSent(torn.boards, lists, mail))
    BY DEF MailInv
  <2>2. QED BY <1>2, <2>1, TailOf
<1>4. ASSUME NEW X \in N[q] PROVE q \in X \/ \E j \in 1 .. Len(todo') : todo'[j] \in X
  BY <1>1, <1>4, AnsweredHead
<1> HIDE DEF q
<1>5. CASE q.table = "slots"
  <2>1. N[q] = {{Sql("slots", q.id, lists[q.id])}}
    BY <1>2, <1>5, MailNeedsAre
  <2> HIDE DEF N
  <2>2. q = Sql("slots", q.id, lists[q.id]) \/ \E j \in 1 .. Len(todo') : todo'[j] = Sql("slots", q.id, lists[q.id])
    BY <1>4, <2>1
  <2>3. q.value = lists[q.id] \/ Has(todo', "slots", q.id)
    BY <2>2, SqlParts DEF Has
  <2>4. q.value \in {<<>>, lists[q.id]}
    BY <1>3, <1>5 DEF MailSent
  <2>5. QED BY <1>5, <2>3, <2>4 DEF q
<1>6. CASE q.table = "board"
  <2>1. N[q] = {{Sql("board", q.id, nums[q.id])}}
    BY <1>2, <1>6, MailNeedsAre
  <2> HIDE DEF N
  <2>2. q = Sql("board", q.id, nums[q.id]) \/ \E j \in 1 .. Len(todo') : todo'[j] = Sql("board", q.id, nums[q.id])
    BY <1>4, <2>1
  <2>3. q.value = nums[q.id] \/ Has(todo', "board", q.id)
    BY <2>2, SqlParts DEF Has
  <2>4. QED BY <1>6, <2>3 DEF q
<1>7. CASE q.table = "message"
  <2>1. N[q] = {SlotsOf(b) : b \in {c \in Bids \ torn.boards : q.id \in Uses(slots, lists)[c]}}
    BY <1>2, <1>7, MailNeedsAre
  <2> HIDE DEF N
  <2>2. ASSUME NEW b \in Bids \ torn.boards, q.id \in Uses(slots, lists)[b] PROVE Has(todo', "slots", b)
    <3>1. SlotsOf(b) \in N[q]
      BY <2>1, <2>2
    <3>2. q \notin SlotsOf(b)
      BY <1>7 DEF SlotsOf
    <3>3. \E j \in 1 .. Len(todo') : todo'[j] \in SlotsOf(b)
      BY <1>4, <3>1, <3>2
    <3>4. QED BY <3>3 DEF SlotsOf, Has
  <2>3. \A b \in Bids \ torn.boards : \A i \in 1 .. Len(lists[b]) : lists[b][i] = q.id => q.value = mail[b][i]
    BY <1>3, <1>7 DEF MailSent
  <2>4. QED BY <1>7, <2>2, <2>3 DEF q
<1>8. CASE q.table \notin {"slots", "board", "message"}
  BY <1>8 DEF q
<1>9. QED BY <1>5, <1>6, <1>7, <1>8

LEMMA SendMail ==
  ASSUME PlayersInv, MailInv, Send
  PROVE  MailInv'
<1> DEFINE q == Head(todo)
           T == torn.boards
           U == Uses(slots, lists)
           V == Uses(slots', lists)
<1>1. SendFacts /\ SendTables /\ Shapes
  BY SendDoes DEF PlayersInv
<1>2. UNCHANGED <<lists, nums, mail, torn, up>>
  BY DEF Send, memory
<1>3. /\ mail \in [Bids -> Seq(Message)] /\ todo \in Seq(MailSent(T, lists, mail))
      /\ Answered(todo, MailNeeds(T, nums, lists, U))
      /\ Listed /\ Unmixed(T, slots, lists) /\ Shown
  BY DEF MailInv
<1>4. /\ todo' = Tail(todo) /\ todo # <<>> /\ q \in Statement /\ up
  BY <1>1 DEF SendFacts
<1>5. /\ q.table = "slots" => q.id \in Bids
      /\ q.table = "board" => q.id \in Bids /\ q.value \in Nat
      /\ q.table = "message" => q.id \in Mids
  BY <1>4, StatementParts
<1>6. /\ q.table = "slots" => /\ q.value \in {<<>>, lists[q.id]}
                              /\ q.value = lists[q.id] \/ Has(todo', "slots", q.id)
      /\ q.table = "board" => q.value = nums[q.id] \/ Has(todo', "board", q.id)
      /\ q.table = "message" =>
           \A b \in Bids \ T :
             /\ \A i \in 1 .. Len(lists[b]) : lists[b][i] = q.id => q.value = mail[b][i]
             /\ q.id \in U[b] => Has(todo', "slots", b)
  BY LastOnes
<1>7. /\ \A table, id : Has(todo', table, id) => Has(todo, table, id)
      /\ \A table, id : Has(todo, table, id) => Has(todo', table, id) \/ (q.table = table /\ q.id = id)
  BY <1>1 DEF SendFacts
<1>8. /\ slots \in [Bids -> Seq(Mids)] /\ lists \in [Bids -> Seq(Mids)]
      /\ message \in [Mids -> Message \cup {None}] /\ board \in [Bids -> Nat \cup {None}]
  BY <1>1 DEF Shapes
<1>9. \A b \in Bids : slots'[b] = IF q.table = "slots" /\ q.id = b THEN q.value ELSE slots[b]
  BY <1>1, <1>5, <1>8 DEF SendTables
<1>10. \A b \in Bids : board'[b] = IF q.table = "board" /\ q.id = b THEN q.value ELSE board[b]
  BY <1>1, <1>5, <1>8 DEF SendTables
<1>11. \A m \in Mids : message'[m] = IF q.table = "message" /\ q.id = m THEN q.value ELSE message[m]
  BY <1>1, <1>5, <1>8 DEF SendTables
<1>12. todo' \in Seq(Sent') /\ todo' \in Seq(Statement)
  <2>1. PlayersInv'
    BY SendPlayers
  <2>2. todo' \in Seq(Sent)
    BY <1>1 DEF SendFacts
  <2>3. QED BY <2>1, <2>2, SentIsStatement DEF PlayersInv
<1> HIDE DEF q
<1>13. \A b \in Bids : slots'[b] \in {slots[b], <<>>, lists[b]}
  BY <1>6, <1>9
<1>14. \A b \in Bids : V[b] \subseteq U[b] /\ U[b] = Range(slots[b]) \cup Range(lists[b])
  <2>1. Range(<<>>) = {}
    BY DEF Range
  <2>2. QED BY <1>13, <2>1 DEF Uses
<1>15. todo' \in Seq(MailSent(T, lists, mail))
  <2> DEFINE Z == MailSent(T, lists, mail)
  <2> HIDE DEF Z
  <2>1. todo \in Seq(Z)
    BY <1>3 DEF Z
  <2>2. todo' \in Seq(Z)
    BY <1>4, <2>1, TailOf
  <2>3. QED BY <2>2 DEF Z
<1>16. Answered(todo', MailNeeds(T, nums, lists, V))
  <2> DEFINE N == MailNeeds(T, nums, lists, U)
             M == MailNeeds(T, nums, lists, V)
  <2>1. \A s \in Statement : M[s] \subseteq N[s]
    <3> HIDE DEF U, V
    <3>1. \A b \in Bids : V[b] \subseteq U[b]
      BY <1>14
    <3>2. QED BY <3>1, MailNeedsLess
  <2>2. Answered(todo', N)
    <3> DEFINE Z == MailSent(T, lists, mail)
    <3>1. todo \in Seq(Z) /\ Answered(todo, N)
      BY <1>3
    <3> HIDE DEF Z, N
    <3>2. QED BY <1>4, <3>1, AnsweredTail
  <2>3. \A k \in 1 .. Len(todo') : todo'[k] \in Statement
    BY <1>12
  <2> HIDE DEF N, M
  <2>4. Answered(todo', M)
    BY <2>1, <2>2, <2>3, AnsweredLess
  <2>5. QED BY <2>4 DEF M
<1>17. Listed'
  <2>1. ASSUME NEW b \in Bids PROVE Has(todo', "slots", b) \/ lists[b] \in {<<>>, slots'[b]}
    <3>1. CASE q.table = "slots" /\ q.id = b
      BY <1>6, <1>9, <3>1
    <3>2. CASE ~ (q.table = "slots" /\ q.id = b)
      BY <1>3, <1>4, <1>7, <1>9, <3>2 DEF Listed
    <3>3. QED BY <3>1, <3>2
  <2>2. QED BY <1>2, <2>1 DEF Listed
<1>18. Unmixed(T, slots', lists)
  <2>1. SUFFICES ASSUME NEW b \in Bids \ T
        PROVE  /\ IsInjective(slots'[b]) /\ IsInjective(lists[b])
               /\ \A c \in Bids \ {b} : V[b] \cap V[c] = {}
    BY DEF Unmixed
  <2>2. /\ IsInjective(slots[b]) /\ IsInjective(lists[b])
        /\ \A c \in Bids \ {b} : U[b] \cap U[c] = {}
    BY <1>3 DEF Unmixed
  <2>3. IsInjective(<<>>)
    BY DEF IsInjective
  <2>4. QED BY <1>13, <1>14, <2>2, <2>3
<1>19. Shown'
  <2>1. SUFFICES ASSUME NEW b \in Bids \ T
        PROVE  /\ Has(todo', "slots", b) =>
                    /\ Len(lists[b]) = Len(mail[b])
                    /\ \A i \in 1 .. Len(lists[b]) : message'[lists[b][i]] = mail[b][i] \/ Has(todo', "message", lists[b][i])
               /\ ~ Has(todo', "slots", b) =>
                    Len(slots'[b]) = Len(mail[b]) /\ \A i \in 1 .. Len(slots'[b]) : message'[slots'[b][i]] = mail[b][i]
               /\ board'[b] # None => Has(todo', "board", b) \/ board'[b] = Len(mail[b])
               /\ nums[b] # None => nums[b] = Len(mail[b])
    BY <1>2 DEF Shown
  <2>2. /\ Has(todo, "slots", b) =>
             /\ Len(lists[b]) = Len(mail[b])
             /\ \A i \in 1 .. Len(lists[b]) : message[lists[b][i]] = mail[b][i] \/ Has(todo, "message", lists[b][i])
        /\ ~ Has(todo, "slots", b) =>
             Len(slots[b]) = Len(mail[b]) /\ \A i \in 1 .. Len(slots[b]) : message[slots[b][i]] = mail[b][i]
        /\ board[b] # None => Has(todo, "board", b) \/ board[b] = Len(mail[b])
        /\ nums[b] # None => nums[b] = Len(mail[b])
    BY <1>3 DEF Shown
  <2>3. /\ \A i \in 1 .. Len(lists[b]) : lists[b][i] \in Mids /\ lists[b][i] \in U[b]
        /\ \A i \in 1 .. Len(slots[b]) : slots[b][i] \in Mids /\ slots[b][i] \in U[b]
    <3>1. lists[b] \in Seq(Mids) /\ slots[b] \in Seq(Mids)
      BY <1>8
    <3>2. U[b] = Range(slots[b]) \cup Range(lists[b])
      BY <1>14
    <3>3. QED BY <3>1, <3>2 DEF Range
  <2>4. ASSUME Has(todo, "slots", b), NEW i \in 1 .. Len(lists[b])
        PROVE  message'[lists[b][i]] = mail[b][i] \/ Has(todo', "message", lists[b][i])
    <3>1. CASE q.table = "message" /\ q.id = lists[b][i]
      BY <1>6, <1>11, <2>3, <3>1
    <3>2. CASE ~ (q.table = "message" /\ q.id = lists[b][i])
      <4>1. message'[lists[b][i]] = message[lists[b][i]]
        BY <1>11, <2>3, <3>2
      <4>2. QED BY <1>7, <2>2, <2>4, <3>2, <4>1
    <3>3. QED BY <3>1, <3>2
  <2>5. ASSUME ~ Has(todo', "slots", b)
        PROVE  Len(slots'[b]) = Len(mail[b]) /\ \A i \in 1 .. Len(slots'[b]) : message'[slots'[b][i]] = mail[b][i]
    <3>1. CASE Has(todo, "slots", b)
      <4>1. q.table = "slots" /\ q.id = b
        BY <1>7, <2>5, <3>1
      <4>2. slots'[b] = lists[b]
        BY <1>6, <1>9, <2>5, <4>1
      <4>3. ASSUME NEW i \in 1 .. Len(lists[b]) PROVE ~ Has(todo', "message", lists[b][i])
        <5> DEFINE N == MailNeeds(T, nums, lists, V)
                   m == lists[b][i]
        <5>1. m \in V[b]
          <6>1. lists[b] \in Seq(Mids)
            BY <1>8
          <6>2. m \in Range(lists[b])
            BY <6>1 DEF Range
          <6>3. QED BY <6>2 DEF Uses
        <5> HIDE DEF m, V
        <5>2. Has(todo', "message", m) => Has(todo', "slots", b)
          BY <1>12, <1>16, <5>1, ListAfter
        <5>3. QED BY <2>5, <5>2 DEF m
      <4>4. QED BY <2>2, <2>4, <3>1, <4>2, <4>3
    <3>2. CASE ~ Has(todo, "slots", b)
      <4>1. slots'[b] = slots[b]
        <5>1. ~ (q.table = "slots" /\ q.id = b)
          <6>1. todo[1] = q /\ 1 \in 1 .. Len(todo)
            BY <1>1 DEF SendFacts, q
          <6>2. QED BY <3>2, <6>1 DEF Has
        <5>2. QED BY <1>9, <5>1
      <4>2. \A i \in 1 .. Len(slots[b]) : message'[slots[b][i]] = message[slots[b][i]]
        BY <1>6, <1>11, <2>3, <2>5
      <4>3. QED BY <2>2, <3>2, <4>1, <4>2
    <3>3. QED BY <3>1, <3>2
  <2>6. ASSUME board'[b] # None PROVE Has(todo', "board", b) \/ board'[b] = Len(mail[b])
    <3>1. CASE q.table = "board" /\ q.id = b
      <4>1. board'[b] = q.value /\ q.value \in Nat
        BY <1>5, <1>10, <3>1
      <4>2. q.value = nums[b] \/ Has(todo', "board", b)
        BY <1>6, <3>1
      <4>3. QED BY <2>2, <4>1, <4>2, NoneAssumption
    <3>2. CASE ~ (q.table = "board" /\ q.id = b)
      BY <1>7, <1>10, <2>2, <2>6, <3>2
    <3>3. QED BY <3>1, <3>2
  <2>7. QED BY <1>7, <2>2, <2>4, <2>5, <2>6
<1>20. QED BY <1>2, <1>3, <1>15, <1>16, <1>17, <1>18, <1>19 DEF MailInv

LEMMA InitMail == ASSUME Init PROVE MailInv
<1> USE DEF Init
<1>1. mail \in [Bids -> Seq(Message)]
  OBVIOUS
<1>2. Len(todo) = 0 /\ todo \in Seq(MailSent(torn.boards, lists, mail)) /\ todo = <<>>
  OBVIOUS
<1>3. Answered(todo, MailNeeds(torn.boards, nums, lists, Uses(slots, lists)))
  BY <1>2 DEF Answered
<1>4. Listed
  BY DEF Listed
<1>5. \A b \in Bids : slots[b] = <<>> /\ lists[b] = <<>>
  OBVIOUS
<1>6. Range(<<>>) = {} /\ IsInjective(<<>>)
  BY DEF Range, IsInjective
<1>7. Unmixed(torn.boards, slots, lists)
  BY <1>5, <1>6 DEF Unmixed, Uses
<1>8. Shown
  BY NothingToSend DEF Shown
<1>9. QED BY <1>1, <1>2, <1>3, <1>4, <1>7, <1>8 DEF MailInv

LEMMA CrashMail ==
  ASSUME PlayersInv, MailInv, Crash
  PROVE  MailInv'
<1>1. /\ UNCHANGED <<board, slots, message, nums, lists, mail>>
      /\ up' = FALSE /\ todo' = <<>> /\ torn'.boards = torn.boards \cup Pending({"board", "slots"})
  BY DEF Crash, tables, memory
<1>2. /\ mail \in [Bids -> Seq(Message)] /\ Unmixed(torn.boards, slots, lists) /\ Shown
  BY DEF MailInv
<1>3. Len(todo') = 0 /\ todo' \in Seq(MailSent(torn'.boards, lists', mail'))
  BY <1>1
<1>4. Answered(todo', MailNeeds(torn'.boards, nums', lists', Uses(slots', lists')))
  BY <1>3 DEF Answered
<1>5. Listed'
  BY <1>1 DEF Listed
<1>6. torn.boards \subseteq torn'.boards
  BY <1>1
<1>7. Unmixed(torn'.boards, slots', lists')
  BY <1>1, <1>2, <1>6 DEF Unmixed
<1>8. Shown'
  <2>1. SUFFICES ASSUME NEW b \in Bids \ torn'.boards
        PROVE  /\ Len(slots[b]) = Len(mail[b]) /\ \A i \in 1 .. Len(slots[b]) : message[slots[b][i]] = mail[b][i]
               /\ board[b] # None => board[b] = Len(mail[b])
               /\ nums[b] # None => nums[b] = Len(mail[b])
    BY <1>1, NothingToSend DEF Shown
  <2>2. b \in Bids \ torn.boards /\ ~ Has(todo, "slots", b) /\ ~ Has(todo, "board", b)
    BY <1>1, PendingFacts
  <2>3. QED BY <1>2, <2>2 DEF Shown
<1>9. QED BY <1>1, <1>2, <1>3, <1>4, <1>5, <1>7, <1>8 DEF MailInv

LEMMA RestartMail ==
  ASSUME PlayersInv, MailInv, Restart
  PROVE  MailInv'
<1>1. /\ UNCHANGED <<board, slots, message, todo, torn, mail>>
      /\ nums' = [b \in Bids |-> None] /\ lists' = [b \in Bids |-> <<>>]
  BY DEF Restart, tables
<1>2. todo = <<>>
  BY DEF Restart, PlayersInv, Shapes
<1>3. /\ mail \in [Bids -> Seq(Message)] /\ Unmixed(torn.boards, slots, lists) /\ Shown
  BY DEF MailInv
<1>4. Len(todo') = 0 /\ todo' \in Seq(MailSent(torn'.boards, lists', mail'))
  BY <1>1, <1>2
<1>5. Answered(todo', MailNeeds(torn'.boards, nums', lists', Uses(slots', lists')))
  BY <1>4 DEF Answered
<1>6. \A b \in Bids : lists'[b] = <<>> /\ nums'[b] = None
  BY <1>1
<1>7. Listed'
  BY <1>6 DEF Listed
<1>8. Unmixed(torn.boards, slots, lists')
  <2>1. Range(<<>>) = {} /\ IsInjective(<<>>)
    BY DEF Range, IsInjective
  <2>2. \A b \in Bids : Uses(slots, lists')[b] \subseteq Uses(slots, lists)[b]
    BY <1>6, <2>1 DEF Uses
  <2>3. SUFFICES ASSUME NEW b \in Bids \ torn.boards
        PROVE  /\ IsInjective(slots[b]) /\ IsInjective(lists'[b])
               /\ \A c \in Bids \ {b} : Uses(slots, lists')[b] \cap Uses(slots, lists')[c] = {}
    BY DEF Unmixed
  <2>4. IsInjective(slots[b]) /\ \A c \in Bids \ {b} : Uses(slots, lists)[b] \cap Uses(slots, lists)[c] = {}
    BY <1>3 DEF Unmixed
  <2>5. QED BY <1>6, <2>1, <2>2, <2>4
<1>9. Shown'
  BY <1>1, <1>2, <1>3, <1>6, NothingToSend DEF Shown
<1>10. QED BY <1>1, <1>3, <1>4, <1>5, <1>7, <1>8, <1>9 DEF MailInv

\* Statements about players.
OfPlayers == {q \in Statement : q.table \in {"player", "owned"}}

\* What is sent of players alone leaves the boards as they are.
LEMMA SameMail ==
  ASSUME PlayersInv, MailInv, Free, todo' \in Seq(OfPlayers), torn'.boards = torn.boards,
         UNCHANGED <<board, slots, message, up, nums, lists, mail>>
  PROVE  MailInv'
<1>1. /\ mail \in [Bids -> Seq(Message)] /\ Unmixed(torn.boards, slots, lists) /\ Shown /\ Listed
      /\ todo = <<>>
  BY DEF MailInv, Free
<1>2. /\ \A k \in 1 .. Len(todo') : todo'[k] \in Statement /\ todo'[k].table \in {"player", "owned"}
      /\ \A k \in 1 .. Len(todo') : todo'[k].table \notin {"slots", "board", "message"}
  BY DEF OfPlayers
<1>3. todo' \in Seq(MailSent(torn.boards, lists, mail))
  <2>1. OfPlayers \subseteq MailSent(torn.boards, lists, mail)
    BY DEF OfPlayers, MailSent
  <2> DEFINE Z == MailSent(torn.boards, lists, mail)
  <2> HIDE DEF Z, OfPlayers
  <2>2. todo' \in Seq(Z)
    BY <2>1 DEF Z
  <2>3. QED BY <2>2 DEF Z
<1>4. Answered(todo', MailNeeds(torn.boards, nums, lists, Uses(slots, lists)))
  <2> DEFINE N == MailNeeds(torn.boards, nums, lists, Uses(slots, lists))
  <2>1. \A k \in 1 .. Len(todo') : N[todo'[k]] = {}
    BY <1>2, MailNeedsAre
  <2> HIDE DEF N
  <2>2. Answered(todo', N)
    BY <2>1 DEF Answered
  <2>3. QED BY <2>2 DEF N
<1>5. \A id : ~ Has(todo', "slots", id) /\ ~ Has(todo', "board", id) /\ ~ Has(todo', "message", id)
  BY <1>2 DEF Has
<1>6. \A id : ~ Has(todo, "slots", id) /\ ~ Has(todo, "board", id) /\ ~ Has(todo, "message", id)
  BY <1>1, NothingToSend
<1>7. Listed'
  BY <1>1, <1>6 DEF Listed
<1>8. Shown'
  BY <1>1, <1>5, <1>6 DEF Shown
<1>9. QED BY <1>1, <1>3, <1>4, <1>7, <1>8 DEF MailInv

LEMMA FoundMail ==
  ASSUME PlayersInv, MailInv, Free, NEW n, NEW what, Found(n, what)
  PROVE  MailInv'
<1>1. /\ UNCHANGED <<board, slots, message, up, nums, lists, mail, torn>> /\ todo' = todo
  BY DEF Found, tables
<1>2. todo' \in Seq(OfPlayers)
  BY <1>1 DEF Free
<1>3. QED BY <1>1, <1>2, SameMail

LEMMA TurnMail ==
  ASSUME PlayersInv, MailInv, NEW p \in Pids, NEW q \in Pids, NEW o \in Objects, Turn(p, q, o)
  PROVE  MailInv'
<1>1. Free /\ UNCHANGED <<board, slots, message, up, nums, lists, mail>>
  BY DEF Turn, tables
<1>2. TurnFacts(p, q, o) /\ PlayersInv'
  BY TurnDoes, TurnPlayers
<1>3. torn'.boards = torn.boards
  <2>1. torn \in [boards : SUBSET Bids, players : SUBSET Pids]
    BY DEF PlayersInv, Shapes
  <2>2. torn' = IF p \in torn.players THEN [torn EXCEPT !.players = @ \cup {q}] ELSE torn
    BY <1>2 DEF TurnFacts
  <2>3. QED BY <2>1, <2>2
<1>4. /\ \A r \in Known : players'[r] \in Account /\ r \in Pids
      /\ \E all \in InOrder(Known) :
           todo' = FlattenSeq([k \in DOMAIN all |-> UpdatePlayer(all[k], players'[all[k]])])
  BY <1>2 DEF TurnFacts, Known
<1>5. PICK all \in InOrder(Known) :
        todo' = FlattenSeq([k \in DOMAIN all |-> UpdatePlayer(all[k], players'[all[k]])])
  BY <1>4
<1>6. todo' \in Seq(OfPlayers)
  <2> DEFINE a == players'
             h == players'
  <2>1. \A r \in Known : /\ Sql("player", r, Home(a[r])) \in OfPlayers /\ Sql("owned", r, {}) \in OfPlayers
                         /\ Sql("owned", r, a[r].owns) \in OfPlayers
    <3>1. SUFFICES ASSUME NEW r \in Known
          PROVE  /\ Sql("player", r, Home(a[r])) \in OfPlayers /\ Sql("owned", r, {}) \in OfPlayers
                 /\ Sql("owned", r, a[r].owns) \in OfPlayers
      OBVIOUS
    <3>2. r \in Pids /\ Home(a[r]) \in Row /\ a[r].owns \in SUBSET Objects
      BY <1>4, HomeOf
    <3>3. /\ Sql("player", r, Home(a[r])) \in Statement /\ Sql("owned", r, {}) \in Statement
          /\ Sql("owned", r, a[r].owns) \in Statement
      BY <3>2, SqlStatements
    <3>4. QED BY <3>3, SqlParts DEF OfPlayers
  <2>2. Saving(Known, all, a, OfPlayers, h, todo')
    BY <1>4, <1>5, <2>1 DEF Saving
  <2> HIDE DEF a, h
  <2>3. QED BY <2>2, UpdatesFacts
<1>7. QED BY <1>1, <1>3, <1>6, SameMail

\* A message is put in a list that has no such message.
LEMMA AddedNew ==
  ASSUME NEW S, NEW list \in Seq(S), NEW m \in S, NEW k \in 0 .. Len(list), m \notin Range(list), IsInjective(list)
  PROVE  /\ IsInjective(Added(list, m, k)) /\ Range(Added(list, m, k)) \subseteq Range(list) \cup {m}
         /\ \A i \in 1 .. Len(list) + 1 : Added(list, m, k)[i] = m => i = k + 1
<1> DEFINE t == Added(list, m, k)
           n == Len(list)
<1>1. /\ t \in Seq(S) /\ Len(t) = n + 1
      /\ \A i \in 1 .. n + 1 : t[i] = IF i <= k THEN list[i] ELSE IF i = k + 1 THEN m ELSE list[i - 1]
  BY AddedFacts
<1>2. n \in Nat /\ DOMAIN list = 1 .. n /\ DOMAIN t = 1 .. n + 1 /\ k \in 0 .. n
  BY <1>1
<1>3. \A i \in 1 .. n : list[i] \in Range(list) /\ list[i] # m
  BY <1>2 DEF Range
<1>4. \A i, j \in 1 .. n : list[i] = list[j] => i = j
  BY <1>2 DEF IsInjective
<1> HIDE DEF t, n
<1> DEFINE From(i) == IF i <= k THEN i ELSE i - 1
<1>5. \A i \in 1 .. n + 1 : i # k + 1 => From(i) \in 1 .. n /\ t[i] = list[From(i)]
  <2>1. ASSUME NEW i \in 1 .. n + 1, i # k + 1 PROVE From(i) \in 1 .. n /\ t[i] = list[From(i)]
    <3>1. From(i) \in 1 .. n
      BY <1>2, <2>1
    <3>2. t[i] = list[From(i)]
      BY <1>1, <1>2, <2>1
    <3>3. QED BY <3>1, <3>2
  <2>2. QED BY <2>1
<1>6. \A i, j \in 1 .. n + 1 : i # k + 1 /\ j # k + 1 /\ From(i) = From(j) => i = j
  BY <1>2
<1>7. k + 1 \in 1 .. n + 1 /\ t[k + 1] = m
  BY <1>1, <1>2
<1> HIDE DEF From
<1>8. \A i \in 1 .. n + 1 : t[i] = m => i = k + 1
  BY <1>3, <1>5
<1>9. \A i, j \in 1 .. n + 1 : t[i] = t[j] => i = j
  BY <1>4, <1>5, <1>6, <1>7, <1>8
<1>10. IsInjective(t)
  BY <1>2, <1>9 DEF IsInjective
<1>11. Range(t) \subseteq Range(list) \cup {m}
  <2>1. \A i \in 1 .. n + 1 : t[i] \in Range(list) \cup {m}
    BY <1>3, <1>5, <1>7
  <2>2. QED BY <1>2, <2>1 DEF Range
<1>12. QED BY <1>8, <1>10, <1>11 DEF t, n

LEMMA AddedRange ==
  ASSUME NEW S, NEW list \in Seq(S), NEW m \in S, NEW k \in 0 .. Len(list)
  PROVE  Range(Added(list, m, k)) \subseteq Range(list) \cup {m}
<1> DEFINE t == Added(list, m, k)
           n == Len(list)
<1>1. /\ t \in Seq(S) /\ Len(t) = n + 1
      /\ \A i \in 1 .. n + 1 : t[i] = IF i <= k THEN list[i] ELSE IF i = k + 1 THEN m ELSE list[i - 1]
  BY AddedFacts
<1>2. n \in Nat /\ DOMAIN list = 1 .. n /\ DOMAIN t = 1 .. n + 1 /\ k \in 0 .. n
  BY <1>1
<1>3. \A i \in 1 .. n : list[i] \in Range(list)
  BY <1>2 DEF Range
<1> HIDE DEF t, n
<1>4. ASSUME NEW i \in 1 .. n + 1 PROVE t[i] \in Range(list) \cup {m}
  <2>1. CASE i <= k
    <3>1. i \in 1 .. n
      BY <1>2, <2>1
    <3>2. QED BY <1>1, <1>3, <2>1, <3>1
  <2>2. CASE i = k + 1
    BY <1>1, <1>2, <2>2
  <2>3. CASE ~ (i <= k) /\ i # k + 1
    <3>1. i - 1 \in 1 .. n
      BY <1>2, <2>3
    <3>2. QED BY <1>1, <1>3, <2>3, <3>1
  <2>4. QED BY <2>1, <2>2, <2>3
<1>5. QED BY <1>2, <1>4 DEF Range, t

\* Between two requests the lists are those in the store.
LEMMA FreeBoards ==
  ASSUME PlayersInv, MailInv, Free
  PROVE  /\ \A b \in Bids : /\ List(b) = slots[b] /\ Uses(slots, lists)[b] = Range(slots[b])
                            /\ lists[b] \in {<<>>, slots[b]} /\ slots[b] \in Seq(Mids) /\ mail[b] \in Seq(Message)
         /\ \A b \in Bids \ torn.boards :
              /\ IsInjective(slots[b]) /\ Len(slots[b]) = Len(mail[b])
              /\ \A i \in 1 .. Len(slots[b]) : message[slots[b][i]] = mail[b][i]
              /\ board[b] # None => board[b] = Len(mail[b])
              /\ nums[b] # None => nums[b] = Len(mail[b])
              /\ \A c \in Bids \ {b} : Range(slots[b]) \cap Range(slots[c]) = {}
<1>1. /\ mail \in [Bids -> Seq(Message)] /\ Listed /\ Unmixed(torn.boards, slots, lists) /\ Shown
      /\ todo = <<>> /\ up /\ slots \in [Bids -> Seq(Mids)]
  BY DEF MailInv, Free, PlayersInv, Shapes
<1>2. \A b \in Bids : lists[b] \in {<<>>, slots[b]}
  BY <1>1, NothingToSend DEF Listed
<1>3. Range(<<>>) = {}
  BY DEF Range
<1>4. \A b \in Bids : /\ List(b) = slots[b] /\ Uses(slots, lists)[b] = Range(slots[b])
                      /\ slots[b] \in Seq(Mids) /\ mail[b] \in Seq(Message)
  BY <1>1, <1>2, <1>3 DEF List, Uses
<1>5. ASSUME NEW b \in Bids \ torn.boards
      PROVE  /\ IsInjective(slots[b]) /\ Len(slots[b]) = Len(mail[b])
             /\ \A i \in 1 .. Len(slots[b]) : message[slots[b][i]] = mail[b][i]
             /\ board[b] # None => board[b] = Len(mail[b])
             /\ nums[b] # None => nums[b] = Len(mail[b])
  BY <1>1, NothingToSend DEF Unmixed, Shown
<1>6. \A b \in Bids \ torn.boards : \A c \in Bids \ {b} : Range(slots[b]) \cap Range(slots[c]) = {}
  BY <1>1, <1>4 DEF Unmixed
<1>7. QED BY <1>2, <1>4, <1>5, <1>6

-----------------------------------------------------------------------------
(* Messages that are delivered *)

\* A new message is put in the list of each board of B: the one it has, or an empty one.
Delivery(B, id, at, base, shown, no) ==
  /\ B \in SUBSET Bids
  /\ \A c \in B :
       /\ id[c] \in Mids /\ [to |-> c, no |-> no] \in Message
       /\ base[c] \in Seq(Mids) /\ at[c] \in 0 .. Len(base[c])
       /\ lists'[c] = Added(base[c], id[c], at[c]) /\ nums'[c] = Len(lists'[c])
       /\ c \notin torn.boards => mail'[c] = Added(shown[c], [to |-> c, no |-> no], at[c])
       /\ \/ base[c] = List(c) /\ shown[c] = mail[c]
          \/ base[c] = <<>> /\ shown[c] = <<>>
  /\ \A c, d \in B : id[c] = id[d] => c = d
  /\ \A c \in Bids \ B : lists'[c] = lists[c] /\ nums'[c] = nums[c] /\ mail'[c] = mail[c]
  /\ mail' \in [Bids -> Seq(Message)]
  /\ \E ids : torn' = Shared(ids, B) /\ \A c \in B : id[c] \in ids
  /\ UNCHANGED <<board, slots, message, up>>

\* Where a board is not torn, its message is new, and what it had is as it was shown.
DeliveryFacts(B, id, at, base, shown, no) ==
  /\ torn.boards \subseteq torn'.boards
  /\ \A b \in Bids \ torn'.boards : \A c \in B : id[c] \notin Range(slots[b])
  /\ \A c \in B \ torn'.boards :
       /\ \A b \in Bids : id[c] \notin Range(slots[b])
       /\ shown[c] \in Seq(Message) /\ Len(base[c]) = Len(shown[c]) /\ IsInjective(base[c])
       /\ Range(base[c]) \subseteq Range(slots[c])
       /\ \A i \in 1 .. Len(base[c]) : message[base[c][i]] = shown[c][i]
       /\ mail'[c] = Added(shown[c], [to |-> c, no |-> no], at[c])

LEMMA DeliveryDoes ==
  ASSUME PlayersInv, MailInv, Free, NEW B, NEW id, NEW at, NEW base, NEW shown, NEW no,
         Delivery(B, id, at, base, shown, no)
  PROVE  /\ DeliveryFacts(B, id, at, base, shown, no)
         /\ \A c \in B : Range(base[c]) \subseteq Range(slots[c])
<1>1. Shapes /\ B \in SUBSET Bids
  BY DEF PlayersInv, Delivery
<1>2. PICK ids : torn' = Shared(ids, B) /\ \A c \in B : id[c] \in ids
  BY DEF Delivery
<1>3. /\ torn.boards \subseteq torn'.boards
      /\ \A b \in Bids \ torn'.boards :
           /\ b \notin torn.boards /\ Range(slots[b]) \cap ids = {}
           /\ b \in B => \A c \in Bids : Range(slots[c]) \cap ids = {}
  <2>1. \A b \in Bids : b \notin torn'.boards =>
              /\ b \notin torn.boards /\ Range(slots[b]) \cap ids = {}
              /\ b \in B => \A c \in Bids : Range(slots[c]) \cap ids = {}
    BY <1>1, <1>2, SharedFacts
  <2>2. torn.boards \subseteq Bids
    BY <1>1 DEF Shapes
  <2>3. QED BY <2>1, <2>2
<1>4. \A b \in Bids \ torn'.boards : \A c \in B : id[c] \notin Range(slots[b])
  BY <1>2, <1>3
<1>5. Range(<<>>) = {} /\ IsInjective(<<>>) /\ <<>> \in Seq(Message) /\ Len(<<>>) = 0
  BY DEF Range, IsInjective
<1>6. ASSUME NEW c \in B PROVE Range(base[c]) \subseteq Range(slots[c])
  <2>1. base[c] = List(c) \/ base[c] = <<>>
    BY DEF Delivery
  <2>2. List(c) = slots[c]
    BY <1>1, FreeBoards
  <2>3. QED BY <1>5, <2>1, <2>2
<1>7. ASSUME NEW c \in B \ torn'.boards
      PROVE  /\ \A b \in Bids : id[c] \notin Range(slots[b])
             /\ shown[c] \in Seq(Message) /\ Len(base[c]) = Len(shown[c]) /\ IsInjective(base[c])
             /\ \A i \in 1 .. Len(base[c]) : message[base[c][i]] = shown[c][i]
             /\ mail'[c] = Added(shown[c], [to |-> c, no |-> no], at[c])
  <2>1. c \in Bids \ torn.boards
    BY <1>1, <1>3
  <2>2. \A b \in Bids : id[c] \notin Range(slots[b])
    BY <1>1, <1>2, <1>3
  <2>3. mail'[c] = Added(shown[c], [to |-> c, no |-> no], at[c])
    BY <2>1 DEF Delivery
  <2>4. CASE base[c] = List(c) /\ shown[c] = mail[c]
    <3>1. /\ List(c) = slots[c] /\ mail[c] \in Seq(Message) /\ IsInjective(slots[c]) /\ Len(slots[c]) = Len(mail[c])
          /\ \A i \in 1 .. Len(slots[c]) : message[slots[c][i]] = mail[c][i]
      BY <2>1, FreeBoards
    <3>2. QED BY <2>2, <2>3, <2>4, <3>1
  <2>5. CASE base[c] = <<>> /\ shown[c] = <<>>
    BY <1>5, <2>2, <2>3, <2>5
  <2>6. QED BY <2>4, <2>5 DEF Delivery
<1>8. DeliveryFacts(B, id, at, base, shown, no)
  BY <1>3, <1>4, <1>6, <1>7 DEF DeliveryFacts
<1>9. QED BY <1>6, <1>8

\* The messages a board has when they are delivered.
LEMMA DeliveredUses ==
  ASSUME PlayersInv, MailInv, Free, NEW B, NEW id, NEW at, NEW base, NEW shown, NEW no,
         Delivery(B, id, at, base, shown, no)
  PROVE  \A b \in Bids : /\ Uses(slots, lists')[b] \subseteq Range(slots[b]) \cup (IF b \in B THEN {id[b]} ELSE {})
                         /\ Range(lists'[b]) \subseteq Uses(slots, lists')[b]
<1>1. SUFFICES ASSUME NEW b \in Bids
      PROVE  Range(lists'[b]) \subseteq Range(slots[b]) \cup (IF b \in B THEN {id[b]} ELSE {})
  BY DEF Uses
<1>2. CASE b \in B
  <2>1. /\ lists'[b] = Added(base[b], id[b], at[b]) /\ base[b] \in Seq(Mids) /\ id[b] \in Mids
        /\ at[b] \in 0 .. Len(base[b])
    BY <1>2 DEF Delivery
  <2>2. Range(lists'[b]) \subseteq Range(base[b]) \cup {id[b]}
    BY <2>1, AddedRange
  <2>3. Range(base[b]) \subseteq Range(slots[b])
    BY <1>2, DeliveryDoes
  <2>4. QED BY <1>2, <2>2, <2>3
<1>3. CASE b \notin B
  <2>1. lists'[b] = lists[b]
    BY <1>3 DEF Delivery
  <2>2. Uses(slots, lists)[b] = Range(slots[b])
    BY FreeBoards
  <2>3. QED BY <1>3, <2>1, <2>2 DEF Uses
<1>4. QED BY <1>2, <1>3

\* t is list with m put in after k of its elements.
IsAdded(t, list, m, k) ==
  /\ Len(t) = Len(list) + 1
  /\ \A i \in 1 .. Len(list) + 1 : t[i] = IF i <= k THEN list[i] ELSE IF i = k + 1 THEN m ELSE list[i - 1]

LEMMA AddedIs ==
  ASSUME NEW S, NEW list \in Seq(S), NEW m \in S, NEW k \in 0 .. Len(list)
  PROVE  IsAdded(Added(list, m, k), list, m, k)
BY AddedFacts DEF IsAdded

\* A list shows what it should, but for the message m, which is v.
Shows(list, shown, m, v) ==
  /\ IsInjective(list) /\ Len(list) = Len(shown)
  /\ \A i \in 1 .. Len(list) :
       /\ list[i] = m => shown[i] = v
       /\ list[i] # m => message[list[i]] = shown[i]

\* What is shown of a board and where its messages are.
LEMMA DeliveredLists ==
  ASSUME PlayersInv, MailInv, Free, NEW B, NEW id, NEW at, NEW base, NEW shown, NEW no,
         Delivery(B, id, at, base, shown, no), NEW c \in B \ torn'.boards
  PROVE  Shows(lists'[c], mail'[c], id[c], [to |-> c, no |-> no])
<1> DEFINE list == base[c]
           k == at[c]
           v == [to |-> c, no |-> no]
           s == shown[c]
           m == id[c]
           L == lists'[c]
           M == mail'[c]
<1>1. /\ list \in Seq(Mids) /\ k \in 0 .. Len(list) /\ m \in Mids /\ v \in Message
      /\ L = Added(list, m, k)
  BY DEF Delivery
<1>2. /\ s \in Seq(Message) /\ Len(list) = Len(s) /\ IsInjective(list) /\ m \notin Range(list)
      /\ \A i \in 1 .. Len(list) : message[list[i]] = s[i]
      /\ M = Added(s, v, k)
  <2>1. DeliveryFacts(B, id, at, base, shown, no) /\ c \in Bids
    BY DeliveryDoes DEF Delivery
  <2>2. QED BY <2>1 DEF DeliveryFacts
<1> HIDE DEF list, k, v, s, m, L, M
<1> DEFINE n == Len(list)
<1>3. /\ IsInjective(L)
      /\ \A i \in 1 .. n + 1 : L[i] = m => i = k + 1
  BY <1>1, <1>2, AddedNew
<1>4. /\ Len(L) = n + 1
      /\ \A i \in 1 .. n + 1 : L[i] = IF i <= k THEN list[i] ELSE IF i = k + 1 THEN m ELSE list[i - 1]
  <2>1. list \in Seq(Mids) /\ m \in Mids /\ k \in 0 .. Len(list)
    BY <1>1
  <2>2. IsAdded(Added(list, m, k), list, m, k)
    BY <2>1, AddedIs
  <2>3. QED BY <1>1, <2>2 DEF IsAdded
<1>5. /\ Len(M) = n + 1
      /\ \A i \in 1 .. n + 1 : M[i] = IF i <= k THEN s[i] ELSE IF i = k + 1 THEN v ELSE s[i - 1]
  <2>1. s \in Seq(Message) /\ v \in Message /\ k \in 0 .. Len(s)
    BY <1>1, <1>2
  <2>2. IsAdded(Added(s, v, k), s, v, k)
    BY <2>1, AddedIs
  <2>3. QED BY <1>2, <2>2 DEF IsAdded
<1>6. n \in Nat /\ k \in 0 .. n /\ \A i \in 1 .. n : message[list[i]] = s[i]
  BY <1>1, <1>2
<1> HIDE DEF n
<1>7. ASSUME NEW i \in 1 .. n + 1
      PROVE  /\ L[i] = m => M[i] = v
             /\ L[i] # m => message[L[i]] = M[i]
  <2>1. CASE i <= k
    <3>1. i \in 1 .. n /\ i # k + 1
      BY <1>6, <2>1
    <3>2. QED BY <1>3, <1>4, <1>5, <1>6, <2>1, <3>1
  <2>2. CASE i = k + 1
    <3>1. ~ (i <= k)
      BY <1>6, <2>2
    <3>2. QED BY <1>4, <1>5, <2>2, <3>1
  <2>3. CASE ~ (i <= k) /\ i # k + 1
    <3>1. i - 1 \in 1 .. n
      BY <1>6, <2>3
    <3>2. QED BY <1>3, <1>4, <1>5, <1>6, <2>3, <3>1
  <2>4. QED BY <2>1, <2>2, <2>3
<1>8. Shows(L, M, m, v)
  BY <1>3, <1>4, <1>5, <1>7 DEF Shows
<1>9. QED BY <1>8 DEF L, M, m, v

\* A message of board b is in no other one, and as it is shown.
Alone(T, num, list, shown, uses, b, m, value) ==
  /\ b \in Bids /\ m \in Mids /\ value \in Message \cup {None}
  /\ list[b] \in Seq(Mids) /\ num[b] = Len(list[b])
  /\ \A c \in Bids \ T : m \in uses[c] => c = b
  /\ \A c \in Bids \ T : \A i \in 1 .. Len(list[c]) : list[c][i] = m => value = shown[c][i]

\* Statements that may be sent.
Sendable(s, T, num, list, shown, uses) ==
  s \in Seq(MailSent(T, list, shown)) /\ s \in Seq(Statement) /\ Answered(s, MailNeeds(T, num, list, uses))

LEMMA BoardMail ==
  ASSUME NEW T, NEW num, NEW list, NEW shown, NEW uses, NEW b, NEW m, NEW value,
         Alone(T, num, list, shown, uses, b, m, value)
  PROVE  Sendable(BoardStatements(m, value, b, list[b]), T, num, list, shown, uses)
<1>0. /\ b \in Bids /\ m \in Mids /\ value \in Message \cup {None}
      /\ list[b] \in Seq(Mids) /\ num[b] = Len(list[b])
      /\ \A c \in Bids \ T : m \in uses[c] => c = b
      /\ \A c \in Bids \ T : \A i \in 1 .. Len(list[c]) : list[c][i] = m => value = shown[c][i]
  BY DEF Alone
<1> DEFINE s == BoardStatements(m, value, b, list[b])
           N == MailNeeds(T, num, list, uses)
<1>1. /\ Sql("message", m, value) \in Statement /\ Sql("slots", b, <<>>) \in Statement
      /\ Sql("slots", b, list[b]) \in Statement /\ Sql("board", b, Len(list[b])) \in Statement
  <2>1. <<>> \in Seq(Mids) /\ Len(list[b]) \in Nat
    BY <1>0
  <2>2. QED BY <1>0, <2>1, SqlStatements
<1>2. /\ Sql("message", m, value) \in MailSent(T, list, shown) /\ Sql("slots", b, <<>>) \in MailSent(T, list, shown)
      /\ Sql("slots", b, list[b]) \in MailSent(T, list, shown)
      /\ Sql("board", b, Len(list[b])) \in MailSent(T, list, shown)
  BY <1>0, <1>1, SqlParts DEF MailSent
<1>3. s \in Seq(MailSent(T, list, shown)) /\ s \in Seq(Statement)
  BY <1>1, <1>2, BoardStatementsIn
<1>4. /\ Len(s) = 4 /\ s[1] = Sql("message", m, value) /\ s[2] = Sql("slots", b, <<>>)
      /\ s[3] = Sql("slots", b, list[b]) /\ s[4] = Sql("board", b, Len(list[b]))
  BY BoardStatementsAre
<1> HIDE DEF s
<1>5. N[s[1]] \subseteq {SlotsOf(b)}
  <2>1. N[s[1]] = {SlotsOf(c) : c \in {d \in Bids \ T : m \in uses[d]}}
    <3>1. s[1] \in Statement /\ s[1].table = "message" /\ s[1].id = m
      BY <1>1, <1>4, SqlParts
    <3>2. QED BY <3>1, MailNeedsAre
  <2> HIDE DEF N
  <2>2. QED BY <1>0, <2>1
<1>6. N[s[2]] = {{Sql("slots", b, list[b])}}
  <2>1. s[2] \in Statement /\ s[2].table = "slots" /\ s[2].id = b
    BY <1>1, <1>4, SqlParts
  <2>2. QED BY <2>1, MailNeedsAre
<1>7. N[s[3]] = {{Sql("slots", b, list[b])}}
  <2>1. s[3] \in Statement /\ s[3].table = "slots" /\ s[3].id = b
    BY <1>1, <1>4, SqlParts
  <2>2. QED BY <2>1, MailNeedsAre
<1>8. N[s[4]] = {{Sql("board", b, Len(list[b]))}}
  <2>1. s[4] \in Statement /\ s[4].table = "board" /\ s[4].id = b
    BY <1>1, <1>4, SqlParts
  <2>2. QED BY <1>0, <2>1, MailNeedsAre
<1>9. s[3] \in SlotsOf(b) /\ s[3] \in {Sql("slots", b, list[b])} /\ s[4] \in {Sql("board", b, Len(list[b]))}
  BY <1>1, <1>4, SqlParts DEF SlotsOf
<1> HIDE DEF N
<1>10. ASSUME NEW k \in 1 .. Len(s), NEW X \in N[s[k]] PROVE \E j \in k .. Len(s) : s[j] \in X
  <2>1. k \in {1, 2, 3, 4}
    BY <1>4
  <2>2. CASE k \in {1, 2, 3}
    <3>1. 3 \in k .. Len(s)
      BY <1>4, <2>2
    <3>2. s[3] \in X
      BY <1>5, <1>6, <1>7, <1>9, <1>10, <2>2
    <3>3. QED BY <3>1, <3>2
  <2>3. CASE k = 4
    <3>1. 4 \in k .. Len(s)
      BY <1>4, <2>3
    <3>2. s[4] \in X
      BY <1>8, <1>9, <1>10, <2>3
    <3>3. QED BY <3>1, <3>2
  <2>4. QED BY <2>1, <2>2, <2>3
<1>11. Answered(s, N)
  BY <1>10 DEF Answered
<1>12. QED BY <1>3, <1>11 DEF s, N, Sendable

\* The boards of B are changed, and written.
Changed(B) ==
  /\ B \in SUBSET Bids /\ UNCHANGED <<board, slots, message, up>> /\ torn.boards \subseteq torn'.boards
  /\ mail' \in [Bids -> Seq(Message)]
  /\ \A c \in Bids \ B : lists'[c] = lists[c] /\ nums'[c] = nums[c] /\ mail'[c] = mail[c]
  /\ \A c \in Bids : Has(todo', "slots", c) <=> c \in B
  /\ \A c \in B : nums'[c] = Len(lists'[c]) /\ Has(todo', "board", c)
  /\ \A c \in B \ torn'.boards :
       /\ Len(lists'[c]) = Len(mail'[c])
       /\ \A i \in 1 .. Len(lists'[c]) :
            message[lists'[c][i]] = mail'[c][i] \/ Has(todo', "message", lists'[c][i])

LEMMA ChangedMail ==
  ASSUME PlayersInv, MailInv, Free, NEW B, Changed(B),
         todo' \in Seq(MailSent(torn'.boards, lists', mail')),
         Answered(todo', MailNeeds(torn'.boards, nums', lists', Uses(slots, lists'))),
         Unmixed(torn'.boards, slots, lists')
  PROVE  MailInv'
<1>1. /\ B \in SUBSET Bids /\ UNCHANGED <<board, slots, message, up>> /\ torn.boards \subseteq torn'.boards
      /\ mail' \in [Bids -> Seq(Message)]
  BY DEF Changed
<1>2. \A c \in Bids \ B : lists'[c] = lists[c] /\ nums'[c] = nums[c] /\ mail'[c] = mail[c]
  BY DEF Changed
<1>3. \A c \in Bids : Has(todo', "slots", c) <=> c \in B
  BY DEF Changed
<1>4. \A c \in B : nums'[c] = Len(lists'[c]) /\ Has(todo', "board", c)
  BY DEF Changed
<1>5. Listed'
  <2>1. \A b \in Bids : Has(todo', "slots", b) \/ lists'[b] \in {<<>>, slots[b]}
    BY <1>2, <1>3, FreeBoards
  <2>2. QED BY <1>1, <2>1 DEF Listed
<1>6. Shown'
  <2>1. SUFFICES ASSUME NEW b \in Bids \ torn'.boards
        PROVE  /\ Has(todo', "slots", b) =>
                    /\ Len(lists'[b]) = Len(mail'[b])
                    /\ \A i \in 1 .. Len(lists'[b]) :
                         message[lists'[b][i]] = mail'[b][i] \/ Has(todo', "message", lists'[b][i])
               /\ ~ Has(todo', "slots", b) =>
                    Len(slots[b]) = Len(mail'[b]) /\ \A i \in 1 .. Len(slots[b]) : message[slots[b][i]] = mail'[b][i]
               /\ board[b] # None => Has(todo', "board", b) \/ board[b] = Len(mail'[b])
               /\ nums'[b] # None => nums'[b] = Len(mail'[b])
    BY <1>1 DEF Shown
  <2>2. CASE b \in B
    <3>1. /\ Len(lists'[b]) = Len(mail'[b])
          /\ \A i \in 1 .. Len(lists'[b]) :
               message[lists'[b][i]] = mail'[b][i] \/ Has(todo', "message", lists'[b][i])
      BY <2>2 DEF Changed
    <3>2. QED BY <1>3, <1>4, <2>2, <3>1
  <2>3. CASE b \notin B
    <3>1. b \in Bids \ torn.boards
      BY <1>1
    <3>2. /\ Len(slots[b]) = Len(mail[b])
          /\ \A i \in 1 .. Len(slots[b]) : message[slots[b][i]] = mail[b][i]
          /\ board[b] # None => board[b] = Len(mail[b])
          /\ nums[b] # None => nums[b] = Len(mail[b])
      BY <3>1, FreeBoards
    <3>3. QED BY <1>2, <1>3, <2>3, <3>2
  <2>4. QED BY <2>2, <2>3
<1>7. QED BY <1>1, <1>5, <1>6 DEF MailInv

LEMMA DeliveredUnmixed ==
  ASSUME PlayersInv, MailInv, Free, NEW B, NEW id, NEW at, NEW base, NEW shown, NEW no,
         Delivery(B, id, at, base, shown, no)
  PROVE  Unmixed(torn'.boards, slots, lists')
<1> DEFINE U == Uses(slots, lists')
<1>1. DeliveryFacts(B, id, at, base, shown, no) /\ B \in SUBSET Bids
  BY DeliveryDoes DEF Delivery
<1>2. \A b \in Bids : U[b] \subseteq Range(slots[b]) \cup (IF b \in B THEN {id[b]} ELSE {})
  BY DeliveredUses
<1>3. /\ \A b \in Bids \ torn'.boards : b \notin torn.boards /\ \A c \in B : id[c] \notin Range(slots[b])
      /\ \A b \in B \ torn'.boards : \A c \in Bids : id[b] \notin Range(slots[c])
  BY <1>1 DEF DeliveryFacts
<1>4. \A b, c \in B : id[b] = id[c] => b = c
  BY DEF Delivery
<1>5. SUFFICES ASSUME NEW b \in Bids \ torn'.boards
      PROVE  /\ IsInjective(slots[b]) /\ IsInjective(lists'[b])
             /\ \A c \in Bids \ {b} : U[b] \cap U[c] = {}
  BY DEF Unmixed
<1>6. /\ IsInjective(slots[b]) /\ \A c \in Bids \ {b} : Range(slots[b]) \cap Range(slots[c]) = {}
      /\ lists[b] \in {<<>>, slots[b]}
  BY <1>3, FreeBoards
<1>7. IsInjective(lists'[b])
  <2>1. CASE b \in B
    BY <2>1, DeliveredLists DEF Shows
  <2>2. CASE b \notin B
    <3>1. lists'[b] = lists[b]
      BY <2>2 DEF Delivery
    <3>2. IsInjective(<<>>)
      BY DEF IsInjective
    <3>3. QED BY <1>6, <3>1, <3>2
  <2>3. QED BY <2>1, <2>2
<1>8. ASSUME NEW c \in Bids \ {b} PROVE U[b] \cap U[c] = {}
  <2> HIDE DEF U
  <2>1. b \in B => id[b] \notin Range(slots[c])
    BY <1>3
  <2>2. c \in B => id[c] \notin Range(slots[b])
    BY <1>3
  <2>3. b \in B /\ c \in B => id[b] # id[c]
    BY <1>4
  <2>4. Range(slots[b]) \cap Range(slots[c]) = {}
    BY <1>6
  <2>5. /\ U[b] \subseteq Range(slots[b]) \cup (IF b \in B THEN {id[b]} ELSE {})
        /\ U[c] \subseteq Range(slots[c]) \cup (IF c \in B THEN {id[c]} ELSE {})
    BY <1>2
  <2>6. QED BY <2>1, <2>2, <2>3, <2>4, <2>5
<1>9. QED BY <1>6, <1>7, <1>8

\* What is sent of a board a message is delivered to.
LEMMA DeliveredStatements ==
  ASSUME PlayersInv, MailInv, Free, NEW B, NEW id, NEW at, NEW base, NEW shown, NEW no,
         Delivery(B, id, at, base, shown, no), lists' \in [Bids -> Seq(Mids)], NEW b \in B
  PROVE  Sendable(BoardStatements(id[b], [to |-> b, no |-> no], b, lists'[b]),
                  torn'.boards, nums', lists', mail', Uses(slots, lists'))
<1> DEFINE U == Uses(slots, lists')
           T == torn'.boards
           L == lists'
           M == mail'
           N == nums'
           m == id[b]
           v == [to |-> b, no |-> no]
<1>1. DeliveryFacts(B, id, at, base, shown, no) /\ B \in SUBSET Bids
  BY DeliveryDoes DEF Delivery
<1>2. \A c \in Bids : U[c] \subseteq Range(slots[c]) \cup (IF c \in B THEN {id[c]} ELSE {}) /\ Range(L[c]) \subseteq U[c]
  BY DeliveredUses
<1>3. \A c \in Bids \ T : m \notin Range(slots[c])
  BY <1>1 DEF DeliveryFacts
<1>4. \A c \in B : id[c] = m => c = b
  BY DEF Delivery
<1>5. m \in Mids /\ v \in Message \cup {None} /\ L[b] \in Seq(Mids) /\ N[b] = Len(L[b]) /\ b \in Bids
  BY <1>1 DEF Delivery
<1>6. \A c \in Bids \ T : m \in U[c] => c = b /\ c \in B
  <2> HIDE DEF U, L, m
  <2>1. QED BY <1>2, <1>3, <1>4
<1>7. ASSUME NEW c \in Bids \ T, NEW i \in 1 .. Len(L[c]), L[c][i] = m PROVE v = M[c][i]
  <2>1. m \in U[c]
    <3>1. L[c] \in Seq(Mids)
      OBVIOUS
    <3> HIDE DEF L, U, m
    <3>2. L[c][i] \in Range(L[c])
      BY <3>1 DEF Range
    <3>3. QED BY <1>2, <1>7, <3>2
  <2>2. c = b /\ b \in B \ T
    BY <1>6, <2>1
  <2>3. Shows(L[b], M[b], m, v)
    BY <2>2, DeliveredLists
  <2> HIDE DEF L, M, m, v
  <2>4. \A j \in 1 .. Len(L[b]) : L[b][j] = m => M[b][j] = v
    BY <2>3 DEF Shows
  <2>5. i \in 1 .. Len(L[b]) /\ L[b][i] = m
    BY <1>7, <2>2
  <2>6. M[b][i] = v
    BY <2>4, <2>5
  <2>7. QED BY <2>2, <2>6
<1> HIDE DEF U, T, L, M, N, m, v
<1>8. \A c \in Bids \ T : m \in U[c] => c = b
  BY <1>6
<1>9. \A c \in Bids \ T : \A i \in 1 .. Len(L[c]) : L[c][i] = m => v = M[c][i]
  BY <1>7
<1>10. Alone(T, N, L, M, U, b, m, v)
  BY <1>5, <1>8, <1>9 DEF Alone
<1>11. Sendable(BoardStatements(m, v, b, L[b]), T, N, L, M, U)
  BY <1>10, BoardMail
<1>12. QED BY <1>11 DEF U, T, L, M, N, m, v

LEMMA DeliveredMail ==
  ASSUME PlayersInv, MailInv, Free, NEW B, NEW id, NEW at, NEW base, NEW shown, NEW no,
         Delivery(B, id, at, base, shown, no),
         todo' \in Seq(MailSent(torn'.boards, lists', mail')),
         Answered(todo', MailNeeds(torn'.boards, nums', lists', Uses(slots, lists'))),
         \A c \in Bids : Has(todo', "slots", c) <=> c \in B,
         \A c \in B : Has(todo', "board", c) /\ Has(todo', "message", id[c])
  PROVE  MailInv'
<1>1. Changed(B)
  <2>1. DeliveryFacts(B, id, at, base, shown, no) /\ B \in SUBSET Bids
    BY DeliveryDoes DEF Delivery
  <2>2. torn.boards \subseteq torn'.boards
    BY <2>1 DEF DeliveryFacts
  <2>3. ASSUME NEW c \in B \ torn'.boards
        PROVE  /\ Len(lists'[c]) = Len(mail'[c])
               /\ \A i \in 1 .. Len(lists'[c]) :
                    message[lists'[c][i]] = mail'[c][i] \/ Has(todo', "message", lists'[c][i])
    <3>1. Shows(lists'[c], mail'[c], id[c], [to |-> c, no |-> no])
      BY DeliveredLists
    <3>2. Has(todo', "message", id[c])
      OBVIOUS
    <3>3. QED BY <3>1, <3>2 DEF Shows
  <2>4. \A c \in Bids \ B : lists'[c] = lists[c] /\ nums'[c] = nums[c] /\ mail'[c] = mail[c]
    BY DEF Delivery
  <2>5. \A c \in B : nums'[c] = Len(lists'[c])
    BY DEF Delivery
  <2>6. UNCHANGED <<board, slots, message, up>> /\ mail' \in [Bids -> Seq(Message)]
    BY DEF Delivery
  <2>7. QED BY <2>1, <2>2, <2>3, <2>4, <2>5, <2>6 DEF Changed
<1>2. Unmixed(torn'.boards, slots, lists')
  BY DeliveredUnmixed
<1>3. QED BY <1>1, <1>2, ChangedMail

LEMMA PostMail ==
  ASSUME PlayersInv, MailInv, NEW b \in Bids, NEW pos \in -1 .. MaxMessage, Post(b, pos)
  PROVE  MailInv'
<1>1. /\ Free /\ posts < MaxPosts /\ nextmid \in Mids /\ torn' = Shared({nextmid}, {b})
      /\ UNCHANGED <<board, slots, message, up>>
  BY DEF Post, tables
<1>2. PICK k \in 0 .. Len(List(b)) :
        /\ BoardChange(b, nextmid, [to |-> b, no |-> posts], Added(List(b), nextmid, k))
        /\ mail' = IF b \in torn.boards THEN mail ELSE [mail EXCEPT ![b] = Added(@, [to |-> b, no |-> posts], k)]
        /\ Added(List(b), nextmid, k) \in Seq(Mids)
  BY PostDoes
<1> DEFINE list == Added(List(b), nextmid, k)
           v == [to |-> b, no |-> posts]
           id == [c \in Bids |-> nextmid]
           at == [c \in Bids |-> k]
           base == [c \in Bids |-> List(c)]
<1>3. /\ lists' = [lists EXCEPT ![b] = list] /\ nums' = [nums EXCEPT ![b] = Len(list)]
      /\ todo' = BoardStatements(nextmid, v, b, list) /\ list \in Seq(Mids)
  BY <1>2 DEF BoardChange
<1>4. /\ lists \in [Bids -> Seq(Mids)] /\ nums \in [Bids -> Nat \cup {None}] /\ mail \in [Bids -> Seq(Message)]
      /\ posts \in 0 .. MaxPosts
  BY DEF PlayersInv, Shapes, MailInv
<1>5. v \in Message
  BY <1>4 DEF Message
<1>6. List(b) \in Seq(Mids)
  BY <1>1, FreeBoards
<1>7. b \notin torn.boards => Added(mail[b], v, k) \in Seq(Message)
  <2>1. SUFFICES ASSUME b \notin torn.boards PROVE Added(mail[b], v, k) \in Seq(Message)
    OBVIOUS
  <2>2. mail[b] \in Seq(Message) /\ k \in 0 .. Len(mail[b])
    BY <1>1, <2>1, FreeBoards
  <2>3. QED BY <1>5, <2>2, AddedFacts
<1> HIDE DEF list, v
<1>8. /\ lists' \in [Bids -> Seq(Mids)] /\ lists'[b] = list /\ nums'[b] = Len(list)
      /\ \A c \in Bids \ {b} : lists'[c] = lists[c] /\ nums'[c] = nums[c] /\ mail'[c] = mail[c]
  BY <1>2, <1>3, <1>4
<1>9. /\ mail' \in [Bids -> Seq(Message)]
      /\ b \notin torn.boards => mail'[b] = Added(mail[b], v, k)
  BY <1>2, <1>4, <1>7 DEF v
<1>10. Delivery({b}, id, at, base, mail, posts)
  <2>0. id[b] = nextmid /\ at[b] = k /\ base[b] = List(b)
    OBVIOUS
  <2>1. b \notin torn.boards => mail'[b] = Added(mail[b], [to |-> b, no |-> posts], at[b])
    BY <1>9, <2>0 DEF v
  <2>4. lists'[b] = Added(base[b], id[b], at[b])
    BY <1>8, <2>0 DEF list
  <2>5. nums'[b] = Len(lists'[b])
    BY <1>8
  <2>2. \E ids : torn' = Shared(ids, {b}) /\ \A c \in {b} : id[c] \in ids
    <3>1. id[b] \in {nextmid}
      OBVIOUS
    <3>2. QED BY <1>1, <3>1
  <2> HIDE DEF id, at, base
  <2>6. /\ id[b] \in Mids /\ [to |-> b, no |-> posts] \in Message
        /\ base[b] \in Seq(Mids) /\ at[b] \in 0 .. Len(base[b])
    BY <1>1, <1>5, <1>6, <2>0 DEF v
  <2> DEFINE L == lists'
             M == mail'
             N == nums'
  <2>7. /\ \A c \in Bids \ {b} : L[c] = lists[c] /\ N[c] = nums[c] /\ M[c] = mail[c]
        /\ M \in [Bids -> Seq(Message)] /\ UNCHANGED <<board, slots, message, up>>
    BY <1>1, <1>8, <1>9
  <2>8. \A c, d \in {b} : id[c] = id[d] => c = d
    OBVIOUS
  <2>3. QED BY <2>0, <2>1, <2>2, <2>4, <2>5, <2>6, <2>7, <2>8, Zenon DEF Delivery
<1>11. id[b] = nextmid
  OBVIOUS
<1> HIDE DEF id, at, base
<1>12. Sendable(BoardStatements(nextmid, v, b, lists'[b]), torn'.boards, nums', lists', mail', Uses(slots, lists'))
  BY <1>1, <1>8, <1>10, <1>11, DeliveredStatements DEF v
<1>13. Sendable(todo', torn'.boards, nums', lists', mail', Uses(slots, lists'))
  BY <1>3, <1>8, <1>12
<1>14. /\ \A c \in Bids : Has(todo', "slots", c) <=> c \in {b}
       /\ Has(todo', "board", b) /\ Has(todo', "message", nextmid)
  BY <1>3, HasBoardStatements
<1>15. \A c \in {b} : Has(todo', "board", c) /\ Has(todo', "message", id[c])
  BY <1>11, <1>14
<1>16. QED BY <1>1, <1>10, <1>13, <1>14, <1>15, DeliveredMail DEF Sendable

\* t is s without the element at pos.
IsWithout(t, s, pos) ==
  /\ Len(t) = Len(s) - 1
  /\ \A i \in 1 .. Len(s) - 1 : t[i] = IF i < pos THEN s[i] ELSE s[i + 1]

LEMMA RemovedIs ==
  ASSUME NEW S, NEW s \in Seq(S), NEW pos \in 1 .. Len(s)
  PROVE  RemoveAt(s, pos) \in Seq(S) /\ IsWithout(RemoveAt(s, pos), s, pos)
BY RemoveAtProperties DEF IsWithout

LEMMA WithoutRange ==
  ASSUME NEW S, NEW s \in Seq(S), NEW pos \in 1 .. Len(s), NEW t \in Seq(S), IsWithout(t, s, pos)
  PROVE  Range(t) \subseteq Range(s)
<1>1. Len(s) \in Nat /\ DOMAIN s = 1 .. Len(s) /\ DOMAIN t = 1 .. Len(s) - 1
  BY DEF IsWithout
<1>2. \A i \in 1 .. Len(s) : s[i] \in Range(s)
  BY <1>1 DEF Range
<1>3. ASSUME NEW i \in 1 .. Len(s) - 1 PROVE t[i] \in Range(s)
  <2>1. i \in 1 .. Len(s) /\ i + 1 \in 1 .. Len(s)
    BY <1>1
  <2>2. t[i] = IF i < pos THEN s[i] ELSE s[i + 1]
    BY DEF IsWithout
  <2>3. QED BY <1>2, <2>1, <2>2
<1>4. QED BY <1>1, <1>3 DEF Range

LEMMA WithoutUnique ==
  ASSUME NEW S, NEW s \in Seq(S), NEW pos \in 1 .. Len(s), IsInjective(s)
  PROVE  /\ IsInjective(RemoveAt(s, pos))
         /\ \A i \in 1 .. Len(RemoveAt(s, pos)) : RemoveAt(s, pos)[i] # s[pos]
<1> DEFINE t == RemoveAt(s, pos)
<1>1. t \in Seq(S) /\ IsInjective(t) /\ ToSet(t) = ToSet(s) \ {s[pos]}
  BY RemoveUnique
<1> HIDE DEF t
<1>2. \A i \in 1 .. Len(t) : t[i] \in ToSet(t)
  BY <1>1 DEF ToSet
<1>3. QED BY <1>1, <1>2 DEF t

LEMMA RemoveMail ==
  ASSUME PlayersInv, MailInv, NEW b \in Bids, NEW pos \in 0 .. MaxMessage, RemoveMessage(b, pos)
  PROVE  MailInv'
<1> DEFINE p == pos + 1
           s == slots[b]
           m == s[p]
           t == RemoveAt(s, p)
           L == lists'
           M == mail'
           N == nums'
           T == torn.boards
           U == Uses(slots, L)
<1>1. Free /\ UNCHANGED <<board, slots, message, up, torn>>
  BY DEF RemoveMessage, tables
<1>2. /\ List(b) = s /\ s \in Seq(Mids) /\ mail[b] \in Seq(Message)
      /\ b \notin T => /\ IsInjective(s) /\ Len(s) = Len(mail[b])
                       /\ \A i \in 1 .. Len(s) : message[s[i]] = mail[b][i]
  BY <1>1, FreeBoards
<1>3. /\ p \in 1 .. Len(s) /\ m \in Mids /\ t \in Seq(Mids)
      /\ L = [lists EXCEPT ![b] = t] /\ N = [nums EXCEPT ![b] = Len(t)]
      /\ todo' = BoardStatements(m, None, b, t)
      /\ M = IF b \in T THEN mail ELSE [mail EXCEPT ![b] = RemoveAt(@, p)]
  BY <1>2, RemoveDoes DEF BoardChange
<1>4. lists \in [Bids -> Seq(Mids)] /\ nums \in [Bids -> Nat \cup {None}] /\ mail \in [Bids -> Seq(Message)]
  BY DEF PlayersInv, Shapes, MailInv
<1>5. IsWithout(t, s, p)
  BY <1>2, <1>3, RemovedIs
<1>6. b \notin T => RemoveAt(mail[b], p) \in Seq(Message) /\ IsWithout(RemoveAt(mail[b], p), mail[b], p)
  BY <1>2, <1>3, RemovedIs
<1> HIDE DEF p, s, t
<1>7. /\ L \in [Bids -> Seq(Mids)] /\ L[b] = t /\ N[b] = Len(t)
      /\ \A c \in Bids \ {b} : L[c] = lists[c] /\ N[c] = nums[c] /\ M[c] = mail[c]
  BY <1>3, <1>4
<1>8. /\ M \in [Bids -> Seq(Message)]
      /\ b \notin T => M[b] = RemoveAt(mail[b], p)
  BY <1>3, <1>4, <1>6
<1> HIDE DEF L, M, N
<1>9. Range(<<>>) = {} /\ IsInjective(<<>>)
  BY DEF Range, IsInjective
<1>10. \A c \in Bids : U[c] = Range(slots[c])
  <2>1. ASSUME NEW c \in Bids PROVE Range(L[c]) \subseteq Range(slots[c])
    <3>1. CASE c = b
      BY <1>2, <1>3, <1>5, <1>7, <3>1, WithoutRange DEF s
    <3>2. CASE c # b
      BY <1>1, <1>7, <1>9, <3>2, FreeBoards
    <3>3. QED BY <3>1, <3>2
  <2>2. QED BY <2>1 DEF Uses
<1>11. b \notin T => IsInjective(t) /\ \A i \in 1 .. Len(t) : t[i] # m
  BY <1>2, <1>3, WithoutUnique DEF t
<1>12. \A c \in Bids \ T : \A d \in Bids \ {c} : Range(slots[c]) \cap Range(slots[d]) = {}
  BY <1>1, FreeBoards
<1>13. m \in Range(s)
  BY <1>2, <1>3 DEF Range
<1> HIDE DEF U, m, T
<1>14. \A c \in Bids \ T : m \in U[c] => c = b
  <2>1. ASSUME NEW c \in Bids \ T, m \in U[c], c # b PROVE FALSE
    <3>1. Range(slots[c]) \cap Range(slots[b]) = {} /\ m \in Range(slots[c])
      BY <1>10, <1>12, <2>1
    <3>2. QED BY <1>13, <3>1 DEF s
  <2>2. QED BY <2>1
<1>15. ASSUME NEW c \in Bids \ T, NEW i \in 1 .. Len(L[c]), L[c][i] = m PROVE FALSE
  <2>1. L[c] \in Seq(Mids)
    BY <1>7
  <2>2. L[c][i] \in Range(L[c])
    BY <2>1 DEF Range
  <2>3. m \in U[c]
    BY <1>15, <2>2 DEF U, Uses
  <2>4. c = b
    BY <1>14, <2>3
  <2>5. QED BY <1>7, <1>11, <1>15, <2>4
<1>16. Alone(T, N, L, M, U, b, m, None)
  <2>1. \A c \in Bids \ T : \A i \in 1 .. Len(L[c]) : L[c][i] = m => None = M[c][i]
    BY <1>15
  <2>2. m \in Mids /\ None \in Message \cup {None} /\ L[b] \in Seq(Mids) /\ N[b] = Len(L[b])
    BY <1>3, <1>7
  <2>3. QED BY <1>14, <2>1, <2>2 DEF Alone
<1>17. Sendable(BoardStatements(m, None, b, L[b]), T, N, L, M, U)
  BY <1>16, BoardMail
<1>18. Sendable(todo', T, N, L, M, U)
  BY <1>3, <1>7, <1>17
<1>19. /\ \A c \in Bids : Has(todo', "slots", c) <=> c \in {b}
       /\ Has(todo', "board", b)
  BY <1>3, HasBoardStatements
<1>20. Unmixed(T, slots, L)
  <2>1. SUFFICES ASSUME NEW c \in Bids \ T
        PROVE  IsInjective(slots[c]) /\ IsInjective(L[c]) /\ \A d \in Bids \ {c} : U[c] \cap U[d] = {}
    BY DEF Unmixed, U
  <2>2. IsInjective(slots[c]) /\ lists[c] \in {<<>>, slots[c]}
    BY <1>1, FreeBoards DEF T
  <2>3. IsInjective(L[c])
    BY <1>7, <1>9, <1>11, <2>2
  <2>4. QED BY <1>10, <1>12, <2>2, <2>3
<1>21. b \notin T => /\ Len(L[b]) = Len(M[b])
                     /\ \A i \in 1 .. Len(L[b]) : message[L[b][i]] = M[b][i]
  <2>1. SUFFICES ASSUME b \notin T
        PROVE  /\ Len(L[b]) = Len(M[b])
               /\ \A i \in 1 .. Len(L[b]) : message[L[b][i]] = M[b][i]
    OBVIOUS
  <2> DEFINE n == Len(s)
             w == mail[b]
             r == M[b]
  <2>2. /\ n \in Nat /\ Len(w) = n /\ \A i \in 1 .. n : message[s[i]] = w[i]
    BY <1>2, <2>1
  <2>3. IsWithout(r, w, p)
    BY <1>6, <1>8, <2>1
  <2> HIDE DEF n, w, r
  <2>4. /\ Len(t) = n - 1
        /\ \A i \in 1 .. n - 1 : t[i] = IF i < p THEN s[i] ELSE s[i + 1]
    BY <1>5 DEF IsWithout, n
  <2>5. /\ Len(r) = n - 1
        /\ \A i \in 1 .. n - 1 : r[i] = IF i < p THEN w[i] ELSE w[i + 1]
    BY <2>2, <2>3 DEF IsWithout
  <2>6. ASSUME NEW i \in 1 .. n - 1 PROVE message[t[i]] = r[i]
    <3>1. i \in 1 .. n /\ i + 1 \in 1 .. n
      BY <2>2
    <3>2. QED BY <2>2, <2>4, <2>5, <3>1
  <2>7. QED BY <1>7, <2>4, <2>5, <2>6 DEF r
<1>22. Changed({b})
  <2>1. UNCHANGED <<board, slots, message, up>> /\ torn'.boards = T
    BY <1>1 DEF T
  <2>2. QED BY <1>7, <1>8, <1>19, <1>21, <2>1 DEF Changed, L, M, N, T
<1>23. torn'.boards = T
  BY <1>1 DEF T
<1>24. QED BY <1>1, <1>18, <1>20, <1>22, <1>23, ChangedMail DEF Sendable, L, M, N, U

-----------------------------------------------------------------------------
(* The boards when a player is added *)

\* Each board a message of a new player is delivered to: which message, where and to which list.
AtOf(others, c) == CHOOSE k \in 1 .. Cardinality(Known) : Boards(others)[k] = c
NewIds(others) == [c \in Bids |-> IF c = nextbid THEN nextmid ELSE nextmid + AtOf(others, c)]
NewAts(others, at) == [c \in Bids |-> IF c = nextbid THEN 0 ELSE at[AtOf(others, c)]]
NewBase == [c \in Bids |-> IF c = nextbid THEN <<>> ELSE List(c)]
NewShown == [c \in Bids |-> IF c = nextbid THEN <<>> ELSE mail[c]]
NewBoards(others) == Range(Boards(others)) \cup {nextbid}

\* The message of one of the others.
ToldBoard(others, at, k) ==
  LET c == Boards(others)[k] IN
  /\ c \in Bids /\ c \in NewBoards(others) /\ c # nextbid /\ AtOf(others, c) = k
  /\ NewIds(others)[c] = nextmid + k /\ NewAts(others, at)[c] = at[k]
  /\ NewBase[c] = List(c) /\ NewShown[c] = mail[c]

LEMMA ToldBoards ==
  ASSUME NEW others, OthersFacts(others), NEW at, nextbid \in Nat, NEW k \in 1 .. Cardinality(Known)
  PROVE  ToldBoard(others, at, k)
<1> DEFINE c == Boards(others)[k]
<1>1. c \in Bids /\ c < nextbid /\ \A l \in 1 .. Cardinality(Known) : Boards(others)[l] = c => l = k
  BY DEF OthersFacts
<1>2. c # nextbid
  BY <1>1 DEF Bids
<1>3. c \in Range(Boards(others))
  BY DEF Range, Boards
<1> HIDE DEF c
<1>4. AtOf(others, c) = k
  BY <1>1 DEF AtOf, c
<1>5. QED BY <1>1, <1>2, <1>3, <1>4 DEF ToldBoard, NewIds, NewAts, NewBase, NewShown, NewBoards, c

LEMMA NewBoardsAre ==
  ASSUME NEW others, OthersFacts(others), nextbid \in Bids
  PROVE  /\ NewBoards(others) \in SUBSET Bids /\ nextbid \in NewBoards(others)
         /\ \A c \in NewBoards(others) :
              c = nextbid \/ \E k \in 1 .. Cardinality(Known) : c = Boards(others)[k]
<1>1. \A k \in 1 .. Cardinality(Known) : Boards(others)[k] \in Bids
  BY DEF OthersFacts
<1>2. DOMAIN Boards(others) = 1 .. Cardinality(Known)
  BY DEF Boards
<1>3. QED BY <1>1, <1>2 DEF NewBoards, Range

LEMMA AddedToEmpty ==
  ASSUME NEW S, NEW m \in S, NEW e \in Seq(S), Len(e) = 0, NEW k \in 0 .. Len(e)
  PROVE  Added(e, m, k) = <<m>>
<1> DEFINE t == Added(e, m, k)
<1>1. t \in Seq(S) /\ IsAdded(t, e, m, k)
  BY AddedFacts, AddedIs
<1> HIDE DEF t
<1>2. t \in Seq(S) /\ Len(t) = 1 /\ t[1] = m
  BY <1>1 DEF IsAdded
<1>3. t = <<m>>
  BY <1>2
<1>4. QED BY <1>3 DEF t

LEMMA AddedToNone ==
  ASSUME NEW S, NEW m \in S
  PROVE  Added(<<>>, m, 0) = <<m>>
<1>1. <<>> \in Seq(S) /\ Len(<<>>) = 0 /\ 0 \in 0 .. Len(<<>>)
  OBVIOUS
<1>2. QED BY <1>1, AddedToEmpty

\* The messages of a new player are delivered to the board he is given and to those of the others.
DeliveredTo(others, at, c) ==
  /\ NewIds(others)[c] \in Mids /\ [to |-> c, no |-> posts] \in Message
  /\ NewBase[c] \in Seq(Mids) /\ NewAts(others, at)[c] \in 0 .. Len(NewBase[c])
  /\ lists'[c] = Added(NewBase[c], NewIds(others)[c], NewAts(others, at)[c]) /\ nums'[c] = Len(lists'[c])
  /\ c \notin torn.boards => mail'[c] = Added(NewShown[c], [to |-> c, no |-> posts], NewAts(others, at)[c])
  /\ \/ NewBase[c] = List(c) /\ NewShown[c] = mail[c]
     \/ NewBase[c] = <<>> /\ NewShown[c] = <<>>

LEMMA DeliveredToNew ==
  ASSUME PlayersInv, NEW n, NEW home, NewFacts(n, home), NEW others, NEW at, CreateFacts(n, home, others, at)
  PROVE  DeliveredTo(others, at, nextbid)
<1>1. nextbid \in Bids /\ nextmid \in Mids /\ posts \in 0 .. MaxPosts /\ <<>> \in Seq(Mids)
  BY DEF NewFacts, PlayersInv, Shapes
<1>2. /\ NewIds(others)[nextbid] = nextmid /\ NewAts(others, at)[nextbid] = 0
      /\ NewBase[nextbid] = <<>> /\ NewShown[nextbid] = <<>>
  BY <1>1 DEF NewIds, NewAts, NewBase, NewShown
<1> DEFINE v == [to |-> nextbid, no |-> posts]
<1>3. v \in Message
  BY <1>1 DEF Message
<1> HIDE DEF v
<1>4. Added(<<>>, nextmid, 0) = <<nextmid>> /\ Added(<<>>, v, 0) = <<v>>
  BY <1>1, <1>3, AddedToNone
<1>5. lists'[nextbid] = <<nextmid>> /\ mail'[nextbid] = <<v>>
  BY DEF CreateFacts, v
<1>6. nums'[nextbid] = Len(lists'[nextbid])
  BY <1>1 DEF CreateFacts
<1>7. 0 \in 0 .. Len(<<>>)
  OBVIOUS
<1>8. QED BY <1>1, <1>2, <1>3, <1>4, <1>5, <1>6, <1>7 DEF DeliveredTo, v

LEMMA DeliveredToOther ==
  ASSUME PlayersInv, NEW n, NEW home, NewFacts(n, home), NEW others, NEW at, CreateFacts(n, home, others, at),
         NEW k \in 1 .. Cardinality(Known)
  PROVE  DeliveredTo(others, at, Boards(others)[k])
<1> DEFINE c == Boards(others)[k]
<1>1. OthersFacts(others) /\ ToldFacts(others, at) /\ posts \in 0 .. MaxPosts /\ nextbid \in Nat
  BY DEF CreateFacts, PlayersInv, Shapes
<1>2. ToldBoard(others, at, k)
  BY <1>1, ToldBoards
<1>3. /\ c \in Bids /\ c \in NewBoards(others) /\ NewIds(others)[c] = nextmid + k
      /\ NewAts(others, at)[c] = at[k] /\ NewBase[c] = List(c) /\ NewShown[c] = mail[c]
  BY <1>2 DEF ToldBoard
<1>4. /\ nextmid + k \in Mids /\ List(c) \in Seq(Mids) /\ at[k] \in 0 .. Len(List(c))
      /\ Told(others, at)[k] = Added(List(c), nextmid + k, at[k])
  BY <1>1 DEF ToldFacts
<1>5. lists'[c] = Told(others, at)[k]
  BY DEF CreateFacts
<1>6. nums'[c] = Len(lists'[c])
  BY <1>3 DEF CreateFacts, NewBoards
<1>7. c \notin torn.boards => mail'[c] = Added(mail[c], [to |-> c, no |-> posts], at[k])
  BY DEF CreateFacts
<1> HIDE DEF c
<1>8. [to |-> c, no |-> posts] \in Message
  BY <1>1, <1>3 DEF Message
<1>9. QED BY <1>3, <1>4, <1>5, <1>6, <1>7, <1>8 DEF DeliveredTo, c

LEMMA CreatedMails ==
  ASSUME PlayersInv, MailInv, Free, NEW n, NEW home, NewFacts(n, home), NEW others, NEW at,
         CreateFacts(n, home, others, at)
  PROVE  /\ mail' \in [Bids -> Seq(Message)] /\ lists' \in [Bids -> Seq(Mids)]
         /\ \A c \in Bids \ NewBoards(others) : lists'[c] = lists[c] /\ nums'[c] = nums[c] /\ mail'[c] = mail[c]
<1>1. /\ nextbid \in Bids /\ nextmid \in Mids /\ posts \in 0 .. MaxPosts
      /\ OthersFacts(others) /\ ToldFacts(others, at) /\ mail \in [Bids -> Seq(Message)] /\ lists \in [Bids -> Seq(Mids)]
  BY DEF NewFacts, PlayersInv, Shapes, CreateFacts, MailInv
<1>2. \A c \in Bids \ NewBoards(others) : lists'[c] = lists[c] /\ nums'[c] = nums[c] /\ mail'[c] = mail[c]
  BY DEF CreateFacts, NewBoards
<1>3. ASSUME NEW c \in Bids PROVE mail'[c] \in Seq(Message) /\ lists'[c] \in Seq(Mids)
  <2>1. CASE c \notin NewBoards(others)
    BY <1>1, <1>2, <2>1
  <2>2. CASE c = nextbid
    <3>1. [to |-> nextbid, no |-> posts] \in Message
      BY <1>1 DEF Message
    <3>2. mail'[nextbid] = <<[to |-> nextbid, no |-> posts]>> /\ lists'[nextbid] = <<nextmid>>
      BY DEF CreateFacts
    <3>3. QED BY <1>1, <2>2, <3>1, <3>2
  <2>3. ASSUME NEW k \in 1 .. Cardinality(Known), c = Boards(others)[k]
        PROVE  mail'[c] \in Seq(Message) /\ lists'[c] \in Seq(Mids)
    <3>1. lists'[c] = Told(others, at)[k] /\ Told(others, at)[k] \in Seq(Mids)
      BY <1>1, <2>3 DEF CreateFacts, ToldFacts
    <3>2. /\ c \in torn.boards => mail'[c] = mail[c]
          /\ c \notin torn.boards => mail'[c] = Added(mail[c], [to |-> c, no |-> posts], at[k])
      BY <2>3 DEF CreateFacts
    <3>3. [to |-> c, no |-> posts] \in Message
      BY <1>1 DEF Message
    <3>4. at[k] \in 0 .. Len(List(c))
      BY <1>1, <2>3 DEF ToldFacts
    <3>5. c \notin torn.boards => at[k] \in 0 .. Len(mail[c])
      BY <3>4, FreeBoards
    <3>6. c \notin torn.boards => mail'[c] \in Seq(Message)
      BY <1>1, <3>2, <3>3, <3>5, AddedFacts
    <3>7. QED BY <1>1, <3>1, <3>2, <3>6
  <2>4. QED BY <1>1, <2>1, <2>2, <2>3, NewBoardsAre
<1>4. lists' = [c \in Bids |-> lists'[c]] /\ mail' = [c \in Bids |-> mail'[c]]
  BY DEF CreateFacts
<1> DEFINE L == lists'
           M == mail'
<1> HIDE DEF L, M
<1>5. L \in [Bids -> Seq(Mids)] /\ M \in [Bids -> Seq(Message)]
  <2>1. L = [c \in Bids |-> L[c]] /\ M = [c \in Bids |-> M[c]]
    BY <1>4 DEF L, M
  <2>2. \A c \in Bids : M[c] \in Seq(Message) /\ L[c] \in Seq(Mids)
    BY <1>3 DEF L, M
  <2>3. QED BY <2>1, <2>2
<1>6. QED BY <1>2, <1>5 DEF L, M

LEMMA CreatedDelivery ==
  ASSUME PlayersInv, MailInv, Free, NEW n, NEW home, NewFacts(n, home), NEW others, NEW at,
         CreateFacts(n, home, others, at), UNCHANGED <<board, slots, message, up>>
  PROVE  Delivery(NewBoards(others), NewIds(others), NewAts(others, at), NewBase, NewShown, posts)
<1> DEFINE B == NewBoards(others)
           id == NewIds(others)
<1>1. /\ nextbid \in Bids /\ nextmid \in Nat /\ OthersFacts(others) /\ Cardinality(Known) \in Nat /\ nextbid \in Nat
      /\ torn' = Shared(nextmid .. nextmid + Cardinality(Known), B)
  BY DEF NewFacts, CreateFacts, OthersFacts, PlayersInv, Shapes, NewBoards
<1>2. /\ B \in SUBSET Bids /\ nextbid \in B
      /\ \A c \in B : c = nextbid \/ \E k \in 1 .. Cardinality(Known) : c = Boards(others)[k]
  BY <1>1, NewBoardsAre
<1>3. id[nextbid] = nextmid
  BY <1>1 DEF NewIds
<1>4. \A k \in 1 .. Cardinality(Known) : id[Boards(others)[k]] = nextmid + k /\ AtOf(others, Boards(others)[k]) = k
  BY <1>1, ToldBoards DEF ToldBoard
<1>5. \A c \in B : DeliveredTo(others, at, c)
  BY <1>2, DeliveredToNew, DeliveredToOther
<1> HIDE DEF B, id
<1>6. \A c, d \in B : id[c] = id[d] => c = d
  <2>1. ASSUME NEW k \in 1 .. Cardinality(Known), NEW l \in 1 .. Cardinality(Known),
               nextmid + k = nextmid + l
        PROVE  k = l
    BY <1>1, <2>1
  <2>2. ASSUME NEW k \in 1 .. Cardinality(Known) PROVE nextmid + k # nextmid
    BY <1>1
  <2>3. QED BY <1>2, <1>3, <1>4, <2>1, <2>2
<1>7. \A c \in B : id[c] \in nextmid .. nextmid + Cardinality(Known)
  <2>1. nextmid \in nextmid .. nextmid + Cardinality(Known)
    BY <1>1
  <2>2. ASSUME NEW k \in 1 .. Cardinality(Known) PROVE nextmid + k \in nextmid .. nextmid + Cardinality(Known)
    BY <1>1
  <2>3. QED BY <1>2, <1>3, <1>4, <2>1, <2>2
<1>8. \E ids : torn' = Shared(ids, B) /\ \A c \in B : id[c] \in ids
  BY <1>1, <1>7
<1>9. /\ mail' \in [Bids -> Seq(Message)]
      /\ \A c \in Bids \ B : lists'[c] = lists[c] /\ nums'[c] = nums[c] /\ mail'[c] = mail[c]
  BY CreatedMails DEF B
<1>10. \A c \in B :
       /\ id[c] \in Mids /\ [to |-> c, no |-> posts] \in Message
       /\ NewBase[c] \in Seq(Mids) /\ NewAts(others, at)[c] \in 0 .. Len(NewBase[c])
       /\ lists'[c] = Added(NewBase[c], id[c], NewAts(others, at)[c]) /\ nums'[c] = Len(lists'[c])
       /\ c \notin torn.boards => mail'[c] = Added(NewShown[c], [to |-> c, no |-> posts], NewAts(others, at)[c])
       /\ \/ NewBase[c] = List(c) /\ NewShown[c] = mail[c]
          \/ NewBase[c] = <<>> /\ NewShown[c] = <<>>
  BY <1>5, Zenon DEF DeliveredTo, id
<1>11. QED BY <1>2, <1>6, <1>8, <1>9, <1>10, Zenon DEF Delivery, B, id

\* Statements about a player may always be sent.
LEMMA PlayerMail ==
  ASSUME NEW T, NEW num, NEW list, NEW shown, NEW uses, NEW p \in Pids, NEW a \in Account
  PROVE  /\ Sendable(UpdatePlayer(p, a), T, num, list, shown, uses)
         /\ Sendable(<<Sql("player", p, Home(a))>>, T, num, list, shown, uses)
<1> DEFINE Z == MailSent(T, list, shown)
           needs == MailNeeds(T, num, list, uses)
           x == Sql("player", p, Home(a))
           y == Sql("owned", p, {})
           z == Sql("owned", p, a.owns)
<1>1. x \in Statement /\ y \in Statement /\ z \in Statement
  BY HomeOf, SqlStatements
<1>2. x.table = "player" /\ y.table = "owned" /\ z.table = "owned"
  BY SqlParts
<1>3. x \in Z /\ y \in Z /\ z \in Z
  BY <1>1, <1>2 DEF MailSent
<1>4. needs[x] = {} /\ needs[y] = {} /\ needs[z] = {}
  BY <1>1, <1>2, MailNeedsAre
<1>5. UpdatePlayer(p, a) \in Seq(Z) /\ UpdatePlayer(p, a) \in Seq(Statement)
  BY <1>1, <1>3, UpdatePlayerIn
<1>6. <<x>> \in Seq(Z) /\ <<x>> \in Seq(Statement)
  BY <1>1, <1>3
<1>7. Answered(UpdatePlayer(p, a), needs)
  <2>1. Len(UpdatePlayer(p, a)) = 3 /\ UpdatePlayer(p, a)[1] = x /\ UpdatePlayer(p, a)[2] = y /\ UpdatePlayer(p, a)[3] = z
    BY UpdatePlayerIs
  <2> HIDE DEF x, y, z, needs
  <2>2. \A k \in 1 .. Len(UpdatePlayer(p, a)) : needs[UpdatePlayer(p, a)[k]] = {}
    BY <1>4, <2>1
  <2>3. QED BY <2>2 DEF Answered
<1>8. Answered(<<x>>, needs)
  <2> HIDE DEF x, needs
  <2>1. \A k \in 1 .. Len(<<x>>) : <<x>>[k] = x
    OBVIOUS
  <2>2. QED BY <1>4, <2>1 DEF Answered
<1>9. QED BY <1>5, <1>6, <1>7, <1>8 DEF Sendable

LEMMA SendableConcat ==
  ASSUME NEW T, NEW num, NEW list, NEW shown, NEW uses, NEW s, NEW t,
         Sendable(s, T, num, list, shown, uses), Sendable(t, T, num, list, shown, uses)
  PROVE  Sendable(s \o t, T, num, list, shown, uses)
<1> DEFINE Z == MailSent(T, list, shown)
           needs == MailNeeds(T, num, list, uses)
<1>1. /\ s \in Seq(Z) /\ t \in Seq(Z) /\ s \in Seq(Statement) /\ t \in Seq(Statement)
      /\ Answered(s, needs) /\ Answered(t, needs)
  BY DEF Sendable
<1> HIDE DEF Z, needs
<1>2. s \o t \in Seq(Z) /\ s \o t \in Seq(Statement)
  BY <1>1
<1>3. Answered(s \o t, needs)
  BY <1>1, AnsweredConcat
<1>4. QED BY <1>2, <1>3 DEF Sendable, Z, needs

\* What a statement put first needs may be anywhere.
LEMMA AnsweredFirst ==
  ASSUME NEW S, NEW s \in Seq(S), NEW q \in S, NEW needs, Answered(s, needs),
         \A X \in needs[q] : \E j \in 1 .. Len(s) : s[j] \in X
  PROVE  Answered(<<q>> \o s, needs)
<1> DEFINE t == <<q>> \o s
<1>1. /\ Len(t) = Len(s) + 1 /\ t[1] = q /\ Len(s) \in Nat
      /\ \A k \in 1 .. Len(s) : t[k + 1] = s[k]
  OBVIOUS
<1> HIDE DEF t
<1>2. SUFFICES ASSUME NEW k \in 1 .. Len(t), NEW X \in needs[t[k]] PROVE \E j \in k .. Len(t) : t[j] \in X
  BY DEF Answered, t
<1>3. CASE k = 1
  <2>1. PICK j \in 1 .. Len(s) : s[j] \in X
    BY <1>1, <1>2, <1>3
  <2>2. j + 1 \in k .. Len(t)
    BY <1>1, <1>3
  <2>3. QED BY <1>1, <2>1, <2>2
<1>4. CASE k # 1
  <2> DEFINE i == k - 1
  <2>1. i \in 1 .. Len(s) /\ i + 1 = k
    BY <1>1, <1>4
  <2>2. t[k] = s[i]
    BY <1>1, <2>1
  <2> HIDE DEF i
  <2>3. PICK j \in i .. Len(s) : s[j] \in X
    BY <1>2, <2>1, <2>2 DEF Answered
  <2>4. j + 1 \in k .. Len(t) /\ j \in 1 .. Len(s)
    BY <1>1, <2>1
  <2>5. QED BY <1>1, <2>3, <2>4
<1>5. QED BY <1>3, <1>4

\* The row of a new board is written before its first message.
LEMMA RowThenBoard ==
  ASSUME NEW T, NEW num, NEW list, NEW shown, NEW uses, NEW b \in Bids, NEW m, NEW value,
         num[b] = Len(list[b]),
         Sendable(BoardStatements(m, value, b, list[b]), T, num, list, shown, uses)
  PROVE  /\ Sql("board", b, 0) \in MailSent(T, list, shown)
         /\ Answered(<<Sql("board", b, 0)>> \o BoardStatements(m, value, b, list[b]), MailNeeds(T, num, list, uses))
<1> DEFINE q == Sql("board", b, 0)
           s == BoardStatements(m, value, b, list[b])
           needs == MailNeeds(T, num, list, uses)
<1>1. q \in Statement /\ q.table = "board" /\ q.id = b
  BY SqlStatements, SqlParts
<1>2. q \in MailSent(T, list, shown)
  BY <1>1 DEF MailSent
<1>3. needs[q] = {{Sql("board", b, num[b])}}
  BY <1>1, MailNeedsAre
<1>4. Len(s) = 4 /\ s[4] = Sql("board", b, Len(list[b]))
  BY BoardStatementsAre
<1>5. s \in Seq(Statement) /\ Answered(s, needs)
  BY DEF Sendable
<1> HIDE DEF q, s, needs
<1>6. 4 \in 1 .. Len(s) /\ s[4] \in {Sql("board", b, num[b])}
  BY <1>4
<1>7. \A X \in needs[q] : \E j \in 1 .. Len(s) : s[j] \in X
  BY <1>3, <1>6
<1>8. Answered(<<q>> \o s, needs)
  BY <1>1, <1>5, <1>7, AnsweredFirst
<1>9. QED BY <1>2, <1>8 DEF q, s, needs

\* What is sent of the others and of their boards.
LEMMA TellMail ==
  ASSUME PlayersInv, MailInv, Free, NEW n, NEW home, NewFacts(n, home), NEW others, NEW at,
         CreateFacts(n, home, others, at), UNCHANGED <<board, slots, message, up>>,
         NEW k \in 1 .. Cardinality(Known)
  PROVE  Sendable(Tell(others, at, k), torn'.boards, nums', lists', mail', Uses(slots, lists'))
<1> DEFINE c == Boards(others)[k]
           id == NewIds(others)
<1>1. OthersFacts(others) /\ nextbid \in Nat /\ others[k] \in Known
  BY DEF CreateFacts, OthersFacts, PlayersInv, Shapes
<1>2. c \in NewBoards(others) /\ id[c] = nextmid + k
  BY <1>1, ToldBoards DEF ToldBoard
<1>3. lists'[c] = Told(others, at)[k] /\ lists' \in [Bids -> Seq(Mids)]
  <2>1. lists' \in [Bids -> Seq(Mids)]
    BY CreatedMails
  <2>2. lists'[c] = Told(others, at)[k]
    BY DEF CreateFacts
  <2>3. QED BY <2>1, <2>2
<1>4. Held[others[k]] \in Account /\ others[k] \in Pids
  BY <1>1, FreeFacts DEF Known
<1> HIDE DEF c, id
<1>5. Sendable(BoardStatements(id[c], [to |-> c, no |-> posts], c, lists'[c]),
               torn'.boards, nums', lists', mail', Uses(slots, lists'))
  BY <1>2, <1>3, CreatedDelivery, DeliveredStatements DEF id
<1>6. Sendable(UpdatePlayer(others[k], Held[others[k]]), torn'.boards, nums', lists', mail', Uses(slots, lists'))
  BY <1>4, PlayerMail
<1>7. Tell(others, at, k) = BoardStatements(id[c], [to |-> c, no |-> posts], c, lists'[c])
                            \o UpdatePlayer(others[k], Held[others[k]])
  BY <1>2, <1>3 DEF Tell, c
<1>8. QED BY <1>5, <1>6, <1>7, SendableConcat

LEMMA CreatedSendable ==
  ASSUME PlayersInv, MailInv, Free, NEW n, NEW home, NewFacts(n, home), NEW others, NEW at,
         CreateFacts(n, home, others, at), UNCHANGED <<board, slots, message, up>>
  PROVE  LET Z == MailSent(torn'.boards, lists', mail') IN
         /\ CreateParts(Z, nextbid, nextmid, [to |-> nextbid, no |-> posts], nextid, NewAccount(n, home),
                        [k \in 1 .. Cardinality(Known) |-> Tell(others, at, k)])
         /\ todo' \in Seq(Z)
         /\ Answered(todo', MailNeeds(torn'.boards, nums', lists', Uses(slots, lists')))
<1> DEFINE m == Cardinality(Known)
           T == torn'.boards
           L == lists'
           N == nums'
           M == mail'
           U == Uses(slots, L)
           Z == MailSent(T, L, M)
           needs == MailNeeds(T, N, L, U)
           v == [to |-> nextbid, no |-> posts]
           a == NewAccount(n, home)
           tells == [k \in 1 .. m |-> Tell(others, at, k)]
<1>1. /\ nextbid \in Bids /\ nextid \in Pids /\ a \in Account /\ OthersFacts(others) /\ m \in Nat
  BY DEF NewFacts, CreateFacts, OthersFacts
<1>2. L \in [Bids -> Seq(Mids)] /\ L[nextbid] = <<nextmid>> /\ N[nextbid] = Len(L[nextbid])
  <2>1. lists' \in [Bids -> Seq(Mids)]
    BY CreatedMails
  <2>2. lists'[nextbid] = <<nextmid>> /\ nums'[nextbid] = Len(lists'[nextbid])
    BY <1>1 DEF CreateFacts
  <2>3. QED BY <2>1, <2>2
<1>3. nextbid \in NewBoards(others) /\ NewIds(others)[nextbid] = nextmid
  BY <1>1 DEF NewBoards, NewIds
<1>4. Sendable(BoardStatements(nextmid, v, nextbid, <<nextmid>>), T, N, L, M, U)
  <2>1. Delivery(NewBoards(others), NewIds(others), NewAts(others, at), NewBase, NewShown, posts)
    BY CreatedDelivery
  <2>2. QED BY <1>2, <1>3, <2>1, DeliveredStatements
<1>5. /\ Sendable(UpdatePlayer(nextid, a), T, N, L, M, U)
      /\ Sendable(<<Sql("player", nextid, Home(a))>>, T, N, L, M, U)
  <2> HIDE DEF T, N, L, M, U, a
  <2>1. QED BY <1>1, PlayerMail
<1>6. \A k \in 1 .. m : Sendable(Tell(others, at, k), T, N, L, M, U)
  BY TellMail
<1>7. todo' = CreateSeq(nextbid, nextmid, v, nextid, a, tells)
  BY DEF CreateFacts
<1> HIDE DEF T, N, L, M, U, v, a, m
<1>8. /\ Sql("board", nextbid, 0) \in Z
      /\ Answered(<<Sql("board", nextbid, 0)>> \o BoardStatements(nextmid, v, nextbid, <<nextmid>>), needs)
  BY <1>1, <1>2, <1>4, RowThenBoard
<1>9. /\ BoardStatements(nextmid, v, nextbid, <<nextmid>>) \in Seq(Z)
      /\ UpdatePlayer(nextid, a) \in Seq(Z) /\ Answered(UpdatePlayer(nextid, a), needs)
      /\ <<Sql("player", nextid, Home(a))>> \in Seq(Z) /\ Answered(<<Sql("player", nextid, Home(a))>>, needs)
  BY <1>4, <1>5 DEF Sendable
<1>10. \A k \in 1 .. m : Tell(others, at, k) \in Seq(Z) /\ Answered(Tell(others, at, k), needs)
  BY <1>6 DEF Sendable
<1> HIDE DEF Z, needs
<1>11. /\ tells \in Seq(Seq(Z)) /\ Len(tells) = m /\ \A k \in 1 .. Len(tells) : Answered(tells[k], needs)
  BY <1>1, <1>10 DEF m
<1>12. Sql("player", nextid, Home(a)) \in Z
  BY <1>9
<1> HIDE DEF tells
<1>13. CreateParts(Z, nextbid, nextmid, v, nextid, a, tells)
  BY <1>8, <1>9, <1>11, <1>12 DEF CreateParts
<1>14. todo' \in Seq(Z)
  BY <1>7, <1>13, CreateSeqFirst
<1>15. Answered(todo', needs)
  BY <1>7, <1>8, <1>9, <1>11, <1>13, CreateSeqAnswered
<1>16. QED BY <1>13, <1>14, <1>15 DEF Z, needs, T, N, L, M, U, v, a, m, tells

\* Which boards and messages are written.
LEMMA CreatedHas ==
  ASSUME PlayersInv, MailInv, Free, NEW n, NEW home, NewFacts(n, home), NEW others, NEW at,
         CreateFacts(n, home, others, at), UNCHANGED <<board, slots, message, up>>
  PROVE  /\ \A c \in Bids : Has(todo', "slots", c) <=> c \in NewBoards(others)
         /\ \A c \in NewBoards(others) : Has(todo', "board", c) /\ Has(todo', "message", NewIds(others)[c])
<1> DEFINE m == Cardinality(Known)
           Z == MailSent(torn'.boards, lists', mail')
           v == [to |-> nextbid, no |-> posts]
           a == NewAccount(n, home)
           tells == [k \in 1 .. m |-> Tell(others, at, k)]
<1>1. CreateParts(Z, nextbid, nextmid, v, nextid, a, tells)
  BY CreatedSendable
<1>2. todo' = CreateSeq(nextbid, nextmid, v, nextid, a, tells)
  BY DEF CreateFacts
<1>3. nextbid \in Bids /\ OthersFacts(others) /\ m \in Nat /\ nextbid \in Nat
  BY DEF NewFacts, CreateFacts, OthersFacts, PlayersInv, Shapes
<1>4. ASSUME NEW k \in 1 .. m, NEW table, NEW id
      PROVE  Has(Tell(others, at, k), table, id) <=>
               \/ table = "message" /\ id = nextmid + k
               \/ table \in {"slots", "board"} /\ id = Boards(others)[k]
               \/ table \in {"player", "owned"} /\ id = others[k]
  <2> DEFINE s == BoardStatements(nextmid + k, [to |-> Boards(others)[k], no |-> posts], Boards(others)[k],
                                  Told(others, at)[k])
             t == UpdatePlayer(others[k], Held[others[k]])
  <2>1. Tell(others, at, k) = s \o t
    BY DEF Tell
  <2>2. /\ Has(s, table, id) <=> \/ table = "message" /\ id = nextmid + k
                                 \/ table \in {"slots", "board"} /\ id = Boards(others)[k]
        /\ Has(t, table, id) <=> table \in {"player", "owned"} /\ id = others[k]
    BY HasBoardStatements, HasUpdatePlayer
  <2>3. s \in Seq(Statement) /\ t \in Seq(Statement)
    <3>1. OthersFacts(others) /\ others[k] \in Pids /\ Held[others[k]] \in Account
      BY <1>3, FreeFacts DEF OthersFacts, Known
    <3>2. Sendable(t, torn'.boards, nums', lists', mail', Uses(slots, lists'))
      BY <3>1, PlayerMail
    <3>3. ToldBoard(others, at, k)
      BY <1>3, ToldBoards
    <3>4. lists'[Boards(others)[k]] = Told(others, at)[k] /\ lists' \in [Bids -> Seq(Mids)]
      <4>1. lists' \in [Bids -> Seq(Mids)]
        BY CreatedMails
      <4>2. lists'[Boards(others)[k]] = Told(others, at)[k]
        BY DEF CreateFacts
      <4>3. QED BY <4>1, <4>2
    <3>5. /\ Boards(others)[k] \in NewBoards(others) /\ NewIds(others)[Boards(others)[k]] = nextmid + k
      BY <3>3 DEF ToldBoard
    <3>6. Sendable(s, torn'.boards, nums', lists', mail', Uses(slots, lists'))
      <4>1. Delivery(NewBoards(others), NewIds(others), NewAts(others, at), NewBase, NewShown, posts)
        BY CreatedDelivery
      <4>2. QED BY <3>4, <3>5, <4>1, DeliveredStatements
    <3>7. QED BY <3>2, <3>6 DEF Sendable
  <2> HIDE DEF s, t
  <2>4. Has(s \o t, table, id) <=> Has(s, table, id) \/ Has(t, table, id)
    BY <2>3, HasConcat
  <2>5. QED BY <2>1, <2>2, <2>4
<1>5. Len(tells) = m /\ \A k \in 1 .. m : tells[k] = Tell(others, at, k)
  BY <1>3
<1> HIDE DEF Z, v, a, tells, m
<1>6. \A table, id : Has(todo', table, id) <=>
           \/ table \in {"slots", "board"} /\ id = nextbid
           \/ table = "message" /\ id = nextmid
           \/ table \in {"player", "owned"} /\ id = nextid
           \/ \E k \in 1 .. Len(tells) : Has(tells[k], table, id)
  BY <1>1, <1>2, CreateSeqHas
<1>7. \A k \in 1 .. m : /\ Boards(others)[k] \in Bids /\ Boards(others)[k] \in NewBoards(others)
                        /\ NewIds(others)[Boards(others)[k]] = nextmid + k
  BY <1>3, ToldBoards DEF ToldBoard, m
<1>8. /\ nextbid \in NewBoards(others) /\ NewIds(others)[nextbid] = nextmid
      /\ \A c \in NewBoards(others) : c = nextbid \/ \E k \in 1 .. m : c = Boards(others)[k]
  BY <1>3, NewBoardsAre DEF NewIds, m
<1>9. \A c \in Bids : Has(todo', "slots", c) <=> c = nextbid \/ \E k \in 1 .. m : c = Boards(others)[k]
  BY <1>4, <1>5, <1>6
<1>10. ASSUME NEW c \in NewBoards(others) PROVE Has(todo', "board", c) /\ Has(todo', "message", NewIds(others)[c])
  <2>1. CASE c = nextbid
    BY <1>6, <1>8, <2>1
  <2>2. ASSUME NEW k \in 1 .. m, c = Boards(others)[k]
        PROVE  Has(todo', "board", c) /\ Has(todo', "message", NewIds(others)[c])
    <3>1. Has(tells[k], "board", c) /\ Has(tells[k], "message", nextmid + k)
      BY <1>4, <1>5, <2>2
    <3>2. QED BY <1>5, <1>6, <1>7, <2>2, <3>1
  <2>3. QED BY <1>8, <2>1, <2>2
<1>11. QED BY <1>7, <1>8, <1>9, <1>10

LEMMA CreateMail ==
  ASSUME PlayersInv, MailInv, Free, NEW n \in Names, NEW home \in Homes, NEW what, posts < MaxPosts,
         CreateNewPlayer(n, home, what)
  PROVE  MailInv'
<1>1. NewFacts(n, home)
  BY NewDoes
<1>2. PICK others, at : CreateFacts(n, home, others, at)
  BY CreateDoes
<1>3. UNCHANGED <<board, slots, message, up>>
  BY DEF CreateNewPlayer, tables
<1>4. Delivery(NewBoards(others), NewIds(others), NewAts(others, at), NewBase, NewShown, posts)
  BY <1>1, <1>2, <1>3, CreatedDelivery
<1>5. /\ todo' \in Seq(MailSent(torn'.boards, lists', mail'))
      /\ Answered(todo', MailNeeds(torn'.boards, nums', lists', Uses(slots, lists')))
  BY <1>1, <1>2, <1>3, CreatedSendable
<1>6. /\ \A c \in Bids : Has(todo', "slots", c) <=> c \in NewBoards(others)
      /\ \A c \in NewBoards(others) : Has(todo', "board", c) /\ Has(todo', "message", NewIds(others)[c])
  BY <1>1, <1>2, <1>3, CreatedHas
<1>7. QED BY <1>4, <1>5, <1>6, DeliveredMail

-----------------------------------------------------------------------------
(* Every board shows what was posted to it *)

LEMMA StutterMail == ASSUME PlayersInv, MailInv, UNCHANGED vars PROVE MailInv'
<1>1. UNCHANGED <<board, slots, message, up, nums, lists, todo, mail, torn>>
  BY DEF vars, tables, memory
<1>2. Uses(slots, lists)' = Uses(slots, lists)
  BY <1>1 DEF Uses
<1>3. /\ mail' \in [Bids -> Seq(Message)] /\ todo' \in Seq(MailSent(torn'.boards, lists', mail'))
      /\ Answered(todo', MailNeeds(torn'.boards, nums', lists', Uses(slots, lists)'))
  BY <1>1, <1>2 DEF MailInv
<1>4. Listed' /\ Shown'
  BY <1>1 DEF MailInv, Listed, Shown
<1>5. Unmixed(torn.boards, slots, lists)'
  BY <1>1, <1>2 DEF MailInv, Unmixed
<1>6. QED BY <1>3, <1>4, <1>5 DEF MailInv

LEMMA StepMail == ASSUME PlayersInv, MailInv, Next PROVE MailInv'
<1>1. CASE Send
  BY <1>1, SendMail
<1>2. CASE Crash
  BY <1>2, CrashMail
<1>3. CASE Restart
  BY <1>3, RestartMail
<1>4. ASSUME NEW b \in Bids, NEW pos \in -1 .. MaxMessage, Post(b, pos) PROVE MailInv'
  BY <1>4, PostMail
<1>5. ASSUME NEW b \in Bids, NEW pos \in 0 .. MaxMessage, RemoveMessage(b, pos) PROVE MailInv'
  BY <1>5, RemoveMail
<1>6. ASSUME NEW n \in Names, NEW right \in BOOLEAN, Login(n, right) PROVE MailInv'
  <2>1. Free
    BY <1>6 DEF Login
  <2>2. \/ \E what : Found(n, what)
        \/ posts < MaxPosts /\ \E home \in Homes : CreateNewPlayer(n, home, "cannot create")
    BY <1>6, Zenon DEF Login, Refused
  <2>3. QED BY <2>1, <2>2, FoundMail, CreateMail
<1>7. ASSUME NEW n \in Names, CreateAccount(n) PROVE MailInv'
  <2>1. Free
    BY <1>7 DEF CreateAccount
  <2>2. \/ \E what : Found(n, what)
        \/ posts < MaxPosts /\ \E home \in Homes : CreateNewPlayer(n, home, "created")
    BY <1>7, Zenon DEF CreateAccount, Refused
  <2>3. QED BY <2>1, <2>2, FoundMail, CreateMail
<1>8. ASSUME NEW p \in Pids, NEW q \in Pids, NEW o \in Objects, Turn(p, q, o) PROVE MailInv'
  BY <1>8, TurnMail
<1>9. QED BY <1>1, <1>2, <1>3, <1>4, <1>5, <1>6, <1>7, <1>8 DEF Next

LEMMA MailInvariant == Spec => [](PlayersInv /\ MailInv)
<1>1. Init => PlayersInv /\ MailInv
  BY InitPlayers, InitMail
<1>2. (PlayersInv /\ MailInv) /\ [Next]_vars => (PlayersInv /\ MailInv)'
  BY StepPlayers, StutterPlayers, StepMail, StutterMail
<1>3. QED BY <1>1, <1>2, PTL DEF Spec

LEMMA MailIsKept == ASSUME PlayersInv, MailInv PROVE MailKept
<1>1. SUFFICES ASSUME todo = <<>>, NEW b \in Bids \ torn.boards
      PROVE  /\ [k \in 1 .. Len(slots[b]) |-> message[slots[b][k]]] = mail[b]
             /\ board[b] # None => board[b] = Len(mail[b])
             /\ up /\ nums[b] # None => nums[b] = Len(mail[b]) /\ List(b) = slots[b]
  BY DEF MailKept
<1>2. \A table, id : ~ Has(todo, table, id)
  BY <1>1, NothingToSend
<1>3. /\ Len(slots[b]) = Len(mail[b]) /\ \A i \in 1 .. Len(slots[b]) : message[slots[b][i]] = mail[b][i]
      /\ board[b] # None => board[b] = Len(mail[b])
      /\ nums[b] # None => nums[b] = Len(mail[b])
  BY <1>2 DEF MailInv, Shown
<1>4. mail[b] \in Seq(Message)
  BY DEF MailInv
<1>5. [k \in 1 .. Len(slots[b]) |-> message[slots[b][k]]] = mail[b]
  BY <1>3, <1>4
<1>6. up => List(b) = slots[b]
  BY <1>2 DEF MailInv, Listed, List
<1>7. QED BY <1>3, <1>5, <1>6

\* A board shows what was posted to it and not removed, in its order and as many
\* as it says, before and after a restart, unless a crash caught it in a change or
\* it came to share a message with one that was (Board::addMessage,
\* MysqlPersistence::saveMessageList, BoardManager::init).
THEOREM SpecMailKept == Spec => []MailKept
<1>1. PlayersInv /\ MailInv => MailKept
  BY MailIsKept
<1>2. QED BY <1>1, MailInvariant, PTL
=============================================================================
