-------------------------- MODULE OrderQueueProofs --------------------------
(***************************************************************************)
(* The ids of a queue stay unique in memory and in the tables, whatever    *)
(* crashes and errors there are; an order that is gone is never listed     *)
(* again, whenever the server crashes; and as long as nothing goes wrong   *)
(* the tables are as the queues are held, and the queues are the lists of  *)
(* orders of OrderList: for every number of queues, players and orders.    *)
(*                                                                         *)
(* IInv is inductive and gives the types and the ids.  Inv adds what is    *)
(* still to be written: an order is in one queue and under one id for      *)
(* ever (GoneInv), and each table is that of the queue but for the         *)
(* statements still to be sent (StoreInv).  Under Inv every listed order   *)
(* is there, so that the list of OrderList is that of the slots, and each  *)
(* operation is one of OrderList on it.                                    *)
(***************************************************************************)
EXTENDS OrderQueue, SequencesExt, SequenceTheorems, FiniteSetTheorems,
        WellFoundedInduction, TLAPS

-----------------------------------------------------------------------------
(* Natural numbers and finite sets *)

LessThan == {p \in Nat \X Nat : p[1] < p[2]}

LEMMA LessThanWellFounded == IsWellFoundedOn(LessThan, Nat)
  BY NatLessThanWellFounded DEF OpToRel, LessThan

\* A set of naturals that is not empty has a least element.
LEMMA LeastElement ==
  ASSUME NEW T, T \subseteq Nat, T # {}
  PROVE  \E x \in T : \A y \in T : x <= y
<1>1. PICK x \in T : \A y \in T : ~ (<<y, x>> \in LessThan)
  BY LessThanWellFounded, WFMin
<1>2. \A y \in T : ~ (y < x)
  BY <1>1 DEF LessThan
<1>3. QED BY <1>2

LEMMA Above ==
  ASSUME NEW a \in Nat, NEW b \in Nat
  PROVE  \E c \in Nat : b <= c /\ a <= c
<1>1. a + b \in Nat /\ b <= a + b /\ a <= a + b
  OBVIOUS
<1>2. QED BY <1>1

LEMMA AtMost == ASSUME NEW a \in Nat, NEW b \in Nat, NEW c \in Nat, a <= b, b <= c PROVE a <= c
  OBVIOUS

\* A sequence of naturals has an upper bound: the least length of a prefix
\* without one would leave a bound for the prefix before it.
LEMMA SequenceBounded ==
  ASSUME NEW s \in Seq(Nat)
  PROVE  \E b \in Nat : \A i \in 1 .. Len(s) : s[i] <= b
<1> DEFINE Bounds(n, b) == \A i \in 1 .. n : s[i] <= b
           Unbounded == {n \in 0 .. Len(s) : \A b \in Nat : ~ Bounds(n, b)}
<1>1. Len(s) \in Nat /\ \A i \in 1 .. Len(s) : s[i] \in Nat
  OBVIOUS
<1>2. SUFFICES ASSUME Unbounded # {} PROVE FALSE
  <2>1. Len(s) \in 0 .. Len(s)
    BY <1>1
  <2>2. Len(s) \notin Unbounded => \E b \in Nat : Bounds(Len(s), b)
    BY <2>1
  <2>3. QED BY <2>2, <1>2
<1>3. PICK n \in Unbounded : \A m \in Unbounded : n <= m
  <2>1. Unbounded \subseteq Nat
    BY <1>1
  <2>2. QED BY <1>2, <2>1, LeastElement
<1>4. n \in 0 .. Len(s) /\ \A b \in Nat : ~ Bounds(n, b)
  BY <1>3
<1>5. n \in 1 .. Len(s)
  <2>1. Bounds(0, 0)
    OBVIOUS
  <2>2. n # 0
    <3> HIDE DEF Bounds, Unbounded
    <3> QED BY <2>1, <1>4
  <2>3. QED BY <2>2, <1>4, <1>1
<1>6. n - 1 \in 0 .. Len(s) /\ n - 1 < n /\ s[n] \in Nat
  BY <1>1, <1>5
<1>7. n - 1 \notin Unbounded
  <2> HIDE DEF Unbounded
  <2> QED BY <1>1, <1>3, <1>5, <1>6
<1>8. PICK b \in Nat : Bounds(n - 1, b)
  <2> HIDE DEF Bounds
  <2> QED BY <1>6, <1>7
<1>9. PICK c \in Nat : b <= c /\ s[n] <= c
  <2> HIDE DEF Bounds
  <2> QED BY <1>6, <1>8, Above
<1>10. Bounds(n, c)
  <2>1. SUFFICES ASSUME NEW i \in 1 .. n PROVE s[i] <= c
    OBVIOUS
  <2>2. CASE i = n
    BY <2>2, <1>9
  <2>3. CASE i # n
    <3>1. i \in 1 .. n - 1 /\ i \in 1 .. Len(s)
      BY <2>1, <2>3, <1>1, <1>5
    <3>2. s[i] <= b /\ s[i] \in Nat
      BY <3>1, <1>1, <1>8
    <3>3. QED BY <3>2, <1>8, <1>9, AtMost
  <2>4. QED BY <2>2, <2>3
<1>11. QED
  <2> HIDE DEF Bounds, Unbounded
  <2> QED BY <1>4, <1>9, <1>10

\* A bounded set of naturals that is not empty has a greatest element: Max.
LEMMA MaxBounded ==
  ASSUME NEW S, S \subseteq Nat, S # {}, NEW b \in Nat, \A x \in S : x <= b
  PROVE  Max(S) \in S /\ \A x \in S : x <= Max(S)
<1> DEFINE Bound == {n \in Nat : \A x \in S : x <= n}
<1>1. PICK m \in Bound : \A n \in Bound : m <= n
  <2>1. Bound \subseteq Nat /\ b \in Bound
    OBVIOUS
  <2>2. QED BY <2>1, LeastElement
<1>2. m \in Nat /\ \A x \in S : x <= m
  BY <1>1
<1>3. m \in S
  <2>1. SUFFICES ASSUME m \notin S PROVE FALSE
    OBVIOUS
  <2>2. \A x \in S : x <= m - 1
    BY <1>2, <2>1
  <2>3. m - 1 \in Nat
    <3>1. PICK x \in S : x <= m - 1
      BY <2>2
    <3>2. x \in Nat
      OBVIOUS
    <3>3. QED BY <1>2, <3>1, <3>2
  <2>4. m - 1 \in Bound
    BY <2>2, <2>3
  <2>5. QED BY <1>1, <1>2, <2>4
<1>4. \E x \in S : \A y \in S : x >= y
  BY <1>2, <1>3
<1>5. Max(S) \in S /\ \A y \in S : Max(S) >= y
  BY <1>4 DEF Max
<1>6. QED BY <1>5

-----------------------------------------------------------------------------
(* Lists *)

LEMMA InsertAtProperties ==
  ASSUME NEW S, NEW s \in Seq(S), NEW e \in S, NEW pos \in 1 .. Len(s) + 1
  PROVE  /\ InsertAt(s, pos, e) \in Seq(S)
         /\ Len(InsertAt(s, pos, e)) = Len(s) + 1
         /\ \A i \in 1 .. Len(s) + 1 : InsertAt(s, pos, e)[i] =
              IF i < pos THEN s[i] ELSE IF i = pos THEN e ELSE s[i - 1]
<1> DEFINE front == SubSeq(s, 1, pos - 1)
           back == SubSeq(s, pos, Len(s))
           mid == front \o <<e>>
<1>1. Len(s) \in Nat /\ \A i \in 1 .. Len(s) : s[i] \in S
  OBVIOUS
<1>2. /\ front \in Seq(S)
      /\ Len(front) = pos - 1
      /\ \A i \in 1 .. pos - 1 : front[i] = s[i]
  <2>1. \A i \in 1 .. pos - 1 : s[i] \in S
    BY <1>1
  <2>2. 1 \in Int /\ pos - 1 \in Int
    BY <1>1
  <2>3. /\ front \in Seq(S)
        /\ Len(front) = IF 1 <= pos - 1 THEN (pos - 1) - 1 + 1 ELSE 0
        /\ \A i \in 1 .. (pos - 1) - 1 + 1 : front[i] = s[1 + i - 1]
    BY <2>1, <2>2, SubSeqProperties
  <2>4. QED BY <2>3, <1>1
<1>3. /\ back \in Seq(S)
      /\ Len(back) = Len(s) + 1 - pos
      /\ \A i \in 1 .. Len(s) + 1 - pos : back[i] = s[pos + i - 1]
  <2>1. \A i \in pos .. Len(s) : s[i] \in S
    BY <1>1
  <2>2. Len(s) \in Int /\ pos \in Int
    BY <1>1
  <2>3. /\ back \in Seq(S)
        /\ Len(back) = IF pos <= Len(s) THEN Len(s) - pos + 1 ELSE 0
        /\ \A i \in 1 .. Len(s) - pos + 1 : back[i] = s[pos + i - 1]
    BY <2>1, <2>2, SubSeqProperties
  <2>4. QED BY <2>3, <1>1
<1> HIDE DEF front, back
<1>4. /\ mid \in Seq(S)
      /\ Len(mid) = pos
      /\ \A i \in 1 .. pos : mid[i] = IF i < pos THEN s[i] ELSE e
  <2>1. <<e>> \in Seq(S) /\ Len(<<e>>) = 1 /\ <<e>>[1] = e
    OBVIOUS
  <2>2. /\ mid \in Seq(S)
        /\ Len(mid) = Len(front) + Len(<<e>>)
        /\ \A i \in 1 .. Len(front) + Len(<<e>>) :
             mid[i] = IF i <= Len(front) THEN front[i] ELSE <<e>>[i - Len(front)]
    BY <1>2, <2>1, ConcatProperties
  <2> HIDE DEF mid
  <2>3. Len(front) = pos - 1 /\ pos \in Nat
    BY <1>2
  <2>4. Len(mid) = pos
    BY <2>1, <2>2, <2>3
  <2>5. ASSUME NEW i \in 1 .. pos PROVE mid[i] = IF i < pos THEN s[i] ELSE e
    <3>1. mid[i] = IF i <= pos - 1 THEN front[i] ELSE <<e>>[i - (pos - 1)]
      BY <2>1, <2>2, <2>3
    <3>2. CASE i < pos
      BY <3>1, <3>2, <1>2, <2>3
    <3>3. CASE i = pos
      BY <3>1, <3>3, <2>1, <2>3
    <3>4. QED BY <3>2, <3>3, <2>3
  <2>6. QED BY <2>2, <2>4, <2>5
<1> HIDE DEF mid
<1>5. /\ mid \o back \in Seq(S)
      /\ Len(mid \o back) = Len(mid) + Len(back)
      /\ \A i \in 1 .. Len(mid) + Len(back) :
           (mid \o back)[i] = IF i <= Len(mid) THEN mid[i] ELSE back[i - Len(mid)]
  BY <1>3, <1>4, ConcatProperties
<1>6. InsertAt(s, pos, e) = mid \o back
  BY DEF InsertAt, mid, front, back
<1>7. ASSUME NEW i \in 1 .. Len(s) + 1, i > pos
      PROVE  (mid \o back)[i] = s[i - 1]
  <2>1. (mid \o back)[i] = back[i - pos]
    BY <1>1, <1>3, <1>4, <1>5, <1>7
  <2>2. i - pos \in 1 .. Len(s) + 1 - pos /\ pos + (i - pos) - 1 = i - 1
    BY <1>1, <1>7
  <2>3. back[i - pos] = s[pos + (i - pos) - 1]
    BY <2>2, <1>3
  <2>4. QED BY <2>1, <2>2, <2>3
<1>8. ASSUME NEW i \in 1 .. Len(s) + 1, i <= pos
      PROVE  (mid \o back)[i] = IF i < pos THEN s[i] ELSE e
  BY <1>1, <1>3, <1>4, <1>5, <1>8
<1>9. Len(mid \o back) = Len(s) + 1
  BY <1>1, <1>3, <1>4, <1>5
<1>10. ASSUME NEW i \in 1 .. Len(s) + 1
       PROVE  InsertAt(s, pos, e)[i] = IF i < pos THEN s[i] ELSE IF i = pos THEN e ELSE s[i - 1]
  <2>0. i \in Nat /\ pos \in Nat
    BY <1>1
  <2>1. CASE i < pos
    <3>1. i <= pos
      BY <2>0, <2>1
    <3>2. QED BY <1>6, <1>8, <2>1, <3>1
  <2>2. CASE i = pos
    <3>1. i <= pos /\ ~ (i < pos)
      BY <2>0, <2>2
    <3>2. QED BY <1>6, <1>8, <2>2, <3>1
  <2>3. CASE i > pos
    <3>1. ~ (i < pos) /\ i # pos
      BY <2>0, <2>3
    <3>2. QED BY <1>6, <1>7, <2>3, <3>1
  <2>4. QED BY <2>0, <2>1, <2>2, <2>3
<1>11. InsertAt(s, pos, e) \in Seq(S) /\ Len(InsertAt(s, pos, e)) = Len(s) + 1
  BY <1>5, <1>6, <1>9
<1>12. QED BY <1>10, <1>11

\* Putting something new into a list without repetitions leaves none.
LEMMA InsertUnique ==
  ASSUME NEW S, NEW s \in Seq(S), IsInjective(s), NEW e \in S, e \notin ToSet(s),
         NEW pos \in 1 .. Len(s) + 1
  PROVE  /\ InsertAt(s, pos, e) \in Seq(S)
         /\ IsInjective(InsertAt(s, pos, e))
         /\ ToSet(InsertAt(s, pos, e)) = ToSet(s) \cup {e}
<1> DEFINE t == InsertAt(s, pos, e)
           n == Len(s)
           From(i) == IF i < pos THEN i ELSE i - 1
<1>1. t \in Seq(S) /\ Len(t) = n + 1 /\ t[pos] = e
      /\ \A i \in (1 .. n + 1) \ {pos} : t[i] = s[From(i)]
  BY InsertAtProperties
<1>2. n \in Nat /\ DOMAIN t = 1 .. n + 1 /\ DOMAIN s = 1 .. n /\ pos \in 1 .. n + 1
  BY <1>1
<1> HIDE DEF t, n
<1>3. \A i \in (1 .. n + 1) \ {pos} : From(i) \in 1 .. n
  BY <1>2
<1>4. \A i, j \in (1 .. n + 1) \ {pos} : From(i) = From(j) => i = j
  BY <1>2
<1>5. \A k \in 1 .. n : \E i \in (1 .. n + 1) \ {pos} : From(i) = k
  <2> TAKE k \in 1 .. n
  <2>1. CASE k < pos
    BY <2>1, <1>2
  <2>2. CASE ~ (k < pos)
    <3>1. k + 1 \in (1 .. n + 1) \ {pos} /\ From(k + 1) = k
      BY <2>2, <1>2
    <3>2. QED BY <3>1
  <2>3. QED BY <2>1, <2>2
<1>6. \A k \in 1 .. n : s[k] \in ToSet(s) /\ s[k] # e
  BY <1>2 DEF ToSet
<1> HIDE DEF From
<1>7. IsInjective(t)
  <2>1. SUFFICES ASSUME NEW i \in 1 .. n + 1, NEW j \in 1 .. n + 1, t[i] = t[j]
                 PROVE  i = j
    BY <1>2 DEF IsInjective
  <2>2. CASE i = pos \/ j = pos
    BY <2>1, <2>2, <1>1, <1>3, <1>6
  <2>3. CASE i # pos /\ j # pos
    <3>1. From(i) \in DOMAIN s /\ From(j) \in DOMAIN s /\ s[From(i)] = s[From(j)]
      BY <2>1, <2>3, <1>1, <1>2, <1>3
    <3>2. From(i) = From(j)
      BY <3>1 DEF IsInjective
    <3>3. QED BY <3>2, <2>3, <1>4
  <2>4. QED BY <2>2, <2>3
<1>8. ASSUME NEW x PROVE x \in ToSet(t) <=> x \in ToSet(s) \cup {e}
  <2>1. x \in ToSet(t) <=> \E i \in 1 .. n + 1 : x = t[i]
    BY <1>2 DEF ToSet
  <2>2. x \in ToSet(s) <=> \E k \in 1 .. n : x = s[k]
    BY <1>2 DEF ToSet
  <2>3. QED BY <2>1, <2>2, <1>1, <1>2, <1>3, <1>5
<1>9. ToSet(t) = ToSet(s) \cup {e}
  BY <1>8
<1>10. QED BY <1>1, <1>7, <1>9 DEF t

\* Taking one element out leaves none either: the rest is found elsewhere in the list.
LEMMA ThinnedUnique ==
  ASSUME NEW S, NEW s \in Seq(S), IsInjective(s), NEW t \in Seq(S),
         NEW from \in [1 .. Len(t) -> 1 .. Len(s)], IsInjective(from),
         \A i \in 1 .. Len(t) : t[i] = s[from[i]]
  PROVE  IsInjective(t) /\ ToSet(t) \subseteq ToSet(s)
<1>1. DOMAIN t = 1 .. Len(t) /\ DOMAIN s = 1 .. Len(s)
  OBVIOUS
<1>2. IsInjective(t)
  <2>1. SUFFICES ASSUME NEW i \in 1 .. Len(t), NEW j \in 1 .. Len(t), t[i] = t[j]
                 PROVE  i = j
    BY <1>1 DEF IsInjective
  <2>2. from[i] \in DOMAIN s /\ from[j] \in DOMAIN s /\ s[from[i]] = s[from[j]]
    BY <1>1, <2>1
  <2>3. from[i] = from[j]
    BY <2>2 DEF IsInjective
  <2>4. QED BY <2>3 DEF IsInjective
<1>3. ToSet(t) \subseteq ToSet(s)
  BY <1>1 DEF ToSet
<1>4. QED BY <1>2, <1>3

LEMMA RemoveAtProperties ==
  ASSUME NEW S, NEW s \in Seq(S), NEW pos \in 1 .. Len(s)
  PROVE  /\ RemoveAt(s, pos) \in Seq(S)
         /\ Len(RemoveAt(s, pos)) = Len(s) - 1
         /\ \A i \in 1 .. Len(s) - 1 : RemoveAt(s, pos)[i] = IF i < pos THEN s[i] ELSE s[i + 1]
<1> DEFINE front == SubSeq(s, 1, pos - 1)
           back == SubSeq(s, pos + 1, Len(s))
           t == front \o back
           n == Len(s)
<1>1. n \in Nat /\ pos \in 1 .. n /\ \A i \in 1 .. n : s[i] \in S
  OBVIOUS
<1>2. /\ front \in Seq(S)
      /\ Len(front) = pos - 1
      /\ \A i \in 1 .. pos - 1 : front[i] = s[i]
  <2>1. \A i \in 1 .. pos - 1 : s[i] \in S
    BY <1>1
  <2>2. 1 \in Int /\ pos - 1 \in Int
    BY <1>1
  <2>3. /\ front \in Seq(S)
        /\ Len(front) = IF 1 <= pos - 1 THEN (pos - 1) - 1 + 1 ELSE 0
        /\ \A i \in 1 .. (pos - 1) - 1 + 1 : front[i] = s[1 + i - 1]
    BY <2>1, <2>2, SubSeqProperties
  <2>4. QED BY <2>3, <1>1
<1>3. /\ back \in Seq(S)
      /\ Len(back) = n - pos
      /\ \A i \in 1 .. n - pos : back[i] = s[pos + i]
  <2>1. \A i \in pos + 1 .. n : s[i] \in S
    BY <1>1
  <2>2. n \in Int /\ pos + 1 \in Int
    BY <1>1
  <2>3. /\ back \in Seq(S)
        /\ Len(back) = IF pos + 1 <= n THEN n - (pos + 1) + 1 ELSE 0
        /\ \A i \in 1 .. n - (pos + 1) + 1 : back[i] = s[(pos + 1) + i - 1]
    BY <2>1, <2>2, SubSeqProperties
  <2>4. QED BY <2>3, <1>1
<1> HIDE DEF front, back
<1>4. /\ t \in Seq(S)
      /\ Len(t) = Len(front) + Len(back)
      /\ \A i \in 1 .. Len(front) + Len(back) :
           t[i] = IF i <= Len(front) THEN front[i] ELSE back[i - Len(front)]
  BY <1>2, <1>3, ConcatProperties
<1> HIDE DEF t, n
<1>5. Len(t) = n - 1
  BY <1>1, <1>2, <1>3, <1>4
<1>6. ASSUME NEW i \in 1 .. n - 1 PROVE t[i] = IF i < pos THEN s[i] ELSE s[i + 1]
  <2>1. CASE i < pos
    BY <2>1, <1>1, <1>2, <1>3, <1>4
  <2>2. CASE ~ (i < pos)
    <3>1. t[i] = back[i - (pos - 1)]
      BY <2>2, <1>1, <1>2, <1>3, <1>4
    <3>2. i - (pos - 1) \in 1 .. n - pos /\ pos + (i - (pos - 1)) = i + 1
      BY <2>2, <1>1
    <3>3. back[i - (pos - 1)] = s[pos + (i - (pos - 1))]
      BY <3>2, <1>3
    <3>4. QED BY <2>2, <3>1, <3>2, <3>3
  <2>3. QED BY <2>1, <2>2
<1>7. RemoveAt(s, pos) = t
  BY DEF RemoveAt, t, front, back, n
<1>8. QED BY <1>4, <1>5, <1>6, <1>7 DEF n

LEMMA RemoveUnique ==
  ASSUME NEW S, NEW s \in Seq(S), IsInjective(s), NEW pos \in 1 .. Len(s)
  PROVE  /\ RemoveAt(s, pos) \in Seq(S)
         /\ IsInjective(RemoveAt(s, pos))
         /\ ToSet(RemoveAt(s, pos)) = ToSet(s) \ {s[pos]}
<1> DEFINE t == RemoveAt(s, pos)
           n == Len(s)
           from == [i \in 1 .. n - 1 |-> IF i < pos THEN i ELSE i + 1]
<1>1. n \in Nat /\ pos \in 1 .. n /\ \A i \in 1 .. n : s[i] \in S
  OBVIOUS
<1>2. t \in Seq(S) /\ Len(t) = n - 1 /\ \A i \in 1 .. n - 1 : t[i] = IF i < pos THEN s[i] ELSE s[i + 1]
  BY RemoveAtProperties
<1> HIDE DEF t, n
<1>3. Len(t) = n - 1
  BY <1>2
<1>4. \A i \in 1 .. n - 1 : t[i] = s[from[i]]
  BY <1>2
<1>5. from \in [1 .. n - 1 -> 1 .. n] /\ IsInjective(from)
  BY <1>1 DEF IsInjective
<1>6. \A i \in 1 .. n - 1 : from[i] # pos
  BY <1>1
<1>7. \A j \in 1 .. n : j # pos => \E i \in 1 .. n - 1 : from[i] = j
  <2>1. SUFFICES ASSUME NEW j \in 1 .. n, j # pos PROVE \E i \in 1 .. n - 1 : from[i] = j
    OBVIOUS
  <2>2. CASE j < pos
    <3>1. j \in 1 .. n - 1 /\ from[j] = j
      BY <1>1, <2>2
    <3>2. QED BY <3>1
  <2>3. CASE ~(j < pos)
    <3>1. j - 1 \in 1 .. n - 1 /\ from[j - 1] = j
      BY <1>1, <2>1, <2>3
    <3>2. QED BY <3>1
  <2>4. QED BY <2>2, <2>3
<1> HIDE DEF from
<1>8. IsInjective(t) /\ ToSet(t) \subseteq ToSet(s)
  BY <1>2, <1>3, <1>4, <1>5, ThinnedUnique DEF n
<1>9. DOMAIN s = 1 .. n /\ DOMAIN t = 1 .. n - 1
  BY <1>2, <1>3 DEF n
<1>10. s[pos] \notin ToSet(t)
  <2>1. SUFFICES ASSUME NEW i \in 1 .. n - 1, t[i] = s[pos] PROVE FALSE
    BY <1>9 DEF ToSet
  <2>2. from[i] \in 1 .. n /\ s[from[i]] = s[pos] /\ from[i] # pos
    BY <1>4, <1>5, <1>6, <2>1
  <2>3. QED BY <1>1, <1>9, <2>2 DEF IsInjective
<1>11. ToSet(s) \ {s[pos]} \subseteq ToSet(t)
  <2>1. SUFFICES ASSUME NEW j \in 1 .. n, s[j] # s[pos] PROVE s[j] \in ToSet(t)
    BY <1>9 DEF ToSet
  <2>2. PICK i \in 1 .. n - 1 : from[i] = j
    BY <1>7, <2>1
  <2>3. t[i] = s[j]
    BY <1>4, <2>2
  <2>4. QED BY <1>9, <2>3 DEF ToSet
<1>12. QED BY <1>2, <1>8, <1>10, <1>11 DEF t

LEMMA TailUnique ==
  ASSUME NEW S, NEW s \in Seq(S), IsInjective(s), s # <<>>
  PROVE  /\ Tail(s) \in Seq(S)
         /\ IsInjective(Tail(s))
         /\ ToSet(Tail(s)) = ToSet(s) \ {Head(s)}
         /\ Head(s) \in ToSet(s)
<1> DEFINE t == Tail(s)
           from == [i \in 1 .. Len(s) - 1 |-> i + 1]
<1>1. t \in Seq(S) /\ Len(t) = Len(s) - 1 /\ \A i \in 1 .. Len(t) : t[i] = s[i + 1]
  OBVIOUS
<1>2. Len(s) \in Nat
  OBVIOUS
<1> HIDE DEF t
<1>3. from \in [1 .. Len(t) -> 1 .. Len(s)] /\ IsInjective(from)
      /\ \A i \in 1 .. Len(t) : from[i] = i + 1
  BY <1>1, <1>2 DEF IsInjective
<1> HIDE DEF from
<1>4. IsInjective(t) /\ ToSet(t) \subseteq ToSet(s)
  BY <1>1, <1>3, ThinnedUnique
<1>5. DOMAIN s = 1 .. Len(s) /\ DOMAIN t = 1 .. Len(s) - 1 /\ Head(s) = s[1] /\ 1 \in 1 .. Len(s)
  BY <1>1
<1>6. Head(s) \notin ToSet(t)
  <2>1. SUFFICES ASSUME NEW i \in 1 .. Len(s) - 1, t[i] = s[1] PROVE FALSE
    BY <1>5 DEF ToSet
  <2>2. i + 1 \in 1 .. Len(s) /\ s[i + 1] = s[1] /\ i + 1 # 1
    BY <1>1, <1>2, <2>1
  <2>3. QED BY <1>5, <2>2 DEF IsInjective
<1>7. ToSet(s) \ {Head(s)} \subseteq ToSet(t)
  <2>1. SUFFICES ASSUME NEW j \in 1 .. Len(s), s[j] # s[1] PROVE s[j] \in ToSet(t)
    BY <1>5 DEF ToSet
  <2>2. j - 1 \in 1 .. Len(s) - 1 /\ (j - 1) + 1 = j
    BY <1>2, <2>1
  <2>3. t[j - 1] = s[j]
    BY <1>1, <2>2
  <2>4. QED BY <1>5, <2>2, <2>3 DEF ToSet
<1>8. Head(s) \in ToSet(s)
  BY <1>5 DEF ToSet
<1>9. QED BY <1>1, <1>4, <1>6, <1>7, <1>8 DEF t

-----------------------------------------------------------------------------
(* Lists of ids *)

\* The id that retrieveOrderQueue counts on with is above those listed.
LEMMA NextOrderIdAhead ==
  ASSUME NEW s \in Seq(Id)
  PROVE  NextOrderId(s) \in Id /\ \A id \in ToSet(s) : id < NextOrderId(s)
<1> DEFINE S == ToSet(s) \cup {0}
<1>1. s \in Seq(Nat) /\ ToSet(s) \subseteq Id
  BY DEF Id, ToSet
<1>2. PICK b \in Nat : \A i \in 1 .. Len(s) : s[i] <= b
  BY <1>1, SequenceBounded
<1>3. S \subseteq Nat /\ S # {} /\ \A x \in S : x <= b
  BY <1>1, <1>2 DEF Id, ToSet
<1>4. Max(S) \in S /\ \A x \in S : x <= Max(S)
  <2> HIDE DEF S
  <2> QED BY <1>3, MaxBounded
<1>5. PICK m \in Nat : m = Max(S)
  BY <1>3, <1>4
<1> HIDE DEF S
<1>6. ToSet(s) \subseteq S
  BY DEF S
<1>7. \A id \in ToSet(s) : id < m + 1
  <2> TAKE id \in ToSet(s)
  <2>1. id \in Nat /\ id <= m
    BY <1>3, <1>4, <1>5, <1>6
  <2>2. QED BY <2>1, <1>5
<1>8. NextOrderId(s) = m + 1
  BY <1>5 DEF NextOrderId, S
<1>9. m + 1 \in Id
  BY <1>5 DEF Id
<1>10. QED BY <1>7, <1>8, <1>9

-----------------------------------------------------------------------------
(* The inductive invariant *)

\* A queue in memory lists no id twice, and counts on with an id above those it
\* lists and those it holds an order for.
GoodHeld(oq) ==
  /\ IsHeld(oq)
  /\ IsInjective(oq.slots)
  /\ \A id \in ToSet(oq.slots) \cup DOMAIN oq.cache : id < oq.next

GoodStored(t) == IsStored(t) /\ IsInjective(t.slots)

\* What an operation still has to write lists no id twice either: the list of
\* the tables goes through the statements that replace it.
GoodStatement == {s \in Statement : s.do = "insert slots" => IsInjective(s.slots)}

IInv ==
  /\ DOMAIN held \subseteq Queue /\ \A q \in DOMAIN held : GoodHeld(held[q])
  /\ nextQueue \in 1 .. MaxQueue + 1
  /\ DOMAIN stored = Queue /\ \A q \in Queue : GoodStored(stored[q])
  /\ work \in [queue : Nat, steps : Seq(GoodStatement), ends : SUBSET (1 .. MaxOrders)]
  /\ given \in 0 .. MaxOrders
  /\ gone \in SUBSET (1 .. MaxOrders)
  /\ trouble \in {"none", "error", "crash"}

-----------------------------------------------------------------------------
(* Tables and queues *)

LEMMA PutTable ==
  ASSUME NEW f, IsTable(f), NEW id \in Id, NEW o \in Order
  PROVE  IsTable(Put(f, id, o)) /\ DOMAIN Put(f, id, o) = DOMAIN f \cup {id}
  BY DEF IsTable, Put

LEMMA WithoutTable ==
  ASSUME NEW f, IsTable(f), NEW id
  PROVE  IsTable(Without(f, id)) /\ DOMAIN Without(f, id) \subseteq DOMAIN f
  BY DEF IsTable, Without, Restrict

LEMMA ReplaceTable ==
  ASSUME NEW f, IsTable(f), NEW id \in DOMAIN f, NEW o \in Order
  PROVE  IsTable([f EXCEPT ![id] = o])
  BY DEF IsTable

LEMMA EmptyList == <<>> \in Seq(Id) /\ IsInjective(<<>>) /\ ToSet(<<>>) = {}
  BY DEF IsInjective, ToSet

LEMMA EmptyTable == IsTable(<<>>) /\ DOMAIN <<>> = {}
  BY DEF IsTable

\* A record of good parts is a good queue.
LEMMA MakeHeld ==
  ASSUME NEW slots \in Seq(Id), IsInjective(slots), NEW cache, IsTable(cache),
         NEW next \in Id, NEW owners \in SUBSET Player,
         \A id \in ToSet(slots) \cup DOMAIN cache : id < next
  PROVE  GoodHeld([slots |-> slots, cache |-> cache, next |-> next, owners |-> owners])
  BY DEF GoodHeld, IsHeld

\* A queue is the record of its parts.
LEMMA HeldParts ==
  ASSUME NEW oq, GoodHeld(oq)
  PROVE  /\ oq = [slots |-> oq.slots, cache |-> oq.cache,
                  next |-> oq.next, owners |-> oq.owners]
         /\ oq.slots \in Seq(Id) /\ IsInjective(oq.slots)
         /\ IsTable(oq.cache) /\ DOMAIN oq.cache \subseteq Id
         /\ oq.next \in Id /\ oq.owners \in SUBSET Player
         /\ \A id \in ToSet(oq.slots) : id \in Id /\ id < oq.next
         /\ \A id \in DOMAIN oq.cache : id < oq.next
  BY DEF GoodHeld, IsHeld, IsTable, ToSet

\* The changes the operations make to a queue, field after field.
LEMMA ChangedField ==
  ASSUME NEW oq, GoodHeld(oq), NEW a
  PROVE  /\ [oq EXCEPT !.slots = a] =
              [slots |-> a, cache |-> oq.cache, next |-> oq.next, owners |-> oq.owners]
         /\ [oq EXCEPT !.owners = a] =
              [slots |-> oq.slots, cache |-> oq.cache, next |-> oq.next, owners |-> a]
<1>1. oq = [slots |-> oq.slots, cache |-> oq.cache, next |-> oq.next, owners |-> oq.owners]
  BY HeldParts
<1>2. QED BY <1>1

LEMMA ChangedTwo ==
  ASSUME NEW oq, GoodHeld(oq), NEW a, NEW b
  PROVE  /\ [oq EXCEPT !.slots = a, !.owners = b] =
              [slots |-> a, cache |-> oq.cache, next |-> oq.next, owners |-> b]
         /\ [oq EXCEPT !.slots = a, !.cache = b] =
              [slots |-> a, cache |-> b, next |-> oq.next, owners |-> oq.owners]
<1> DEFINE one == [oq EXCEPT !.slots = a]
<1>1. one = [slots |-> a, cache |-> oq.cache, next |-> oq.next, owners |-> oq.owners]
  BY ChangedField
<1> HIDE DEF one
<1>2. [one EXCEPT !.owners = b] =
        [slots |-> a, cache |-> oq.cache, next |-> oq.next, owners |-> b]
  BY <1>1
<1>3. [one EXCEPT !.cache = b] =
        [slots |-> a, cache |-> b, next |-> oq.next, owners |-> oq.owners]
  BY <1>1
<1>4. QED BY <1>2, <1>3 DEF one

LEMMA ChangedThree ==
  ASSUME NEW oq, GoodHeld(oq), NEW a, NEW b, NEW c
  PROVE  [oq EXCEPT !.slots = a, !.cache = b, !.next = c] =
           [slots |-> a, cache |-> b, next |-> c, owners |-> oq.owners]
<1> DEFINE two == [oq EXCEPT !.slots = a, !.cache = b]
<1>1. two = [slots |-> a, cache |-> b, next |-> oq.next, owners |-> oq.owners]
  BY ChangedTwo
<1> HIDE DEF two
<1>2. [two EXCEPT !.next = c] = [slots |-> a, cache |-> b, next |-> c, owners |-> oq.owners]
  BY <1>1
<1>3. QED BY <1>2 DEF two

\* A queue that is retrieved counts on above the list of the tables.
LEMMA RetrievedGood ==
  ASSUME NEW t, GoodStored(t)
  PROVE  GoodHeld(Retrieved(t))
<1>1. t.slots \in Seq(Id) /\ IsInjective(t.slots) /\ t.owners \in SUBSET Player
  BY DEF GoodStored, IsStored
<1>2. NextOrderId(t.slots) \in Id /\ \A id \in ToSet(t.slots) : id < NextOrderId(t.slots)
  BY <1>1, NextOrderIdAhead
<1>3. \A id \in ToSet(t.slots) \cup DOMAIN <<>> : id < NextOrderId(t.slots)
  BY <1>2, EmptyTable
<1>4. QED BY <1>1, <1>2, <1>3, EmptyTable, MakeHeld DEF Retrieved

LEMMA GotGood ==
  ASSUME IInv, NEW q \in Queue
  PROVE  GoodHeld(Got(q)) /\ GoodStored(stored[q])
  BY RetrievedGood DEF IInv, Got

LEMMA OrderOfType ==
  ASSUME IInv, NEW q \in Queue, NEW id, HasOrder(q, id)
  PROVE  id \in Id /\ OrderOf(q, id) \in Order
<1>1. IsTable(Got(q).cache) /\ IsTable(stored[q].orders)
  BY GotGood DEF GoodHeld, IsHeld, GoodStored, IsStored
<1>2. QED BY <1>1 DEF HasOrder, OrderOf, IsTable

LEMMA NumbersType ==
  ASSUME IInv, NEW q \in Queue
  PROVE  Numbers(q) \in SUBSET (1 .. MaxOrders)
  BY OrderOfType DEF Numbers, Order

\* Looking at an order keeps the queue good.
LEMMA CachedGood ==
  ASSUME IInv, NEW q \in Queue, NEW id \in ToSet(Got(q).slots), HasOrder(q, id)
  PROVE  /\ GoodHeld(Cached(q, id))
         /\ Cached(q, id).slots = Got(q).slots
         /\ id \in DOMAIN Cached(q, id).cache
         /\ Cached(q, id).cache[id] = OrderOf(q, id)
         /\ DOMAIN Got(q).cache \subseteq DOMAIN Cached(q, id).cache
<1> DEFINE oq == Got(q)
           cache == Put(oq.cache, id, OrderOf(q, id))
<1>1. GoodHeld(oq)
  BY GotGood
<1>2. id \in Id /\ OrderOf(q, id) \in Order
  BY OrderOfType
<1>3. IsTable(cache) /\ DOMAIN cache = DOMAIN oq.cache \cup {id}
  BY <1>1, <1>2, HeldParts, PutTable
<1>4. cache[id] = OrderOf(q, id)
  BY DEF Put
<1> HIDE DEF oq, cache
<1>5. [oq EXCEPT !.cache = cache] =
        [slots |-> oq.slots, cache |-> cache, next |-> oq.next, owners |-> oq.owners]
  BY <1>1, HeldParts
<1>6. GoodHeld([slots |-> oq.slots, cache |-> cache, next |-> oq.next, owners |-> oq.owners])
  <2>1. \A i \in ToSet(oq.slots) \cup DOMAIN cache : i < oq.next
    BY <1>1, <1>3, HeldParts DEF oq
  <2>2. QED BY <1>1, <1>3, <2>1, HeldParts, MakeHeld
<1>7. Cached(q, id) = [oq EXCEPT !.cache = cache]
  BY DEF Cached, oq, cache
<1>8. QED BY <1>3, <1>4, <1>5, <1>6, <1>7 DEF oq

-----------------------------------------------------------------------------
(* Statements *)

LEMMA ShortSeq ==
  ASSUME NEW S, NEW a \in S, NEW b \in S, NEW c \in S, NEW d \in S
  PROVE  <<a, b>> \in Seq(S) /\ <<a, b, c, d>> \in Seq(S)
  OBVIOUS

LEMMA UpdateGood ==
  ASSUME NEW oq, GoodHeld(oq)
  PROVE  UpdateOrderQueue(oq) \in Seq(GoodStatement)
<1>1. oq.slots \in Seq(Id) /\ IsInjective(oq.slots) /\ oq.owners \in SUBSET Player
  BY DEF GoodHeld, IsHeld
<1>2. [do |-> "delete slots"] \in GoodStatement /\ [do |-> "delete owners"] \in GoodStatement
  BY DEF GoodStatement, Statement
<1>3. [do |-> "insert slots", slots |-> oq.slots] \in GoodStatement
  BY <1>1 DEF GoodStatement, Statement
<1>4. [do |-> "insert owners", owners |-> oq.owners] \in GoodStatement
  BY <1>1 DEF GoodStatement, Statement
<1>5. QED BY <1>2, <1>3, <1>4, ShortSeq DEF UpdateOrderQueue

LEMMA SaveGood ==
  ASSUME NEW oq, GoodHeld(oq)
  PROVE  SaveOrderQueue(oq) \in Seq(GoodStatement)
<1>1. oq.owners \in SUBSET Player
  BY DEF GoodHeld, IsHeld
<1>2. [do |-> "insert queue"] \in GoodStatement
  BY DEF GoodStatement, Statement
<1>3. [do |-> "insert owners", owners |-> oq.owners] \in GoodStatement
  BY <1>1 DEF GoodStatement, Statement
<1>4. QED BY <1>2, <1>3, ShortSeq DEF SaveOrderQueue

LEMMA OrderStatementGood ==
  ASSUME NEW id \in Id, NEW o \in Order
  PROVE  /\ [do |-> "insert order", id |-> id, order |-> o] \in GoodStatement
         /\ [do |-> "update order", id |-> id, order |-> o] \in GoodStatement
         /\ [do |-> "delete order", id |-> id] \in GoodStatement
  BY DEF GoodStatement, Statement

\* A statement on an order, and then those of updateOrderQueue.
LEMMA ThenUpdateGood ==
  ASSUME NEW s \in GoodStatement, NEW oq, GoodHeld(oq)
  PROVE  <<s>> \o UpdateOrderQueue(oq) \in Seq(GoodStatement)
<1>1. <<s>> \in Seq(GoodStatement)
  OBVIOUS
<1>2. QED BY <1>1, UpdateGood, ConcatProperties

LEMMA EffectGood ==
  ASSUME NEW t, GoodStored(t), NEW s \in GoodStatement
  PROVE  GoodStored(Effect(t, s))
<1>1. /\ t = [exists |-> t.exists, slots |-> t.slots, owners |-> t.owners, orders |-> t.orders]
      /\ t.exists \in BOOLEAN /\ t.slots \in Seq(Id) /\ IsInjective(t.slots)
      /\ t.owners \in SUBSET Player /\ IsTable(t.orders)
  BY DEF GoodStored, IsStored
<1>2. ASSUME NEW exists \in BOOLEAN, NEW slots \in Seq(Id), IsInjective(slots),
             NEW owners \in SUBSET Player, NEW orders, IsTable(orders)
      PROVE  GoodStored([exists |-> exists, slots |-> slots,
                         owners |-> owners, orders |-> orders])
  BY <1>2 DEF GoodStored, IsStored
<1>3. CASE s.do = "insert queue"
  <2>1. Effect(t, s) = [exists |-> TRUE, slots |-> t.slots, owners |-> t.owners,
                        orders |-> t.orders]
    BY <1>1, <1>3 DEF Effect
  <2>2. QED BY <1>1, <1>2, <2>1
<1>4. CASE s.do = "delete slots"
  <2>1. Effect(t, s) = [exists |-> t.exists, slots |-> <<>>, owners |-> t.owners,
                        orders |-> t.orders]
    BY <1>1, <1>4 DEF Effect
  <2>2. QED BY <1>1, <1>2, <2>1, EmptyList
<1>5. CASE s.do = "delete owners"
  <2>1. Effect(t, s) = [exists |-> t.exists, slots |-> t.slots, owners |-> {},
                        orders |-> t.orders]
    BY <1>1, <1>5 DEF Effect
  <2>2. QED BY <1>1, <1>2, <2>1
<1>6. CASE s.do = "insert slots"
  <2>1. Effect(t, s) = [exists |-> t.exists, slots |-> s.slots, owners |-> t.owners,
                        orders |-> t.orders]
    BY <1>1, <1>6 DEF Effect
  <2>2. s.slots \in Seq(Id) /\ IsInjective(s.slots)
    BY <1>6 DEF GoodStatement, Statement
  <2>3. QED BY <1>1, <1>2, <2>1, <2>2
<1>7. CASE s.do = "insert owners"
  <2>1. Effect(t, s) = [exists |-> t.exists, slots |-> t.slots, owners |-> s.owners,
                        orders |-> t.orders]
    BY <1>1, <1>7 DEF Effect
  <2>2. s.owners \in SUBSET Player
    BY <1>7 DEF GoodStatement, Statement
  <2>3. QED BY <1>1, <1>2, <2>1, <2>2
<1>8. CASE s.do = "delete order"
  <2>1. Effect(t, s) = [exists |-> t.exists, slots |-> t.slots, owners |-> t.owners,
                        orders |-> Without(t.orders, s.id)]
    BY <1>1, <1>8 DEF Effect
  <2>2. QED BY <1>1, <1>2, <2>1, WithoutTable
<1>9. CASE s.do = "insert order" /\ s.id \notin DOMAIN t.orders
  <2>1. Effect(t, s) = [exists |-> t.exists, slots |-> t.slots, owners |-> t.owners,
                        orders |-> Put(t.orders, s.id, s.order)]
    BY <1>1, <1>9 DEF Effect
  <2>2. s.id \in Id /\ s.order \in Order
    BY <1>9 DEF GoodStatement, Statement
  <2>3. IsTable(Put(t.orders, s.id, s.order))
    BY <1>1, <2>2, PutTable
  <2>4. QED BY <1>1, <1>2, <2>1, <2>3
<1>10. CASE s.do = "update order" /\ s.id \in DOMAIN t.orders
  <2>1. Effect(t, s) = [exists |-> t.exists, slots |-> t.slots, owners |-> t.owners,
                        orders |-> [t.orders EXCEPT ![s.id] = s.order]]
    BY <1>1, <1>10 DEF Effect
  <2>2. s.order \in Order
    BY <1>10 DEF GoodStatement, Statement
  <2>3. QED BY <1>1, <1>2, <1>10, <2>1, <2>2, ReplaceTable
<1>11. ASSUME s.do # "insert queue", s.do # "delete slots", s.do # "delete owners",
              s.do # "insert slots", s.do # "insert owners", s.do # "delete order"
       PROVE  GoodStored(Effect(t, s))
  <2>1. CASE s.do = "insert order" /\ s.id \notin DOMAIN t.orders
    BY <2>1, <1>9
  <2>2. CASE s.do = "update order" /\ s.id \in DOMAIN t.orders
    BY <2>2, <1>10
  <2>3. CASE /\ ~ (s.do = "insert order" /\ s.id \notin DOMAIN t.orders)
             /\ ~ (s.do = "update order" /\ s.id \in DOMAIN t.orders)
    <3>1. Effect(t, s) = t
      BY <1>11, <2>3 DEF Effect
    <3>2. QED BY <3>1
  <2>4. QED BY <2>1, <2>2, <2>3
<1>12. QED
  BY <1>3, <1>4, <1>5, <1>6, <1>7, <1>8, <1>11

-----------------------------------------------------------------------------
(* The steps keep the invariant *)

\* All operations but the statements, errors and restarts end in a Change.
LEMMA ChangeKeeps ==
  ASSUME IInv, NEW q \in Queue, NEW oq, GoodHeld(oq),
         NEW steps \in Seq(GoodStatement), NEW ends \in SUBSET (1 .. MaxOrders),
         Change(q, oq, steps, ends),
         nextQueue' \in 1 .. MaxQueue + 1, given' \in 0 .. MaxOrders,
         UNCHANGED <<stored, gone, trouble>>
  PROVE  IInv'
<1>1. DOMAIN held' \subseteq Queue /\ \A r \in DOMAIN held' : GoodHeld(held'[r])
  BY DEF IInv, Change, Put
<1>2. work' \in [queue : Nat, steps : Seq(GoodStatement), ends : SUBSET (1 .. MaxOrders)]
  <2>1. q \in Nat
    BY DEF Queue
  <2>2. work' = [queue |-> q, steps |-> steps, ends |-> ends]
    BY DEF Change
  <2>3. QED BY <2>1, <2>2
<1>3. stored' = stored /\ gone' = gone /\ trouble' = trouble
  OBVIOUS
<1>4. DOMAIN stored' = Queue /\ \A r \in Queue : GoodStored(stored'[r])
  BY <1>3 DEF IInv
<1>5. gone' \in SUBSET (1 .. MaxOrders) /\ trouble' \in {"none", "error", "crash"}
  BY <1>3 DEF IInv
<1>6. QED BY <1>1, <1>2, <1>4, <1>5 DEF IInv, GoodHeld, GoodStored, IsHeld, IsStored

LEMMA InitKeeps == Init => IInv
<1> SUFFICES ASSUME Init PROVE IInv
  OBVIOUS
<1>1. MaxQueue \in Nat /\ MaxOrders \in Nat
  BY ConstantsAssumption
<1>2. GoodStored([exists |-> FALSE, slots |-> <<>>, owners |-> {}, orders |-> <<>>])
  BY EmptyList, EmptyTable DEF GoodStored, IsStored
<1>3. DOMAIN stored = Queue /\ \A q \in Queue : GoodStored(stored[q])
  BY <1>2 DEF Init
<1>4. work \in [queue : Nat, steps : Seq(GoodStatement), ends : SUBSET (1 .. MaxOrders)]
  <2>1. <<>> \in Seq(GoodStatement)
    OBVIOUS
  <2>2. QED BY <2>1 DEF Init
<1>5. nextQueue \in 1 .. MaxQueue + 1 /\ given \in 0 .. MaxOrders
      /\ gone \in SUBSET (1 .. MaxOrders) /\ trouble \in {"none", "error", "crash"}
  BY <1>1 DEF Init
<1>6. DOMAIN held \subseteq Queue /\ \A q \in DOMAIN held : GoodHeld(held[q])
  BY DEF Init
<1>7. QED BY <1>3, <1>4, <1>5, <1>6 DEF IInv

LEMMA AddOrderQueueKeeps ==
  ASSUME IInv, NEW p \in Player, AddOrderQueue(p)
  PROVE  IInv'
<1> DEFINE oq == [slots |-> <<>>, cache |-> <<>>, next |-> 1, owners |-> {p}]
<1>1. GoodHeld(oq)
  <2>1. 1 \in Id /\ {p} \in SUBSET Player
    BY DEF Id
  <2>2. \A id \in ToSet(<<>>) \cup DOMAIN <<>> : id < 1
    BY EmptyList, EmptyTable
  <2>3. QED BY <2>1, <2>2, EmptyList, EmptyTable, MakeHeld
<1> HIDE DEF oq
<1>2. SaveOrderQueue(oq) \in Seq(GoodStatement)
  BY <1>1, SaveGood
<1>3. nextQueue \in Queue /\ Change(nextQueue, oq, SaveOrderQueue(oq), {})
      /\ nextQueue' = nextQueue + 1 /\ UNCHANGED <<stored, given, gone, trouble>>
  BY DEF AddOrderQueue, oq
<1>4. nextQueue' \in 1 .. MaxQueue + 1
  BY <1>3, ConstantsAssumption DEF Queue
<1>5. given' \in 0 .. MaxOrders
  BY <1>3 DEF IInv
<1>6. {} \in SUBSET (1 .. MaxOrders)
  OBVIOUS
<1>7. QED BY <1>1, <1>2, <1>3, <1>4, <1>5, <1>6, ChangeKeeps

\* The new order has the id the queue counts on with, which no order has.
LEMMA AddOrderKeeps ==
  ASSUME IInv, NEW q \in Queue, NEW p \in Player, AddOrder(q, p)
  PROVE  IInv'
<1> DEFINE oq == Got(q)
           order == [order |-> given + 1, turns |-> Turns]
           New(pos) == [oq EXCEPT !.slots = InsertAt(@, pos, oq.next),
                                  !.cache = Put(@, oq.next, order), !.next = @ + 1]
           steps(pos) == << [do |-> "insert order", id |-> oq.next, order |-> order] >>
                           \o UpdateOrderQueue(New(pos))
<1>1. PICK pos \in 1 .. Len(oq.slots) + 1 : Change(q, New(pos), steps(pos), {})
  BY DEF AddOrder
<1>2. given < MaxOrders /\ given' = given + 1 /\ nextQueue' = nextQueue
      /\ UNCHANGED <<stored, gone, trouble>>
  BY DEF AddOrder
<1>3. GoodHeld(oq)
  BY GotGood
<1>4. order \in Order /\ given' \in 0 .. MaxOrders
  BY <1>2, ConstantsAssumption DEF IInv, Order
<1> DEFINE slots == InsertAt(oq.slots, pos, oq.next)
           cache == Put(oq.cache, oq.next, order)
<1> HIDE DEF oq, order
<1>5. oq.next \in Id /\ oq.next \notin ToSet(oq.slots) /\ oq.next + 1 \in Id
  BY <1>3, HeldParts DEF Id
<1>6. slots \in Seq(Id) /\ IsInjective(slots) /\ ToSet(slots) = ToSet(oq.slots) \cup {oq.next}
  BY <1>3, <1>5, HeldParts, InsertUnique
<1>7. IsTable(cache) /\ DOMAIN cache = DOMAIN oq.cache \cup {oq.next}
  BY <1>3, <1>4, <1>5, HeldParts, PutTable
<1> HIDE DEF slots, cache
<1>8. \A id \in ToSet(slots) \cup DOMAIN cache : id < oq.next + 1
  <2> TAKE id \in ToSet(slots) \cup DOMAIN cache
  <2>1. PICK n \in Id : n = oq.next
    BY <1>5
  <2>2. id = n \/ (id \in Id /\ id < n)
    BY <1>3, <1>6, <1>7, <2>1, HeldParts
  <2>3. id < n + 1
    BY <2>1, <2>2 DEF Id
  <2>4. QED BY <2>1, <2>3
<1>9. New(pos) = [slots |-> slots, cache |-> cache, next |-> oq.next + 1, owners |-> oq.owners]
  <2>1. New(pos) = [oq EXCEPT !.slots = slots, !.cache = cache, !.next = oq.next + 1]
    BY DEF slots, cache
  <2> DEFINE next == oq.next + 1
  <2> HIDE DEF New, next
  <2>2. New(pos) = [oq EXCEPT !.slots = slots, !.cache = cache, !.next = next]
    BY <2>1 DEF next
  <2>3. New(pos) = [slots |-> slots, cache |-> cache, next |-> next, owners |-> oq.owners]
    BY <1>3, <2>2, ChangedThree
  <2>4. QED BY <2>3 DEF next
<1>10. GoodHeld(New(pos))
  <2>1. oq.owners \in SUBSET Player
    BY <1>3, HeldParts
  <2> HIDE DEF New
  <2>2. QED BY <1>5, <1>6, <1>7, <1>8, <1>9, <2>1, MakeHeld
<1> HIDE DEF New
<1>11. steps(pos) \in Seq(GoodStatement)
  BY <1>4, <1>5, <1>10, OrderStatementGood, ThenUpdateGood
<1> HIDE DEF steps
<1>12. nextQueue' \in 1 .. MaxQueue + 1 /\ {} \in SUBSET (1 .. MaxOrders)
  BY <1>2 DEF IInv
<1>13. QED BY <1>1, <1>2, <1>4, <1>10, <1>11, <1>12, ChangeKeeps

LEMMA RemoveOrderKeeps ==
  ASSUME IInv, NEW q \in Queue, NEW p \in Player, RemoveOrder(q, p)
  PROVE  IInv'
<1> DEFINE oq == Got(q)
           New(pos) == [oq EXCEPT !.slots = RemoveAt(@, pos),
                                  !.cache = Without(@, oq.slots[pos])]
           steps(pos) == << [do |-> "delete order", id |-> oq.slots[pos]] >>
                           \o UpdateOrderQueue(New(pos))
           ends(pos) == {OrderOf(q, oq.slots[pos]).order}
<1>1. PICK pos \in DOMAIN oq.slots :
        HasOrder(q, oq.slots[pos]) /\ Change(q, New(pos), steps(pos), ends(pos))
        /\ UNCHANGED <<nextQueue, stored, given, gone, trouble>>
  BY DEF RemoveOrder
<1>2. GoodHeld(oq)
  BY GotGood
<1>3. oq.slots[pos] \in Id /\ ends(pos) \in SUBSET (1 .. MaxOrders)
  BY <1>1, OrderOfType DEF Order
<1> DEFINE slots == RemoveAt(oq.slots, pos)
           cache == Without(oq.cache, oq.slots[pos])
<1> HIDE DEF oq, ends
<1>4. slots \in Seq(Id) /\ IsInjective(slots) /\ ToSet(slots) \subseteq ToSet(oq.slots)
  <2>1. pos \in 1 .. Len(oq.slots)
    <3>1. oq.slots \in Seq(Id)
      BY <1>2, HeldParts
    <3>2. DOMAIN oq.slots = 1 .. Len(oq.slots)
      BY <3>1
    <3>3. QED BY <3>2
  <2>2. QED BY <1>2, <2>1, HeldParts, RemoveUnique
<1>5. IsTable(cache) /\ DOMAIN cache \subseteq DOMAIN oq.cache
  BY <1>2, HeldParts, WithoutTable
<1>6. New(pos) = [oq EXCEPT !.slots = slots, !.cache = cache]
  OBVIOUS
<1> HIDE DEF slots, cache, New
<1>7. GoodHeld(New(pos))
  <2>1. oq.next \in Id /\ oq.owners \in SUBSET Player
    BY <1>2, HeldParts
  <2>2. \A id \in ToSet(slots) \cup DOMAIN cache : id < oq.next
    BY <1>2, <1>4, <1>5, HeldParts
  <2>3. New(pos) = [slots |-> slots, cache |-> cache, next |-> oq.next, owners |-> oq.owners]
    BY <1>2, <1>4, <1>6, ChangedTwo
  <2>4. QED BY <1>4, <1>5, <2>1, <2>2, <2>3, MakeHeld
<1>8. steps(pos) \in Seq(GoodStatement)
  <2>1. [do |-> "delete order", id |-> oq.slots[pos]] \in GoodStatement
    BY <1>3 DEF GoodStatement, Statement
  <2>2. QED BY <1>7, <2>1, ThenUpdateGood
<1> HIDE DEF steps
<1>9. nextQueue' \in 1 .. MaxQueue + 1 /\ given' \in 0 .. MaxOrders
  BY <1>1 DEF IInv
<1>10. QED BY <1>1, <1>3, <1>7, <1>8, <1>9, ChangeKeeps

LEMMA GetOrderKeeps ==
  ASSUME IInv, NEW q \in Queue, NEW p \in Player, GetOrder(q, p)
  PROVE  IInv'
<1>1. PICK id \in ToSet(Got(q).slots) :
        HasOrder(q, id) /\ Change(q, Cached(q, id), <<>>, {})
        /\ UNCHANGED <<nextQueue, stored, given, gone, trouble>>
  BY DEF GetOrder
<1>2. GoodHeld(Cached(q, id))
  BY <1>1, CachedGood
<1>3. <<>> \in Seq(GoodStatement) /\ {} \in SUBSET (1 .. MaxOrders)
  OBVIOUS
<1>4. nextQueue' \in 1 .. MaxQueue + 1 /\ given' \in 0 .. MaxOrders
  BY <1>1 DEF IInv
<1>5. QED BY <1>1, <1>2, <1>3, <1>4, ChangeKeeps

LEMMA DoFirstOrderKeeps ==
  ASSUME IInv, NEW q \in Queue, DoFirstOrder(q)
  PROVE  IInv'
<1> DEFINE oq == Got(q)
           id == Head(oq.slots)
           seen == Cached(q, id)
           done == [seen EXCEPT !.slots = Tail(@)]
           New(left) == [seen EXCEPT !.cache[id].turns = left]
<1>1. /\ oq.slots # <<>> /\ HasOrder(q, id)
      /\ nextQueue' = nextQueue /\ given' = given
      /\ UNCHANGED <<stored, gone, trouble>>
  BY DEF DoFirstOrder
<1>2. GoodHeld(oq)
  BY GotGood
<1>3. id \in ToSet(oq.slots)
  <2>1. oq.slots \in Seq(Id)
    BY <1>2, HeldParts
  <2> HIDE DEF oq
  <2>2. 1 \in DOMAIN oq.slots /\ id = oq.slots[1]
    BY <1>1, <2>1
  <2>3. QED BY <2>2 DEF ToSet
<1>4. GoodHeld(seen) /\ id \in DOMAIN seen.cache /\ seen.cache[id] = OrderOf(q, id)
      /\ seen.slots = oq.slots
  BY <1>1, <1>3, CachedGood
<1>5. id \in Id /\ OrderOf(q, id) \in Order
  BY <1>1, OrderOfType
<1>6. nextQueue' \in 1 .. MaxQueue + 1 /\ given' \in 0 .. MaxOrders
  BY <1>1 DEF IInv
<1> HIDE DEF oq, id, seen
<1>7. CASE Change(q, done, << [do |-> "delete order", id |-> id] >> \o UpdateOrderQueue(done),
                  {OrderOf(q, id).order})
  <2> DEFINE slots == Tail(seen.slots)
  <2>1. slots \in Seq(Id) /\ IsInjective(slots) /\ ToSet(slots) \subseteq ToSet(seen.slots)
    BY <1>1, <1>4, HeldParts, TailUnique
  <2>2. done = [slots |-> slots, cache |-> seen.cache, next |-> seen.next,
                owners |-> seen.owners]
    <3>1. done = [seen EXCEPT !.slots = slots]
      OBVIOUS
    <3> HIDE DEF slots, done
    <3>2. seen.next \in Id /\ seen.owners \in SUBSET Player
      BY <1>4, HeldParts
    <3>3. QED BY <1>4, <2>1, <3>1, ChangedField
  <2> HIDE DEF slots, done
  <2>3. GoodHeld(done)
    <3>1. IsTable(seen.cache) /\ seen.next \in Id /\ seen.owners \in SUBSET Player
      BY <1>4, HeldParts
    <3>2. \A i \in ToSet(slots) \cup DOMAIN seen.cache : i < seen.next
      BY <1>4, <2>1, HeldParts
    <3>3. QED BY <2>1, <2>2, <3>1, <3>2, MakeHeld
  <2>4. << [do |-> "delete order", id |-> id] >> \o UpdateOrderQueue(done)
          \in Seq(GoodStatement)
    BY <1>5, <2>3, OrderStatementGood, ThenUpdateGood
  <2>5. {OrderOf(q, id).order} \in SUBSET (1 .. MaxOrders)
    BY <1>5 DEF Order
  <2>6. QED BY <1>1, <1>6, <1>7, <2>3, <2>4, <2>5, ChangeKeeps
<1>8. ASSUME NEW left \in 0 .. OrderOf(q, id).turns,
             Change(q, New(left),
               << [do |-> "update order", id |-> id, order |-> New(left).cache[id]] >>
                 \o UpdateOrderQueue(New(left)), {})
      PROVE  IInv'
  <2> DEFINE o == [seen.cache[id] EXCEPT !.turns = left]
             cache == [seen.cache EXCEPT ![id] = o]
  <2>1. o \in Order
    <3>1. seen.cache[id] \in [order : 1 .. MaxOrders, turns : 0 .. Turns]
      BY <1>4, <1>5 DEF Order
    <3>2. left \in 0 .. Turns
      <4>1. PICK turns \in 0 .. Turns : turns = OrderOf(q, id).turns
        BY <1>5 DEF Order
      <4>2. left \in 0 .. turns
        BY <4>1
      <4>3. QED BY <4>2, ConstantsAssumption
    <3>3. QED BY <3>1, <3>2 DEF Order
  <2>2. New(left) = [slots |-> seen.slots, cache |-> cache, next |-> seen.next,
                     owners |-> seen.owners]
    <3>1. seen = [slots |-> seen.slots, cache |-> seen.cache, next |-> seen.next,
                  owners |-> seen.owners]
      BY <1>4, HeldParts
    <3>2. QED BY <3>1
  <2> HIDE DEF o
  <2>3. IsTable(cache) /\ DOMAIN cache = DOMAIN seen.cache /\ cache[id] = o
    BY <1>4, <2>1, HeldParts, ReplaceTable
  <2> HIDE DEF cache, New
  <2>4. GoodHeld(New(left)) /\ New(left).cache[id] = o
    <3>1. /\ seen.slots \in Seq(Id) /\ IsInjective(seen.slots)
          /\ seen.next \in Id /\ seen.owners \in SUBSET Player
      BY <1>4, HeldParts
    <3>2. \A i \in ToSet(seen.slots) \cup DOMAIN cache : i < seen.next
      BY <1>4, <2>3, HeldParts
    <3>3. QED BY <2>2, <2>3, <3>1, <3>2, MakeHeld
  <2>5. << [do |-> "update order", id |-> id, order |-> New(left).cache[id]] >>
          \o UpdateOrderQueue(New(left)) \in Seq(GoodStatement)
    BY <1>5, <2>1, <2>4, OrderStatementGood, ThenUpdateGood
  <2>6. {} \in SUBSET (1 .. MaxOrders)
    OBVIOUS
  <2>7. QED BY <1>1, <1>6, <1>8, <2>4, <2>5, <2>6, ChangeKeeps
<1>9. QED BY <1>7, <1>8 DEF DoFirstOrder, oq, id, seen

LEMMA RemoveAllOrdersKeeps ==
  ASSUME IInv, NEW q \in Queue, RemoveAllOrders(q)
  PROVE  IInv'
<1> DEFINE oq == Got(q)
           New(lost) == [oq EXCEPT !.slots = <<>>, !.owners = @ \ lost]
           deletes == [i \in DOMAIN oq.slots |-> [do |-> "delete order", id |-> oq.slots[i]]]
<1>1. PICK lost \in SUBSET oq.owners :
        /\ Change(q, New(lost), deletes \o UpdateOrderQueue(New(lost)), Numbers(q))
        /\ UNCHANGED <<nextQueue, stored, given, gone, trouble>>
  BY DEF RemoveAllOrders
<1>2. GoodHeld(oq)
  BY GotGood
<1> HIDE DEF oq
<1>3. deletes \in Seq(GoodStatement)
  <2>1. \A i \in 1 .. Len(oq.slots) : oq.slots[i] \in Id
    BY <1>2, HeldParts
  <2>2. \A i \in 1 .. Len(oq.slots) :
          [do |-> "delete order", id |-> oq.slots[i]] \in GoodStatement
    BY <2>1 DEF GoodStatement, Statement
  <2>3. Len(oq.slots) \in Nat /\ DOMAIN oq.slots = 1 .. Len(oq.slots)
    BY <1>2, HeldParts
  <2>4. deletes \in [1 .. Len(oq.slots) -> GoodStatement]
    BY <2>2, <2>3
  <2> HIDE DEF deletes
  <2>5. QED BY <2>3, <2>4, SeqDef
<1>4. GoodHeld(New(lost))
  <2> DEFINE owners == oq.owners \ lost
  <2>1. New(lost) = [oq EXCEPT !.slots = <<>>, !.owners = owners]
    OBVIOUS
  <2>2. owners \in SUBSET Player /\ oq.next \in Id /\ IsTable(oq.cache)
    BY <1>2, HeldParts
  <2>3. \A id \in ToSet(<<>>) \cup DOMAIN oq.cache : id < oq.next
    BY <1>2, HeldParts, EmptyList
  <2> HIDE DEF owners, New
  <2>4. New(lost) = [slots |-> <<>>, cache |-> oq.cache, next |-> oq.next, owners |-> owners]
    BY <1>2, <2>1, ChangedTwo
  <2>5. QED BY <2>2, <2>3, <2>4, EmptyList, MakeHeld
<1> HIDE DEF New, deletes
<1>5. deletes \o UpdateOrderQueue(New(lost)) \in Seq(GoodStatement)
  BY <1>3, <1>4, UpdateGood, ConcatProperties
<1>6. nextQueue' \in 1 .. MaxQueue + 1 /\ given' \in 0 .. MaxOrders
  BY <1>1 DEF IInv
<1>7. Numbers(q) \in SUBSET (1 .. MaxOrders)
  BY NumbersType
<1>8. QED BY <1>1, <1>4, <1>5, <1>6, <1>7, ChangeKeeps

LEMMA ColoniseKeeps ==
  ASSUME IInv, NEW q \in Queue, NEW p \in Player, Colonise(q, p)
  PROVE  IInv'
<1> DEFINE oq == Got(q)
           owners == {p}
           new == [oq EXCEPT !.owners = owners]
<1>1. Change(q, new, <<>>, {}) /\ UNCHANGED <<nextQueue, stored, given, gone, trouble>>
  BY DEF Colonise
<1>2. GoodHeld(oq) /\ owners \in SUBSET Player
  BY GotGood
<1> HIDE DEF oq, owners
<1>3. new = [slots |-> oq.slots, cache |-> oq.cache, next |-> oq.next, owners |-> owners]
  BY <1>2, ChangedField
<1>4. GoodHeld(new)
  BY <1>2, <1>3, HeldParts, MakeHeld
<1> HIDE DEF new
<1>5. <<>> \in Seq(GoodStatement) /\ {} \in SUBSET (1 .. MaxOrders)
  OBVIOUS
<1>6. nextQueue' \in 1 .. MaxQueue + 1 /\ given' \in 0 .. MaxOrders
  BY <1>1 DEF IInv
<1>7. QED BY <1>1, <1>4, <1>5, <1>6, ChangeKeeps

LEMMA ExecuteKeeps ==
  ASSUME IInv, Execute
  PROVE  IInv'
<1> DEFINE s == Head(work.steps)
<1>1. /\ work \in [queue : Nat, steps : Seq(GoodStatement), ends : SUBSET (1 .. MaxOrders)]
      /\ work.steps # <<>>
  BY DEF IInv, Execute, Idle
<1>2. s \in GoodStatement /\ Tail(work.steps) \in Seq(GoodStatement)
  BY <1>1
<1>3. work' \in [queue : Nat, steps : Seq(GoodStatement), ends : SUBSET (1 .. MaxOrders)]
  BY <1>1, <1>2 DEF Execute
<1>4. gone' \in SUBSET (1 .. MaxOrders)
  BY <1>1 DEF Execute, Ended, IInv
<1> HIDE DEF s
<1>5. DOMAIN stored' = Queue /\ \A q \in Queue : GoodStored(stored'[q])
  <2>1. stored' = [stored EXCEPT ![work.queue] = Effect(stored[work.queue], s)]
    BY DEF Execute, s
  <2>2. DOMAIN stored = Queue /\ \A q \in Queue : GoodStored(stored[q])
    BY DEF IInv
  <2>3. \A q \in Queue : GoodStored(Effect(stored[q], s))
    BY <1>2, <2>2, EffectGood
  <2>4. QED BY <2>1, <2>2, <2>3
<1>6. UNCHANGED <<held, nextQueue, given, trouble>>
  BY DEF Execute
<1>7. QED BY <1>3, <1>4, <1>5, <1>6 DEF IInv, GoodHeld, IsHeld

LEMMA ErrorKeeps ==
  ASSUME IInv, Error
  PROVE  IInv'
<1> DEFINE left == IF OfOrder(Head(work.steps)) THEN Tail(work.steps) ELSE <<>>
<1>1. /\ work \in [queue : Nat, steps : Seq(GoodStatement), ends : SUBSET (1 .. MaxOrders)]
      /\ work.steps # <<>>
  BY DEF IInv, Error, Idle
<1>2. left \in Seq(GoodStatement)
  BY <1>1
<1>3. /\ work' = [work EXCEPT !.steps = left]
      /\ gone' = gone \cup Ended(left) /\ trouble' = "error"
      /\ UNCHANGED <<held, nextQueue, stored, given>>
  BY DEF Error
<1> HIDE DEF left
<1>4. work' \in [queue : Nat, steps : Seq(GoodStatement), ends : SUBSET (1 .. MaxOrders)]
  BY <1>1, <1>2, <1>3
<1>5. gone' \in SUBSET (1 .. MaxOrders) /\ trouble' \in {"none", "error", "crash"}
  BY <1>1, <1>3 DEF Ended, IInv
<1>6. QED BY <1>3, <1>4, <1>5 DEF IInv, GoodHeld, GoodStored, IsHeld, IsStored

LEMMA RestartKeeps ==
  ASSUME IInv, Restart
  PROVE  IInv'
<1> DEFINE S == {q \in Queue : stored[q].exists} \cup {0}
<1>1. held' = <<>> /\ nextQueue' = Max(S) + 1
      /\ work' = [work EXCEPT !.steps = <<>>, !.ends = {}]
      /\ UNCHANGED <<stored, given, gone>>
  BY DEF Restart
<1>2. S \subseteq Nat /\ S # {} /\ MaxQueue \in Nat /\ \A x \in S : x <= MaxQueue
  BY ConstantsAssumption DEF Queue
<1> HIDE DEF S
<1>3. Max(S) \in S
  BY <1>2, MaxBounded
<1>4. nextQueue' \in 1 .. MaxQueue + 1
  <2>1. PICK m \in Nat : m = Max(S) /\ m <= MaxQueue
    BY <1>2, <1>3
  <2>2. QED BY <1>1, <1>2, <2>1
<1>5. work' \in [queue : Nat, steps : Seq(GoodStatement), ends : SUBSET (1 .. MaxOrders)]
  <2>1. work \in [queue : Nat, steps : Seq(GoodStatement), ends : SUBSET (1 .. MaxOrders)]
    BY DEF IInv
  <2> DEFINE none == [work EXCEPT !.steps = <<>>]
  <2>2. none \in [queue : Nat, steps : Seq(GoodStatement), ends : SUBSET (1 .. MaxOrders)]
    BY <2>1, EmptySeq
  <2>3. work' = [none EXCEPT !.ends = {}]
    BY <1>1
  <2> HIDE DEF none
  <2>4. QED BY <2>2, <2>3
<1>6. trouble' \in {"none", "error", "crash"}
  BY DEF Restart, IInv
<1>7. DOMAIN held' = {}
  BY <1>1
<1>8. QED BY <1>1, <1>4, <1>5, <1>6, <1>7 DEF IInv, GoodStored, IsStored

-----------------------------------------------------------------------------
(* The types, and the ids *)

\* The invariant implies the types, and that ids are unique.
LEMMA Consequences == IInv => TypeOK /\ IdsUnique
<1> SUFFICES ASSUME IInv PROVE TypeOK /\ IdsUnique
  OBVIOUS
<1>1. \A q \in DOMAIN held : IsHeld(held[q])
  BY DEF IInv, GoodHeld
<1>2. \A q \in Queue : IsStored(stored[q])
  BY DEF IInv, GoodStored
<1>3. Seq(GoodStatement) \subseteq Seq(Statement)
  <2>1. GoodStatement \subseteq Statement
    BY DEF GoodStatement
  <2>2. QED BY <2>1, SeqMonotonic
<1>4. TypeOK
  <2>1. /\ work \in [queue : Nat, steps : Seq(GoodStatement), ends : SUBSET (1 .. MaxOrders)]
        /\ DOMAIN held \subseteq Queue /\ DOMAIN stored = Queue
        /\ nextQueue \in 1 .. MaxQueue + 1 /\ given \in 0 .. MaxOrders
        /\ gone \in SUBSET (1 .. MaxOrders) /\ trouble \in {"none", "error", "crash"}
    BY DEF IInv
  <2>2. work \in [queue : Nat, steps : Seq(Statement), ends : SUBSET (1 .. MaxOrders)]
    BY <2>1, <1>3
  <2>3. QED BY <1>1, <1>2, <2>1, <2>2 DEF TypeOK
<1>5. IdsUnique
  BY GotGood DEF IdsUnique, GoodHeld, GoodStored
<1>6. QED BY <1>4, <1>5

LEMMA NextKeeps == IInv /\ [Next]_vars => IInv'
<1> SUFFICES ASSUME IInv, [Next]_vars PROVE IInv'
  OBVIOUS
<1>1. ASSUME NEW p \in Player, AddOrderQueue(p) PROVE IInv'
  BY <1>1, AddOrderQueueKeeps
<1>2. ASSUME NEW q \in Queue, DoFirstOrder(q) PROVE IInv'
  BY <1>2, DoFirstOrderKeeps
<1>3. ASSUME NEW q \in Queue, RemoveAllOrders(q) PROVE IInv'
  BY <1>3, RemoveAllOrdersKeeps
<1>4. ASSUME NEW q \in Queue, NEW p \in Player, AddOrder(q, p) PROVE IInv'
  BY <1>4, AddOrderKeeps
<1>5. ASSUME NEW q \in Queue, NEW p \in Player, RemoveOrder(q, p) PROVE IInv'
  BY <1>5, RemoveOrderKeeps
<1>6. ASSUME NEW q \in Queue, NEW p \in Player, GetOrder(q, p) PROVE IInv'
  BY <1>6, GetOrderKeeps
<1>7. ASSUME NEW q \in Queue, NEW p \in Player, Colonise(q, p) PROVE IInv'
  BY <1>7, ColoniseKeeps
<1>8. CASE Execute
  BY <1>8, ExecuteKeeps
<1>9. CASE Error
  BY <1>9, ErrorKeeps
<1>10. CASE Restart
  BY <1>10, RestartKeeps
<1>11. CASE UNCHANGED vars
  BY <1>11 DEF vars, IInv, GoodHeld, GoodStored, IsHeld, IsStored
<1>12. QED
  BY <1>1, <1>2, <1>3, <1>4, <1>5, <1>6, <1>7, <1>8, <1>9, <1>10, <1>11 DEF Next

-----------------------------------------------------------------------------
(* What is gone stays gone, and what is stored is what is held *)

Listed(q) == ToSet(Got(q).slots)

Cache(q) == Got(q).cache

Rows(q) == stored[q].orders

\* An order of queue q is number n, in memory or in the tables.
Shows(q, id, n) ==
  \/ id \in DOMAIN Cache(q) /\ Cache(q)[id].order = n
  \/ id \in DOMAIN Rows(q) /\ Rows(q)[id].order = n

\* An order has one queue and one id in it for ever; an id may have been that of
\* several orders, after a crash.
OneHome ==
  \A n \in 1 .. MaxOrders, q, r \in Queue, i, j \in Id :
    Shows(q, i, n) /\ Shows(r, j, n) => q = r /\ i = j

WereGiven ==
  /\ \A q \in Queue, i \in Id, n \in 1 .. MaxOrders : Shows(q, i, n) => n <= given
  /\ \A n \in gone \cup work.ends : n <= given

Puts(s) == s.do \in {"insert order", "update order"}

ForSlots(s) == s.do \in {"delete slots", "insert slots"}

\* An operation in progress has its queue in memory.
InMemory == ~Idle => work.queue \in DOMAIN held

\* What is still to be written is as it is held.
PutsHeld ==
  \A k \in DOMAIN work.steps :
    LET s == work.steps[k]
    IN  Puts(s) => /\ s.id \in Listed(work.queue)
                   /\ s.id \in DOMAIN Cache(work.queue)
                   /\ Cache(work.queue)[s.id] = s.order

\* Copies of the order are left in caches only, for ids that are not listed.
Unseen(n) ==
  \A q \in Queue : \A i \in DOMAIN Cache(q) : Cache(q)[i].order = n => i \notin Listed(q)

GoneOver ==
  \A n \in gone : Unseen(n) /\ \A q \in Queue : \A i \in DOMAIN Rows(q) : Rows(q)[i].order # n

\* An order that is being removed has its row until that is deleted.
EndsOver ==
  \A n \in work.ends :
    /\ Unseen(n)
    /\ \A q \in Queue : \A i \in DOMAIN Rows(q) :
         Rows(q)[i].order = n =>
           /\ q = work.queue
           /\ \E k \in DOMAIN work.steps :
                work.steps[k].do = "delete order" /\ work.steps[k].id = i

GoneInv == OneHome /\ WereGiven /\ PutsHeld /\ GoneOver /\ EndsOver

Steps(q) == IF q = work.queue THEN work.steps ELSE <<>>

\* The list of the tables is that of the queue once the statements are done.
SlotsSettled(q) ==
  \/ /\ \A k \in DOMAIN Steps(q) : ~ForSlots(Steps(q)[k])
     /\ stored[q].slots = Got(q).slots
  \/ \E k \in DOMAIN Steps(q) :
       /\ Steps(q)[k].do = "insert slots" /\ Steps(q)[k].slots = Got(q).slots
       /\ \A j \in DOMAIN Steps(q) : j > k => ~ForSlots(Steps(q)[j])

\* Statements about orders: one for an order, and it can be executed.
OnePerOrder(w) ==
  \A j, k \in DOMAIN w : OfOrder(w[j]) /\ OfOrder(w[k]) /\ w[j].id = w[k].id => j = k

CanExecute(q, w) ==
  \A k \in DOMAIN w :
    /\ w[k].do = "insert order" => w[k].id \notin DOMAIN Rows(q)
    /\ w[k].do = "update order" => w[k].id \in DOMAIN Rows(q)
    /\ w[k].do = "delete order" => w[k].id \notin Listed(q)

Pending(w, id) == \E k \in DOMAIN w : OfOrder(w[k]) /\ w[k].id = id

RowSettled(q, id) ==
  /\ id \in DOMAIN Rows(q) <=> id \in Listed(q)
  /\ id \in DOMAIN Rows(q) /\ id \in DOMAIN Cache(q) => Cache(q)[id] = Rows(q)[id]

RowsSettled(q) == \A id \in Id : Pending(Steps(q), id) \/ RowSettled(q, id)

ToBeBorn(q) == \E k \in DOMAIN Steps(q) : Steps(q)[k].do = "insert queue"

Born(q) == stored[q].exists \/ ToBeBorn(q)

Unborn(q) == q \notin DOMAIN held /\ stored[q].slots = <<>> /\ DOMAIN Rows(q) = {}

Settled(q) ==
  /\ SlotsSettled(q)
  /\ OnePerOrder(Steps(q)) /\ CanExecute(q, Steps(q)) /\ RowsSettled(q)
  /\ ~Born(q) => Unborn(q)
  /\ q >= nextQueue => ~Born(q)

StoreInv == \A q \in Queue : Settled(q)

Inv ==
  /\ IInv
  /\ InMemory
  /\ trouble # "error" => GoneInv
  /\ trouble = "none" => StoreInv

-----------------------------------------------------------------------------
(* Operations *)

LEMMA GotParts ==
  ASSUME IInv, NEW q \in Queue
  PROVE  /\ Got(q).slots \in Seq(Id) /\ Listed(q) \subseteq Id /\ IsTable(Cache(q)) /\ IsTable(Rows(q))
         /\ DOMAIN Cache(q) \subseteq Id /\ DOMAIN Rows(q) \subseteq Id
         /\ \A i \in DOMAIN Cache(q) : Cache(q)[i] \in Order /\ Cache(q)[i].order \in 1 .. MaxOrders
         /\ \A i \in DOMAIN Rows(q) : Rows(q)[i] \in Order /\ Rows(q)[i].order \in 1 .. MaxOrders
<1>1. GoodHeld(Got(q)) /\ GoodStored(stored[q])
  BY GotGood
<1>2. IsTable(Cache(q)) /\ IsTable(Rows(q))
  BY <1>1 DEF GoodHeld, IsHeld, GoodStored, IsStored, Cache, Rows
<1>3. \A f : IsTable(f) => DOMAIN f \subseteq Id /\ \A i \in DOMAIN f : f[i] \in Order /\ f[i].order \in 1 .. MaxOrders
  BY DEF IsTable, Order
<1>4. Got(q).slots \in Seq(Id) /\ Listed(q) \subseteq Id
  BY <1>1, HeldParts DEF Listed
<1>5. QED BY <1>2, <1>3, <1>4

\* What an operation makes of what is held and still to be written
Makes(q, oq, steps, ends) ==
  /\ Got(q)' = oq /\ Listed(q)' = ToSet(oq.slots) /\ Cache(q)' = oq.cache
  /\ \A r \in Queue : r # q => Got(r)' = Got(r) /\ Listed(r)' = Listed(r) /\ Cache(r)' = Cache(r)
  /\ \A r \in Queue : Rows(r)' = Rows(r) /\ Steps(r) = <<>>
  /\ Steps(q)' = steps /\ \A r \in Queue : r # q => Steps(r)' = <<>>
  /\ work'.queue = q /\ work'.steps = steps /\ work'.ends = ends
  /\ work.steps = <<>> /\ DOMAIN held' = DOMAIN held \cup {q}

LEMMA ChangeMakes ==
  ASSUME NEW q \in Queue, NEW oq, NEW steps, NEW ends, Change(q, oq, steps, ends), stored' = stored
  PROVE  Makes(q, oq, steps, ends)
<1>1. /\ held' = Put(held, q, oq) /\ work' = [queue |-> q, steps |-> steps, ends |-> ends]
      /\ work.steps = <<>> /\ stored' = stored
  BY DEF Change, Idle
<1>2. /\ DOMAIN held' = DOMAIN held \cup {q} /\ held'[q] = oq
      /\ \A r \in DOMAIN held : r # q => held'[r] = held[r]
  BY <1>1 DEF Put
<1>3. work'.queue = q /\ work'.steps = steps /\ work'.ends = ends
  BY <1>1
<1>4. Got(q)' = oq /\ \A r \in Queue : r # q => Got(r)' = Got(r)
  BY <1>1, <1>2 DEF Got
<1>5. /\ Listed(q)' = ToSet(oq.slots) /\ Cache(q)' = oq.cache
      /\ \A r \in Queue : r # q => Listed(r)' = Listed(r) /\ Cache(r)' = Cache(r)
  BY <1>4 DEF Listed, Cache
<1>6. \A r \in Queue : Rows(r)' = Rows(r) /\ Steps(r) = <<>>
  BY <1>1 DEF Rows, Steps
<1>7. Steps(q)' = steps /\ \A r \in Queue : r # q => Steps(r)' = <<>>
  BY <1>3 DEF Steps
<1>8. QED BY <1>1, <1>2, <1>3, <1>4, <1>5, <1>6, <1>7 DEF Makes

\* The order with an id that is listed has not been removed.
LEMMA ListedNotGone ==
  ASSUME IInv, GoneInv, NEW q \in Queue, NEW id \in Listed(q), HasOrder(q, id)
  PROVE  OrderOf(q, id).order \notin gone
<1>1. CASE id \in DOMAIN Cache(q)
  <2>1. OrderOf(q, id) = Cache(q)[id]
    BY <1>1 DEF OrderOf, Cache
  <2>2. QED BY <1>1, <2>1 DEF GoneInv, GoneOver, Unseen
<1>2. CASE id \notin DOMAIN Cache(q)
  <2>1. OrderOf(q, id) = Rows(q)[id] /\ id \in DOMAIN Rows(q)
    BY <1>2 DEF OrderOf, Cache, Rows, HasOrder
  <2>2. QED BY <2>1 DEF GoneInv, GoneOver
<1>3. QED BY <1>1, <1>2

LEMMA ShowsOrder ==
  ASSUME NEW q \in Queue, NEW id, HasOrder(q, id)
  PROVE  Shows(q, id, OrderOf(q, id).order)
  BY DEF Shows, OrderOf, HasOrder, Cache, Rows

\* An operation caches orders of the queue and perhaps a new one,
CachesKnown(q, oq) ==
  /\ \A i \in DOMAIN oq.cache :
       \/ Shows(q, i, oq.cache[i].order)
       \/ oq.cache[i].order = given + 1 /\ given' = given + 1
  /\ \A i, j \in DOMAIN oq.cache :
       oq.cache[i].order = given + 1 /\ oq.cache[j].order = given + 1 => i = j
  /\ \A i \in DOMAIN oq.cache : i \in ToSet(oq.slots) => oq.cache[i].order \notin gone

\* writes what it caches,
WritesHeld(oq, steps) ==
  \A k \in DOMAIN steps : Puts(steps[k]) =>
    /\ steps[k].id \in ToSet(oq.slots) /\ steps[k].id \in DOMAIN oq.cache
    /\ oq.cache[steps[k].id] = steps[k].order

\* and deletes the rows of what it removes.
RemovesKnown(q, oq, steps, ends) ==
  \A n \in ends : \E id \in Id :
    /\ Shows(q, id, n) /\ id \notin ToSet(oq.slots)
    /\ \E k \in DOMAIN steps : steps[k].do = "delete order" /\ steps[k].id = id

LEMMA ChangeGone ==
  ASSUME IInv, GoneInv, NEW q \in Queue, NEW oq, NEW steps, NEW ends,
         GoodHeld(oq), ends \in SUBSET (1 .. MaxOrders), given \in Nat,
         Change(q, oq, steps, ends), stored' = stored, gone' = gone, given' \in {given, given + 1},
         CachesKnown(q, oq), WritesHeld(oq, steps), RemovesKnown(q, oq, steps, ends)
  PROVE  GoneInv'
<1>1. /\ Listed(q)' = ToSet(oq.slots) /\ Cache(q)' = oq.cache
      /\ \A r \in Queue : r # q => Listed(r)' = Listed(r) /\ Cache(r)' = Cache(r)
      /\ \A r \in Queue : Rows(r)' = Rows(r)
      /\ work'.queue = q /\ work'.steps = steps /\ work'.ends = ends
  <2>1. Makes(q, oq, steps, ends)
    BY ChangeMakes, Zenon
  <2>2. QED BY <2>1, Zenon DEF Makes
<1>2. ASSUME NEW r \in Queue, NEW i \in Id, NEW n \in 1 .. MaxOrders, Shows(r, i, n)'
      PROVE  \/ Shows(r, i, n) /\ n <= given
             \/ r = q /\ n = given + 1 /\ given' = given + 1 /\ i \in DOMAIN oq.cache /\ oq.cache[i].order = n
  <2>1. Shows(r, i, n) => n <= given
    BY DEF GoneInv, WereGiven
  <2>2. CASE i \in DOMAIN Cache(r)' /\ Cache(r)'[i].order = n
    <3>1. CASE r = q
      BY <1>1, <2>1, <2>2, <3>1 DEF CachesKnown
    <3>2. CASE r # q
      BY <1>1, <2>1, <2>2, <3>2 DEF Shows
    <3>3. QED BY <3>1, <3>2
  <2>3. CASE i \in DOMAIN Rows(r)' /\ Rows(r)'[i].order = n
    BY <1>1, <2>1, <2>3 DEF Shows
  <2>4. QED BY <1>2, <2>2, <2>3 DEF Shows
<1>3. OneHome'
  <2>1. SUFFICES ASSUME NEW n \in 1 .. MaxOrders, NEW r \in Queue, NEW t \in Queue, NEW i \in Id, NEW j \in Id,
                        Shows(r, i, n)', Shows(t, j, n)'
                 PROVE  r = t /\ i = j
    BY DEF OneHome
  <2>2. CASE n <= given
    <3>1. Shows(r, i, n) /\ Shows(t, j, n)
      BY <1>2, <2>1, <2>2
    <3>2. QED BY <3>1 DEF GoneInv, OneHome
  <2>3. CASE ~(n <= given)
    BY <1>2, <2>1, <2>3 DEF CachesKnown
  <2>4. QED BY <2>2, <2>3
<1>4. \A n \in ends : n <= given /\ n \in Nat
  <2>1. TAKE n \in ends
  <2>2. n \in 1 .. MaxOrders
    OBVIOUS
  <2>3. PICK id \in Id : Shows(q, id, n)
    BY DEF RemovesKnown
  <2>4. n <= given
    BY <2>2, <2>3 DEF GoneInv, WereGiven
  <2>5. QED BY <2>2, <2>4
<1>5. WereGiven'
  <2>1. \A r \in Queue, i \in Id, n \in 1 .. MaxOrders : Shows(r, i, n)' => n <= given'
    BY <1>2
  <2>2. \A n \in gone : n <= given /\ n \in Nat
    BY DEF GoneInv, WereGiven, IInv
  <2>3. ASSUME NEW n \in gone \cup ends PROVE n <= given'
    <3>1. n <= given /\ n \in Nat
      BY <1>4, <2>2
    <3>2. QED BY <3>1
  <2>4. QED BY <1>1, <2>1, <2>3 DEF WereGiven
<1>6. PutsHeld'
  BY <1>1 DEF PutsHeld, WritesHeld
<1>7. ASSUME NEW n \in gone PROVE Unseen(n)'
  BY <1>1 DEF Unseen, GoneInv, GoneOver, CachesKnown
<1>8. GoneOver'
  BY <1>1, <1>7 DEF GoneInv, GoneOver
<1>9. ASSUME NEW n \in ends
      PROVE  /\ Unseen(n)'
             /\ \A r \in Queue : \A i \in DOMAIN Rows(r) :
                  Rows(r)[i].order = n =>
                    r = q /\ \E k \in DOMAIN steps : steps[k].do = "delete order" /\ steps[k].id = i
  <2>1. PICK id \in Id :
          /\ Shows(q, id, n) /\ id \notin ToSet(oq.slots)
          /\ \E k \in DOMAIN steps : steps[k].do = "delete order" /\ steps[k].id = id
    BY DEF RemovesKnown
  <2>2. n \in 1 .. MaxOrders /\ n <= given
    BY <1>4
  <2>3. ASSUME NEW r \in Queue, NEW i \in Id, Shows(r, i, n) PROVE r = q /\ i = id
    BY <2>1, <2>2, <2>3 DEF GoneInv, OneHome
  <2>4. ASSUME NEW r \in Queue, NEW i \in DOMAIN Cache(r)', Cache(r)'[i].order = n
        PROVE  i \notin Listed(r)'
    <3>1. CASE r = q
      <4>1. i \in Id
        BY <1>1, <3>1, <2>4, HeldParts
      <4>2. Shows(q, i, n)
        BY <1>1, <2>2, <2>4, <3>1 DEF CachesKnown
      <4>3. QED BY <1>1, <2>1, <2>3, <3>1, <4>1, <4>2
    <3>2. CASE r # q
      <4>1. i \in Id /\ Shows(r, i, n)
        BY <1>1, <2>4, <3>2, GotParts DEF Shows
      <4>2. QED BY <2>3, <3>2, <4>1
    <3>3. QED BY <3>1, <3>2
  <2>5. ASSUME NEW r \in Queue, NEW i \in DOMAIN Rows(r), Rows(r)[i].order = n
        PROVE  r = q /\ i = id
    <3>1. i \in Id /\ Shows(r, i, n)
      BY <2>5, GotParts DEF Shows
    <3>2. QED BY <2>3, <3>1
  <2>6. QED BY <2>1, <2>4, <2>5 DEF Unseen
<1>10. EndsOver'
  <2>1. SUFFICES ASSUME NEW n \in ends
                 PROVE  /\ Unseen(n)'
                        /\ \A r \in Queue : \A i \in DOMAIN Rows(r)' :
                             Rows(r)'[i].order = n =>
                               /\ r = work'.queue
                               /\ \E k \in DOMAIN work'.steps :
                                    work'.steps[k].do = "delete order" /\ work'.steps[k].id = i
    <3>1. work'.ends = ends
      BY <1>1
    <3>2. QED BY <3>1, Zenon DEF EndsOver
  <2>2. Unseen(n)'
    BY <1>9
  <2>3. ASSUME NEW r \in Queue, NEW i \in DOMAIN Rows(r)', Rows(r)'[i].order = n
        PROVE  r = q /\ \E k \in DOMAIN steps : steps[k].do = "delete order" /\ steps[k].id = i
    <3>1. Rows(r)' = Rows(r)
      BY <1>1
    <3>2. QED BY <1>9, <2>3, <3>1
  <2>4. QED BY <1>1, <2>2, <2>3
<1>11. QED BY <1>3, <1>5, <1>6, <1>8, <1>10 DEF GoneInv

\* An operation that gives no order leaves those it caches as they are known,
OrderKept(q, oq, i) ==
  /\ i \in DOMAIN Cache(q) \/ (i \in Listed(q) /\ HasOrder(q, i))
  /\ oq.cache[i].order = OrderOf(q, i).order

\* and lists no other.
LEMMA KeptKnown ==
  ASSUME IInv, GoneInv, NEW q \in Queue, NEW oq,
         \A i \in DOMAIN oq.cache : OrderKept(q, oq, i), ToSet(oq.slots) \subseteq Listed(q)
  PROVE  CachesKnown(q, oq)
<1>1. ASSUME NEW i \in DOMAIN oq.cache
      PROVE  /\ Shows(q, i, oq.cache[i].order) /\ HasOrder(q, i) /\ i \in Id
             /\ oq.cache[i].order = OrderOf(q, i).order /\ oq.cache[i].order \in 1 .. MaxOrders
  <2>1. OrderKept(q, oq, i)
    OBVIOUS
  <2>2. HasOrder(q, i) /\ i \in Id
    BY <2>1, OrderOfType DEF OrderKept, HasOrder, Cache
  <2>3. OrderOf(q, i).order \in 1 .. MaxOrders
    BY <2>2, OrderOfType DEF Order
  <2>4. QED BY <2>1, <2>2, <2>3, ShowsOrder DEF OrderKept
<1>2. \A i \in DOMAIN oq.cache : oq.cache[i].order <= given
  BY <1>1 DEF GoneInv, WereGiven
<1>3. given \in Nat
  BY ConstantsAssumption DEF IInv
<1>4. \A i \in DOMAIN oq.cache : oq.cache[i].order # given + 1
  <2>1. ASSUME NEW i \in DOMAIN oq.cache PROVE oq.cache[i].order # given + 1
    <3>1. oq.cache[i].order <= given /\ oq.cache[i].order \in Nat
      BY <1>1, <1>2
    <3>2. QED BY <1>3, <3>1
  <2>2. QED BY <2>1
<1>5. ASSUME NEW i \in DOMAIN oq.cache, i \in ToSet(oq.slots) PROVE oq.cache[i].order \notin gone
  <2>1. i \in Listed(q)
    BY <1>5
  <2>2. QED BY <1>1, <2>1, ListedNotGone
<1>6. QED BY <1>1, <1>4, <1>5 DEF CachesKnown

\* The statements w are those of pre, about orders, and then those that replace
\* the list by that of oq.
Writes(w, pre, oq) ==
  /\ \A k \in DOMAIN w : OfOrder(w[k]) => k \in DOMAIN pre /\ w[k] = pre[k]
  /\ \A k \in DOMAIN pre : k \in DOMAIN w /\ w[k] = pre[k]
  /\ \E k \in DOMAIN w :
       /\ w[k].do = "insert slots" /\ w[k].slots = oq.slots
       /\ \A j \in DOMAIN w : j > k => ~ForSlots(w[j])

LEMMA UpdateWrites ==
  ASSUME NEW oq, NEW S, NEW pre \in Seq(S), \A k \in DOMAIN pre : OfOrder(pre[k])
  PROVE  Writes(pre \o UpdateOrderQueue(oq), pre, oq)
<1> DEFINE u == UpdateOrderQueue(oq)
           l == Len(pre)
           w == pre \o u
<1>1. /\ Len(u) = 4 /\ u[1].do = "delete slots" /\ u[2].do = "delete owners"
      /\ u[3].do = "insert slots" /\ u[3].slots = oq.slots /\ u[4].do = "insert owners"
  BY DEF UpdateOrderQueue
<1>2. PICK T : u \in Seq(T) /\ pre \in Seq(T)
  <2> DEFINE T == S \cup {u[1], u[2], u[3], u[4]}
  <2>1. u \in Seq(T)
    BY DEF UpdateOrderQueue
  <2>2. pre \in Seq(T)
    OBVIOUS
  <2>3. QED BY <2>1, <2>2
<1> HIDE DEF u
<1>3. l \in Nat /\ DOMAIN pre = 1 .. l
  OBVIOUS
<1>4. /\ w \in Seq(T) /\ Len(w) = l + 4
      /\ \A k \in 1 .. l + 4 : w[k] = IF k <= l THEN pre[k] ELSE u[k - l]
  <2>1. /\ w \in Seq(T) /\ Len(w) = l + Len(u)
        /\ \A k \in 1 .. l + Len(u) : w[k] = IF k <= l THEN pre[k] ELSE u[k - l]
    BY <1>2, ConcatProperties
  <2>2. Len(u) = 4
    BY <1>1
  <2> HIDE DEF w, l
  <2>3. QED BY <2>1, <2>2
<1> HIDE DEF w
<1>5. DOMAIN w = 1 .. l + 4
  BY <1>4
<1> HIDE DEF l
<1>6. /\ \A k \in 1 .. l : w[k] = pre[k]
      /\ w[l + 1] = u[1] /\ w[l + 2] = u[2] /\ w[l + 3] = u[3] /\ w[l + 4] = u[4]
  <2>1. \A k \in 1 .. l : w[k] = pre[k]
    BY <1>3, <1>4
  <2>2. ASSUME NEW k \in 1 .. 4 PROVE w[l + k] = u[k]
    <3>1. l + k \in 1 .. l + 4 /\ ~(l + k <= l) /\ (l + k) - l = k
      BY <1>3
    <3>2. QED BY <1>4, <3>1
  <2>3. QED BY <2>1, <2>2
<1>7. ASSUME NEW k \in 1 .. l + 4
      PROVE  k \in 1 .. l \/ k = l + 1 \/ k = l + 2 \/ k = l + 3 \/ k = l + 4
  BY <1>3
<1>8. \A k \in DOMAIN w : OfOrder(w[k]) => k \in DOMAIN pre /\ w[k] = pre[k]
  <2>1. SUFFICES ASSUME NEW k \in 1 .. l + 4, OfOrder(w[k]) PROVE k \in 1 .. l
    BY <1>3, <1>5, <1>6
  <2>2. ~OfOrder(u[1]) /\ ~OfOrder(u[2]) /\ ~OfOrder(u[3]) /\ ~OfOrder(u[4])
    BY <1>1 DEF OfOrder
  <2>3. QED BY <1>6, <1>7, <2>1, <2>2
<1>9. \A k \in DOMAIN pre : k \in DOMAIN w /\ w[k] = pre[k]
  BY <1>3, <1>5, <1>6
<1>10. /\ l + 3 \in DOMAIN w /\ w[l + 3].do = "insert slots" /\ w[l + 3].slots = oq.slots
       /\ \A j \in DOMAIN w : j > l + 3 => ~ForSlots(w[j])
  <2>1. l + 3 \in DOMAIN w
    BY <1>3, <1>5
  <2>2. ASSUME NEW j \in DOMAIN w, j > l + 3 PROVE ~ForSlots(w[j])
    <3>1. j = l + 4
      BY <1>3, <1>5, <2>2
    <3>2. QED BY <1>1, <1>6, <3>1 DEF ForSlots
  <2>3. QED BY <1>1, <1>6, <2>1, <2>2
<1>11. QED BY <1>8, <1>9, <1>10 DEF Writes, w, u

LEMMA OneWrites ==
  ASSUME NEW oq, NEW s, OfOrder(s)
  PROVE  LET w == <<s>> \o UpdateOrderQueue(oq)
         IN  /\ Writes(w, <<s>>, oq)
             /\ \A k \in DOMAIN w : OfOrder(w[k]) => w[k] = s
             /\ \E k \in DOMAIN w : w[k] = s
             /\ OnePerOrder(w)
             /\ Pending(w, s.id)
<1> DEFINE w == <<s>> \o UpdateOrderQueue(oq)
<1>1. <<s>> \in Seq({s}) /\ DOMAIN <<s>> = {1} /\ <<s>>[1] = s
  OBVIOUS
<1>2. Writes(w, <<s>>, oq)
  <2>1. \A k \in DOMAIN <<s>> : OfOrder(<<s>>[k])
    BY <1>1
  <2>2. QED BY <1>1, <2>1, UpdateWrites
<1> HIDE DEF w
<1>3. \A k \in DOMAIN w : OfOrder(w[k]) => k = 1 /\ w[k] = s
  BY <1>1, <1>2 DEF Writes
<1>4. 1 \in DOMAIN w /\ w[1] = s
  BY <1>1, <1>2 DEF Writes
<1>5. OnePerOrder(w) /\ Pending(w, s.id)
  BY <1>3, <1>4 DEF OnePerOrder, Pending
<1>6. QED BY <1>2, <1>3, <1>4, <1>5 DEF w

-----------------------------------------------------------------------------
(* What is stored *)

\* Between two operations
Quiet(q) ==
  /\ stored[q].slots = Got(q).slots
  /\ \A id \in Id : RowSettled(q, id)
  /\ ~stored[q].exists => Unborn(q)
  /\ q >= nextQueue => ~stored[q].exists

LEMMA IdleQuiet ==
  ASSUME Idle, StoreInv
  PROVE  \A q \in Queue : Quiet(q)
<1>1. \A q \in Queue : Steps(q) = <<>>
  BY DEF Steps, Idle
<1>2. \A q \in Queue : Settled(q)
  BY DEF StoreInv
<1>3. DOMAIN <<>> = {}
  OBVIOUS
<1>4. QED BY <1>1, <1>2, <1>3 DEF Settled, Quiet, SlotsSettled, RowsSettled, Pending, Born, ToBeBorn

\* The statements of an operation make the tables what the queue is to be.
SlotsWritten(q, oq, steps) ==
  \/ (\A k \in DOMAIN steps : ~ForSlots(steps[k])) /\ oq.slots = stored[q].slots
  \/ \E k \in DOMAIN steps :
       /\ steps[k].do = "insert slots" /\ steps[k].slots = oq.slots
       /\ \A j \in DOMAIN steps : j > k => ~ForSlots(steps[j])

RowsWritten(q, oq, steps) ==
  /\ OnePerOrder(steps)
  /\ \A k \in DOMAIN steps :
       /\ steps[k].do = "insert order" => steps[k].id \notin DOMAIN Rows(q)
       /\ steps[k].do = "update order" => steps[k].id \in DOMAIN Rows(q)
       /\ steps[k].do = "delete order" => steps[k].id \notin ToSet(oq.slots)
  /\ \A id \in Id :
       \/ Pending(steps, id)
       \/ /\ id \in DOMAIN Rows(q) <=> id \in ToSet(oq.slots)
          /\ id \in DOMAIN Rows(q) /\ id \in DOMAIN oq.cache => oq.cache[id] = Rows(q)[id]

LEMMA ChangeStore ==
  ASSUME StoreInv, NEW q \in Queue, NEW oq, NEW steps, NEW ends,
         Change(q, oq, steps, ends), stored' = stored,
         SlotsWritten(q, oq, steps), RowsWritten(q, oq, steps),
         stored[q].exists \/ \E k \in DOMAIN steps : steps[k].do = "insert queue",
         ~(q >= nextQueue'), \A r \in Queue : r >= nextQueue' => r >= nextQueue
  PROVE  StoreInv'
<1>1. Makes(q, oq, steps, ends)
  BY ChangeMakes, Zenon
<1>2. \A r \in Queue : Quiet(r)
  <2>1. Idle
    BY DEF Change
  <2>2. QED BY <2>1, IdleQuiet
<1>3. ASSUME NEW r \in Queue, r # q PROVE Settled(r)'
  <2>1. /\ Got(r)' = Got(r) /\ Listed(r)' = Listed(r) /\ Cache(r)' = Cache(r) /\ Rows(r)' = Rows(r)
        /\ Steps(r)' = <<>> /\ (r \in DOMAIN held' <=> r \in DOMAIN held)
    BY <1>1, <1>3 DEF Makes
  <2>2. Quiet(r) /\ (r >= nextQueue' => r >= nextQueue)
    BY <1>2
  <2>3. Quiet(r)'
    BY <2>1, <2>2 DEF Quiet, RowSettled, Unborn
  <2>4. DOMAIN Steps(r)' = {}
    <3>1. DOMAIN <<>> = {}
      BY EmptyTable, Zenon
    <3>2. QED BY <2>1, <3>1, Zenon
  <2>5. SlotsSettled(r)' /\ RowsSettled(r)'
    BY <2>3, <2>4 DEF Quiet, SlotsSettled, RowsSettled
  <2>6. OnePerOrder(Steps(r)') /\ CanExecute(r, Steps(r))'
    BY <2>4 DEF OnePerOrder, CanExecute
  <2>7. Born(r)' <=> stored'[r].exists
    BY <2>4 DEF Born, ToBeBorn
  <2>8. QED BY <2>3, <2>5, <2>6, <2>7 DEF Quiet, Settled, OnePerOrder
<1>4. Settled(q)'
  <2>1. /\ Got(q)' = oq /\ Listed(q)' = ToSet(oq.slots) /\ Cache(q)' = oq.cache /\ Rows(q)' = Rows(q)
        /\ Steps(q)' = steps
    BY <1>1 DEF Makes
  <2>2. SlotsSettled(q)'
    BY <2>1 DEF SlotsWritten, SlotsSettled
  <2>3. OnePerOrder(Steps(q)') /\ CanExecute(q, Steps(q))'
    BY <2>1 DEF RowsWritten, CanExecute
  <2>4. RowsSettled(q)'
    BY <2>1 DEF RowsWritten, RowsSettled, RowSettled
  <2>5. Born(q)'
    BY <2>1 DEF Born, ToBeBorn
  <2>6. QED BY <2>2, <2>3, <2>4, <2>5 DEF Settled, OnePerOrder
<1>5. QED BY <1>3, <1>4 DEF StoreInv

\* What an operation asks of the queue, the statements and the ends it makes
Fits(q, oq, steps, ends) ==
  /\ WritesHeld(oq, steps)
  /\ trouble # "error" => CachesKnown(q, oq) /\ RemovesKnown(q, oq, steps, ends)
  /\ trouble = "none" =>
       /\ SlotsWritten(q, oq, steps) /\ RowsWritten(q, oq, steps)
       /\ stored[q].exists \/ \E k \in DOMAIN steps : steps[k].do = "insert queue"
       /\ ~(q >= nextQueue') /\ \A r \in Queue : r >= nextQueue' => r >= nextQueue

LEMMA ChangeKeepsInv ==
  ASSUME Inv, IInv', NEW q \in Queue, NEW oq, NEW steps, NEW ends,
         Change(q, oq, steps, ends), stored' = stored, gone' = gone, trouble' = trouble,
         given' \in {given, given + 1}, Fits(q, oq, steps, ends)
  PROVE  Inv'
<1>1. Makes(q, oq, steps, ends)
  BY ChangeMakes, Zenon
<1>2. IInv /\ given \in Nat
  BY ConstantsAssumption DEF Inv, IInv
<1>3. GoodHeld(oq)
  <2>1. q \in DOMAIN held' /\ held'[q] = oq
    BY DEF Change, Put
  <2>2. QED BY <2>1 DEF IInv
<1>4. ends \in SUBSET (1 .. MaxOrders)
  <2>1. work'.ends = ends
    BY <1>1 DEF Makes
  <2>2. QED BY <2>1 DEF IInv
<1>5. InMemory'
  BY <1>1 DEF Makes, InMemory
<1>6. ASSUME trouble # "error" PROVE GoneInv'
  <2>1. GoneInv
    BY <1>6 DEF Inv
  <2>2. WritesHeld(oq, steps) /\ CachesKnown(q, oq) /\ RemovesKnown(q, oq, steps, ends)
    BY <1>6 DEF Fits
  <2>3. QED BY <1>2, <1>3, <1>4, <2>1, <2>2, ChangeGone
<1>7. ASSUME trouble = "none" PROVE StoreInv'
  <2>1. StoreInv
    BY <1>7 DEF Inv
  <2>2. /\ SlotsWritten(q, oq, steps) /\ RowsWritten(q, oq, steps)
        /\ stored[q].exists \/ \E k \in DOMAIN steps : steps[k].do = "insert queue"
        /\ ~(q >= nextQueue') /\ \A r \in Queue : r >= nextQueue' => r >= nextQueue
    BY <1>7 DEF Fits
  <2>3. QED BY <2>1, <2>2, ChangeStore
<1>8. QED BY <1>5, <1>6, <1>7 DEF Inv

\* Between two operations a queue has the rows of what it lists, as it is held.
LEMMA QuietRows ==
  ASSUME Inv, Idle, trouble = "none", NEW q \in Queue
  PROVE  /\ DOMAIN Rows(q) = Listed(q) /\ stored[q].slots = Got(q).slots
         /\ \A i \in DOMAIN Rows(q) : OrderOf(q, i) = Rows(q)[i]
         /\ Exists(q) => stored[q].exists /\ ~(q >= nextQueue)
<1>1. Quiet(q)
  BY IdleQuiet DEF Inv
<1>2. DOMAIN Rows(q) \subseteq Id /\ Listed(q) \subseteq Id
  BY GotParts DEF Inv
<1>3. DOMAIN Rows(q) = Listed(q)
  BY <1>1, <1>2 DEF Quiet, RowSettled
<1>4. ASSUME NEW i \in DOMAIN Rows(q) PROVE OrderOf(q, i) = Rows(q)[i]
  <2>1. CASE i \in DOMAIN Cache(q)
    BY <1>1, <1>2, <2>1 DEF Quiet, RowSettled, OrderOf, Cache
  <2>2. CASE i \notin DOMAIN Cache(q)
    BY <2>2 DEF OrderOf, Cache, Rows
  <2>3. QED BY <2>1, <2>2
<1>5. Exists(q) => stored[q].exists /\ ~(q >= nextQueue)
  BY <1>1 DEF Exists, Quiet, Unborn
<1>6. QED BY <1>1, <1>3, <1>4, <1>5 DEF Quiet

\* A cache of an operation that gives no order
Keeps(q, oq) ==
  /\ ToSet(oq.slots) \subseteq Listed(q)
  /\ \A i \in DOMAIN oq.cache : OrderKept(q, oq, i)

\* Operations on a queue that exists
LEMMA ExistsFits ==
  ASSUME Inv, Idle, NEW q \in Queue, Exists(q), NEW oq, NEW steps, NEW ends,
         Keeps(q, oq), WritesHeld(oq, steps), nextQueue' = nextQueue,
         trouble # "error" => RemovesKnown(q, oq, steps, ends),
         trouble = "none" => SlotsWritten(q, oq, steps) /\ RowsWritten(q, oq, steps)
  PROVE  Fits(q, oq, steps, ends)
<1>1. ASSUME trouble # "error" PROVE CachesKnown(q, oq)
  BY <1>1, KeptKnown DEF Inv, Keeps
<1>2. ASSUME trouble = "none" PROVE stored[q].exists /\ ~(q >= nextQueue)
  BY <1>2, QuietRows
<1>3. QED BY <1>1, <1>2 DEF Fits

\* Operations that write nothing
LEMMA SilentFits ==
  ASSUME Inv, Idle, NEW q \in Queue, Exists(q), NEW oq, oq.slots = Got(q).slots, nextQueue' = nextQueue,
         \A i \in DOMAIN oq.cache :
           (i \in DOMAIN Cache(q) \/ (i \in Listed(q) /\ HasOrder(q, i))) /\ oq.cache[i] = OrderOf(q, i)
  PROVE  Fits(q, oq, <<>>, {})
<1>1. DOMAIN <<>> = {}
  OBVIOUS
<1>2. Keeps(q, oq) /\ ToSet(oq.slots) = Listed(q)
  BY DEF Keeps, OrderKept, Listed
<1>3. WritesHeld(oq, <<>>) /\ RemovesKnown(q, oq, <<>>, {})
  BY <1>1 DEF WritesHeld, RemovesKnown
<1>4. ASSUME trouble = "none" PROVE SlotsWritten(q, oq, <<>>) /\ RowsWritten(q, oq, <<>>)
  <2>1. DOMAIN Rows(q) = Listed(q) /\ stored[q].slots = Got(q).slots
        /\ \A i \in DOMAIN Rows(q) : OrderOf(q, i) = Rows(q)[i]
    BY <1>4, QuietRows
  <2>2. SlotsWritten(q, oq, <<>>)
    BY <1>1, <2>1 DEF SlotsWritten
  <2>3. OnePerOrder(<<>>)
    BY <1>1 DEF OnePerOrder
  <2>4. QED BY <1>1, <1>2, <2>1, <2>2, <2>3 DEF RowsWritten
<1>5. QED BY <1>2, <1>3, <1>4, ExistsFits

\* The statement s on an order, and then those of updateOrderQueue: the tables
\* are as the queue is to be, but for the order of s.
LEMMA OneWritten ==
  ASSUME Inv, Idle, trouble = "none", NEW q \in Queue, NEW oq, NEW s, OfOrder(s),
         s.do = "insert order" => s.id \notin Listed(q),
         s.do = "update order" => s.id \in Listed(q),
         s.do = "delete order" => s.id \notin ToSet(oq.slots),
         \A i \in Id : i # s.id => (i \in ToSet(oq.slots) <=> i \in Listed(q)),
         \A i \in DOMAIN oq.cache : i # s.id => oq.cache[i] = OrderOf(q, i)
  PROVE  LET w == <<s>> \o UpdateOrderQueue(oq)
         IN  SlotsWritten(q, oq, w) /\ RowsWritten(q, oq, w)
<1> DEFINE w == <<s>> \o UpdateOrderQueue(oq)
<1>1. /\ Writes(w, <<s>>, oq) /\ OnePerOrder(w) /\ Pending(w, s.id)
      /\ \A k \in DOMAIN w : OfOrder(w[k]) => w[k] = s
  BY OneWrites
<1> HIDE DEF w
<1>2. DOMAIN Rows(q) = Listed(q) /\ \A i \in DOMAIN Rows(q) : OrderOf(q, i) = Rows(q)[i]
  BY QuietRows
<1>3. SlotsWritten(q, oq, w)
  BY <1>1 DEF Writes, SlotsWritten
<1>4. ASSUME NEW k \in DOMAIN w
      PROVE  /\ w[k].do = "insert order" => w[k].id \notin DOMAIN Rows(q)
             /\ w[k].do = "update order" => w[k].id \in DOMAIN Rows(q)
             /\ w[k].do = "delete order" => w[k].id \notin ToSet(oq.slots)
  BY <1>1, <1>2 DEF OfOrder
<1>5. ASSUME NEW i \in Id, i # s.id
      PROVE  /\ i \in DOMAIN Rows(q) <=> i \in ToSet(oq.slots)
             /\ i \in DOMAIN Rows(q) /\ i \in DOMAIN oq.cache => oq.cache[i] = Rows(q)[i]
  BY <1>2, <1>5
<1>6. RowsWritten(q, oq, w)
  BY <1>1, <1>4, <1>5 DEF RowsWritten
<1>7. QED BY <1>3, <1>6 DEF w

-----------------------------------------------------------------------------
(* The operations keep it *)

\* What looking at an order makes of a cache
LEMMA CachedKept ==
  ASSUME IInv, NEW q \in Queue, NEW id \in Listed(q), HasOrder(q, id)
  PROVE  \A i \in DOMAIN Cached(q, id).cache :
           (i \in DOMAIN Cache(q) \/ i = id) /\ Cached(q, id).cache[i] = OrderOf(q, i)
<1>1. GoodHeld(Got(q)) /\ Got(q).cache = Cache(q)
  BY GotGood DEF Cache
<1> DEFINE oq == Got(q)
           cache == Put(oq.cache, id, OrderOf(q, id))
<1>2. Cached(q, id).cache = cache
  <2>1. Cached(q, id) = [oq EXCEPT !.cache = cache]
    BY DEF Cached
  <2> HIDE DEF oq, cache
  <2>2. oq = [slots |-> oq.slots, cache |-> oq.cache, next |-> oq.next, owners |-> oq.owners]
    BY <1>1, HeldParts DEF oq
  <2>3. QED BY <2>1, <2>2
<1>3. \A i \in DOMAIN Cache(q) : OrderOf(q, i) = Cache(q)[i]
  BY DEF OrderOf, Cache
<1>4. DOMAIN cache = DOMAIN Cache(q) \cup {id} /\ cache[id] = OrderOf(q, id)
      /\ \A i \in DOMAIN Cache(q) : i # id => cache[i] = Cache(q)[i]
  BY <1>1 DEF Put
<1> HIDE DEF cache
<1>5. QED BY <1>2, <1>3, <1>4

LEMMA GetOrderInv ==
  ASSUME Inv, IInv', NEW q \in Queue, NEW p \in Player, GetOrder(q, p)
  PROVE  Inv'
<1>1. PICK id \in Listed(q) :
        HasOrder(q, id) /\ Change(q, Cached(q, id), <<>>, {})
        /\ UNCHANGED <<nextQueue, stored, given, gone, trouble>>
  BY DEF GetOrder, Listed
<1>2. IInv /\ Exists(q) /\ Idle
  BY <1>1 DEF GetOrder, Inv, Change
<1> DEFINE oq == Cached(q, id)
<1>3. \A i \in DOMAIN oq.cache :
        (i \in DOMAIN Cache(q) \/ (i \in Listed(q) /\ HasOrder(q, i))) /\ oq.cache[i] = OrderOf(q, i)
  BY <1>1, <1>2, CachedKept
<1>4. oq.slots = Got(q).slots
  BY <1>1, <1>2, CachedGood DEF Listed
<1> HIDE DEF oq
<1>5. Fits(q, oq, <<>>, {})
  BY <1>1, <1>2, <1>3, <1>4, SilentFits
<1>6. Change(q, oq, <<>>, {})
  BY <1>1 DEF oq
<1>7. QED BY <1>1, <1>5, <1>6, ChangeKeepsInv

LEMMA ColoniseInv ==
  ASSUME Inv, IInv', NEW q \in Queue, NEW p \in Player, Colonise(q, p)
  PROVE  Inv'
<1> DEFINE owners == {p}
           oq == [Got(q) EXCEPT !.owners = owners]
<1>1. Change(q, oq, <<>>, {}) /\ UNCHANGED <<nextQueue, stored, given, gone, trouble>>
      /\ Exists(q) /\ Idle /\ IInv
  BY DEF Colonise, Change, Inv
<1>2. oq.slots = Got(q).slots /\ oq.cache = Cache(q)
  <2> HIDE DEF owners
  <2>1. GoodHeld(Got(q))
    BY <1>1, GotGood
  <2>2. oq = [slots |-> Got(q).slots, cache |-> Got(q).cache, next |-> Got(q).next, owners |-> owners]
    BY <2>1, ChangedField
  <2> HIDE DEF oq
  <2>3. QED BY <2>2 DEF Cache
<1> HIDE DEF oq
<1>3. \A i \in DOMAIN Cache(q) : OrderOf(q, i) = Cache(q)[i]
  BY DEF OrderOf, Cache
<1>4. Fits(q, oq, <<>>, {})
  BY <1>1, <1>2, <1>3, SilentFits
<1>5. QED BY <1>1, <1>4, ChangeKeepsInv

LEMMA SaveSteps ==
  ASSUME NEW oq
  PROVE  LET steps == SaveOrderQueue(oq)
         IN  /\ \E k \in DOMAIN steps : steps[k].do = "insert queue"
             /\ \A k \in DOMAIN steps : ~OfOrder(steps[k]) /\ ~Puts(steps[k]) /\ ~ForSlots(steps[k])
<1> DEFINE steps == SaveOrderQueue(oq)
<1>1. DOMAIN steps = {1, 2} /\ steps[1].do = "insert queue" /\ steps[2].do = "insert owners"
  <2>1. Len(steps) = 2 /\ steps[1].do = "insert queue" /\ steps[2].do = "insert owners"
    BY DEF SaveOrderQueue
  <2>2. PICK T : steps \in Seq(T)
    <3>1. steps \in Seq({steps[1], steps[2]})
      BY DEF SaveOrderQueue
    <3>2. QED BY <3>1
  <2> HIDE DEF steps
  <2>3. DOMAIN steps = 1 .. Len(steps)
    BY <2>2
  <2>4. \A k \in 1 .. 2 : k = 1 \/ k = 2
    OBVIOUS
  <2>5. 1 .. 2 = {1, 2}
    BY <2>4
  <2>6. QED BY <2>1, <2>3, <2>5
<1> HIDE DEF steps
<1>2. \A k \in DOMAIN steps : ~OfOrder(steps[k]) /\ ~Puts(steps[k]) /\ ~ForSlots(steps[k])
  BY <1>1 DEF OfOrder, Puts, ForSlots
<1>3. QED BY <1>1, <1>2 DEF steps

LEMMA AddOrderQueueInv ==
  ASSUME Inv, IInv', NEW p \in Player, AddOrderQueue(p)
  PROVE  Inv'
<1> DEFINE oq == [slots |-> <<>>, cache |-> <<>>, next |-> 1, owners |-> {p}]
           q == nextQueue
           steps == SaveOrderQueue(oq)
<1>1. /\ q \in Queue /\ Change(q, oq, steps, {}) /\ Idle
      /\ nextQueue' = q + 1 /\ UNCHANGED <<stored, given, gone, trouble>>
  BY DEF AddOrderQueue, Change
<1>2. oq.slots = <<>> /\ oq.cache = <<>> /\ DOMAIN <<>> = {} /\ ToSet(<<>>) = {}
  BY EmptyList, EmptyTable
<1> HIDE DEF oq
<1>3. \E k \in DOMAIN steps : steps[k].do = "insert queue"
  BY SaveSteps
<1>4. \A k \in DOMAIN steps : ~OfOrder(steps[k]) /\ ~Puts(steps[k]) /\ ~ForSlots(steps[k])
  BY SaveSteps
<1> HIDE DEF steps
<1>5. q \in Nat /\ (\A r \in Queue : r \in Nat)
  BY <1>1 DEF Queue
<1>6. ~(q >= nextQueue') /\ \A r \in Queue : r >= nextQueue' => r >= nextQueue
  BY <1>1, <1>5
<1>7. WritesHeld(oq, steps) /\ CachesKnown(q, oq) /\ RemovesKnown(q, oq, steps, {})
  BY <1>2, <1>4 DEF WritesHeld, CachesKnown, RemovesKnown
<1>8. ASSUME trouble = "none"
      PROVE  SlotsWritten(q, oq, steps) /\ RowsWritten(q, oq, steps)
  <2>1. stored[q].slots = <<>> /\ DOMAIN Rows(q) = {}
    <3>1. Quiet(q)
      BY <1>1, <1>8, IdleQuiet DEF Inv
    <3>2. q >= nextQueue
      BY <1>5
    <3>3. QED BY <3>1, <3>2 DEF Quiet, Unborn
  <2>2. SlotsWritten(q, oq, steps)
    BY <1>2, <1>4, <2>1 DEF SlotsWritten
  <2>3. OnePerOrder(steps)
    BY <1>4 DEF OnePerOrder
  <2>4. QED BY <1>2, <1>4, <2>1, <2>2, <2>3 DEF RowsWritten, OfOrder
<1>9. Fits(q, oq, steps, {})
  BY <1>3, <1>6, <1>7, <1>8 DEF Fits
<1>10. QED BY <1>1, <1>9, ChangeKeepsInv

\* An operation with one statement on an order that it does not give
LEMMA OneFits ==
  ASSUME Inv, Idle, NEW q \in Queue, Exists(q), nextQueue' = nextQueue, NEW oq, NEW s, NEW ends,
         OfOrder(s), s.do # "insert order", Keeps(q, oq),
         s.do = "update order" => /\ s.id \in ToSet(oq.slots) /\ s.id \in DOMAIN oq.cache
                                  /\ oq.cache[s.id] = s.order /\ ends = {},
         s.do = "delete order" => /\ s.id \in Id /\ s.id \notin ToSet(oq.slots)
                                  /\ HasOrder(q, s.id) /\ ends = {OrderOf(q, s.id).order},
         \A i \in Id : i # s.id => (i \in ToSet(oq.slots) <=> i \in Listed(q)),
         \A i \in DOMAIN oq.cache : i # s.id => oq.cache[i] = OrderOf(q, i)
  PROVE  Fits(q, oq, <<s>> \o UpdateOrderQueue(oq), ends)
<1> DEFINE w == <<s>> \o UpdateOrderQueue(oq)
<1>1. /\ Writes(w, <<s>>, oq)
      /\ \A k \in DOMAIN w : OfOrder(w[k]) => w[k] = s
      /\ \E k \in DOMAIN w : w[k] = s
      /\ OnePerOrder(w)
      /\ Pending(w, s.id)
  BY OneWrites
<1>2. ASSUME trouble = "none" PROVE SlotsWritten(q, oq, w) /\ RowsWritten(q, oq, w)
  <2>1. s.do = "update order" => s.id \in Listed(q)
    BY DEF Keeps
  <2>2. QED BY <1>2, <2>1, OneWritten
<1> HIDE DEF w
<1>3. WritesHeld(oq, w)
  BY <1>1 DEF WritesHeld, Puts, OfOrder
<1>4. RemovesKnown(q, oq, w, ends)
  <2>1. CASE s.do = "update order"
    BY <2>1 DEF RemovesKnown
  <2>2. CASE s.do = "delete order"
    <3>1. Shows(q, s.id, OrderOf(q, s.id).order)
      BY <2>2, ShowsOrder
    <3>2. QED BY <1>1, <2>2, <3>1 DEF RemovesKnown
  <2>3. QED BY <2>1, <2>2 DEF OfOrder
<1>5. Fits(q, oq, w, ends)
  BY <1>2, <1>3, <1>4, ExistsFits
<1>6. QED BY <1>5 DEF w

LEMMA RemoveOrderInv ==
  ASSUME Inv, IInv', NEW q \in Queue, NEW p \in Player, RemoveOrder(q, p)
  PROVE  Inv'
<1> DEFINE got == Got(q)
           New(pos) == [got EXCEPT !.slots = RemoveAt(@, pos),
                                   !.cache = Without(@, got.slots[pos])]
           s(pos) == [do |-> "delete order", id |-> got.slots[pos]]
           ends(pos) == {OrderOf(q, got.slots[pos]).order}
<1>1. PICK pos \in DOMAIN got.slots :
        /\ HasOrder(q, got.slots[pos])
        /\ Change(q, New(pos), <<s(pos)>> \o UpdateOrderQueue(New(pos)), ends(pos))
        /\ UNCHANGED <<nextQueue, stored, given, gone, trouble>>
  BY DEF RemoveOrder
<1>2. Exists(q) /\ Idle /\ IInv
  BY <1>1 DEF RemoveOrder, Change, Inv
<1> DEFINE id == got.slots[pos]
           oq == New(pos)
           slots == RemoveAt(got.slots, pos)
           cache == Without(Cache(q), id)
<1>3. GoodHeld(got) /\ got.cache = Cache(q) /\ ToSet(got.slots) = Listed(q)
  BY <1>2, GotGood DEF Cache, Listed
<1>4. id \in Id
  BY <1>1, <1>2, OrderOfType
<1> HIDE DEF got
<1>5. ToSet(slots) = Listed(q) \ {id} /\ slots \in Seq(Id)
  <2>1. pos \in 1 .. Len(got.slots)
    <3>1. got.slots \in Seq(Id)
      BY <1>3, HeldParts
    <3>2. QED BY <3>1
  <2>2. QED BY <1>3, <2>1, HeldParts, RemoveUnique
<1>6. DOMAIN cache = DOMAIN Cache(q) \ {id} /\ \A i \in DOMAIN cache : cache[i] = Cache(q)[i]
  BY DEF Without, Restrict
<1> HIDE DEF slots, cache
<1>7. oq.slots = slots /\ oq.cache = cache
  <2>1. oq = [got EXCEPT !.slots = slots, !.cache = cache]
    BY <1>3 DEF slots, cache
  <2> HIDE DEF oq, New
  <2>2. oq = [slots |-> slots, cache |-> cache, next |-> got.next, owners |-> got.owners]
    BY <1>3, <2>1, ChangedTwo
  <2>3. QED BY <2>2
<1>8. s(pos).do = "delete order" /\ s(pos).id = id
  OBVIOUS
<1> HIDE DEF New, s, ends, oq
<1>9. \A i \in DOMAIN oq.cache : i \in DOMAIN Cache(q) /\ oq.cache[i] = OrderOf(q, i)
  BY <1>6, <1>7 DEF OrderOf, Cache
<1>10. Keeps(q, oq)
  BY <1>5, <1>7, <1>9 DEF Keeps, OrderKept
<1>11. Fits(q, oq, <<s(pos)>> \o UpdateOrderQueue(oq), ends(pos))
  <2>1. OfOrder(s(pos)) /\ s(pos).do # "insert order" /\ s(pos).do # "update order"
    BY <1>8 DEF OfOrder
  <2>2. id \notin ToSet(oq.slots) /\ HasOrder(q, id) /\ ends(pos) = {OrderOf(q, id).order}
    BY <1>1, <1>5, <1>7 DEF ends
  <2>3. \A i \in Id : i # id => (i \in ToSet(oq.slots) <=> i \in Listed(q))
    BY <1>5, <1>7
  <2> HIDE DEF id
  <2>4. QED BY <1>1, <1>2, <1>4, <1>8, <1>9, <1>10, <2>1, <2>2, <2>3, OneFits
<1>12. Change(q, oq, <<s(pos)>> \o UpdateOrderQueue(oq), ends(pos))
  BY <1>1 DEF oq
<1>13. QED BY <1>1, <1>11, <1>12, ChangeKeepsInv

LEMMA DoFirstOrderInv ==
  ASSUME Inv, IInv', NEW q \in Queue, DoFirstOrder(q)
  PROVE  Inv'
<1> DEFINE got == Got(q)
           id == Head(got.slots)
           seen == Cached(q, id)
           done == [seen EXCEPT !.slots = Tail(@)]
           New(left) == [seen EXCEPT !.cache[id].turns = left]
<1>1. /\ got.slots # <<>> /\ HasOrder(q, id) /\ Exists(q) /\ Idle /\ IInv
      /\ UNCHANGED <<nextQueue, stored, given, gone, trouble>>
  BY DEF DoFirstOrder, Inv, Change
<1>2. GoodHeld(got) /\ ToSet(got.slots) = Listed(q)
  BY <1>1, GotGood DEF Listed
<1>3. id \in Listed(q) /\ id \in Id /\ OrderOf(q, id) \in Order
  <2>1. id \in Listed(q)
    <3> HIDE DEF got
    <3> QED BY <1>1, <1>2, HeldParts, TailUnique
  <2>2. QED BY <1>1, <2>1, OrderOfType
<1>4. /\ GoodHeld(seen) /\ seen.slots = got.slots
      /\ id \in DOMAIN seen.cache /\ seen.cache[id] = OrderOf(q, id)
  BY <1>1, <1>2, <1>3, CachedGood DEF Listed
<1>5. \A i \in DOMAIN seen.cache :
        /\ i \in DOMAIN Cache(q) \/ (i \in Listed(q) /\ HasOrder(q, i))
        /\ seen.cache[i] = OrderOf(q, i)
  BY <1>1, <1>3, CachedKept
<1>6. /\ got.slots \in Seq(Id) /\ IsInjective(got.slots)
      /\ seen = [slots |-> seen.slots, cache |-> seen.cache, next |-> seen.next, owners |-> seen.owners]
  BY <1>2, <1>4, HeldParts
<1> HIDE DEF got, id, seen
<1>7. CASE Change(q, done, << [do |-> "delete order", id |-> id] >> \o UpdateOrderQueue(done),
                  {OrderOf(q, id).order})
  <2> DEFINE s == [do |-> "delete order", id |-> id]
             ends == {OrderOf(q, id).order}
  <2>1. done.slots = Tail(got.slots) /\ done.cache = seen.cache
    <3>1. PICK t : t = Tail(got.slots)
      OBVIOUS
    <3>2. done = [seen EXCEPT !.slots = t]
      BY <1>4, <3>1
    <3> HIDE DEF done
    <3>3. QED BY <1>6, <3>1, <3>2
  <2> HIDE DEF done
  <2>2. ToSet(done.slots) = Listed(q) \ {id}
    BY <1>1, <1>2, <1>6, <2>1, TailUnique DEF id
  <2>3. Keeps(q, done)
    BY <1>5, <2>1, <2>2 DEF Keeps, OrderKept
  <2>4. s.do = "delete order" /\ s.id = id /\ OfOrder(s)
    BY DEF OfOrder
  <2> HIDE DEF s
  <2>5. Fits(q, done, <<s>> \o UpdateOrderQueue(done), ends)
    <3>1. s.do # "insert order" /\ s.do # "update order"
      BY <2>4
    <3>2. id \notin ToSet(done.slots) /\ \A i \in Id : i # id => (i \in ToSet(done.slots) <=> i \in Listed(q))
      BY <2>2
    <3>3. \A i \in DOMAIN done.cache : i # id => done.cache[i] = OrderOf(q, i)
      BY <1>5, <2>1
    <3>4. QED BY <1>1, <1>3, <2>3, <2>4, <3>1, <3>2, <3>3, OneFits
  <2>6. Change(q, done, <<s>> \o UpdateOrderQueue(done), ends)
    BY <1>7 DEF s
  <2>7. QED BY <1>1, <2>5, <2>6, ChangeKeepsInv
<1>8. ASSUME NEW left \in 0 .. OrderOf(q, id).turns,
             Change(q, New(left),
               << [do |-> "update order", id |-> id, order |-> New(left).cache[id]] >>
                 \o UpdateOrderQueue(New(left)), {})
      PROVE  Inv'
  <2> DEFINE o == [seen.cache[id] EXCEPT !.turns = left]
             cache == [seen.cache EXCEPT ![id] = o]
             oq == New(left)
             s == [do |-> "update order", id |-> id, order |-> oq.cache[id]]
  <2>1. oq.slots = got.slots /\ oq.cache = cache
    BY <1>4, <1>6
  <2>2. o.order = OrderOf(q, id).order
    BY <1>3, <1>4 DEF Order
  <2> HIDE DEF o
  <2>3. /\ DOMAIN cache = DOMAIN seen.cache /\ cache[id] = o
        /\ \A i \in DOMAIN cache : i # id => cache[i] = seen.cache[i]
    BY <1>4
  <2> HIDE DEF cache, New, oq
  <2>4. ToSet(oq.slots) = Listed(q)
    BY <1>2, <2>1
  <2>5. Keeps(q, oq)
    <3>1. ASSUME NEW i \in DOMAIN oq.cache PROVE OrderKept(q, oq, i)
      BY <1>4, <1>5, <2>1, <2>2, <2>3 DEF OrderKept
    <3>2. QED BY <2>4, <3>1 DEF Keeps
  <2>6. s.do = "update order" /\ s.id = id /\ s.order = oq.cache[id] /\ OfOrder(s)
    BY DEF OfOrder
  <2> HIDE DEF s
  <2>7. Fits(q, oq, <<s>> \o UpdateOrderQueue(oq), {})
    <3>1. s.do # "insert order" /\ s.do # "delete order"
      BY <2>6
    <3>2. id \in ToSet(oq.slots) /\ id \in DOMAIN oq.cache
      BY <1>3, <1>4, <2>1, <2>3, <2>4
    <3>3. \A i \in DOMAIN oq.cache : i # id => oq.cache[i] = OrderOf(q, i)
      BY <1>5, <2>1, <2>3
    <3>4. QED BY <1>1, <2>4, <2>5, <2>6, <3>1, <3>2, <3>3, OneFits
  <2>8. Change(q, oq, <<s>> \o UpdateOrderQueue(oq), {})
    BY <1>8 DEF s, oq
  <2>9. QED BY <1>1, <2>7, <2>8, ChangeKeepsInv
<1>9. QED BY <1>7, <1>8 DEF DoFirstOrder, got, id, seen

LEMMA NotNext == ASSUME NEW n \in Nat, NEW m \in Nat, n <= m PROVE n # m + 1
  OBVIOUS

\* The new order has an id that no other of the queue has, and a number of its own.
LEMMA AddOrderInv ==
  ASSUME Inv, IInv', NEW q \in Queue, NEW p \in Player, AddOrder(q, p)
  PROVE  Inv'
<1> DEFINE got == Got(q)
           id == got.next
           order == [order |-> given + 1, turns |-> Turns]
           New(pos) == [got EXCEPT !.slots = InsertAt(@, pos, id),
                                   !.cache = Put(@, id, order), !.next = @ + 1]
           s == [do |-> "insert order", id |-> id, order |-> order]
<1>1. PICK pos \in 1 .. Len(got.slots) + 1 :
        Change(q, New(pos), <<s>> \o UpdateOrderQueue(New(pos)), {})
  BY DEF AddOrder
<1>2. /\ Exists(q) /\ Idle /\ IInv /\ given' = given + 1 /\ nextQueue' = nextQueue
      /\ stored' = stored /\ gone' = gone /\ trouble' = trouble
  BY <1>1 DEF AddOrder, Change, Inv
<1> DEFINE oq == New(pos)
           slots == InsertAt(got.slots, pos, id)
           cache == Put(Cache(q), id, order)
<1>3. GoodHeld(got) /\ got.cache = Cache(q) /\ ToSet(got.slots) = Listed(q)
  BY <1>2, GotGood DEF Cache, Listed
<1>4. order.order = given + 1 /\ s.do = "insert order" /\ s.id = id /\ s.order = order
      /\ given \in Nat
  BY <1>2, ConstantsAssumption DEF IInv
<1> HIDE DEF got, order, s
<1>5. id \in Id /\ id \notin Listed(q) /\ id \notin DOMAIN Cache(q)
  BY <1>3, HeldParts DEF Id
<1>6. ToSet(slots) = Listed(q) \cup {id} /\ slots \in Seq(Id)
  BY <1>1, <1>3, <1>5, HeldParts, InsertUnique
<1>7. /\ DOMAIN cache = DOMAIN Cache(q) \cup {id} /\ cache[id] = order
      /\ \A i \in DOMAIN Cache(q) : cache[i] = Cache(q)[i]
  BY <1>5 DEF Put
<1>8. oq.slots = slots /\ oq.cache = cache
  <2> DEFINE next == id + 1
  <2>1. oq = [got EXCEPT !.slots = slots, !.cache = cache, !.next = next]
    BY <1>3
  <2> HIDE DEF oq, New, slots, cache, next
  <2>2. oq = [slots |-> slots, cache |-> cache, next |-> next, owners |-> got.owners]
    BY <1>3, <2>1, ChangedThree
  <2>3. QED BY <2>2
<1> HIDE DEF New, id, oq, slots, cache
<1>9. \A i \in DOMAIN oq.cache : i # id => i \in DOMAIN Cache(q) /\ oq.cache[i] = Cache(q)[i]
  BY <1>7, <1>8
<1>10. WritesHeld(oq, <<s>> \o UpdateOrderQueue(oq))
  <2> DEFINE w == <<s>> \o UpdateOrderQueue(oq)
  <2>1. OfOrder(s)
    BY <1>4 DEF OfOrder
  <2>2. /\ Writes(w, <<s>>, oq)
        /\ \A k \in DOMAIN w : OfOrder(w[k]) => w[k] = s
        /\ \E k \in DOMAIN w : w[k] = s
        /\ OnePerOrder(w)
        /\ Pending(w, s.id)
    BY <2>1, OneWrites
  <2> HIDE DEF w
  <2>3. WritesHeld(oq, w)
    BY <1>4, <1>6, <1>7, <1>8, <2>2 DEF WritesHeld, Puts, OfOrder
  <2>4. QED BY <2>3 DEF w
<1>11. ASSUME trouble # "error" PROVE CachesKnown(q, oq)
  <2>1. GoneInv
    BY <1>11 DEF Inv
  <2>2. ASSUME NEW i \in DOMAIN Cache(q)
        PROVE  Shows(q, i, Cache(q)[i].order) /\ Cache(q)[i].order <= given
               /\ Cache(q)[i].order # given + 1
    <3>1. i \in Id /\ Cache(q)[i].order \in 1 .. MaxOrders
      BY <1>2, GotParts
    <3>2. Shows(q, i, Cache(q)[i].order)
      BY DEF Shows
    <3>3. Cache(q)[i].order <= given
      BY <2>1, <3>1, <3>2 DEF GoneInv, WereGiven
    <3>4. Cache(q)[i].order \in Nat
      BY <3>1
    <3>5. Cache(q)[i].order # given + 1
      BY <1>4, <3>3, <3>4, NotNext
    <3>6. QED BY <3>2, <3>3, <3>5
  <2>3. given + 1 \notin gone
    <3>1. \A n \in gone : n <= given /\ n \in Nat
      BY <1>2, <2>1 DEF GoneInv, WereGiven, IInv
    <3>2. QED BY <1>4, <3>1, NotNext
  <2>4. \A i \in DOMAIN Cache(q) : i \in Listed(q) => Cache(q)[i].order \notin gone
    BY <2>1 DEF GoneInv, GoneOver, Unseen
  <2>5. ASSUME NEW i \in DOMAIN oq.cache
        PROVE  \/ i = id /\ oq.cache[i].order = given + 1
               \/ i # id /\ i \in DOMAIN Cache(q) /\ oq.cache[i] = Cache(q)[i]
    BY <1>4, <1>7, <1>8, <1>9
  <2>6. \A i \in DOMAIN oq.cache : i \in ToSet(oq.slots) => oq.cache[i].order \notin gone
    BY <1>6, <1>8, <2>3, <2>4, <2>5
  <2>7. QED BY <1>2, <2>2, <2>5, <2>6 DEF CachesKnown
<1>12. ASSUME trouble = "none"
       PROVE  LET w == <<s>> \o UpdateOrderQueue(oq)
              IN  SlotsWritten(q, oq, w) /\ RowsWritten(q, oq, w)
  <2>1. OfOrder(s) /\ s.do # "update order" /\ s.do # "delete order"
    BY <1>4 DEF OfOrder
  <2>2. \A i \in Id : i # s.id => (i \in ToSet(oq.slots) <=> i \in Listed(q))
    BY <1>4, <1>6, <1>8
  <2>3. \A i \in DOMAIN oq.cache : i # s.id => oq.cache[i] = OrderOf(q, i)
    BY <1>4, <1>9 DEF OrderOf, Cache
  <2>4. s.id \notin Listed(q)
    BY <1>4, <1>5
  <2>5. QED BY <1>2, <1>12, <2>1, <2>2, <2>3, <2>4, OneWritten
<1>13. ASSUME trouble = "none" PROVE stored[q].exists /\ ~(q >= nextQueue)
  BY <1>2, <1>13, QuietRows
<1>14. Fits(q, oq, <<s>> \o UpdateOrderQueue(oq), {})
  BY <1>2, <1>10, <1>11, <1>12, <1>13 DEF Fits, RemovesKnown
<1>15. Change(q, oq, <<s>> \o UpdateOrderQueue(oq), {})
  BY <1>1 DEF oq
<1>16. QED BY <1>2, <1>14, <1>15, ChangeKeepsInv

LEMMA RemoveAllOrdersInv ==
  ASSUME Inv, IInv', NEW q \in Queue, RemoveAllOrders(q)
  PROVE  Inv'
<1> DEFINE got == Got(q)
           New(lost) == [got EXCEPT !.slots = <<>>, !.owners = @ \ lost]
           deletes == [i \in DOMAIN got.slots |-> [do |-> "delete order", id |-> got.slots[i]]]
           ends == Numbers(q)
<1>1. PICK lost \in SUBSET got.owners :
        /\ Change(q, New(lost), deletes \o UpdateOrderQueue(New(lost)), ends)
        /\ UNCHANGED <<nextQueue, stored, given, gone, trouble>>
  BY DEF RemoveAllOrders
<1>2. Exists(q) /\ Idle /\ IInv
  BY <1>1 DEF RemoveAllOrders, Change, Inv
<1> DEFINE oq == New(lost)
           w == deletes \o UpdateOrderQueue(oq)
<1>3. GoodHeld(got) /\ got.cache = Cache(q) /\ ToSet(got.slots) = Listed(q)
  BY <1>2, GotGood DEF Cache, Listed
<1>4. ends = {OrderOf(q, i).order : i \in {j \in Listed(q) : HasOrder(q, j)}}
  BY DEF Numbers, Listed
<1> HIDE DEF got, ends
<1>5. got.slots \in Seq(Id) /\ IsInjective(got.slots)
  BY <1>3, HeldParts
<1>6. oq.slots = <<>> /\ oq.cache = Cache(q) /\ ToSet(<<>>) = {} /\ DOMAIN <<>> = {}
  <2> DEFINE owners == got.owners \ lost
  <2>1. oq = [got EXCEPT !.slots = <<>>, !.owners = owners]
    OBVIOUS
  <2> HIDE DEF oq, New, owners
  <2>2. oq = [slots |-> <<>>, cache |-> got.cache, next |-> got.next, owners |-> owners]
    BY <1>3, <2>1, ChangedTwo
  <2>3. QED BY <1>3, <2>2, EmptyList, EmptyTable
<1> HIDE DEF New, oq
<1>7. /\ DOMAIN deletes = DOMAIN got.slots
      /\ \A k \in DOMAIN deletes : deletes[k].do = "delete order" /\ deletes[k].id = got.slots[k]
  OBVIOUS
<1>8. Writes(w, deletes, oq)
  <2>1. PICK S : deletes \in Seq(S)
    <3> DEFINE S == {[do |-> "delete order", id |-> i] : i \in Id}
    <3>1. \A i \in DOMAIN got.slots : got.slots[i] \in Id
      BY <1>5
    <3>2. \A i \in DOMAIN got.slots : [do |-> "delete order", id |-> got.slots[i]] \in S
      BY <3>1
    <3> HIDE DEF S
    <3>3. Len(got.slots) \in Nat /\ DOMAIN got.slots = 1 .. Len(got.slots)
      BY <1>5
    <3>4. deletes \in [1 .. Len(got.slots) -> S]
      BY <3>2, <3>3
    <3> HIDE DEF deletes
    <3>5. deletes \in Seq(S)
      BY <3>3, <3>4, SeqDef
    <3>6. QED BY <3>5
  <2>2. \A k \in DOMAIN deletes : OfOrder(deletes[k])
    BY <1>7 DEF OfOrder
  <2> HIDE DEF deletes
  <2>3. QED BY <2>1, <2>2, UpdateWrites
<1> HIDE DEF deletes, w
<1>9. ASSUME NEW k \in DOMAIN w, OfOrder(w[k])
      PROVE  /\ k \in DOMAIN got.slots /\ w[k].do = "delete order" /\ w[k].id = got.slots[k]
             /\ w[k].id \in Listed(q)
  <2>1. k \in DOMAIN deletes /\ w[k] = deletes[k]
    BY <1>8, <1>9 DEF Writes
  <2>2. k \in DOMAIN got.slots /\ w[k].do = "delete order" /\ w[k].id = got.slots[k]
    BY <1>7, <2>1
  <2>3. got.slots[k] \in Listed(q)
    BY <1>3, <2>2 DEF ToSet
  <2>4. QED BY <2>2, <2>3
<1>10. ASSUME NEW id \in Listed(q)
       PROVE  \E k \in DOMAIN w : w[k].do = "delete order" /\ w[k].id = id
  <2>1. PICK k \in DOMAIN got.slots : got.slots[k] = id
    BY <1>3 DEF ToSet
  <2>2. k \in DOMAIN w /\ w[k] = deletes[k]
    BY <1>7, <1>8, <2>1 DEF Writes
  <2>3. QED BY <1>7, <2>1, <2>2
<1>11. OnePerOrder(w)
  <2>1. SUFFICES ASSUME NEW j \in DOMAIN w, NEW k \in DOMAIN w, OfOrder(w[j]), OfOrder(w[k]),
                        w[j].id = w[k].id
                 PROVE  j = k
    BY DEF OnePerOrder
  <2>2. j \in DOMAIN got.slots /\ k \in DOMAIN got.slots /\ got.slots[j] = got.slots[k]
    BY <1>9, <2>1
  <2>3. QED BY <1>5, <2>2 DEF IsInjective
<1>12. Keeps(q, oq)
  <2>1. \A i \in DOMAIN Cache(q) : OrderOf(q, i) = Cache(q)[i]
    BY DEF OrderOf, Cache
  <2>2. QED BY <1>6, <2>1 DEF Keeps, OrderKept
<1>13. WritesHeld(oq, w)
  <2>1. \A k \in DOMAIN w : ~Puts(w[k])
    BY <1>9 DEF Puts, OfOrder
  <2>2. QED BY <2>1 DEF WritesHeld
<1>14. RemovesKnown(q, oq, w, ends)
  <2>1. SUFFICES ASSUME NEW id \in Listed(q), HasOrder(q, id)
                 PROVE  \E i \in Id :
                          /\ Shows(q, i, OrderOf(q, id).order) /\ i \notin ToSet(oq.slots)
                          /\ \E k \in DOMAIN w : w[k].do = "delete order" /\ w[k].id = i
    BY <1>4 DEF RemovesKnown
  <2>2. id \in Id /\ Shows(q, id, OrderOf(q, id).order)
    BY <1>2, <2>1, OrderOfType, ShowsOrder
  <2>3. QED BY <1>6, <1>10, <2>2
<1>15. ASSUME trouble = "none" PROVE SlotsWritten(q, oq, w) /\ RowsWritten(q, oq, w)
  <2>1. DOMAIN Rows(q) = Listed(q)
    BY <1>2, <1>15, QuietRows
  <2>2. SlotsWritten(q, oq, w)
    BY <1>8 DEF Writes, SlotsWritten
  <2>3. \A id \in Listed(q) : Pending(w, id)
    BY <1>10 DEF Pending, OfOrder
  <2>4. \A k \in DOMAIN w :
          /\ w[k].do # "insert order" /\ w[k].do # "update order"
          /\ w[k].do = "delete order" => w[k].id \notin ToSet(oq.slots)
    BY <1>6, <1>9 DEF OfOrder
  <2>5. QED BY <1>6, <1>11, <2>1, <2>2, <2>3, <2>4 DEF RowsWritten
<1>16. Fits(q, oq, w, ends)
  BY <1>1, <1>2, <1>12, <1>13, <1>14, <1>15, ExistsFits
<1>17. Change(q, oq, w, ends)
  BY <1>1 DEF oq, w
<1>18. QED BY <1>1, <1>16, <1>17, ChangeKeepsInv

-----------------------------------------------------------------------------
(* Statements, errors and restarts keep it *)

\* The statement s makes of the orders f the orders g.
After(f, s, g) ==
  /\ \A i \in DOMAIN g :
       \/ i \in DOMAIN f /\ g[i] = f[i] /\ ~(s.do = "delete order" /\ s.id = i)
       \/ Puts(s) /\ i = s.id /\ g[i] = s.order
  /\ \A i \in DOMAIN f : ~(OfOrder(s) /\ s.id = i) => i \in DOMAIN g /\ g[i] = f[i]
  /\ s.do = "insert order" /\ s.id \notin DOMAIN f => s.id \in DOMAIN g /\ g[s.id] = s.order
  /\ s.do = "update order" /\ s.id \in DOMAIN f => s.id \in DOMAIN g /\ g[s.id] = s.order

SlotsAfter(t, s) ==
  CASE s.do = "delete slots" -> <<>>
    [] s.do = "insert slots" -> s.slots
    [] OTHER -> t.slots

LEMMA SameAfter ==
  ASSUME NEW f, NEW s, ~OfOrder(s)
  PROVE  After(f, s, f)
  BY DEF After, OfOrder

LEMMA DeleteAfter ==
  ASSUME NEW f, NEW s, s.do = "delete order"
  PROVE  After(f, s, Without(f, s.id))
<1>1. DOMAIN Without(f, s.id) = DOMAIN f \ {s.id}
      /\ \A i \in DOMAIN f \ {s.id} : Without(f, s.id)[i] = f[i]
  BY DEF Without, Restrict
<1>2. QED BY <1>1 DEF After, OfOrder

LEMMA InsertAfter ==
  ASSUME NEW f, NEW s, s.do = "insert order"
  PROVE  After(f, s, IF s.id \in DOMAIN f THEN f ELSE Put(f, s.id, s.order))
<1> DEFINE g == Put(f, s.id, s.order)
<1>1. DOMAIN g = DOMAIN f \cup {s.id} /\ g[s.id] = s.order
      /\ \A i \in DOMAIN f : i # s.id => g[i] = f[i]
  BY DEF Put
<1> HIDE DEF g
<1>2. ASSUME s.id \in DOMAIN f PROVE After(f, s, f)
  BY <1>2 DEF After, OfOrder
<1>3. ASSUME s.id \notin DOMAIN f PROVE After(f, s, g)
  BY <1>1, <1>3 DEF After, OfOrder, Puts
<1>4. After(f, s, IF s.id \in DOMAIN f THEN f ELSE g)
  BY <1>2, <1>3
<1>5. QED BY <1>4 DEF g

LEMMA UpdateAfter ==
  ASSUME NEW f, NEW s, s.do = "update order", IsTable(f)
  PROVE  After(f, s, IF s.id \in DOMAIN f THEN [f EXCEPT ![s.id] = s.order] ELSE f)
<1> DEFINE g == [f EXCEPT ![s.id] = s.order]
<1>1. CASE s.id \in DOMAIN f
  <2>1. DOMAIN g = DOMAIN f /\ g[s.id] = s.order /\ \A i \in DOMAIN f : i # s.id => g[i] = f[i]
    BY <1>1 DEF IsTable
  <2> HIDE DEF g
  <2>2. After(f, s, g)
    BY <1>1, <2>1 DEF After, OfOrder, Puts
  <2>3. QED BY <1>1, <2>2 DEF g
<1>2. CASE s.id \notin DOMAIN f
  BY <1>2 DEF After, OfOrder
<1>3. QED BY <1>1, <1>2

\* What a statement makes of a queue's rows
EffectIs(t, s, u) ==
  /\ After(t.orders, s, u.orders)
  /\ u.slots = SlotsAfter(t, s)
  /\ u.exists <=> t.exists \/ s.do = "insert queue"

LEMMA EffectParts ==
  ASSUME NEW t, GoodStored(t), NEW s
  PROVE  EffectIs(t, s, Effect(t, s))
<1> DEFINE u == Effect(t, s)
<1>1. /\ t = [exists |-> t.exists, slots |-> t.slots, owners |-> t.owners, orders |-> t.orders]
      /\ t.exists \in BOOLEAN /\ IsTable(t.orders)
  BY DEF GoodStored, IsStored
<1>2. CASE s.do = "insert queue"
  <2>1. u = [exists |-> TRUE, slots |-> t.slots, owners |-> t.owners, orders |-> t.orders]
    BY <1>1, <1>2 DEF Effect
  <2> HIDE DEF u
  <2>2. u.orders = t.orders /\ u.slots = t.slots /\ u.exists
    BY <2>1
  <2>3. ~OfOrder(s) /\ SlotsAfter(t, s) = t.slots
    BY <1>2 DEF OfOrder, SlotsAfter
  <2>4. EffectIs(t, s, u)
    BY <1>2, <2>2, <2>3, SameAfter DEF EffectIs
  <2>5. QED BY <2>4 DEF u
<1>3. CASE s.do = "delete slots"
  <2>1. u = [exists |-> t.exists, slots |-> <<>>, owners |-> t.owners, orders |-> t.orders]
    BY <1>1, <1>3 DEF Effect
  <2> HIDE DEF u
  <2>2. u.orders = t.orders /\ u.slots = <<>> /\ u.exists = t.exists
    BY <2>1
  <2>3. ~OfOrder(s) /\ SlotsAfter(t, s) = <<>>
    BY <1>3 DEF OfOrder, SlotsAfter
  <2>4. EffectIs(t, s, u)
    BY <1>3, <2>2, <2>3, SameAfter DEF EffectIs
  <2>5. QED BY <2>4 DEF u
<1>4. CASE s.do = "delete owners"
  <2>1. u = [exists |-> t.exists, slots |-> t.slots, owners |-> {}, orders |-> t.orders]
    BY <1>1, <1>4 DEF Effect
  <2> HIDE DEF u
  <2>2. u.orders = t.orders /\ u.slots = t.slots /\ u.exists = t.exists
    BY <2>1
  <2>3. ~OfOrder(s) /\ SlotsAfter(t, s) = t.slots
    BY <1>4 DEF OfOrder, SlotsAfter
  <2>4. EffectIs(t, s, u)
    BY <1>4, <2>2, <2>3, SameAfter DEF EffectIs
  <2>5. QED BY <2>4 DEF u
<1>5. CASE s.do = "insert slots"
  <2>1. u = [exists |-> t.exists, slots |-> s.slots, owners |-> t.owners, orders |-> t.orders]
    BY <1>1, <1>5 DEF Effect
  <2> HIDE DEF u
  <2>2. u.orders = t.orders /\ u.slots = s.slots /\ u.exists = t.exists
    BY <2>1
  <2>3. ~OfOrder(s) /\ SlotsAfter(t, s) = s.slots
    BY <1>5 DEF OfOrder, SlotsAfter
  <2>4. EffectIs(t, s, u)
    BY <1>5, <2>2, <2>3, SameAfter DEF EffectIs
  <2>5. QED BY <2>4 DEF u
<1>6. CASE s.do = "insert owners"
  <2>1. u = [exists |-> t.exists, slots |-> t.slots, owners |-> s.owners, orders |-> t.orders]
    BY <1>1, <1>6 DEF Effect
  <2> HIDE DEF u
  <2>2. u.orders = t.orders /\ u.slots = t.slots /\ u.exists = t.exists
    BY <2>1
  <2>3. ~OfOrder(s) /\ SlotsAfter(t, s) = t.slots
    BY <1>6 DEF OfOrder, SlotsAfter
  <2>4. EffectIs(t, s, u)
    BY <1>6, <2>2, <2>3, SameAfter DEF EffectIs
  <2>5. QED BY <2>4 DEF u
<1>7. ASSUME NEW g, After(t.orders, s, g), OfOrder(s),
             u = [exists |-> t.exists, slots |-> t.slots, owners |-> t.owners, orders |-> g]
      PROVE  EffectIs(t, s, u)
  <2> HIDE DEF u
  <2>1. u.orders = g /\ u.slots = t.slots /\ u.exists = t.exists
    BY <1>7
  <2>2. s.do # "insert queue" /\ SlotsAfter(t, s) = t.slots
    BY <1>7 DEF OfOrder, SlotsAfter
  <2>3. QED BY <1>7, <2>1, <2>2 DEF EffectIs
<1>8. CASE s.do = "delete order"
  <2>1. u = [exists |-> t.exists, slots |-> t.slots, owners |-> t.owners,
             orders |-> Without(t.orders, s.id)]
    BY <1>1, <1>8 DEF Effect
  <2>2. OfOrder(s)
    BY <1>8 DEF OfOrder
  <2> HIDE DEF u
  <2>3. QED BY <1>7, <1>8, <2>1, <2>2, DeleteAfter DEF u
<1>9. CASE s.do = "insert order"
  <2> DEFINE g == IF s.id \in DOMAIN t.orders THEN t.orders ELSE Put(t.orders, s.id, s.order)
  <2>1. u = [exists |-> t.exists, slots |-> t.slots, owners |-> t.owners, orders |-> g]
    BY <1>1, <1>9 DEF Effect
  <2>2. OfOrder(s) /\ After(t.orders, s, g)
    BY <1>9, InsertAfter DEF OfOrder
  <2> HIDE DEF u, g
  <2>3. QED BY <1>7, <2>1, <2>2 DEF u
<1>10. CASE s.do = "update order"
  <2> DEFINE g == IF s.id \in DOMAIN t.orders THEN [t.orders EXCEPT ![s.id] = s.order]
                  ELSE t.orders
  <2>1. u = [exists |-> t.exists, slots |-> t.slots, owners |-> t.owners, orders |-> g]
    BY <1>1, <1>10 DEF Effect
  <2>2. OfOrder(s) /\ After(t.orders, s, g)
    BY <1>1, <1>10, UpdateAfter DEF OfOrder
  <2> HIDE DEF u, g
  <2>3. QED BY <1>7, <2>1, <2>2 DEF u
<1>11. CASE /\ s.do # "insert queue" /\ s.do # "delete slots" /\ s.do # "delete owners"
            /\ s.do # "insert slots" /\ s.do # "insert owners" /\ ~OfOrder(s)
  <2>1. u = t
    BY <1>11 DEF Effect, OfOrder
  <2>2. SlotsAfter(t, s) = t.slots
    BY <1>11 DEF SlotsAfter
  <2> HIDE DEF u
  <2>3. EffectIs(t, s, u)
    BY <1>11, <2>1, <2>2, SameAfter DEF EffectIs
  <2>4. QED BY <2>3 DEF u
<1>12. QED
  BY <1>2, <1>3, <1>4, <1>5, <1>6, <1>8, <1>9, <1>10, <1>11 DEF OfOrder

\* The statements t are those of w but the first, s.
Rest(w, s, t) ==
  /\ 1 \in DOMAIN w /\ w[1] = s
  /\ \A k \in DOMAIN w : k # 1 => k - 1 \in DOMAIN t /\ t[k - 1] = w[k]
  /\ \A k \in DOMAIN t : k + 1 \in DOMAIN w /\ k + 1 # 1 /\ t[k] = w[k + 1]

LEMMA TailRest ==
  ASSUME NEW S, NEW w \in Seq(S), w # <<>>
  PROVE  Rest(w, Head(w), Tail(w)) /\ DOMAIN w \subseteq Nat /\ DOMAIN Tail(w) \subseteq Nat
         /\ (Tail(w) = <<>> => \A k \in DOMAIN w : k = 1)
<1> DEFINE t == Tail(w)
           n == Len(w)
<1>1. /\ t \in Seq(S) /\ Len(t) = n - 1 /\ \A i \in 1 .. Len(t) : t[i] = w[i + 1]
      /\ Head(w) = w[1] /\ n \in Nat /\ n # 0 /\ DOMAIN w = 1 .. n
  OBVIOUS
<1> HIDE DEF t
<1>2. DOMAIN t = 1 .. n - 1
  BY <1>1
<1> HIDE DEF n
<1>3. Rest(w, Head(w), t)
  <2>1. 1 \in DOMAIN w
    BY <1>1
  <2>2. ASSUME NEW k \in DOMAIN w, k # 1 PROVE k - 1 \in DOMAIN t /\ t[k - 1] = w[k]
    <3>1. k - 1 \in 1 .. n - 1 /\ (k - 1) + 1 = k
      BY <1>1, <2>2
    <3>2. QED BY <1>1, <1>2, <3>1
  <2>3. ASSUME NEW k \in DOMAIN t PROVE k + 1 \in DOMAIN w /\ k + 1 # 1 /\ t[k] = w[k + 1]
    BY <1>1, <1>2
  <2>4. QED BY <1>1, <2>1, <2>2, <2>3 DEF Rest
<1>4. t = <<>> => \A k \in DOMAIN w : k = 1
  <2>1. ASSUME t = <<>> PROVE n = 1
    <3>1. Len(t) = 0
      BY <2>1
    <3>2. QED BY <1>1, <3>1
  <2>2. QED BY <1>1, <2>1
<1>5. QED BY <1>1, <1>2, <1>3, <1>4 DEF t

\* What sending the statement s to the tables of queue q leaves as it was, and
\* what it changes
Sends(q, s) ==
  /\ q \in Queue /\ q \in DOMAIN held /\ s \in GoodStatement
  /\ work.queue = q /\ work'.queue = q /\ work'.ends = work.ends
  /\ Rest(work.steps, s, work'.steps)
  /\ DOMAIN work.steps \subseteq Nat /\ DOMAIN work'.steps \subseteq Nat
  /\ work'.steps = <<>> => \A k \in DOMAIN work.steps : k = 1
  /\ \A r \in Queue : Got(r)' = Got(r) /\ Listed(r)' = Listed(r) /\ Cache(r)' = Cache(r)
  /\ After(Rows(q), s, Rows(q)')
  /\ \A r \in Queue : r # q => stored'[r] = stored[r] /\ Rows(r)' = Rows(r)
  /\ stored'[q].slots = SlotsAfter(stored[q], s)
  /\ stored'[q].exists <=> stored[q].exists \/ s.do = "insert queue"

LEMMA ExecuteSends ==
  ASSUME Inv, Execute
  PROVE  \E q \in Queue, s \in GoodStatement : Sends(q, s)
<1>1. PICK q, s : q = work.queue /\ s = Head(work.steps)
  OBVIOUS
<1>2. /\ work \in [queue : Nat, steps : Seq(GoodStatement), ends : SUBSET (1 .. MaxOrders)]
      /\ work.steps # <<>> /\ q \in DOMAIN held /\ q \in Queue
      /\ DOMAIN stored = Queue /\ GoodStored(stored[q])
  BY <1>1 DEF Inv, IInv, InMemory, Execute, Idle
<1>3. /\ s \in GoodStatement /\ Rest(work.steps, s, Tail(work.steps))
      /\ DOMAIN work.steps \subseteq Nat /\ DOMAIN Tail(work.steps) \subseteq Nat
      /\ Tail(work.steps) = <<>> => \A k \in DOMAIN work.steps : k = 1
  <2>1. s \in GoodStatement
    BY <1>1, <1>2
  <2>2. work.steps \in Seq(GoodStatement)
    BY <1>2
  <2>3. QED BY <1>1, <1>2, <2>1, <2>2, TailRest
<1>4. work'.queue = q /\ work'.ends = work.ends /\ work'.steps = Tail(work.steps)
  <2>1. work' = [work EXCEPT !.steps = Tail(work.steps)]
    BY DEF Execute
  <2>2. QED BY <1>1, <1>2, <2>1
<1>5. /\ stored'[q] = Effect(stored[q], s)
      /\ \A r \in Queue : r # q => stored'[r] = stored[r]
      /\ held' = held
  BY <1>1, <1>2 DEF Execute
<1>6. EffectIs(stored[q], s, stored'[q])
  BY <1>2, <1>5, EffectParts
<1>7. \A r \in Queue : Got(r)' = Got(r)
  BY <1>2, <1>5 DEF Got
<1>8. \A r \in Queue : Listed(r)' = Listed(r) /\ Cache(r)' = Cache(r)
  BY <1>7 DEF Listed, Cache
<1>9. Rows(q)' = stored'[q].orders /\ Rows(q) = stored[q].orders
      /\ \A r \in Queue : r # q => Rows(r)' = Rows(r)
  BY <1>5 DEF Rows
<1>10. Sends(q, s)
  BY <1>1, <1>2, <1>3, <1>4, <1>5, <1>6, <1>7, <1>8, <1>9 DEF Sends, EffectIs
<1>11. QED BY <1>2, <1>3, <1>10

\* The statement puts nothing in a row that is not in the cache.
LEMMA SendsShown ==
  ASSUME Inv, GoneInv, NEW q, NEW s, Sends(q, s), Puts(s)
  PROVE  s.id \in Listed(q) /\ s.id \in DOMAIN Cache(q) /\ Cache(q)[s.id] = s.order /\ s.id \in Id
<1>1. 1 \in DOMAIN work.steps /\ work.steps[1] = s /\ work.queue = q /\ q \in Queue
  BY DEF Sends, Rest
<1>2. s.id \in Listed(q) /\ s.id \in DOMAIN Cache(q) /\ Cache(q)[s.id] = s.order
  BY <1>1 DEF GoneInv, PutsHeld
<1>3. QED BY <1>1, <1>2, GotParts DEF Inv

LEMMA ExecuteGone ==
  ASSUME Inv, GoneInv, NEW q, NEW s, Sends(q, s),
         given' = given, gone' = gone \cup (IF work'.steps = <<>> THEN work.ends ELSE {})
  PROVE  GoneInv'
<1>1. /\ q \in Queue /\ work.queue = q /\ work'.queue = q /\ work'.ends = work.ends
      /\ \A r \in Queue : Listed(r)' = Listed(r) /\ Cache(r)' = Cache(r)
      /\ \A r \in Queue : r # q => Rows(r)' = Rows(r)
  BY DEF Sends
<1>2. After(Rows(q), s, Rows(q)') /\ Rest(work.steps, s, work'.steps)
      /\ (work'.steps = <<>> => \A k \in DOMAIN work.steps : k = 1)
  BY DEF Sends
<1>3. \A r \in Queue : DOMAIN Rows(r) \subseteq Id
  BY GotParts DEF Inv
<1>4. ASSUME NEW r \in Queue, NEW i \in DOMAIN Rows(r)'
      PROVE  \/ /\ i \in DOMAIN Rows(r) /\ Rows(r)'[i] = Rows(r)[i]
                /\ r = q => ~(s.do = "delete order" /\ s.id = i)
             \/ /\ r = q /\ i \in Listed(q) /\ i \in DOMAIN Cache(q) /\ Rows(q)'[i] = Cache(q)[i]
  <2>1. CASE r # q
    BY <1>1, <1>4, <2>1
  <2>2. CASE r = q
    <3>1. CASE i \in DOMAIN Rows(q) /\ Rows(q)'[i] = Rows(q)[i] /\ ~(s.do = "delete order" /\ s.id = i)
      BY <2>2, <3>1
    <3>2. CASE Puts(s) /\ i = s.id /\ Rows(q)'[i] = s.order
      BY <2>2, <3>2, SendsShown
    <3>3. QED BY <1>2, <1>4, <2>2, <3>1, <3>2 DEF After
  <2>3. QED BY <2>1, <2>2
<1>5. ASSUME NEW r \in Queue, NEW i \in Id, NEW n, Shows(r, i, n)' PROVE Shows(r, i, n)
  BY <1>1, <1>4, <1>5 DEF Shows
<1>6. OneHome'
  BY <1>5 DEF GoneInv, OneHome
<1>7. WereGiven'
  <2>1. \A r \in Queue, i \in Id, n \in 1 .. MaxOrders : Shows(r, i, n)' => n <= given'
    BY <1>5 DEF GoneInv, WereGiven
  <2>2. \A n \in gone' \cup work'.ends : n <= given'
    BY <1>1 DEF GoneInv, WereGiven
  <2>3. QED BY <2>1, <2>2 DEF WereGiven
<1>8. PutsHeld'
  BY <1>1, <1>2 DEF GoneInv, PutsHeld, Rest
<1>9. ASSUME NEW n PROVE Unseen(n)' <=> Unseen(n)
  BY <1>1 DEF Unseen
<1>10. ASSUME NEW n \in gone, NEW r \in Queue, NEW i \in DOMAIN Rows(r)' PROVE Rows(r)'[i].order # n
  BY <1>4, <1>10 DEF GoneInv, GoneOver, Unseen
<1>11. ASSUME NEW n \in work.ends, NEW r \in Queue, NEW i \in DOMAIN Rows(r)', Rows(r)'[i].order = n
       PROVE  r = q /\ \E k \in DOMAIN work'.steps :
                          work'.steps[k].do = "delete order" /\ work'.steps[k].id = i
  <2>1. Unseen(n)
    BY DEF GoneInv, EndsOver
  <2>2. /\ i \in DOMAIN Rows(r) /\ Rows(r)[i].order = n
        /\ r = q => ~(s.do = "delete order" /\ s.id = i)
    BY <1>4, <1>11, <2>1 DEF Unseen
  <2>3. PICK k \in DOMAIN work.steps :
          r = q /\ work.steps[k].do = "delete order" /\ work.steps[k].id = i
    BY <1>1, <2>2 DEF GoneInv, EndsOver
  <2>4. k # 1
    BY <1>2, <2>2, <2>3 DEF Rest
  <2>5. k - 1 \in DOMAIN work'.steps /\ work'.steps[k - 1] = work.steps[k]
    BY <1>2, <2>4 DEF Rest
  <2>6. QED BY <2>3, <2>5
<1>12. EndsOver'
  <2>1. \A n \in work.ends : Unseen(n)'
    BY <1>9 DEF GoneInv, EndsOver
  <2>2. QED BY <1>1, <1>11, <2>1 DEF EndsOver
<1>13. GoneOver'
  <2>1. SUFFICES ASSUME NEW n \in gone'
                 PROVE  Unseen(n)' /\ \A r \in Queue : \A i \in DOMAIN Rows(r)' : Rows(r)'[i].order # n
    BY DEF GoneOver
  <2>2. CASE n \in gone
    BY <1>9, <1>10, <2>2 DEF GoneInv, GoneOver
  <2>3. CASE n \notin gone
    <3>1. n \in work.ends /\ work'.steps = <<>>
      BY <2>1, <2>3
    <3>2. DOMAIN work'.steps = {}
      BY <3>1, EmptyTable, Zenon
    <3>3. QED BY <1>9, <1>11, <3>1, <3>2 DEF GoneInv, EndsOver
  <2>4. QED BY <2>2, <2>3
<1>14. QED BY <1>6, <1>7, <1>8, <1>12, <1>13 DEF GoneInv

LEMMA ExecuteStore ==
  ASSUME Inv, GoneInv, StoreInv, NEW q, NEW s, Sends(q, s), held' = held, nextQueue' = nextQueue
  PROVE  StoreInv'
<1>1. /\ q \in Queue /\ q \in DOMAIN held /\ s \in GoodStatement /\ work.queue = q /\ work'.queue = q
      /\ \A r \in Queue : Got(r)' = Got(r) /\ Listed(r)' = Listed(r) /\ Cache(r)' = Cache(r)
      /\ \A r \in Queue : r # q => stored'[r] = stored[r] /\ Rows(r)' = Rows(r)
      /\ DOMAIN work.steps \subseteq Nat /\ DOMAIN work'.steps \subseteq Nat
  BY DEF Sends
<1>2. /\ After(Rows(q), s, Rows(q)') /\ Rest(work.steps, s, work'.steps)
      /\ stored'[q].slots = SlotsAfter(stored[q], s)
      /\ stored'[q].exists <=> stored[q].exists \/ s.do = "insert queue"
  BY DEF Sends
<1>3. \A r \in Queue : Settled(r)
  BY DEF StoreInv
<1>4. ASSUME NEW r \in Queue, r # q PROVE Settled(r)'
  <2>1. Steps(r) = <<>> /\ Steps(r)' = <<>>
    BY <1>1, <1>4 DEF Steps
  <2>2. /\ stored'[r] = stored[r] /\ Rows(r)' = Rows(r) /\ Got(r)' = Got(r)
        /\ Listed(r)' = Listed(r) /\ Cache(r)' = Cache(r)
    BY <1>1, <1>4
  <2>3. Settled(r)
    BY <1>3
  <2>4. SlotsSettled(r)' /\ RowsSettled(r)'
    BY <2>1, <2>2, <2>3 DEF Settled, SlotsSettled, RowsSettled, RowSettled
  <2>5. OnePerOrder(Steps(r)') /\ CanExecute(r, Steps(r))'
    BY <2>1, <2>2, <2>3 DEF Settled, CanExecute
  <2>6. (Born(r)' <=> Born(r)) /\ (Unborn(r)' <=> Unborn(r))
    BY <2>1, <2>2 DEF Born, ToBeBorn, Unborn
  <2>7. QED BY <2>3, <2>4, <2>5, <2>6 DEF Settled, OnePerOrder
<1> DEFINE w == work.steps
           t == work'.steps
<1>5. Steps(q) = w /\ Steps(q)' = t
  BY <1>1 DEF Steps
<1>6. SlotsSettled(q) /\ OnePerOrder(w) /\ CanExecute(q, w) /\ RowsSettled(q)
      /\ (~Born(q) => Unborn(q)) /\ (q >= nextQueue => ~Born(q))
  BY <1>1, <1>3, <1>5 DEF Settled
<1>7. SlotsSettled(q)'
  <2>1. CASE (\A k \in DOMAIN w : ~ForSlots(w[k])) /\ stored[q].slots = Got(q).slots
    <3>1. ~ForSlots(s) /\ \A k \in DOMAIN t : ~ForSlots(t[k])
      BY <1>2, <2>1 DEF Rest
    <3>2. stored'[q].slots = Got(q)'.slots
      BY <1>1, <1>2, <2>1, <3>1 DEF SlotsAfter, ForSlots
    <3>3. QED BY <1>5, <3>1, <3>2 DEF SlotsSettled
  <2>2. ASSUME NEW k \in DOMAIN w, w[k].do = "insert slots", w[k].slots = Got(q).slots,
               \A j \in DOMAIN w : j > k => ~ForSlots(w[j])
        PROVE  SlotsSettled(q)'
    <3>1. CASE k = 1
      <4>1. s.do = "insert slots" /\ s.slots = Got(q).slots
        BY <1>2, <2>2, <3>1 DEF Rest
      <4>2. stored'[q].slots = Got(q)'.slots
        BY <1>1, <1>2, <4>1 DEF SlotsAfter
      <4>3. ASSUME NEW j \in DOMAIN t PROVE ~ForSlots(t[j])
        <5>1. j + 1 \in DOMAIN w /\ t[j] = w[j + 1] /\ j + 1 # 1 /\ j \in Nat
          BY <1>1, <1>2 DEF Rest
        <5>2. j + 1 > k
          BY <3>1, <5>1
        <5>3. QED BY <2>2, <5>1, <5>2
      <4>4. QED BY <1>5, <4>2, <4>3 DEF SlotsSettled
    <3>2. CASE k # 1
      <4>1. k - 1 \in DOMAIN t /\ t[k - 1] = w[k] /\ k \in Nat
        BY <1>1, <1>2, <3>2 DEF Rest
      <4>2. ASSUME NEW j \in DOMAIN t, j > k - 1 PROVE ~ForSlots(t[j])
        <5>1. j + 1 \in DOMAIN w /\ t[j] = w[j + 1] /\ j \in Nat
          BY <1>1, <1>2 DEF Rest
        <5>2. j + 1 > k
          BY <4>1, <4>2, <5>1
        <5>3. QED BY <2>2, <5>1, <5>2
      <4>3. t[k - 1].do = "insert slots" /\ t[k - 1].slots = Got(q)'.slots
        BY <1>1, <2>2, <4>1
      <4>4. QED BY <1>5, <4>1, <4>2, <4>3 DEF SlotsSettled
    <3>3. QED BY <3>1, <3>2
  <2>3. QED BY <1>5, <1>6, <2>1, <2>2 DEF SlotsSettled
<1>8. OnePerOrder(t)
  <2>1. SUFFICES ASSUME NEW j \in DOMAIN t, NEW k \in DOMAIN t, OfOrder(t[j]), OfOrder(t[k]), t[j].id = t[k].id
                 PROVE  j = k
    BY DEF OnePerOrder
  <2>2. /\ j + 1 \in DOMAIN w /\ t[j] = w[j + 1] /\ k + 1 \in DOMAIN w /\ t[k] = w[k + 1]
        /\ j \in Nat /\ k \in Nat
    BY <1>1, <1>2 DEF Rest
  <2>3. j + 1 = k + 1
    BY <1>6, <2>1, <2>2 DEF OnePerOrder
  <2>4. QED BY <2>2, <2>3
<1>9. ASSUME NEW k \in DOMAIN t, OfOrder(t[k]), OfOrder(s) PROVE t[k].id # s.id
  BY <1>2, <1>6, <1>9 DEF Rest, OnePerOrder
<1>10. ASSUME NEW i, ~(OfOrder(s) /\ s.id = i)
       PROVE  /\ i \in DOMAIN Rows(q)' <=> i \in DOMAIN Rows(q)
              /\ i \in DOMAIN Rows(q) => Rows(q)'[i] = Rows(q)[i]
  BY <1>2, <1>10 DEF After, Puts, OfOrder
<1>11. CanExecute(q, Steps(q))'
  <2>1. SUFFICES ASSUME NEW k \in DOMAIN t
                 PROVE  /\ t[k].do = "insert order" => t[k].id \notin DOMAIN Rows(q)'
                        /\ t[k].do = "update order" => t[k].id \in DOMAIN Rows(q)'
                        /\ t[k].do = "delete order" => t[k].id \notin Listed(q)'
    BY <1>5 DEF CanExecute
  <2>2. k + 1 \in DOMAIN w /\ t[k] = w[k + 1]
    BY <1>2 DEF Rest
  <2>3. /\ t[k].do = "insert order" => t[k].id \notin DOMAIN Rows(q)
        /\ t[k].do = "update order" => t[k].id \in DOMAIN Rows(q)
        /\ t[k].do = "delete order" => t[k].id \notin Listed(q)
    BY <1>6, <2>2 DEF CanExecute
  <2>4. OfOrder(t[k]) => (t[k].id \in DOMAIN Rows(q)' <=> t[k].id \in DOMAIN Rows(q))
    BY <1>9, <1>10
  <2>5. QED BY <1>1, <2>3, <2>4 DEF OfOrder
<1>12. ASSUME NEW i \in Id, ~Pending(t, i) PROVE RowSettled(q, i)'
  <2>1. CASE OfOrder(s) /\ s.id = i
    <3>1. 1 \in DOMAIN w /\ w[1] = s
      BY <1>2 DEF Rest
    <3>2. CASE s.do = "delete order"
      <4>1. i \notin Listed(q)
        BY <1>6, <2>1, <3>1, <3>2 DEF CanExecute
      <4>2. i \notin DOMAIN Rows(q)'
        BY <1>2, <2>1, <3>2 DEF After, Puts
      <4>3. QED BY <1>1, <4>1, <4>2 DEF RowSettled
    <3>3. CASE Puts(s)
      <4>1. i \in Listed(q) /\ Cache(q)[i] = s.order
        BY <2>1, <3>3, SendsShown
      <4>2. i \in DOMAIN Rows(q)' /\ Rows(q)'[i] = s.order
        BY <1>2, <1>6, <2>1, <3>1, <3>3 DEF After, Puts, CanExecute
      <4>3. QED BY <1>1, <4>1, <4>2 DEF RowSettled
    <3>4. QED BY <2>1, <3>2, <3>3 DEF OfOrder, Puts
  <2>2. CASE ~(OfOrder(s) /\ s.id = i)
    <3>1. ~Pending(w, i)
      <4>1. SUFFICES ASSUME NEW k \in DOMAIN w, OfOrder(w[k]), w[k].id = i PROVE FALSE
        BY DEF Pending
      <4>2. k # 1
        BY <1>2, <2>2, <4>1 DEF Rest
      <4>3. k - 1 \in DOMAIN t /\ t[k - 1] = w[k]
        BY <1>2, <4>2 DEF Rest
      <4>4. QED BY <1>12, <4>1, <4>3 DEF Pending
    <3>2. RowSettled(q, i)
      BY <1>5, <1>6, <3>1 DEF RowsSettled
    <3>3. QED BY <1>1, <1>10, <2>2, <3>2 DEF RowSettled
  <2>3. QED BY <2>1, <2>2
<1>13. RowsSettled(q)'
  BY <1>5, <1>12 DEF RowsSettled
<1>14. Born(q) /\ Born(q)'
  <2>1. Born(q)
    BY <1>1, <1>6 DEF Unborn
  <2>2. CASE stored[q].exists
    BY <1>2, <2>1, <2>2 DEF Born
  <2>3. ASSUME NEW k \in DOMAIN w, w[k].do = "insert queue" PROVE Born(q)'
    <3>1. CASE k = 1
      BY <1>2, <2>3, <3>1 DEF Rest, Born
    <3>2. CASE k # 1
      <4>1. k - 1 \in DOMAIN t /\ t[k - 1].do = "insert queue"
        BY <1>2, <2>3, <3>2 DEF Rest
      <4>2. QED BY <1>5, <4>1 DEF Born, ToBeBorn
    <3>3. QED BY <3>1, <3>2
  <2>4. QED BY <1>5, <2>1, <2>2, <2>3 DEF Born, ToBeBorn
<1>15. Settled(q)'
  <2>1. OnePerOrder(Steps(q))'
    BY <1>5, <1>8 DEF OnePerOrder
  <2>2. QED BY <1>6, <1>7, <1>11, <1>13, <1>14, <2>1 DEF Settled
<1>16. QED BY <1>4, <1>15 DEF StoreInv

LEMMA ExecuteInv ==
  ASSUME Inv, IInv', Execute
  PROVE  Inv'
<1>1. PICK q, s : Sends(q, s)
  BY ExecuteSends
<1>2. held' = held /\ nextQueue' = nextQueue /\ given' = given /\ trouble' = trouble
  BY DEF Execute
<1>3. gone' = gone \cup (IF work'.steps = <<>> THEN work.ends ELSE {})
  <2>1. work' = [work EXCEPT !.steps = Tail(work.steps)]
        /\ work \in [queue : Nat, steps : Seq(GoodStatement), ends : SUBSET (1 .. MaxOrders)]
    BY DEF Execute, Inv, IInv
  <2>2. work'.steps = Tail(work.steps)
    BY <2>1
  <2>3. QED BY <2>2 DEF Execute, Ended
<1>4. InMemory'
  BY <1>1, <1>2 DEF Sends, InMemory
<1>5. trouble # "error" => GoneInv'
  BY <1>1, <1>2, <1>3, ExecuteGone DEF Inv
<1>6. trouble = "none" => StoreInv'
  BY <1>1, <1>2, ExecuteStore DEF Inv
<1>7. QED BY <1>2, <1>4, <1>5, <1>6 DEF Inv

LEMMA ErrorInv ==
  ASSUME Inv, IInv', Error
  PROVE  Inv'
<1>1. trouble' = "error" /\ held' = held /\ ~Idle
  BY DEF Error
<1>2. work'.queue = work.queue
  <2> DEFINE left == IF OfOrder(Head(work.steps)) THEN Tail(work.steps) ELSE <<>>
  <2>1. work' = [work EXCEPT !.steps = left]
        /\ work \in [queue : Nat, steps : Seq(GoodStatement), ends : SUBSET (1 .. MaxOrders)]
    BY DEF Error, Inv, IInv
  <2> HIDE DEF left
  <2>2. QED BY <2>1
<1>3. InMemory'
  BY <1>1, <1>2 DEF Inv, InMemory
<1>4. QED BY <1>1, <1>3 DEF Inv

\* A restart forgets what was held: the queues are what the tables hold.
LEMMA RestartHeld ==
  ASSUME IInv, Restart
  PROVE  /\ work'.steps = <<>> /\ work'.ends = {} /\ DOMAIN held' = {} /\ DOMAIN <<>> = {}
         /\ \A q \in Queue : /\ Got(q)'.slots = stored[q].slots /\ Listed(q)' = ToSet(stored[q].slots)
                             /\ DOMAIN Cache(q)' = {} /\ Rows(q)' = Rows(q) /\ Steps(q)' = <<>>
<1>1. held' = <<>> /\ work' = [work EXCEPT !.steps = <<>>, !.ends = {}] /\ stored' = stored
  BY DEF Restart
<1>2. DOMAIN <<>> = {}
  BY EmptyTable
<1>3. work'.steps = <<>> /\ work'.ends = {}
  <2>1. work \in [queue : Nat, steps : Seq(GoodStatement), ends : SUBSET (1 .. MaxOrders)]
    BY DEF IInv
  <2>2. PICK e, n : e = <<>> /\ n = {}
    OBVIOUS
  <2>3. work' = [work EXCEPT !.steps = e, !.ends = n]
    BY <1>1, <2>2
  <2>4. work'.steps = e /\ work'.ends = n
    BY <2>1, <2>3
  <2>5. QED BY <2>2, <2>4
<1>4. ASSUME NEW q \in Queue
      PROVE  /\ Got(q)'.slots = stored[q].slots /\ Listed(q)' = ToSet(stored[q].slots)
             /\ DOMAIN Cache(q)' = {} /\ Rows(q)' = Rows(q) /\ Steps(q)' = <<>>
  <2>1. q \notin DOMAIN held'
    BY <1>1, <1>2
  <2>2. Got(q)' = Retrieved(stored[q])
    BY <1>1, <2>1 DEF Got
  <2>3. Got(q)'.slots = stored[q].slots /\ Got(q)'.cache = <<>>
    BY <2>2 DEF Retrieved
  <2>4. QED BY <1>1, <1>2, <1>3, <2>3 DEF Listed, Cache, Rows, Steps
<1>5. QED BY <1>1, <1>2, <1>3, <1>4

LEMMA RestartInv ==
  ASSUME Inv, IInv', Restart
  PROVE  Inv'
<1>1. IInv /\ given' = given /\ gone' = gone /\ stored' = stored
  BY DEF Restart, Inv
<1>2. /\ work'.steps = <<>> /\ work'.ends = {} /\ DOMAIN held' = {} /\ DOMAIN <<>> = {}
      /\ \A q \in Queue : /\ Got(q)'.slots = stored[q].slots /\ Listed(q)' = ToSet(stored[q].slots)
                          /\ DOMAIN Cache(q)' = {} /\ Rows(q)' = Rows(q) /\ Steps(q)' = <<>>
  BY <1>1, RestartHeld
<1>3. InMemory'
  BY <1>2 DEF InMemory, Idle
<1>4. ASSUME GoneInv PROVE GoneInv'
  <2>1. \A r \in Queue, i \in Id : \A n : Shows(r, i, n)' => Shows(r, i, n)
    BY <1>2 DEF Shows
  <2>2. OneHome'
    BY <1>4, <2>1 DEF GoneInv, OneHome
  <2>3. WereGiven'
    <3>1. \A r \in Queue, i \in Id, n \in 1 .. MaxOrders : Shows(r, i, n)' => n <= given'
      BY <1>1, <1>4, <2>1 DEF GoneInv, WereGiven
    <3>2. \A n \in gone' \cup work'.ends : n <= given'
      BY <1>1, <1>2, <1>4 DEF GoneInv, WereGiven
    <3>3. QED BY <3>1, <3>2 DEF WereGiven
  <2>4. PutsHeld'
    BY <1>2 DEF PutsHeld
  <2>5. GoneOver'
    BY <1>1, <1>2, <1>4 DEF GoneInv, GoneOver, Unseen
  <2>6. EndsOver'
    BY <1>2 DEF EndsOver
  <2>7. QED BY <2>2, <2>3, <2>4, <2>5, <2>6 DEF GoneInv
<1>5. ASSUME trouble' = "none" PROVE Idle /\ trouble = "none"
  <2>1. trouble' = IF Idle \/ trouble = "error" THEN trouble ELSE "crash"
    BY DEF Restart
  <2>2. QED BY <1>5, <2>1
<1>6. ASSUME trouble' = "none" PROVE StoreInv'
  <2>1. SUFFICES ASSUME NEW q \in Queue PROVE Settled(q)'
    BY DEF StoreInv
  <2>2. Quiet(q) /\ DOMAIN Rows(q) = Listed(q) /\ stored[q].slots = Got(q).slots
    <3>1. Idle /\ trouble = "none"
      BY <1>5, <1>6
    <3>2. Quiet(q)
      BY <3>1, IdleQuiet DEF Inv
    <3>3. QED BY <3>1, <3>2, QuietRows
  <2>3. /\ Got(q)'.slots = stored[q].slots /\ Listed(q)' = ToSet(stored[q].slots)
        /\ DOMAIN Cache(q)' = {} /\ Rows(q)' = Rows(q) /\ DOMAIN Steps(q)' = {}
    BY <1>2
  <2>4. SlotsSettled(q)'
    BY <1>1, <2>3 DEF SlotsSettled
  <2>5. OnePerOrder(Steps(q))' /\ CanExecute(q, Steps(q))'
    BY <2>3 DEF OnePerOrder, CanExecute
  <2>6. RowsSettled(q)'
    <3>1. Listed(q)' = DOMAIN Rows(q)
      BY <2>2, <2>3 DEF Listed
    <3>2. QED BY <2>3, <3>1 DEF RowsSettled, RowSettled
  <2>7. Born(q)' <=> stored[q].exists
    BY <1>1, <2>3 DEF Born, ToBeBorn
  <2>8. ~stored[q].exists => Unborn(q)'
    BY <1>1, <1>2, <2>2, <2>3 DEF Quiet, Unborn
  <2>9. ASSUME stored[q].exists PROVE ~(q >= nextQueue')
    <3> DEFINE S == {r \in Queue : stored[r].exists} \cup {0}
    <3>1. S \subseteq Nat /\ S # {} /\ MaxQueue \in Nat /\ (\A x \in S : x <= MaxQueue) /\ q \in S
      BY <2>9, ConstantsAssumption DEF Queue
    <3>2. nextQueue' = Max(S) + 1
      BY DEF Restart
    <3> HIDE DEF S
    <3>3. Max(S) \in S /\ q <= Max(S)
      BY <3>1, MaxBounded
    <3>4. PICK m \in Nat : m = Max(S)
      BY <3>1, <3>3
    <3>5. q \in Nat
      BY <3>1
    <3>6. QED BY <3>2, <3>3, <3>4, <3>5
  <2>10. QED BY <2>4, <2>5, <2>6, <2>7, <2>8, <2>9 DEF Settled
<1>7. trouble' # "error" => trouble # "error"
  BY DEF Restart
<1>8. QED BY <1>3, <1>4, <1>6, <1>7 DEF Inv

LEMMA InitInv ==
  ASSUME Init
  PROVE  Inv
<1>1. IInv
  BY InitKeeps
<1>2. /\ work.steps = <<>> /\ work.ends = {} /\ gone = {} /\ DOMAIN held = {} /\ DOMAIN <<>> = {}
  BY EmptyTable DEF Init
<1>3. ASSUME NEW q \in Queue
      PROVE  /\ ~stored[q].exists /\ stored[q].slots = <<>> /\ DOMAIN Rows(q) = {} /\ Got(q).slots = <<>>
             /\ Listed(q) = {} /\ DOMAIN Cache(q) = {} /\ DOMAIN Steps(q) = {}
  <2>1. ~stored[q].exists /\ stored[q].slots = <<>> /\ stored[q].orders = <<>>
    BY DEF Init
  <2>2. Got(q).slots = <<>> /\ Got(q).cache = <<>>
    BY <1>2, <2>1 DEF Got, Retrieved
  <2>3. ToSet(<<>>) = {}
    BY EmptyList
  <2>4. QED BY <1>2, <2>1, <2>2, <2>3 DEF Rows, Listed, Cache, Steps
<1>4. InMemory
  BY <1>2 DEF InMemory, Idle
<1>5. GoneInv
  <2>1. \A q \in Queue, i \in Id : \A n : ~Shows(q, i, n)
    BY <1>3 DEF Shows
  <2>2. OneHome /\ WereGiven
    BY <1>2, <2>1 DEF OneHome, WereGiven
  <2>3. PutsHeld /\ GoneOver /\ EndsOver
    BY <1>2 DEF PutsHeld, GoneOver, EndsOver
  <2>4. QED BY <2>2, <2>3 DEF GoneInv
<1>6. StoreInv
  <2>1. SUFFICES ASSUME NEW q \in Queue PROVE Settled(q)
    BY DEF StoreInv
  <2>2. SlotsSettled(q) /\ OnePerOrder(Steps(q)) /\ CanExecute(q, Steps(q)) /\ RowsSettled(q)
    BY <1>3 DEF SlotsSettled, OnePerOrder, CanExecute, RowsSettled, RowSettled
  <2>3. ~Born(q) /\ Unborn(q)
    BY <1>2, <1>3 DEF Born, ToBeBorn, Unborn
  <2>4. QED BY <2>2, <2>3 DEF Settled
<1>7. QED BY <1>1, <1>4, <1>5, <1>6 DEF Inv

LEMMA StutterInv ==
  ASSUME Inv, UNCHANGED vars
  PROVE  InMemory' /\ (trouble' # "error" => GoneInv') /\ (trouble' = "none" => StoreInv')
<1>1. /\ held' = held /\ nextQueue' = nextQueue /\ stored' = stored /\ work' = work
      /\ given' = given /\ gone' = gone /\ trouble' = trouble
  BY DEF vars
<1>2. \A q : Got(q)' = Got(q)
  BY <1>1 DEF Got
<1>3. \A q : Listed(q)' = Listed(q) /\ Cache(q)' = Cache(q) /\ Rows(q)' = Rows(q) /\ Steps(q)' = Steps(q)
  BY <1>1, <1>2 DEF Listed, Cache, Rows, Steps
<1>4. InMemory'
  BY <1>1 DEF InMemory, Idle, Inv
<1>5. GoneInv => GoneInv'
  <2>1. \A n : Unseen(n)' <=> Unseen(n)
    BY <1>3 DEF Unseen
  <2>2. \A q, i, n : Shows(q, i, n)' <=> Shows(q, i, n)
    BY <1>3 DEF Shows
  <2>3. (OneHome => OneHome') /\ (WereGiven => WereGiven')
    BY <1>1, <2>2 DEF OneHome, WereGiven
  <2>4. PutsHeld => PutsHeld'
    BY <1>1, <1>3 DEF PutsHeld
  <2>5. GoneOver => GoneOver'
    BY <1>1, <1>3, <2>1 DEF GoneOver
  <2>6. ASSUME EndsOver PROVE EndsOver'
    <3>1. \A n \in work'.ends : Unseen(n)'
      BY <1>1, <2>1, <2>6 DEF EndsOver
    <3>2. ASSUME NEW n \in work'.ends, NEW q \in Queue, NEW i \in DOMAIN Rows(q)', Rows(q)'[i].order = n
          PROVE  /\ q = work'.queue
                 /\ \E k \in DOMAIN work'.steps :
                      work'.steps[k].do = "delete order" /\ work'.steps[k].id = i
      <4>1. n \in work.ends /\ i \in DOMAIN Rows(q) /\ Rows(q)[i].order = n
        BY <1>1, <1>3, <3>2
      <4>2. QED BY <1>1, <2>6, <4>1 DEF EndsOver
    <3>3. QED BY <3>1, <3>2 DEF EndsOver
  <2>7. QED BY <2>3, <2>4, <2>5, <2>6 DEF GoneInv
<1>6. StoreInv => StoreInv'
  <2>1. SUFFICES ASSUME NEW q \in Queue, Settled(q) PROVE Settled(q)'
    BY DEF StoreInv
  <2>2. SlotsSettled(q)'
    BY <1>1, <1>2, <1>3, <2>1 DEF Settled, SlotsSettled
  <2>3. CanExecute(q, Steps(q))' /\ RowsSettled(q)'
    BY <1>3, <2>1 DEF Settled, CanExecute, RowsSettled, RowSettled
  <2>4. OnePerOrder(Steps(q))'
    BY <1>3, <2>1 DEF Settled, OnePerOrder
  <2>5. (Born(q)' <=> Born(q)) /\ (Unborn(q)' <=> Unborn(q))
    BY <1>1, <1>3 DEF Born, ToBeBorn, Unborn
  <2>6. QED BY <1>1, <2>1, <2>2, <2>3, <2>4, <2>5 DEF Settled
<1>7. QED BY <1>1, <1>4, <1>5, <1>6 DEF Inv

LEMMA NextInv == Inv /\ [Next]_vars => Inv'
<1> SUFFICES ASSUME Inv, [Next]_vars PROVE Inv'
  OBVIOUS
<1>1. IInv'
  BY NextKeeps DEF Inv
<1>2. ASSUME NEW p \in Player, AddOrderQueue(p) PROVE Inv'
  BY <1>1, <1>2, AddOrderQueueInv
<1>3. ASSUME NEW q \in Queue, DoFirstOrder(q) PROVE Inv'
  BY <1>1, <1>3, DoFirstOrderInv
<1>4. ASSUME NEW q \in Queue, RemoveAllOrders(q) PROVE Inv'
  BY <1>1, <1>4, RemoveAllOrdersInv
<1>5. ASSUME NEW q \in Queue, NEW p \in Player, AddOrder(q, p) PROVE Inv'
  BY <1>1, <1>5, AddOrderInv
<1>6. ASSUME NEW q \in Queue, NEW p \in Player, RemoveOrder(q, p) PROVE Inv'
  BY <1>1, <1>6, RemoveOrderInv
<1>7. ASSUME NEW q \in Queue, NEW p \in Player, GetOrder(q, p) PROVE Inv'
  BY <1>1, <1>7, GetOrderInv
<1>8. ASSUME NEW q \in Queue, NEW p \in Player, Colonise(q, p) PROVE Inv'
  BY <1>1, <1>8, ColoniseInv
<1>9. CASE Execute
  BY <1>1, <1>9, ExecuteInv
<1>10. CASE Error
  BY <1>1, <1>10, ErrorInv
<1>11. CASE Restart
  BY <1>1, <1>11, RestartInv
<1>12. CASE UNCHANGED vars
  BY <1>1, <1>12, StutterInv DEF Inv
<1>13. QED
  BY <1>2, <1>3, <1>4, <1>5, <1>6, <1>7, <1>8, <1>9, <1>10, <1>11, <1>12 DEF Next

\* What the invariant says of the numbers of a queue's orders, and of its rows
LEMMA InvSays == Inv => GoneStaysGone /\ StoredAsHeld
<1> SUFFICES ASSUME Inv PROVE GoneStaysGone /\ StoredAsHeld
  OBVIOUS
<1>1. ASSUME trouble # "error", NEW q \in Queue PROVE Numbers(q) \cap gone = {}
  <2>1. \A id \in Listed(q) : HasOrder(q, id) => OrderOf(q, id).order \notin gone
    BY <1>1, ListedNotGone DEF Inv
  <2>2. QED BY <2>1 DEF Numbers, Listed
<1>2. ASSUME trouble = "none", Idle, NEW q \in Queue
      PROVE  /\ stored[q].slots = Got(q).slots
             /\ DOMAIN stored[q].orders = ToSet(Got(q).slots)
             /\ \A id \in DOMAIN stored[q].orders : OrderOf(q, id) = stored[q].orders[id]
  BY <1>2, QuietRows DEF Rows, Listed
<1>3. QED BY <1>1, <1>2 DEF GoneStaysGone, StoredAsHeld

-----------------------------------------------------------------------------
(* The lists of orders *)

\* What queue q lists when it has every order of its list.
Listing(q) == [n \in 1 .. Len(Got(q).slots) |-> OrderOf(q, Got(q).slots[n])]

Lists == [q \in Queue |-> Listing(q)]

LEMMA CountUpto == ASSUME NEW n \in Nat PROVE Cardinality(1 .. n) = n
<1>1. 1 \in Int /\ n \in Int
  OBVIOUS
<1>2. Cardinality(1 .. n) = IF 1 > n THEN 0 ELSE n - 1 + 1
  BY <1>1, FS_Interval
<1>3. QED BY <1>2

\* A list with all its orders is that of its slots.
LEMMA ListingOfAll ==
  ASSUME NEW q, Got(q).slots \in Seq(Id), \A id \in Listed(q) : HasOrder(q, id)
  PROVE  ListOf(q) = Listing(q)
<1> DEFINE slots == Got(q).slots
           Place(n) == CHOOSE i \in There(q) : Cardinality({j \in There(q) : j <= i}) = n
<1>1. Len(slots) \in Nat /\ DOMAIN slots = 1 .. Len(slots)
  OBVIOUS
<1>2. There(q) = 1 .. Len(slots)
  BY <1>1 DEF There, Listed, ToSet
<1> HIDE DEF slots
<1>3. \A i \in 1 .. Len(slots) : Cardinality({j \in There(q) : j <= i}) = i
  <2> TAKE i \in 1 .. Len(slots)
  <2>1. {j \in There(q) : j <= i} = 1 .. i /\ i \in Nat
    BY <1>1, <1>2
  <2>2. QED BY <2>1, CountUpto
<1>4. \A n \in 1 .. Len(slots) : Place(n) = n
  BY <1>2, <1>3
<1>5. Cardinality(There(q)) = Len(slots)
  BY <1>1, <1>2, CountUpto
<1>6. ListOf(q) = [n \in 1 .. Len(slots) |-> OrderOf(q, slots[Place(n)])]
  BY <1>5 DEF ListOf, slots
<1> HIDE DEF Place
<1>7. QED BY <1>4, <1>6 DEF Listing, slots

\* Nothing is missing while nothing has gone wrong.
LEMMA AllThere ==
  ASSUME Inv, trouble = "none", NEW q \in Queue, NEW id \in Listed(q)
  PROVE  HasOrder(q, id)
<1>1. Settled(q) /\ id \in Id
  BY GotParts DEF Inv, StoreInv
<1>2. ASSUME Pending(Steps(q), id) PROVE id \in DOMAIN Cache(q) \cup DOMAIN Rows(q)
  <2>1. PICK k \in DOMAIN Steps(q) : OfOrder(Steps(q)[k]) /\ Steps(q)[k].id = id
    BY <1>2 DEF Pending
  <2>2. q = work.queue /\ Steps(q) = work.steps
    <3>1. CASE q # work.queue
      <4>1. Steps(q) = <<>> /\ DOMAIN <<>> = {}
        BY <3>1, EmptyTable DEF Steps
      <4>2. QED BY <2>1, <4>1
    <3>2. QED BY <3>1 DEF Steps
  <2>3. Steps(q)[k].do # "delete order"
    BY <1>1, <2>1 DEF Settled, CanExecute
  <2>4. Puts(work.steps[k])
    BY <2>1, <2>2, <2>3 DEF Puts, OfOrder
  <2>5. QED BY <2>1, <2>2, <2>4 DEF Inv, GoneInv, PutsHeld
<1>3. ASSUME ~ Pending(Steps(q), id) PROVE id \in DOMAIN Rows(q)
  BY <1>1, <1>3 DEF Settled, RowsSettled, RowSettled
<1>4. QED BY <1>2, <1>3 DEF HasOrder, Cache, Rows

\* The lists of the promise are those of the slots.
LEMMA ListsOfSlots ==
  Inv /\ trouble = "none" =>
    /\ [q \in Queue |-> ListOf(q)] = Lists
    /\ \A q \in Queue : \A id \in Listed(q) : HasOrder(q, id)
    /\ \A q \in Queue : Listing(q) \in Seq(Order)
<1> SUFFICES ASSUME Inv, trouble = "none"
             PROVE  /\ [q \in Queue |-> ListOf(q)] = Lists
                    /\ \A q \in Queue : \A id \in Listed(q) : HasOrder(q, id)
                    /\ \A q \in Queue : Listing(q) \in Seq(Order)
  OBVIOUS
<1>1. \A q \in Queue : \A id \in Listed(q) : HasOrder(q, id)
  BY AllThere
<1>2. ASSUME NEW q \in Queue PROVE ListOf(q) = Listing(q) /\ Listing(q) \in Seq(Order)
  <2>1. Got(q).slots \in Seq(Id)
    BY GotParts DEF Inv
  <2>2. ListOf(q) = Listing(q)
    BY <1>1, <2>1, ListingOfAll
  <2>3. ASSUME NEW n \in 1 .. Len(Got(q).slots) PROVE OrderOf(q, Got(q).slots[n]) \in Order
    <3>1. Got(q).slots[n] \in Listed(q)
      BY <2>1, <2>3 DEF Listed, ToSet
    <3>2. QED BY <1>1, <3>1, OrderOfType DEF Inv
  <2>4. Len(Got(q).slots) \in Nat
    BY <2>1
  <2>5. QED BY <2>2, <2>3, <2>4 DEF Listing
<1>3. QED BY <1>1, <1>2 DEF Lists

LEMMA ListsOfSlotsNext ==
  (Inv /\ trouble = "none" => [q \in Queue |-> ListOf(q)] = Lists)'
<1>1. Inv /\ trouble = "none" => [q \in Queue |-> ListOf(q)] = Lists
  BY ListsOfSlots
<1>2. QED BY <1>1, PTL

-----------------------------------------------------------------------------
(* The operations on the lists *)

\* The lists with that of q changed
Relisted(q, l) == Lists' = [Lists EXCEPT ![q] = l]

\* What queue q lists once an operation has made oq of it
Made(q, oq) ==
  [n \in 1 .. Len(oq.slots) |->
     IF oq.slots[n] \in DOMAIN oq.cache THEN oq.cache[oq.slots[n]] ELSE Rows(q)[oq.slots[n]]]

LEMMA ChangeLists ==
  ASSUME NEW q \in Queue, NEW oq, NEW steps, NEW ends, Change(q, oq, steps, ends), stored' = stored
  PROVE  Relisted(q, Made(q, oq))
<1>1. Makes(q, oq, steps, ends)
  BY ChangeMakes
<1>2. Listing(q)' = Made(q, oq)
  <2>1. Got(q)' = oq /\ stored[q]'.orders = Rows(q)
    BY <1>1 DEF Makes, Rows
  <2>2. QED BY <2>1 DEF Listing, OrderOf, Made
<1>3. ASSUME NEW r \in Queue, r # q PROVE Listing(r)' = Listing(r)
  <2>1. Got(r)' = Got(r)
    BY <1>1, <1>3 DEF Makes
  <2>2. QED BY <2>1 DEF Listing, OrderOf
<1>4. QED BY <1>2, <1>3 DEF Relisted, Lists

\* An operation that leaves each order that it lists
LEMMA KeptMade ==
  ASSUME NEW q, NEW oq, oq.slots \in Seq(Id),
         \A id \in ToSet(oq.slots) : id \in DOMAIN Cache(q) => id \in DOMAIN oq.cache,
         \A id \in ToSet(oq.slots) : id \in DOMAIN oq.cache => oq.cache[id] = OrderOf(q, id)
  PROVE  Made(q, oq) = [n \in 1 .. Len(oq.slots) |-> OrderOf(q, oq.slots[n])]
<1>1. ASSUME NEW n \in 1 .. Len(oq.slots)
      PROVE  (IF oq.slots[n] \in DOMAIN oq.cache THEN oq.cache[oq.slots[n]] ELSE Rows(q)[oq.slots[n]])
               = OrderOf(q, oq.slots[n])
  <2>1. oq.slots[n] \in ToSet(oq.slots)
    BY <1>1 DEF ToSet
  <2>2. QED BY <2>1 DEF OrderOf, Cache, Rows
<1>2. QED BY <1>1 DEF Made

\* What is given to OrderList, as the operations are mapped to it
LEMMA NothingListed ==
  ASSUME NEW q \in Queue, NEW oq, oq.slots = Got(q).slots, Relisted(q, Made(q, oq)),
         Made(q, oq) = [n \in 1 .. Len(oq.slots) |-> OrderOf(q, oq.slots[n])]
  PROVE  Lists' = Lists
<1>1. Made(q, oq) = Lists[q]
  BY DEF Lists, Listing
<1>2. QED BY <1>1 DEF Relisted, Lists

LEMMA ListedWithout ==
  ASSUME NEW q \in Queue, Listing(q) \in Seq(Order), Got(q).slots \in Seq(Id), NEW pos \in 1 .. Len(Got(q).slots)
  PROVE  /\ pos \in 1 .. Len(Listing(q))
         /\ RemoveAt(Listing(q), pos) =
              [n \in 1 .. Len(RemoveAt(Got(q).slots, pos)) |-> OrderOf(q, RemoveAt(Got(q).slots, pos)[n])]
<1> DEFINE slots == Got(q).slots
           l == Listing(q)
<1>1. Len(slots) \in Nat /\ Len(l) = Len(slots) /\ \A n \in 1 .. Len(slots) : l[n] = OrderOf(q, slots[n])
  BY DEF Listing
<1> HIDE DEF slots, l
<1>2. /\ RemoveAt(slots, pos) \in Seq(Id)
      /\ Len(RemoveAt(slots, pos)) = Len(slots) - 1
      /\ \A i \in 1 .. Len(slots) - 1 : RemoveAt(slots, pos)[i] = IF i < pos THEN slots[i] ELSE slots[i + 1]
  BY RemoveAtProperties DEF slots
<1>3. /\ RemoveAt(l, pos) \in Seq(Order)
      /\ Len(RemoveAt(l, pos)) = Len(l) - 1
      /\ \A i \in 1 .. Len(l) - 1 : RemoveAt(l, pos)[i] = IF i < pos THEN l[i] ELSE l[i + 1]
  BY <1>1, RemoveAtProperties DEF slots, l
<1>4. pos \in 1 .. Len(slots)
  BY DEF slots
<1>5. ASSUME NEW n \in 1 .. Len(slots) - 1
      PROVE  RemoveAt(l, pos)[n] = OrderOf(q, RemoveAt(slots, pos)[n])
  <2>1. n \in 1 .. Len(slots) /\ n + 1 \in 1 .. Len(slots)
    BY <1>1, <1>5
  <2>2. CASE n < pos
    BY <1>1, <1>2, <1>3, <2>1, <2>2
  <2>3. CASE ~ (n < pos)
    BY <1>1, <1>2, <1>3, <2>1, <2>3
  <2>4. QED BY <2>2, <2>3
<1>6. RemoveAt(l, pos) = [n \in 1 .. Len(slots) - 1 |-> RemoveAt(l, pos)[n]]
  BY <1>1, <1>3
<1>7. QED BY <1>1, <1>2, <1>4, <1>5, <1>6 DEF slots, l

LEMMA ListedWith ==
  ASSUME NEW q \in Queue, Listing(q) \in Seq(Order), Got(q).slots \in Seq(Id),
         NEW pos \in 1 .. Len(Got(q).slots) + 1, NEW id \in Id, id \notin Listed(q), NEW o \in Order,
         NEW f, f[id] = o, \A i \in Listed(q) : f[i] = OrderOf(q, i)
  PROVE  /\ pos \in 1 .. Len(Listing(q)) + 1
         /\ InsertAt(Listing(q), pos, o) =
              [n \in 1 .. Len(InsertAt(Got(q).slots, pos, id)) |-> f[InsertAt(Got(q).slots, pos, id)[n]]]
<1> DEFINE slots == Got(q).slots
           l == Listing(q)
<1>1. /\ Len(slots) \in Nat /\ Len(l) = Len(slots)
      /\ \A n \in 1 .. Len(slots) : l[n] = OrderOf(q, slots[n]) /\ slots[n] \in Listed(q)
  BY DEF Listing, Listed, ToSet
<1>2. \A n \in 1 .. Len(slots) : l[n] = f[slots[n]]
  BY <1>1
<1>3. slots \in Seq(Id) /\ l \in Seq(Order) /\ pos \in 1 .. Len(slots) + 1 /\ pos \in 1 .. Len(l) + 1
  BY <1>1
<1> HIDE DEF slots, l
<1>4. /\ Len(InsertAt(slots, pos, id)) = Len(slots) + 1
      /\ \A i \in 1 .. Len(slots) + 1 : InsertAt(slots, pos, id)[i] =
           IF i < pos THEN slots[i] ELSE IF i = pos THEN id ELSE slots[i - 1]
  BY <1>3, InsertAtProperties
<1>5. /\ InsertAt(l, pos, o) \in Seq(Order)
      /\ Len(InsertAt(l, pos, o)) = Len(l) + 1
      /\ \A i \in 1 .. Len(l) + 1 : InsertAt(l, pos, o)[i] =
           IF i < pos THEN l[i] ELSE IF i = pos THEN o ELSE l[i - 1]
  BY <1>3, InsertAtProperties
<1>6. ASSUME NEW n \in 1 .. Len(slots) + 1
      PROVE  InsertAt(l, pos, o)[n] = f[InsertAt(slots, pos, id)[n]]
  <2>1. CASE n < pos
    <3>1. n \in 1 .. Len(slots)
      BY <1>1, <1>3, <2>1
    <3>2. QED BY <1>1, <1>2, <1>4, <1>5, <2>1, <3>1
  <2>2. CASE n = pos
    <3>1. InsertAt(l, pos, o)[n] = o /\ InsertAt(slots, pos, id)[n] = id
      BY <1>1, <1>3, <1>4, <1>5, <2>2
    <3>2. QED BY <3>1
  <2>3. CASE n > pos
    <3>1. n - 1 \in 1 .. Len(slots)
      BY <1>1, <1>3, <2>3
    <3>2. InsertAt(l, pos, o)[n] = l[n - 1] /\ InsertAt(slots, pos, id)[n] = slots[n - 1]
      BY <1>1, <1>3, <1>4, <1>5, <2>3
    <3>3. QED BY <1>2, <3>1, <3>2
  <2>4. QED BY <1>3, <2>1, <2>2, <2>3
<1>7. InsertAt(l, pos, o) = [n \in 1 .. Len(slots) + 1 |-> InsertAt(l, pos, o)[n]]
  BY <1>1, <1>5
<1>8. QED BY <1>1, <1>3, <1>4, <1>6, <1>7 DEF slots, l

\* The lists of the promise, before and after a step, are those of the slots.
Mapped ==
  /\ [q \in Queue |-> ListOf(q)] = Lists
  /\ [q \in Queue |-> ListOf(q)]' = Lists'

LEMMA MappedUnlisted == ASSUME Mapped, Lists' = Lists, given' = given PROVE Unlisted
  BY DEF Mapped, Unlisted

\* The lists of OrderList are changed by the operators that change those of slots.
LEMMA SameOperators ==
  /\ \A s, i, e : Orders!InsertAt(s, i, e) = InsertAt(s, i, e)
  /\ \A s, i : Orders!RemoveAt(s, i) = RemoveAt(s, i)
  BY DEF Orders!InsertAt, InsertAt, Orders!RemoveAt, RemoveAt

LEMMA MappedGive ==
  ASSUME Mapped, given' = given + 1, NEW q \in Queue, NEW pos \in 1 .. Len(Listing(q)) + 1,
         Relisted(q, InsertAt(Listing(q), pos, [order |-> given + 1, turns |-> Turns]))
  PROVE  Orders!Next
<1>1. Lists[q] = Listing(q)
  BY DEF Lists
<1>2. Orders!Give(q)
  BY <1>1, SameOperators DEF Orders!Give, Mapped, Relisted
<1>3. QED BY <1>2 DEF Orders!Next

LEMMA MappedTakeOut ==
  ASSUME Mapped, given' = given, NEW q \in Queue, NEW pos \in 1 .. Len(Listing(q)),
         Relisted(q, RemoveAt(Listing(q), pos))
  PROVE  Orders!Next
<1>1. Lists[q] = Listing(q)
  BY DEF Lists
<1>2. Orders!TakeOut(q)
  BY <1>1, SameOperators DEF Orders!TakeOut, Mapped, Relisted
<1>3. QED BY <1>2 DEF Orders!Next

LEMMA MappedClear ==
  ASSUME Mapped, given' = given, NEW q \in Queue, Relisted(q, <<>>)
  PROVE  Orders!Next
<1>1. Orders!Clear(q)
  BY DEF Orders!Clear, Mapped, Relisted
<1>2. QED BY <1>1 DEF Orders!Next

LEMMA MappedWork ==
  ASSUME Mapped, given' = given, NEW q \in Queue, Listing(q) # <<>>, NEW left \in 0 .. Listing(q)[1].turns,
         Relisted(q, [Listing(q) EXCEPT ![1] = [Listing(q)[1] EXCEPT !.turns = left]])
  PROVE  Orders!Next
<1>1. Lists[q] = Listing(q)
  BY DEF Lists
<1>2. Lists' = [Lists EXCEPT ![q][1].turns = left]
  BY <1>1 DEF Relisted
<1>3. Orders!WorkOnFirst(q)
  BY <1>1, <1>2 DEF Orders!WorkOnFirst, Mapped
<1>4. QED BY <1>3 DEF Orders!Next

Promised == Orders!Next \/ Unlisted

LEMMA GetOrderPromised ==
  ASSUME Inv, trouble = "none", Mapped, NEW q \in Queue, NEW p \in Player, GetOrder(q, p)
  PROVE  Promised
<1>1. PICK id \in Listed(q) :
        HasOrder(q, id) /\ Change(q, Cached(q, id), <<>>, {})
        /\ UNCHANGED <<nextQueue, stored, given, gone, trouble>>
  BY DEF GetOrder, Listed
<1>2. IInv
  BY DEF Inv
<1> DEFINE oq == Cached(q, id)
<1>3. \A i \in DOMAIN oq.cache : oq.cache[i] = OrderOf(q, i)
  BY <1>1, <1>2, CachedKept
<1>4. oq.slots = Got(q).slots /\ oq.slots \in Seq(Id) /\ DOMAIN Cache(q) \subseteq DOMAIN oq.cache
  <2>1. oq.slots = Got(q).slots /\ DOMAIN Cache(q) \subseteq DOMAIN oq.cache
    BY <1>1, <1>2, CachedGood DEF Listed, Cache
  <2>2. Got(q).slots \in Seq(Id)
    BY <1>2, GotParts
  <2>3. QED BY <2>1, <2>2
<1>5. Relisted(q, Made(q, oq))
  BY <1>1, ChangeLists
<1> HIDE DEF oq
<1>6. Made(q, oq) = [n \in 1 .. Len(oq.slots) |-> OrderOf(q, oq.slots[n])]
  BY <1>3, <1>4, KeptMade
<1>7. Lists' = Lists
  BY <1>4, <1>5, <1>6, NothingListed
<1>8. QED BY <1>1, <1>7, MappedUnlisted DEF Promised

LEMMA ColonisePromised ==
  ASSUME Inv, trouble = "none", Mapped, NEW q \in Queue, NEW p \in Player, Colonise(q, p)
  PROVE  Promised
<1> DEFINE oq == [Got(q) EXCEPT !.owners = {p}]
<1>1. Change(q, oq, <<>>, {}) /\ UNCHANGED <<nextQueue, stored, given, gone, trouble>>
  BY DEF Colonise
<1>2. oq.slots = Got(q).slots /\ oq.cache = Cache(q)
  <2>1. GoodHeld(Got(q))
    BY GotGood DEF Inv
  <2>2. oq = [slots |-> Got(q).slots, cache |-> Got(q).cache, next |-> Got(q).next, owners |-> {p}]
    BY <2>1, ChangedField
  <2>3. QED BY <2>2 DEF Cache
<1>3. Relisted(q, Made(q, oq))
  BY <1>1, ChangeLists
<1> HIDE DEF oq
<1>4. Made(q, oq) = [n \in 1 .. Len(oq.slots) |-> OrderOf(q, oq.slots[n])]
  <2>1. oq.slots \in Seq(Id)
    BY <1>2, GotParts DEF Inv
  <2>2. \A i \in DOMAIN oq.cache : oq.cache[i] = OrderOf(q, i)
    BY <1>2 DEF OrderOf, Cache
  <2>3. QED BY <1>2, <2>1, <2>2, KeptMade
<1>5. Lists' = Lists
  BY <1>2, <1>3, <1>4, NothingListed
<1>6. QED BY <1>1, <1>5, MappedUnlisted DEF Promised

LEMMA RemoveOrderPromised ==
  ASSUME Inv, trouble = "none", Mapped, NEW q \in Queue, NEW p \in Player, RemoveOrder(q, p)
  PROVE  Promised
<1> DEFINE got == Got(q)
           New(pos) == [got EXCEPT !.slots = RemoveAt(@, pos),
                                   !.cache = Without(@, got.slots[pos])]
           steps(pos) == << [do |-> "delete order", id |-> got.slots[pos]] >> \o UpdateOrderQueue(New(pos))
           ends(pos) == {OrderOf(q, got.slots[pos]).order}
<1>1. PICK pos \in DOMAIN got.slots :
        /\ Change(q, New(pos), steps(pos), ends(pos))
        /\ UNCHANGED <<nextQueue, stored, given, gone, trouble>>
  BY DEF RemoveOrder
<1> DEFINE id == got.slots[pos]
           oq == New(pos)
           slots == RemoveAt(got.slots, pos)
           cache == Without(Cache(q), id)
<1>2. Relisted(q, Made(q, oq))
  BY <1>1, ChangeLists
<1> HIDE DEF steps, ends
<1>3. /\ GoodHeld(got) /\ got.cache = Cache(q) /\ ToSet(got.slots) = Listed(q)
      /\ got.slots \in Seq(Id) /\ IsInjective(got.slots)
  BY GotGood, HeldParts DEF Cache, Listed, Inv
<1>4. Listing(q) \in Seq(Order)
  BY ListsOfSlots
<1>5. pos \in 1 .. Len(got.slots)
  <2> HIDE DEF got
  <2> QED BY <1>1, <1>3
<1>6. ToSet(slots) = Listed(q) \ {id} /\ slots \in Seq(Id)
  BY <1>3, <1>5, RemoveUnique
<1>7. DOMAIN cache = DOMAIN Cache(q) \ {id} /\ \A i \in DOMAIN cache : cache[i] = Cache(q)[i]
  BY DEF Without, Restrict
<1>8. /\ pos \in 1 .. Len(Listing(q))
      /\ RemoveAt(Listing(q), pos) = [n \in 1 .. Len(slots) |-> OrderOf(q, slots[n])]
  BY <1>3, <1>4, <1>5, ListedWithout
<1> HIDE DEF got, slots, cache
<1>9. oq.slots = slots /\ oq.cache = cache
  <2>1. oq = [got EXCEPT !.slots = slots, !.cache = cache]
    BY <1>3 DEF slots, cache
  <2> HIDE DEF oq, New
  <2>2. oq = [slots |-> slots, cache |-> cache, next |-> got.next, owners |-> got.owners]
    BY <1>3, <2>1, ChangedTwo
  <2>3. QED BY <2>2
<1> HIDE DEF New, oq
<1>10. Made(q, oq) = [n \in 1 .. Len(oq.slots) |-> OrderOf(q, oq.slots[n])]
  <2>1. \A i \in DOMAIN oq.cache : oq.cache[i] = OrderOf(q, i)
    BY <1>7, <1>9 DEF OrderOf, Cache
  <2>2. \A i \in ToSet(oq.slots) : i \in DOMAIN Cache(q) => i \in DOMAIN oq.cache
    BY <1>6, <1>7, <1>9
  <2>3. QED BY <1>6, <1>9, <2>1, <2>2, KeptMade
<1>11. Relisted(q, RemoveAt(Listing(q), pos))
  BY <1>2, <1>8, <1>9, <1>10
<1>12. given' = given
  BY <1>1
<1>13. Orders!Next
  BY <1>8, <1>11, <1>12, MappedTakeOut
<1>14. QED BY <1>13 DEF Promised

LEMMA RemoveAllOrdersPromised ==
  ASSUME Inv, trouble = "none", Mapped, NEW q \in Queue, RemoveAllOrders(q)
  PROVE  Promised
<1> DEFINE got == Got(q)
           New(lost) == [got EXCEPT !.slots = <<>>, !.owners = @ \ lost]
<1>1. PICK lost, steps, ends :
        Change(q, New(lost), steps, ends) /\ UNCHANGED <<nextQueue, stored, given, gone, trouble>>
  BY DEF RemoveAllOrders
<1> DEFINE oq == New(lost)
<1>2. Relisted(q, Made(q, oq))
  BY <1>1, ChangeLists
<1>3. oq.slots = <<>>
  <2>1. PICK none : none = <<>>
    OBVIOUS
  <2>2. GoodHeld(got)
    BY GotGood DEF Inv
  <2> HIDE DEF got
  <2>3. oq = [got EXCEPT !.slots = none, !.owners = got.owners \ lost]
    BY <2>1
  <2> HIDE DEF oq, New
  <2>4. oq = [slots |-> none, cache |-> got.cache, next |-> got.next, owners |-> got.owners \ lost]
    BY <2>2, <2>3, ChangedTwo
  <2>5. QED BY <2>1, <2>4
<1> HIDE DEF oq
<1>4. Made(q, oq) = <<>>
  BY <1>3 DEF Made
<1>5. Relisted(q, <<>>) /\ given' = given
  BY <1>1, <1>2, <1>4
<1>6. QED BY <1>5, MappedClear DEF Promised

LEMMA AddOrderPromised ==
  ASSUME Inv, trouble = "none", Mapped, NEW q \in Queue, NEW p \in Player, AddOrder(q, p)
  PROVE  Promised
<1> DEFINE got == Got(q)
           id == got.next
           order == [order |-> given + 1, turns |-> Turns]
           New(pos) == [got EXCEPT !.slots = InsertAt(@, pos, id),
                                   !.cache = Put(@, id, order), !.next = @ + 1]
           s == [do |-> "insert order", id |-> id, order |-> order]
<1>1. PICK pos \in 1 .. Len(got.slots) + 1 :
        Change(q, New(pos), <<s>> \o UpdateOrderQueue(New(pos)), {})
  BY DEF AddOrder
<1>2. given' = given + 1 /\ given < MaxOrders /\ stored' = stored
  BY <1>1 DEF AddOrder
<1> DEFINE oq == New(pos)
           slots == InsertAt(got.slots, pos, id)
           cache == Put(Cache(q), id, order)
<1>3. Relisted(q, Made(q, oq))
  BY <1>1, <1>2, ChangeLists
<1> HIDE DEF s
<1>4. /\ GoodHeld(got) /\ got.cache = Cache(q) /\ ToSet(got.slots) = Listed(q)
      /\ got.slots \in Seq(Id)
  BY GotGood, HeldParts DEF Cache, Listed, Inv
<1>5. order \in Order
  BY <1>2, ConstantsAssumption DEF Inv, IInv, Order
<1> HIDE DEF order, got
<1>6. id \in Id /\ id \notin Listed(q) /\ id \notin DOMAIN Cache(q)
  BY <1>4, HeldParts DEF Id
<1>7. ToSet(slots) = Listed(q) \cup {id} /\ slots \in Seq(Id)
  BY <1>1, <1>4, <1>6, HeldParts, InsertUnique
<1>8. /\ DOMAIN cache = DOMAIN Cache(q) \cup {id} /\ cache[id] = order
      /\ \A i \in DOMAIN Cache(q) : cache[i] = Cache(q)[i]
  BY <1>6 DEF Put
<1>9. oq.slots = slots /\ oq.cache = cache
  <2> DEFINE next == id + 1
  <2>1. oq = [got EXCEPT !.slots = slots, !.cache = cache, !.next = next]
    BY <1>4
  <2> HIDE DEF oq, New, slots, cache, next
  <2>2. oq = [slots |-> slots, cache |-> cache, next |-> next, owners |-> got.owners]
    BY <1>4, <2>1, ChangedThree
  <2>3. QED BY <2>2
<1> DEFINE f == [i \in Id |-> IF i \in DOMAIN oq.cache THEN oq.cache[i] ELSE Rows(q)[i]]
<1> HIDE DEF New, id, oq, cache
<1>10. f[id] = order /\ \A i \in Listed(q) : f[i] = OrderOf(q, i)
  <2>1. Listed(q) \subseteq Id
    BY GotParts DEF Inv
  <2>2. QED BY <1>6, <1>8, <1>9, <2>1 DEF OrderOf, Cache, Rows
<1>11. Made(q, oq) = [n \in 1 .. Len(slots) |-> f[slots[n]]]
  <2>1. \A n \in 1 .. Len(slots) : slots[n] \in Id
    BY <1>7
  <2> HIDE DEF slots
  <2>2. QED BY <1>9, <2>1 DEF Made
<1> HIDE DEF f
<1>12. pos \in 1 .. Len(Listing(q)) + 1 /\ InsertAt(Listing(q), pos, order) = Made(q, oq)
  <2>1. Listing(q) \in Seq(Order)
    BY ListsOfSlots
  <2>2. QED BY <1>1, <1>4, <1>5, <1>6, <1>10, <1>11, <2>1, ListedWith DEF got
<1>13. Relisted(q, InsertAt(Listing(q), pos, [order |-> given + 1, turns |-> Turns]))
  BY <1>3, <1>12 DEF order
<1>14. Orders!Next
  BY <1>2, <1>12, <1>13, MappedGive
<1>15. QED BY <1>14 DEF Promised

LEMMA TailRemoves ==
  ASSUME NEW S, NEW s \in Seq(S), s # <<>>, NEW n, n = 1
  PROVE  n \in 1 .. Len(s) /\ Tail(s) = RemoveAt(s, n)
<1>1. n \in 1 .. Len(s) /\ Len(s) \in Nat
  OBVIOUS
<1>2. /\ RemoveAt(s, n) \in Seq(S)
      /\ Len(RemoveAt(s, n)) = Len(s) - 1
      /\ \A i \in 1 .. Len(s) - 1 : RemoveAt(s, n)[i] = IF i < n THEN s[i] ELSE s[i + 1]
  BY <1>1, RemoveAtProperties
<1> DEFINE t == Tail(s)
<1>3. t \in Seq(S) /\ Len(t) = Len(s) - 1 /\ \A i \in 1 .. Len(s) - 1 : t[i] = s[i + 1]
  OBVIOUS
<1> HIDE DEF t
<1>4. RemoveAt(s, n) = [i \in 1 .. Len(s) - 1 |-> RemoveAt(s, n)[i]]
  BY <1>2
<1>5. \A i \in 1 .. Len(s) - 1 : RemoveAt(s, n)[i] = s[i + 1]
  BY <1>1, <1>2
<1>6. t = [i \in 1 .. Len(s) - 1 |-> t[i]]
  BY <1>3
<1>7. QED BY <1>1, <1>3, <1>4, <1>5, <1>6 DEF t

LEMMA DoFirstOrderPromised ==
  ASSUME Inv, trouble = "none", Mapped, NEW q \in Queue, DoFirstOrder(q)
  PROVE  Promised
<1> DEFINE got == Got(q)
           id == Head(got.slots)
           seen == Cached(q, id)
           done == [seen EXCEPT !.slots = Tail(@)]
           New(left) == [seen EXCEPT !.cache[id].turns = left]
<1>1. /\ got.slots # <<>> /\ HasOrder(q, id) /\ IInv
      /\ UNCHANGED <<nextQueue, stored, given, gone, trouble>>
  BY DEF DoFirstOrder, Inv
<1>2. GoodHeld(got) /\ ToSet(got.slots) = Listed(q) /\ DOMAIN got.cache = DOMAIN Cache(q)
  BY <1>1, GotGood DEF Listed, Cache
<1>3. id \in Listed(q) /\ id \in Id /\ OrderOf(q, id) \in Order
  <2>1. id \in Listed(q)
    <3> HIDE DEF got
    <3> QED BY <1>1, <1>2, HeldParts, TailUnique
  <2>2. QED BY <1>1, <2>1, OrderOfType
<1>4. /\ GoodHeld(seen) /\ seen.slots = got.slots
      /\ id \in DOMAIN seen.cache /\ seen.cache[id] = OrderOf(q, id)
      /\ DOMAIN Cache(q) \subseteq DOMAIN seen.cache
  BY <1>1, <1>2, <1>3, CachedGood DEF Listed
<1>5. \A i \in DOMAIN seen.cache : seen.cache[i] = OrderOf(q, i)
  BY <1>1, <1>3, CachedKept
<1>6. /\ got.slots \in Seq(Id) /\ IsInjective(got.slots)
      /\ seen = [slots |-> seen.slots, cache |-> seen.cache, next |-> seen.next, owners |-> seen.owners]
  BY <1>2, <1>4, HeldParts
<1>7. Listing(q) \in Seq(Order)
  BY ListsOfSlots
<1>8. PICK one : one = 1
  OBVIOUS
<1> HIDE DEF id, seen
<1>9. CASE Change(q, done, << [do |-> "delete order", id |-> id] >> \o UpdateOrderQueue(done),
                  {OrderOf(q, id).order})
  <2> DEFINE slots == RemoveAt(got.slots, one)
  <2>1. Relisted(q, Made(q, done))
    BY <1>1, <1>9, ChangeLists
  <2>2. one \in 1 .. Len(got.slots) /\ Tail(got.slots) = slots
    <3> HIDE DEF got
    <3> QED BY <1>1, <1>6, <1>8, TailRemoves
  <2>3. /\ one \in 1 .. Len(Listing(q))
        /\ RemoveAt(Listing(q), one) = [n \in 1 .. Len(slots) |-> OrderOf(q, slots[n])]
    BY <1>6, <1>7, <2>2, ListedWithout
  <2> HIDE DEF got
  <2>4. slots \in Seq(Id)
    BY <1>6, <2>2, RemoveAtProperties
  <2> HIDE DEF slots
  <2>5. done.slots = slots /\ done.cache = seen.cache
    <3>1. done = [seen EXCEPT !.slots = slots]
      BY <1>4, <2>2
    <3> HIDE DEF done
    <3>2. QED BY <1>6, <3>1
  <2> HIDE DEF done
  <2>6. Made(q, done) = [n \in 1 .. Len(done.slots) |-> OrderOf(q, done.slots[n])]
    BY <1>4, <1>5, <2>4, <2>5, KeptMade
  <2>7. Relisted(q, RemoveAt(Listing(q), one)) /\ given' = given
    BY <1>1, <2>1, <2>3, <2>5, <2>6
  <2>8. Orders!Next
    BY <2>3, <2>7, MappedTakeOut
  <2>9. QED BY <2>8 DEF Promised
<1>10. ASSUME NEW left \in 0 .. OrderOf(q, id).turns,
              Change(q, New(left),
                << [do |-> "update order", id |-> id, order |-> New(left).cache[id]] >>
                  \o UpdateOrderQueue(New(left)), {})
       PROVE  Promised
  <2> DEFINE o == [seen.cache[id] EXCEPT !.turns = left]
             cache == [seen.cache EXCEPT ![id] = o]
             oq == New(left)
  <2>1. Relisted(q, Made(q, oq))
    BY <1>1, <1>10, ChangeLists
  <2>2. oq.slots = got.slots /\ oq.cache = cache
    BY <1>4, <1>6
  <2>3. o = [OrderOf(q, id) EXCEPT !.turns = left]
    BY <1>4
  <2> HIDE DEF o
  <2>4. /\ DOMAIN cache = DOMAIN seen.cache /\ cache[id] = o
        /\ \A i \in DOMAIN cache : i # id => cache[i] = seen.cache[i]
    BY <1>4
  <2> HIDE DEF cache, New, oq
  <2>5. /\ Len(got.slots) \in Nat /\ 1 \in 1 .. Len(got.slots) /\ got.slots[1] = id
        /\ \A n \in 1 .. Len(got.slots) : n # 1 => got.slots[n] # id
    <3> HIDE DEF got
    <3>1. Len(got.slots) \in Nat /\ 1 \in 1 .. Len(got.slots) /\ got.slots[1] = Head(got.slots)
      BY <1>1, <1>6
    <3>2. got.slots[1] = id
      BY <3>1 DEF id, got
    <3>3. QED BY <1>6, <3>1, <3>2 DEF IsInjective
  <2>6. Listing(q) = [n \in 1 .. Len(got.slots) |-> OrderOf(q, got.slots[n])]
    BY DEF Listing
  <2> HIDE DEF got
  <2>7. Made(q, oq) = [Listing(q) EXCEPT ![1] = o]
    <3>1. ASSUME NEW n \in 1 .. Len(got.slots)
          PROVE  (IF got.slots[n] \in DOMAIN cache THEN cache[got.slots[n]] ELSE Rows(q)[got.slots[n]])
                   = IF n = 1 THEN o ELSE OrderOf(q, got.slots[n])
      <4>1. CASE n = 1
        BY <1>4, <2>4, <2>5, <4>1
      <4>2. CASE n # 1
        <5>1. got.slots[n] # id
          BY <2>5, <4>2
        <5>2. QED BY <1>4, <1>5, <2>4, <4>2, <5>1 DEF OrderOf, Cache, Rows
      <4>3. QED BY <4>1, <4>2
    <3>2. Made(q, oq) = [n \in 1 .. Len(got.slots) |-> IF n = 1 THEN o ELSE OrderOf(q, got.slots[n])]
      BY <2>2, <3>1 DEF Made
    <3>3. QED BY <2>6, <3>2
  <2>8. Listing(q)[1] = OrderOf(q, id) /\ Listing(q) # <<>>
    BY <2>5, <2>6
  <2>9. Relisted(q, [Listing(q) EXCEPT ![1] = [Listing(q)[1] EXCEPT !.turns = left]]) /\ given' = given
    BY <1>1, <2>1, <2>3, <2>7, <2>8
  <2>10. left \in 0 .. Listing(q)[1].turns
    BY <2>8
  <2>11. Orders!Next
    BY <2>8, <2>9, <2>10, MappedWork
  <2>12. QED BY <2>11 DEF Promised
<1>11. QED BY <1>9, <1>10 DEF DoFirstOrder, got, id, seen

LEMMA AddOrderQueuePromised ==
  ASSUME Inv, trouble = "none", Mapped, NEW p \in Player, AddOrderQueue(p)
  PROVE  Promised
<1> DEFINE oq == [slots |-> <<>>, cache |-> <<>>, next |-> 1, owners |-> {p}]
           q == nextQueue
<1>1. /\ q \in Queue /\ Change(q, oq, SaveOrderQueue(oq), {}) /\ Idle
      /\ UNCHANGED <<stored, given, gone, trouble>>
  BY DEF AddOrderQueue, Change
<1>2. Relisted(q, Made(q, oq))
  BY <1>1, ChangeLists
<1>3. oq.slots = <<>>
  OBVIOUS
<1> HIDE DEF oq
<1>4. Got(q).slots = <<>>
  <2>1. Quiet(q) /\ q >= nextQueue
    BY <1>1, IdleQuiet DEF Inv, Queue
  <2>2. QED BY <2>1 DEF Quiet, Unborn
<1> HIDE DEF q
<1>5. Made(q, oq) = [n \in 1 .. Len(oq.slots) |-> OrderOf(q, oq.slots[n])]
  <2>1. \A n : n \notin 1 .. Len(<<>>)
    OBVIOUS
  <2>2. QED BY <1>3, <2>1 DEF Made
<1>6. Lists' = Lists
  BY <1>1, <1>2, <1>3, <1>4, <1>5, NothingListed
<1>7. QED BY <1>1, <1>6, MappedUnlisted DEF Promised

\* A statement writes what memory has already.
LEMMA ExecutePromised ==
  ASSUME Inv, trouble = "none", Mapped, Execute
  PROVE  Promised
<1>1. PICK q \in Queue, s \in GoodStatement : Sends(q, s)
  BY ExecuteSends
<1>2. ASSUME NEW r \in Queue, NEW id \in Listed(r) PROVE OrderOf(r, id)' = OrderOf(r, id)
  <2>1. Got(r)' = Got(r) /\ Cache(r)' = Cache(r)
    BY <1>1 DEF Sends
  <2>2. CASE id \in DOMAIN Cache(r)
    BY <2>1, <2>2 DEF OrderOf, Cache
  <2>3. CASE id \notin DOMAIN Cache(r)
    <3>1. Rows(r)'[id] = Rows(r)[id]
      <4>1. CASE r # q
        BY <1>1, <4>1 DEF Sends
      <4>2. CASE r = q
        <5>1. id \in DOMAIN Rows(q)
          BY <2>3, <4>2, AllThere DEF HasOrder, Cache, Rows
        <5>2. 1 \in DOMAIN work.steps /\ work.steps[1] = s /\ Steps(q) = work.steps
          BY <1>1 DEF Sends, Rest, Steps
        <5>3. s.do = "delete order" => s.id # id
          BY <1>2, <4>2, <5>2 DEF Inv, StoreInv, Settled, CanExecute
        <5>4. Puts(s) => s.id # id
          BY <1>1, <2>3, <4>2, SendsShown DEF Inv
        <5>5. ~ (OfOrder(s) /\ s.id = id)
          BY <5>3, <5>4 DEF OfOrder, Puts
        <5>6. After(Rows(q), s, Rows(q)')
          BY <1>1 DEF Sends
        <5>7. QED BY <4>2, <5>1, <5>5, <5>6 DEF After
      <4>3. QED BY <4>1, <4>2
    <3>2. QED BY <2>1, <2>3, <3>1 DEF OrderOf, Cache, Rows
  <2>4. QED BY <2>2, <2>3
<1>3. ASSUME NEW r \in Queue PROVE Listing(r)' = Listing(r)
  <2>1. Got(r)' = Got(r) /\ Got(r).slots \in Seq(Id)
    BY <1>1, GotParts DEF Sends, Inv
  <2>2. \A n \in 1 .. Len(Got(r).slots) : OrderOf(r, Got(r).slots[n])' = OrderOf(r, Got(r).slots[n])
    <3> TAKE n \in 1 .. Len(Got(r).slots)
    <3>1. Got(r).slots[n] \in Listed(r)
      BY <2>1 DEF Listed, ToSet
    <3> DEFINE id == Got(r).slots[n]
    <3>2. OrderOf(r, id)' = OrderOf(r, id)
      BY <2>1, <3>1, <1>2 DEF OrderOf
    <3>3. QED BY <3>2
  <2>3. QED BY <2>1, <2>2 DEF Listing
<1>4. Lists' = Lists /\ given' = given
  BY <1>3 DEF Lists, Execute
<1>5. QED BY <1>4, MappedUnlisted DEF Promised

\* Restarted between two operations, the server retrieves the lists as they were.
LEMMA RestartPromised ==
  ASSUME Inv, trouble = "none", Mapped, Restart, trouble' = "none"
  PROVE  Promised
<1>1. Idle
  BY DEF Restart
<1>2. IInv
  BY DEF Inv
<1>3. ASSUME NEW q \in Queue PROVE Listing(q)' = Listing(q)
  <2>1. /\ Got(q)'.slots = stored[q].slots /\ DOMAIN Cache(q)' = {} /\ Rows(q)' = Rows(q)
    BY <1>2, RestartHeld
  <2>2. /\ DOMAIN Rows(q) = Listed(q) /\ stored[q].slots = Got(q).slots
        /\ \A i \in DOMAIN Rows(q) : OrderOf(q, i) = Rows(q)[i]
    BY <1>1, QuietRows
  <2>3. \A i : OrderOf(q, i)' = Rows(q)[i]
    BY <2>1 DEF OrderOf, Cache, Rows
  <2>4. Listing(q)' = [n \in 1 .. Len(Got(q).slots) |-> Rows(q)[Got(q).slots[n]]]
    <3>1. Got(q)'.slots = Got(q).slots
      BY <2>1, <2>2
    <3>2. QED BY <2>1, <3>1 DEF Listing, OrderOf, Cache, Rows
  <2>5. \A n \in 1 .. Len(Got(q).slots) : Rows(q)[Got(q).slots[n]] = OrderOf(q, Got(q).slots[n])
    <3>1. Got(q).slots \in Seq(Id)
      BY <1>2, GotParts
    <3>2. QED BY <2>2, <3>1 DEF Listed, ToSet
  <2>6. QED BY <2>4, <2>5 DEF Listing
<1>4. Lists' = Lists /\ given' = given
  BY <1>3 DEF Lists, Restart
<1>5. QED BY <1>4, MappedUnlisted DEF Promised

\* Every step shows on the lists as one of OrderList does, or not at all.
LEMMA NextPromised ==
  Inv /\ Inv' /\ [Next]_vars => [trouble' = "none" => Orders!Next \/ Unlisted]_vars
<1> SUFFICES ASSUME Inv, Inv', Next, trouble' = "none" PROVE Promised
  BY DEF Promised
<1>1. trouble = "none"
  BY DEF Next, AddOrderQueue, DoFirstOrder, RemoveAllOrders, AddOrder, RemoveOrder, GetOrder,
         Colonise, Execute, Error, Restart
<1>2. Mapped
  BY <1>1, ListsOfSlots, ListsOfSlotsNext DEF Mapped
<1>3. ASSUME NEW p \in Player, AddOrderQueue(p) PROVE Promised
  BY <1>1, <1>2, <1>3, AddOrderQueuePromised
<1>4. ASSUME NEW q \in Queue, DoFirstOrder(q) PROVE Promised
  BY <1>1, <1>2, <1>4, DoFirstOrderPromised
<1>5. ASSUME NEW q \in Queue, RemoveAllOrders(q) PROVE Promised
  BY <1>1, <1>2, <1>5, RemoveAllOrdersPromised
<1>6. ASSUME NEW q \in Queue, NEW p \in Player, AddOrder(q, p) PROVE Promised
  BY <1>1, <1>2, <1>6, AddOrderPromised
<1>7. ASSUME NEW q \in Queue, NEW p \in Player, RemoveOrder(q, p) PROVE Promised
  BY <1>1, <1>2, <1>7, RemoveOrderPromised
<1>8. ASSUME NEW q \in Queue, NEW p \in Player, GetOrder(q, p) PROVE Promised
  BY <1>1, <1>2, <1>8, GetOrderPromised
<1>9. ASSUME NEW q \in Queue, NEW p \in Player, Colonise(q, p) PROVE Promised
  BY <1>1, <1>2, <1>9, ColonisePromised
<1>10. CASE Execute
  BY <1>1, <1>2, <1>10, ExecutePromised
<1>11. CASE Error
  BY <1>11 DEF Error
<1>12. CASE Restart
  BY <1>1, <1>2, <1>12, RestartPromised
<1>13. QED
  BY <1>3, <1>4, <1>5, <1>6, <1>7, <1>8, <1>9, <1>10, <1>11, <1>12 DEF Next

\* No queue lists anything at first.
LEMMA InitPromised == Init => Orders!Init
<1> SUFFICES ASSUME Init PROVE Orders!Init
  OBVIOUS
<1>1. Inv /\ trouble = "none" /\ given = 0
  BY InitInv DEF Init
<1>2. ASSUME NEW q \in Queue PROVE ListOf(q) = <<>>
  <2>1. Got(q).slots = <<>>
    BY EmptyTable DEF Init, Got, Retrieved
  <2>2. Listing(q) = <<>>
    BY <2>1 DEF Listing
  <2>3. [r \in Queue |-> ListOf(r)] = Lists
    BY <1>1, ListsOfSlots
  <2>4. ListOf(q) = [r \in Queue |-> ListOf(r)][q] /\ Lists[q] = Listing(q)
    BY DEF Lists
  <2>5. QED BY <2>2, <2>3, <2>4
<1>3. QED BY <1>1, <1>2 DEF Orders!Init

-----------------------------------------------------------------------------
(* The theorems *)

\* Every step of OrderQueue and MysqlPersistence leaves the variables in their
\* types, whatever the number of queues, players and orders.
THEOREM TypeCorrect == Spec => []TypeOK
<1>1. IInv => TypeOK
  BY Consequences
<1>2. QED BY <1>1, InitKeeps, NextKeeps, PTL DEF Spec

\* No crash and no refused statement makes a queue list an id twice, in memory
\* or in orderslot, or give an order the id of another (OrderQueue::addOrder,
\* MysqlPersistence::retrieveOrderQueue).
THEOREM IdsStayUnique == Spec => []IdsUnique
<1>1. IInv => IdsUnique
  BY Consequences
<1>2. QED BY <1>1, InitKeeps, NextKeeps, PTL DEF Spec

\* An order whose removal or completion has come to its end is on no list again,
\* whenever the server crashes: its row was deleted before the list was written,
\* and an id that is given out again is that of a new order (OrderQueue::
\* removeOrder, removeFirstOrder, removeAllOrders, MysqlPersistence::
\* retrieveOrderQueue).
THEOREM GoneOrdersStayGone == Spec => []GoneStaysGone
<1>1. Inv => GoneStaysGone
  BY InvSays
<1>2. QED BY <1>1, InitInv, NextInv, PTL DEF Spec

\* As long as nothing goes wrong, the statements of each operation of OrderQueue
\* leave the tables orderslot and ordertype as the queue is in memory.
THEOREM StoredAsIsHeld == Spec => []StoredAsHeld
<1>1. Inv => StoredAsHeld
  BY InvSays
<1>2. QED BY <1>1, InitInv, NextInv, PTL DEF Spec

\* As long as no operation is cut off by a crash or a refused statement, every
\* step of OrderQueue and of its persistence shows to a player as a step of a
\* plain list of orders, OrderList, or not at all: whichever orders are cached,
\* written or retrieved (OrderQueue::addOrder, removeOrder, getOrder,
\* removeFirstOrder, updateFirstOrder, removeAllOrders).
THEOREM QueuesKeepPromise == Spec => KeepsPromise
<1>1. QED BY InitInv, NextInv, InitPromised, NextPromised, PTL DEF Spec, KeepsPromise
=============================================================================
