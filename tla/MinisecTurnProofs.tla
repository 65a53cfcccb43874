------------------------- MODULE MinisecTurnProofs -------------------------
(***************************************************************************)
(* Proofs about MinisecTurn: what is said of its objects, order queues,    *)
(* views and lives holds for any number of players, objects and designs,   *)
(* wherever they are at first and whatever is ordered.                     *)
(***************************************************************************)
EXTENDS MinisecTurn, SequencesExt, SequenceTheorems, FiniteSetTheorems,
        WellFoundedInduction, TLAPS

-----------------------------------------------------------------------------
(* Natural numbers and finite sets *)

LessThan == {p \in Nat \X Nat : p[1] < p[2]}

LEMMA LessThanWellFounded == IsWellFoundedOn(LessThan, Nat)
  BY NatLessThanWellFounded DEF OpToRel, LessThan

\* A set of naturals that is not empty has a least element.
LEMMA LeastElement ==
  ASSUME NEW T, T \subseteq Nat, T # {}
  PROVE  \E x \in T : \A y \in T : x <= y
<1>1. PICK x \in T : \A y \in T : ~ (<<y, x>> \in LessThan)
  BY LessThanWellFounded, WFMin
<1>2. \A y \in T : ~ (y < x)
  BY <1>1 DEF LessThan
<1>3. QED BY <1>2

\* A bounded set of naturals that is not empty has a greatest element: Max.
LEMMA MaxBounded ==
  ASSUME NEW S, S \subseteq Nat, S # {}, NEW b \in Nat, \A x \in S : x <= b
  PROVE  Max(S) \in S /\ \A x \in S : x <= Max(S)
<1> DEFINE Bound == {n \in Nat : \A x \in S : x <= n}
<1>1. PICK m \in Bound : \A n \in Bound : m <= n
  <2>1. Bound \subseteq Nat /\ b \in Bound
    OBVIOUS
  <2>2. QED BY <2>1, LeastElement
<1>2. m \in Nat /\ \A x \in S : x <= m
  BY <1>1
<1>3. m \in S
  <2>1. SUFFICES ASSUME m \notin S PROVE FALSE
    OBVIOUS
  <2>2. \A x \in S : x <= m - 1
    BY <1>2, <2>1
  <2>3. m - 1 \in Nat
    <3>1. PICK x \in S : x <= m - 1
      BY <2>2
    <3>2. x \in Nat
      OBVIOUS
    <3>3. QED BY <1>2, <3>1, <3>2
  <2>4. m - 1 \in Bound
    BY <2>2, <2>3
  <2>5. QED BY <1>1, <1>2, <2>4
<1>4. \E x \in S : \A y \in S : x >= y
  BY <1>2, <1>3
<1>5. Max(S) \in S /\ \A y \in S : Max(S) >= y
  BY <1>4 DEF Max
<1>6. QED BY <1>5

\* So has a finite set of naturals.
LEMMA GreatestIn ==
  ASSUME NEW S \in SUBSET Nat, IsFiniteSet(S), S # {}
  PROVE  Max(S) \in S /\ \A y \in S : y <= Max(S)
<1> DEFINE Wrong == {n \in Nat : \E R \in SUBSET S : R # {} /\ Cardinality(R) = n
                                   /\ ~ \E x \in R : \A y \in R : x >= y}
<1>1. SUFFICES \E x \in S : \A y \in S : x >= y
  BY DEF Max
<1>2. SUFFICES ASSUME ~ \E x \in S : \A y \in S : x >= y PROVE FALSE
  OBVIOUS
<1>3. Cardinality(S) \in Wrong
  BY <1>2, FS_CardinalityType
<1>4. PICK n \in Wrong : \A m \in Wrong : n <= m
  <2>1. Wrong \subseteq Nat /\ Wrong # {}
    BY <1>3
  <2> HIDE DEF Wrong
  <2>2. QED BY <2>1, LeastElement
<1>5. PICK R \in SUBSET S : R # {} /\ Cardinality(R) = n /\ ~ \E x \in R : \A y \in R : x >= y
  BY <1>4
<1>6. PICK z \in R : TRUE
  BY <1>5
<1>7. IsFiniteSet(R) /\ Cardinality(R \ {z}) = n - 1 /\ n - 1 \in Nat /\ n \in Nat
  <2>1. IsFiniteSet(R)
    BY FS_Subset
  <2>2. IsFiniteSet(R \ {z}) /\ Cardinality(R \ {z}) = n - 1
    BY <2>1, <1>5, <1>6, FS_RemoveElement
  <2>3. Cardinality(R \ {z}) \in Nat
    BY <2>2, FS_CardinalityType
  <2>4. QED BY <2>1, <2>2, <2>3
<1>8. R \ {z} # {}
  BY <1>5, <1>6
<1>9. n - 1 \notin Wrong
  BY <1>4, <1>7
<1>10. PICK x \in R \ {z} : \A y \in R \ {z} : x >= y
  BY <1>7, <1>8, <1>9
<1>11. x \in Nat /\ z \in Nat /\ \A y \in R : y \in Nat
  OBVIOUS
<1>12. CASE x >= z
  BY <1>5, <1>10, <1>12
<1>13. CASE z > x
  <2>1. \A y \in R : z >= y
    BY <1>10, <1>11, <1>13
  <2>2. QED BY <2>1, <1>5
<1>14. QED BY <1>11, <1>12, <1>13

\* Min is the least element.
LEMMA LeastIn ==
  ASSUME NEW S \in SUBSET Nat, S # {}
  PROVE  Min(S) \in S /\ \A y \in S : Min(S) <= y
  BY LeastElement DEF Min

\* What holds of a finite set if it holds of all smaller ones holds of all.
LEMMA SubsetsAll ==
  ASSUME NEW S, IsFiniteSet(S), NEW T,
         \A s \in SUBSET S : (\A r \in SUBSET s : r # s => r \in T) => s \in T
  PROVE  \A s \in SUBSET S : s \in T
<1> DEFINE Wrong == {n \in Nat : \E s \in SUBSET S : Cardinality(s) = n /\ s \notin T}
<1>1. SUFFICES ASSUME NEW w \in SUBSET S, w \notin T PROVE FALSE
  OBVIOUS
<1>2. Cardinality(w) \in Wrong
  BY <1>1, FS_Subset, FS_CardinalityType
<1>3. PICK n \in Wrong : \A m \in Wrong : n <= m
  <2>1. Wrong \subseteq Nat /\ Wrong # {}
    BY <1>2
  <2> HIDE DEF Wrong
  <2>2. QED BY <2>1, LeastElement
<1>4. PICK s \in SUBSET S : Cardinality(s) = n /\ s \notin T
  BY <1>3
<1>5. ASSUME NEW r \in SUBSET s, r # s PROVE r \in T
  <2>1. IsFiniteSet(s)
    BY FS_Subset
  <2>2. Cardinality(r) <= Cardinality(s) /\ (Cardinality(r) = Cardinality(s) => r = s)
    BY <2>1, FS_Subset
  <2>3. Cardinality(r) \in Nat /\ n \in Nat
    BY <2>1, FS_Subset, FS_CardinalityType
  <2>4. Cardinality(r) < n
    BY <1>4, <1>5, <2>2, <2>3
  <2>5. Cardinality(r) \notin Wrong
    BY <1>3, <2>3, <2>4
  <2>6. QED BY <2>3, <2>5
<1>6. QED BY <1>4, <1>5

-----------------------------------------------------------------------------
(* Folds over finite sets *)

\* A fold over a finite set is a function of its subsets, which begins with base
\* and takes a step for the element that is picked.
IsFold(it, S, base, pick, step) ==
  it = [s \in SUBSET S |-> IF s = {} THEN base ELSE step[<<pick[s], it[s \ {pick[s]}]>>]]

FoldPicks(pick, S) ==
  pick \in [(SUBSET S) \ {{}} -> S] /\ \A s \in (SUBSET S) \ {{}} : pick[s] \in s

FoldSteps(step, S, T) == step \in [S \X T -> T]

LEMMA FoldExists ==
  ASSUME NEW S, IsFiniteSet(S), NEW T, NEW base \in T,
         NEW pick, FoldPicks(pick, S), NEW step, FoldSteps(step, S, T)
  PROVE  \E it \in [SUBSET S -> T] : IsFold(it, S, base, pick, step)
<1> USE DEF FoldPicks, FoldSteps
<1> DEFINE Upto(n, g) == \A s \in SUBSET S : Cardinality(s) <= n =>
              g[s] = IF s = {} THEN base ELSE step[<<pick[s], g[s \ {pick[s]}]>>]
           Missing == {n \in Nat : ~ \E g \in [SUBSET S -> T] : Upto(n, g)}
<1>1. \A s \in SUBSET S : /\ IsFiniteSet(s) /\ Cardinality(s) \in Nat
                          /\ (Cardinality(s) = 0 <=> s = {})
                          /\ s # {} => /\ s \ {pick[s]} \in SUBSET S
                                       /\ Cardinality(s \ {pick[s]}) = Cardinality(s) - 1
  <2> TAKE s \in SUBSET S
  <2>1. IsFiniteSet(s) /\ Cardinality(s) \in Nat
    BY FS_Subset, FS_CardinalityType
  <2>2. Cardinality(s) = 0 <=> s = {}
    BY <2>1, FS_EmptySet
  <2>3. ASSUME s # {} PROVE s \ {pick[s]} \in SUBSET S /\ Cardinality(s \ {pick[s]}) = Cardinality(s) - 1
    BY <2>1, <2>3, FS_RemoveElement
  <2>4. QED BY <2>1, <2>2, <2>3
<1>2. ASSUME Missing # {} PROVE FALSE
  <2>1. PICK n \in Missing : \A m \in Missing : n <= m
    <3>1. Missing \subseteq Nat
      OBVIOUS
    <3> HIDE DEF Missing
    <3>2. QED BY <1>2, <3>1, LeastElement
  <2>2. n \in Nat /\ \A g \in [SUBSET S -> T] : ~ Upto(n, g)
    BY <2>1
  <2>3. n # 0
    <3> DEFINE g0 == [s \in SUBSET S |-> base]
    <3>1. g0 \in [SUBSET S -> T]
      OBVIOUS
    <3>2. Upto(0, g0)
      <4>1. SUFFICES ASSUME NEW s \in SUBSET S, Cardinality(s) <= 0
                     PROVE  g0[s] = base /\ s = {}
        OBVIOUS
      <4>2. s = {}
        <5>1. Cardinality(s) \in Nat /\ (Cardinality(s) = 0 => s = {})
          BY <1>1
        <5>2. Cardinality(s) = 0
          BY <5>1, <4>1
        <5>3. QED BY <5>1, <5>2
      <4>3. QED BY <4>2
    <3> HIDE DEF g0, Upto
    <3>3. QED BY <2>2, <3>1, <3>2
  <2>4. n - 1 \in Nat /\ n - 1 \notin Missing
    <3>1. n - 1 \in Nat /\ ~ (n <= n - 1)
      BY <2>2, <2>3
    <3> HIDE DEF Missing
    <3>2. QED BY <2>1, <3>1
  <2>5. PICK g \in [SUBSET S -> T] : Upto(n - 1, g)
    <3> HIDE DEF Upto
    <3>1. QED BY <2>4
  <2> DEFINE h == [s \in SUBSET S |-> IF Cardinality(s) < n THEN g[s]
                                      ELSE IF s = {} THEN base
                                      ELSE step[<<pick[s], g[s \ {pick[s]}]>>]]
  <2>6. \A s \in SUBSET S : s # {} => <<pick[s], g[s \ {pick[s]}]>> \in S \X T
    BY <1>1
  <2>7. h \in [SUBSET S -> T]
    <3>1. \A s \in SUBSET S : s # {} => step[<<pick[s], g[s \ {pick[s]}]>>] \in T
      BY <2>6
    <3>2. QED BY <3>1
  <2>8. Upto(n, h)
    <3>1. SUFFICES ASSUME NEW s \in SUBSET S, Cardinality(s) <= n
                   PROVE  h[s] = IF s = {} THEN base ELSE step[<<pick[s], h[s \ {pick[s]}]>>]
      OBVIOUS
    <3>2. ASSUME s # {} PROVE h[s \ {pick[s]}] = g[s \ {pick[s]}]
      <4>1. s \ {pick[s]} \in SUBSET S /\ Cardinality(s \ {pick[s]}) = Cardinality(s) - 1 /\ Cardinality(s) \in Nat
        BY <1>1, <3>2
      <4>2. Cardinality(s) - 1 < n
        BY <4>1, <2>2, <3>1
      <4>3. QED BY <4>1, <4>2
    <3>3. CASE Cardinality(s) < n
      <4>1. Cardinality(s) <= n - 1
        <5>1. Cardinality(s) \in Nat
          BY <1>1
        <5>2. QED BY <5>1, <2>2, <3>3
      <4>2. g[s] = IF s = {} THEN base ELSE step[<<pick[s], g[s \ {pick[s]}]>>]
        BY <2>5, <4>1
      <4>3. h[s] = g[s]
        BY <3>3
      <4>4. CASE s = {}
        BY <4>2, <4>3, <4>4
      <4>5. CASE s # {}
        <5>1. h[s \ {pick[s]}] = g[s \ {pick[s]}]
          BY <3>2, <4>5
        <5> HIDE DEF h
        <5>2. QED BY <5>1, <4>2, <4>3, <4>5
      <4>6. QED BY <4>4, <4>5
    <3>4. CASE Cardinality(s) = n
      <4>1. h[s] = IF s = {} THEN base ELSE step[<<pick[s], g[s \ {pick[s]}]>>]
        BY <3>4, <2>2
      <4>2. CASE s = {}
        BY <4>1, <4>2
      <4>3. CASE s # {}
        <5>1. h[s \ {pick[s]}] = g[s \ {pick[s]}]
          BY <3>2, <4>3
        <5>2. h[s] = step[<<pick[s], g[s \ {pick[s]}]>>]
          BY <4>1, <4>3
        <5> HIDE DEF h
        <5>3. h[s] = step[<<pick[s], h[s \ {pick[s]}]>>]
          BY <5>1, <5>2
        <5>4. QED BY <5>3, <4>3
      <4>4. QED BY <4>2, <4>3
    <3>5. Cardinality(s) < n \/ Cardinality(s) = n
      <4>1. Cardinality(s) \in Nat
        BY <1>1
      <4>2. QED BY <4>1, <3>1, <2>2
    <3>6. QED BY <3>3, <3>4, <3>5
  <2> HIDE DEF h, Upto
  <2>9. QED BY <2>2, <2>7, <2>8
<1>3. PICK it \in [SUBSET S -> T] : Upto(Cardinality(S), it)
  <2>1. Cardinality(S) \in Nat /\ Cardinality(S) \notin Missing
    BY <1>2, FS_CardinalityType
  <2> HIDE DEF Upto
  <2>2. QED BY <2>1
<1>4. \A s \in SUBSET S : Cardinality(s) <= Cardinality(S)
  BY FS_Subset
<1>5. \A s \in SUBSET S : it[s] = IF s = {} THEN base ELSE step[<<pick[s], it[s \ {pick[s]}]>>]
  BY <1>3, <1>4
<1>6. it = [s \in SUBSET S |-> IF s = {} THEN base ELSE step[<<pick[s], it[s \ {pick[s]}]>>]]
  BY <1>5
<1>7. QED BY <1>6 DEF IsFold

\* What holds at the beginning of a fold and is handed on by every step holds at
\* its end.
LEMMA FoldKeeps ==
  ASSUME NEW S, IsFiniteSet(S), NEW T, NEW it, it[{}] \in T,
         \A s \in (SUBSET S) \ {{}} : \E x \in s : it[s \ {x}] \in T => it[s] \in T
  PROVE  it[S] \in T
<1> DEFINE Wrong == {n \in Nat : \E s \in SUBSET S : Cardinality(s) = n /\ it[s] \notin T}
<1>1. SUFFICES ASSUME it[S] \notin T PROVE FALSE
  OBVIOUS
<1>2. Cardinality(S) \in Wrong
  BY <1>1, FS_CardinalityType
<1>3. PICK n \in Wrong : \A m \in Wrong : n <= m
  <2>1. Wrong \subseteq Nat /\ Wrong # {}
    BY <1>2
  <2> HIDE DEF Wrong
  <2>2. QED BY <2>1, LeastElement
<1>4. PICK s \in SUBSET S : Cardinality(s) = n /\ it[s] \notin T
  BY <1>3
<1>5. s # {}
  BY <1>4
<1>6. PICK x \in s : it[s \ {x}] \in T => it[s] \in T
  BY <1>5
<1>7. IsFiniteSet(s) /\ Cardinality(s \ {x}) = n - 1 /\ n \in Nat /\ n - 1 \in Nat
  <2>1. IsFiniteSet(s)
    BY FS_Subset
  <2>2. IsFiniteSet(s \ {x}) /\ Cardinality(s \ {x}) = n - 1
    BY <2>1, <1>4, <1>6, FS_RemoveElement
  <2>3. Cardinality(s \ {x}) \in Nat
    BY <2>2, FS_CardinalityType
  <2>4. QED BY <2>1, <2>2, <2>3
<1>8. n - 1 \notin Wrong
  BY <1>3, <1>7
<1>9. it[s \ {x}] \in T
  BY <1>7, <1>8
<1>10. QED BY <1>4, <1>6, <1>9

-----------------------------------------------------------------------------
(* Sums *)

SumOfParts(it, S, f) ==
  it = [s \in SUBSET S |-> IF s = {} THEN 0
                           ELSE f[CHOOSE x \in s : TRUE] + it[s \ {CHOOSE x \in s : TRUE}]]

IsSum(it, S, f) == it \in [SUBSET S -> Nat] /\ SumOfParts(it, S, f)

LEMMA SumExists ==
  ASSUME NEW S, IsFiniteSet(S), NEW f, \A x \in S : f[x] \in Nat
  PROVE  \E it : IsSum(it, S, f)
<1> DEFINE pick == [s \in (SUBSET S) \ {{}} |-> CHOOSE x \in s : TRUE]
           step == [p \in S \X Nat |-> f[p[1]] + p[2]]
<1>1. FoldPicks(pick, S)
  BY DEF FoldPicks
<1>2. FoldSteps(step, S, Nat)
  BY DEF FoldSteps
<1>3. PICK it \in [SUBSET S -> Nat] : IsFold(it, S, 0, pick, step)
  <2> HIDE DEF pick, step
  <2>1. 0 \in Nat
    OBVIOUS
  <2>2. QED BY <1>1, <1>2, <2>1, FoldExists
<1>4. ASSUME NEW s \in SUBSET S, s # {}
      PROVE  step[<<pick[s], it[s \ {pick[s]}]>>]
               = f[CHOOSE x \in s : TRUE] + it[s \ {CHOOSE x \in s : TRUE}]
  <2>1. pick[s] = CHOOSE x \in s : TRUE
    BY <1>4
  <2> HIDE DEF pick
  <2>2. <<pick[s], it[s \ {pick[s]}]>> \in S \X Nat
    BY <1>1, <1>4 DEF FoldPicks
  <2>3. QED BY <2>1, <2>2
<1> HIDE DEF pick, step
<1>5. IsSum(it, S, f)
  BY <1>3, <1>4 DEF IsFold, IsSum, SumOfParts
<1>6. QED BY <1>5

\* The elements may be taken in any order.
LEMMA SumInAnyOrder ==
  ASSUME NEW S, IsFiniteSet(S), NEW f, \A x \in S : f[x] \in Nat,
         NEW it, IsSum(it, S, f), NEW w \in SUBSET S, NEW e \in w
  PROVE  it[w] = f[e] + it[w \ {e}]
<1> DEFINE T == {s \in SUBSET S : \A x \in s : it[s] = f[x] + it[s \ {x}]}
<1>0. it \in [SUBSET S -> Nat]
  BY DEF IsSum
<1>1. ASSUME NEW s \in SUBSET S, \A r \in SUBSET s : r # s => r \in T, NEW x \in s
      PROVE  it[s] = f[x] + it[s \ {x}]
  <2>1. PICK c \in s : c = CHOOSE y \in s : TRUE
    OBVIOUS
  <2>2. it[s] = f[c] + it[s \ {c}]
    BY <2>1 DEF IsSum, SumOfParts
  <2>3. CASE x = c
    BY <2>2, <2>3
  <2>4. CASE x # c
    <3>1. it[s \ {c}] = f[x] + it[(s \ {c}) \ {x}]
      <4>1. s \ {c} \in SUBSET s /\ s \ {c} # s /\ x \in s \ {c}
        BY <2>4
      <4>2. s \ {c} \in T
        BY <1>1, <4>1
      <4>3. QED BY <4>1, <4>2
    <3>2. it[s \ {x}] = f[c] + it[(s \ {x}) \ {c}]
      <4>1. s \ {x} \in SUBSET s /\ s \ {x} # s /\ c \in s \ {x}
        BY <2>4
      <4>2. s \ {x} \in T
        BY <1>1, <4>1
      <4>3. QED BY <4>1, <4>2
    <3>3. (s \ {x}) \ {c} = (s \ {c}) \ {x}
      OBVIOUS
    <3>4. f[x] \in Nat /\ f[c] \in Nat /\ it[(s \ {c}) \ {x}] \in Nat
      BY <1>0
    <3>5. it[s \ {c}] \in Nat /\ it[s \ {x}] \in Nat
      BY <1>0
    <3>6. it[s \ {x}] = f[c] + it[(s \ {c}) \ {x}]
      BY <3>2, <3>3
    <3> DEFINE fx == f[x]
               fc == f[c]
               rest == it[(s \ {c}) \ {x}]
               lessx == it[s \ {x}]
               lessc == it[s \ {c}]
    <3>7. fx \in Nat /\ fc \in Nat /\ rest \in Nat /\ lessc = fx + rest /\ lessx = fc + rest
      BY <3>1, <3>4, <3>6
    <3>8. it[s] = fc + lessc
      BY <2>2
    <3> HIDE DEF fx, fc, rest, lessx, lessc
    <3>9. it[s] = fx + lessx
      BY <3>7, <3>8
    <3>10. QED BY <3>9 DEF fx, lessx
  <2>5. QED BY <2>3, <2>4
<1>2. \A s \in SUBSET S : (\A r \in SUBSET s : r # s => r \in T) => s \in T
  BY <1>1
<1>3. \A s \in SUBSET S : s \in T
  <2> HIDE DEF T
  <2>1. QED BY <1>2, SubsetsAll
<1>4. QED BY <1>3

\* A sum depends on the terms alone.
LEMMA SumOfSame ==
  ASSUME NEW S, IsFiniteSet(S), NEW f, NEW R \in SUBSET S, NEW g, \A x \in R : f[x] = g[x],
         NEW a, SumOfParts(a, S, f), NEW b, SumOfParts(b, R, g)
  PROVE  \A s \in SUBSET R : a[s] = b[s]
<1> DEFINE T == {s \in SUBSET R : a[s] = b[s]}
<1>1. ASSUME NEW s \in SUBSET R, \A r \in SUBSET s : r # s => r \in T PROVE s \in T
  <2>1. CASE s = {}
    BY <2>1 DEF SumOfParts
  <2>2. CASE s # {}
    <3>1. PICK c \in s : c = CHOOSE y \in s : TRUE
      BY <2>2
    <3>2. a[s] = f[c] + a[s \ {c}] /\ b[s] = g[c] + b[s \ {c}]
      BY <3>1 DEF SumOfParts
    <3>3. a[s \ {c}] = b[s \ {c}]
      BY <1>1
    <3>4. QED BY <3>2, <3>3
  <2>3. QED BY <2>1, <2>2
<1>2. IsFiniteSet(R)
  BY FS_Subset
<1>3. \A s \in SUBSET R : s \in T
  <2> HIDE DEF T
  <2>1. QED BY <1>1, <1>2, SubsetsAll
<1>4. QED BY <1>3

LEMMA SumIsSum ==
  ASSUME NEW S, IsFiniteSet(S), NEW f, \A x \in S : f[x] \in Nat
  PROVE  \E it : IsSum(it, S, f) /\ SumFunctionOnSet(f, S) = it[S]
<1> DEFINE iter == CHOOSE it : SumOfParts(it, S, f)
<1>1. SumFunctionOnSet(f, S) = iter[S]
  BY DEF SumFunctionOnSet, FoldFunctionOnSet, MapThenFoldSet, SumOfParts
<1>2. PICK it : IsSum(it, S, f)
  BY SumExists
<1>3. SumOfParts(it, S, f)
  BY <1>2 DEF IsSum
<1>4. SumOfParts(iter, S, f)
  BY <1>3
<1>5. iter[S] = it[S]
  <2> HIDE DEF iter
  <2>1. QED BY <1>3, <1>4, SumOfSame
<1>6. QED BY <1>1, <1>2, <1>5

\* A sum is a number, and each of its terms can be taken off it.
LEMMA SumStep ==
  ASSUME NEW S, IsFiniteSet(S), NEW f, \A x \in S : f[x] \in Nat
  PROVE  /\ SumFunctionOnSet(f, S) \in Nat
         /\ S = {} => SumFunctionOnSet(f, S) = 0
         /\ \A x \in S : SumFunctionOnSet(f, S) = f[x] + SumFunctionOnSet(f, S \ {x})
<1>1. PICK it : IsSum(it, S, f) /\ SumFunctionOnSet(f, S) = it[S]
  BY SumIsSum
<1>2. it \in [SUBSET S -> Nat] /\ (S = {} => it[S] = 0)
  BY <1>1 DEF IsSum, SumOfParts
<1>3. ASSUME NEW x \in S PROVE SumFunctionOnSet(f, S) = f[x] + SumFunctionOnSet(f, S \ {x})
  <2> DEFINE R == S \ {x}
  <2>1. IsFiniteSet(R) /\ R \in SUBSET S /\ \A y \in R : f[y] \in Nat
    BY FS_Subset
  <2>2. it[S] = f[x] + it[R]
    BY <1>1, SumInAnyOrder
  <2> HIDE DEF R
  <2>3. PICK less : IsSum(less, R, f) /\ SumFunctionOnSet(f, R) = less[R]
    BY <2>1, SumIsSum
  <2>4. it[R] = less[R]
    BY <1>1, <2>1, <2>3, SumOfSame DEF IsSum
  <2>5. QED BY <1>1, <2>2, <2>3, <2>4 DEF R
<1>4. QED BY <1>1, <1>2, <1>3

LEMMA SumSame ==
  ASSUME NEW S, IsFiniteSet(S), NEW f, \A x \in S : f[x] \in Nat, NEW g, \A x \in S : g[x] = f[x]
  PROVE  SumFunctionOnSet(g, S) = SumFunctionOnSet(f, S)
<1>1. PICK a : IsSum(a, S, f) /\ SumFunctionOnSet(f, S) = a[S]
  BY SumIsSum
<1>2. PICK b : IsSum(b, S, g) /\ SumFunctionOnSet(g, S) = b[S]
  BY SumIsSum
<1>3. a[S] = b[S]
  BY <1>1, <1>2, SumOfSame DEF IsSum
<1>4. QED BY <1>1, <1>2, <1>3

\* The sum of sums.
LEMMA SumOfBoth ==
  ASSUME NEW S, IsFiniteSet(S), NEW f, \A x \in S : f[x] \in Nat, NEW g, \A x \in S : g[x] \in Nat,
         NEW h, \A x \in S : h[x] = f[x] + g[x]
  PROVE  SumFunctionOnSet(h, S) = SumFunctionOnSet(f, S) + SumFunctionOnSet(g, S)
<1> DEFINE Sum(t, s) == SumFunctionOnSet(t, s)
           T == {s \in SUBSET S : Sum(h, s) = Sum(f, s) + Sum(g, s)}
<1>1. ASSUME NEW s \in SUBSET S
      PROVE  IsFiniteSet(s) /\ \A x \in s : f[x] \in Nat /\ g[x] \in Nat /\ h[x] \in Nat /\ h[x] = f[x] + g[x]
  BY FS_Subset
<1>2. ASSUME NEW s \in SUBSET S, \A r \in SUBSET s : r # s => r \in T PROVE s \in T
  <2>1. CASE s = {}
    <3>1. Sum(f, s) = 0 /\ Sum(g, s) = 0 /\ Sum(h, s) = 0
      BY <1>1, <2>1, SumStep
    <3>2. QED BY <3>1
  <2>2. CASE s # {}
    <3>1. PICK x \in s : TRUE
      BY <2>2
    <3> DEFINE r == s \ {x}
    <3>2. r \in SUBSET S /\ r \in T
      BY <1>2
    <3>3. Sum(f, s) = f[x] + Sum(f, r) /\ Sum(g, s) = g[x] + Sum(g, r) /\ Sum(h, s) = h[x] + Sum(h, r)
      BY <1>1, SumStep
    <3> HIDE DEF r
    <3>4. Sum(f, r) \in Nat /\ Sum(g, r) \in Nat
      BY <1>1, <3>2, SumStep
    <3>5. f[x] \in Nat /\ g[x] \in Nat /\ h[x] = f[x] + g[x]
      BY <1>1
    <3>6. Sum(h, r) = Sum(f, r) + Sum(g, r)
      BY <3>2
    <3> HIDE DEF Sum
    <3>7. Sum(h, s) = Sum(f, s) + Sum(g, s)
      BY <3>3, <3>4, <3>5, <3>6
    <3>8. QED BY <3>7
  <2>3. QED BY <2>1, <2>2
<1>3. \A s \in SUBSET S : s \in T
  <2> HIDE DEF T
  <2>1. QED BY <1>2, SubsetsAll
<1>4. QED BY <1>3

-----------------------------------------------------------------------------
(* Lists *)

LEMMA ExceptInSeq ==
  ASSUME NEW S, NEW s \in Seq(S), NEW e \in S, NEW k
  PROVE  [s EXCEPT ![k] = e] \in Seq(S)
<1> DEFINE t == [i \in 1 .. Len(s) |-> [s EXCEPT ![k] = e][i]]
<1>1. t \in Seq(S)
  OBVIOUS
<1>2. t = [s EXCEPT ![k] = e]
  OBVIOUS
<1>3. QED BY <1>1, <1>2

-----------------------------------------------------------------------------
(* The universe, planets and fleets *)

\* What is contained in something is in the manager and knows where it is.
Held(os) ==
  \A c, o \in Id : o \in os[c].contains => os[o].status # "none" /\ os[o].parent = c

InParent(os) == \A o \in Alive(os) \ {Universe} : o \in os[os[o].parent].contains

\* The universe and the planets are never destroyed, and stay where they are.
Fixed(os) ==
  /\ Planet \cup {Universe} \subseteq Alive(os)
  /\ \A p \in Planet : os[p].at = Start[p].at
  /\ os[Universe].owner = Nobody

InPlace(os) == \A o \in AliveFleets(os) : os[o].parent = Container(os, os[o].at)

Sound(os) == os \in [Id -> Object] /\ Held(os) /\ InParent(os) /\ Fixed(os) /\ InPlace(os)

Shipped(os) == \A o \in AliveFleets(os) : os[o].ships # NoShips

\* The planet at a position, of which there is one at most.
Holder(pos) ==
  LET here == {p \in Planet : Meet(Start[p].at, pos)}
  IN  IF here = {} THEN Universe ELSE Max(here)

LEMMA IdsAndPlaces ==
  /\ Universe \in Id /\ Universe \notin Planet /\ Planet \subseteq Id /\ DOMAIN Start \subseteq Id
  /\ \A o \in Id : o \in Nat /\ o <= MaxId
  /\ \A p \in Planet : Start[p].at \in Int
  /\ \A o \in Id : IsFleet(o) <=> o \notin Planet \cup {Universe}
  BY ConstantsAssumption, StartAssumption DEF Universe, Id, IsFleet

LEMMA ContainerIsHolder ==
  ASSUME NEW os, Fixed(os), NEW pos
  PROVE  Container(os, pos) = Holder(pos)
<1>1. {p \in Planet : Meet(os[p].at, pos)} = {p \in Planet : Meet(Start[p].at, pos)}
  BY DEF Fixed
<1>2. QED BY <1>1 DEF Container, Holder

LEMMA HolderType == ASSUME NEW pos PROVE Holder(pos) \in Planet \cup {Universe}
<1> DEFINE here == {p \in Planet : Meet(Start[p].at, pos)}
<1>1. here \subseteq Nat /\ \A p \in here : p <= MaxId
  BY IdsAndPlaces
<1>2. here # {} => Max(here) \in here
  <2> HIDE DEF here
  <2>1. QED BY <1>1, MaxBounded, ConstantsAssumption
<1>3. QED BY <1>2 DEF Holder

\* A planet holds what is where it is.
LEMMA HolderOfPlanet == ASSUME NEW p \in Planet PROVE Holder(Start[p].at) = p
<1> DEFINE here == {q \in Planet : Meet(Start[q].at, Start[p].at)}
<1>1. Meet(Start[p].at, Start[p].at)
  BY IdsAndPlaces DEF Meet, Distance
<1>2. here = {p}
  BY <1>1, StartAssumption
<1>3. Max({p}) = p
  BY IdsAndPlaces, ConstantsAssumption DEF Max
<1>4. QED BY <1>2, <1>3 DEF Holder

\* What changes neither places nor what contains what, and destroys fleets alone.
LEMMA Frame ==
  ASSUME NEW os, Sound(os), NEW os2 \in [Id -> Object],
         \A o \in Id : /\ os2[o].at = os[o].at /\ os2[o].parent = os[o].parent
                       /\ os2[o].contains = os[o].contains
                       /\ os2[o].status = os[o].status \/ (os2[o].status = "dead" /\ IsFleet(o)),
         os2[Universe].owner = Nobody
  PROVE  Sound(os2) /\ Alive(os2) \subseteq Alive(os)
<1>1. Alive(os2) \subseteq Alive(os)
  BY DEF Alive
<1>2. Held(os2)
  BY DEF Held, Sound
<1>3. InParent(os2)
  <2>1. SUFFICES ASSUME NEW o \in Alive(os2) \ {Universe} PROVE o \in os2[os2[o].parent].contains
    BY DEF InParent
  <2>2. o \in os[os[o].parent].contains /\ o \in Id
    BY <1>1, <2>1 DEF InParent, Sound, Alive
  <2>3. os[o].parent \in Id
    BY <2>2, IdsAndPlaces DEF Sound, Object
  <2>4. QED BY <2>2, <2>3
<1>4. Fixed(os2)
  BY IdsAndPlaces DEF Fixed, Sound, Alive
<1>5. InPlace(os2)
  <2>1. SUFFICES ASSUME NEW o \in AliveFleets(os2) PROVE os2[o].parent = Holder(os2[o].at)
    BY <1>4, ContainerIsHolder DEF InPlace
  <2>2. o \in AliveFleets(os) /\ o \in Id
    BY <1>1, <2>1 DEF AliveFleets, Alive
  <2>3. os[o].parent = Holder(os[o].at)
    BY <2>2, ContainerIsHolder DEF InPlace, Sound
  <2>4. QED BY <2>2, <2>3
<1>6. QED BY <1>1, <1>2, <1>3, <1>4, <1>5 DEF Sound

\* clearRemovedObjects leaves the living as they are.
LEMMA Cleared ==
  ASSUME NEW os, Sound(os)
  PROVE  /\ Sound(ClearRemoved(os)) /\ Alive(ClearRemoved(os)) = Alive(os)
         /\ \A o \in Id : ClearRemoved(os)[o].status \in {"none", "alive"}
         /\ \A o \in Alive(os) : /\ ClearRemoved(os)[o].owner = os[o].owner
                                 /\ ClearRemoved(os)[o].ships = os[o].ships
         /\ \A o \in Id : os[o].status = "none" => ClearRemoved(os)[o].status = "none"
<1> DEFINE cs == ClearRemoved(os)
<1>0. os \in [Id -> Object]
  BY DEF Sound
<1>1. \A o \in Id : /\ os[o].status = "dead" => cs[o] = NoObject
                    /\ os[o].status # "dead" =>
                         /\ cs[o].status = os[o].status /\ cs[o].owner = os[o].owner
                         /\ cs[o].at = os[o].at /\ cs[o].parent = os[o].parent
                         /\ cs[o].ships = os[o].ships /\ cs[o].parts = os[o].parts
                         /\ cs[o].contains = {c \in os[o].contains : ~(os[c].status = "dead" /\ os[c].parent = o)}
  BY <1>0 DEF ClearRemoved, Object
<1>2. NoObject \in Object /\ NoObject.status = "none" /\ NoObject.contains = {}
  BY DEF NoObject, Object, NoShips, Ships, Universe
<1>3. cs \in [Id -> Object]
  <2>1. \A o \in Id : os[o].status # "dead" =>
          [os[o] EXCEPT !.contains = {c \in @ : ~(os[c].status = "dead" /\ os[c].parent = o)}] \in Object
    BY <1>0 DEF Object
  <2>2. QED BY <2>1, <1>2 DEF ClearRemoved
<1> HIDE DEF cs
<1>4. Alive(cs) = Alive(os)
  BY <1>1, <1>2 DEF Alive
<1>5. Held(cs)
  <2>1. SUFFICES ASSUME NEW c \in Id, NEW o \in Id, o \in cs[c].contains
                 PROVE  cs[o].status # "none" /\ cs[o].parent = c
    BY DEF Held
  <2>2. os[c].status # "dead" /\ o \in os[c].contains /\ ~(os[o].status = "dead" /\ os[o].parent = c)
    BY <2>1, <1>1, <1>2
  <2>3. os[o].status # "none" /\ os[o].parent = c
    BY <2>2 DEF Sound, Held
  <2>4. QED BY <2>2, <2>3, <1>1
<1>6. Fixed(cs)
  BY <1>1, <1>4, IdsAndPlaces DEF Fixed, Sound, Alive
<1>7. InParent(cs)
  <2>1. SUFFICES ASSUME NEW o \in Alive(os) \ {Universe} PROVE o \in cs[cs[o].parent].contains
    BY <1>4 DEF InParent
  <2>2. o \in Id /\ os[o].status = "alive" /\ cs[o].parent = os[o].parent
    BY <2>1, <1>1 DEF Alive
  <2>3. os[o].parent \in Id /\ os[os[o].parent].status = "alive"
    BY <1>0, <2>2, IdsAndPlaces DEF Sound, Object, Fixed, Alive
  <2>4. o \in os[os[o].parent].contains
    BY <2>1 DEF Sound, InParent
  <2>5. QED BY <2>2, <2>3, <2>4, <1>1
<1>8. InPlace(cs)
  <2>1. SUFFICES ASSUME NEW o \in AliveFleets(cs) PROVE cs[o].parent = Holder(cs[o].at)
    BY <1>6, ContainerIsHolder DEF InPlace
  <2>2. o \in AliveFleets(os) /\ o \in Id /\ os[o].status = "alive"
    BY <1>4, <2>1 DEF AliveFleets, Alive
  <2>3. os[o].parent = Holder(os[o].at)
    BY <2>2, ContainerIsHolder DEF InPlace, Sound
  <2>4. QED BY <2>2, <2>3, <1>1
<1>9. \A o \in Id : cs[o].status \in {"none", "alive"}
  BY <1>0, <1>1, <1>2 DEF Object
<1>10. QED BY <1>1, <1>3, <1>4, <1>5, <1>6, <1>7, <1>8, <1>9 DEF Sound, cs, Alive

\* What ns has of os when objects are put into others and taken out of them.
Rearranged(ns, os, o, parent, c, contents) ==
  /\ ns \in [Id -> Object]
  /\ \A x \in Id : /\ ns[x].status = os[x].status /\ ns[x].owner = os[x].owner
                   /\ ns[x].at = os[x].at /\ ns[x].ships = os[x].ships
                   /\ ns[x].parent = IF x = o THEN parent ELSE os[x].parent
                   /\ ns[x].contains = IF x = c THEN contents ELSE os[x].contains

\* The parent of o is set, then the contents of c, or the other way around.
LEMMA Rearranging ==
  ASSUME NEW os \in [Id -> Object], NEW o \in Id, NEW c \in Id, o # c,
         NEW parent \in Planet \cup {Universe}, NEW contents \in SUBSET Id, NEW ns,
         \/ ns = [os EXCEPT ![o].parent = parent, ![c].contains = contents]
         \/ ns = [os EXCEPT ![c].contains = contents, ![o].parent = parent]
  PROVE  Rearranged(ns, os, o, parent, c, contents)
<1>1. \A x \in Id : ns[x] = IF x = o THEN [os[x] EXCEPT !.parent = parent]
                            ELSE IF x = c THEN [os[x] EXCEPT !.contains = contents]
                            ELSE os[x]
  OBVIOUS
<1>2. [os[o] EXCEPT !.parent = parent] \in Object /\ [os[c] EXCEPT !.contains = contents] \in Object
  BY DEF Object
<1>3. ns \in [Id -> Object]
  BY <1>2
<1>4. \A x \in Id : os[x] \in Object
  OBVIOUS
<1>5. QED BY <1>1, <1>3, <1>4 DEF Object, Rearranged

LEMMA Added ==
  ASSUME NEW os \in [Id -> Object], NEW o \in Id, NEW c \in Planet \cup {Universe}, o # c,
         NEW ns, ns = AddToParent(os, o, c)
  PROVE  Rearranged(ns, os, o, c, c, os[c].contains \cup {o})
<1> DEFINE S == os[c].contains \cup {o}
<1>1. c \in Id
  BY IdsAndPlaces
<1>2. [os EXCEPT ![o].parent = c][c].contains = os[c].contains
  BY <1>1 DEF Object
<1>3. ns = [os EXCEPT ![o].parent = c, ![c].contains = S]
  BY <1>2 DEF AddToParent
<1>4. S \in SUBSET Id
  BY <1>1 DEF Object
<1> HIDE DEF S
<1>5. Rearranged(ns, os, o, c, c, S)
  BY <1>1, <1>3, <1>4, Rearranging
<1>6. QED BY <1>5 DEF S

LEMMA TakenOut ==
  ASSUME NEW os \in [Id -> Object], NEW o \in Id, o \notin Planet \cup {Universe},
         NEW ns, ns = RemoveFromParent(os, o)
  PROVE  Rearranged(ns, os, o, Universe, os[o].parent, os[os[o].parent].contains \ {o})
<1> DEFINE c == os[o].parent
           S == os[c].contains \ {o}
<1>1. c \in Id /\ c # o
  BY IdsAndPlaces DEF Object
<1>2. S \in SUBSET Id
  BY <1>1 DEF Object
<1>3. ns = [os EXCEPT ![c].contains = S, ![o].parent = Universe]
  BY DEF RemoveFromParent
<1> HIDE DEF S, c
<1>4. Rearranged(ns, os, o, Universe, c, S)
  BY <1>1, <1>2, <1>3, Rearranging
<1>5. QED BY <1>4 DEF S, c

\* A fleet that flies somewhere is in what contains that place, and nothing else
\* changes.
LEMMA Flown ==
  ASSUME NEW os, Sound(os), NEW o \in AliveFleets(os), NEW pos \in Int
  PROVE  /\ Sound(Moved(os, o, pos))
         /\ \A x \in Id : /\ Moved(os, o, pos)[x].status = os[x].status
                          /\ Moved(os, o, pos)[x].owner = os[x].owner
                          /\ Moved(os, o, pos)[x].ships = os[x].ships
                          /\ x # o => Moved(os, o, pos)[x].at = os[x].at
<1> DEFINE into == Container(os, pos)
           from == os[o].parent
           put == IF pos = os[o].at \/ into = from THEN os
                  ELSE AddToParent(RemoveFromParent(os, o), o, into)
           ms == Moved(os, o, pos)
<1>1. /\ os \in [Id -> Object] /\ o \in Id /\ os[o].status = "alive" /\ o \notin Planet \cup {Universe}
      /\ into = Holder(pos) /\ into \in Planet \cup {Universe} /\ from \in Planet \cup {Universe}
      /\ into # o /\ from # o /\ into \in Id /\ from \in Id
  BY IdsAndPlaces, ContainerIsHolder, HolderType DEF Sound, AliveFleets, Alive, Object
<1>2. put = os \/ (into # from /\ put = AddToParent(RemoveFromParent(os, o), o, into))
  OBVIOUS
<1> HIDE DEF into, from
<1>3. ASSUME into # from, put = AddToParent(RemoveFromParent(os, o), o, into)
      PROVE  /\ put \in [Id -> Object]
             /\ \A x \in Id : /\ put[x].status = os[x].status /\ put[x].owner = os[x].owner
                              /\ put[x].at = os[x].at /\ put[x].ships = os[x].ships
                              /\ put[x].parent = IF x = o THEN into ELSE os[x].parent
                              /\ put[x].contains = IF x = into THEN os[x].contains \cup {o}
                                                   ELSE IF x = from THEN os[x].contains \ {o}
                                                   ELSE os[x].contains
  <2> HIDE DEF put
  <2> DEFINE away == RemoveFromParent(os, o)
  <2>1. put = AddToParent(away, o, into) /\ away = RemoveFromParent(os, o)
    BY <1>3
  <2> HIDE DEF away
  <2>2. Rearranged(away, os, o, Universe, from, os[from].contains \ {o})
    BY <1>1, <2>1, TakenOut DEF from
  <2>3. Rearranged(put, away, o, into, into, away[into].contains \cup {o})
    <3>1. away \in [Id -> Object]
      BY <2>2 DEF Rearranged
    <3>2. QED BY <1>1, <2>1, <3>1, Added
  <2>4. QED
    <3>1. \A x \in Id : /\ put[x].status = os[x].status /\ put[x].owner = os[x].owner
                        /\ put[x].at = os[x].at /\ put[x].ships = os[x].ships
                        /\ put[x].parent = IF x = o THEN into ELSE os[x].parent
      BY <2>2, <2>3 DEF Rearranged
    <3>2. \A x \in Id : put[x].contains = IF x = into THEN os[x].contains \cup {o}
                                          ELSE IF x = from THEN os[x].contains \ {o}
                                          ELSE os[x].contains
      <4>1. away[into].contains = os[into].contains
        BY <2>2, <1>1, <1>3 DEF Rearranged
      <4>2. TAKE x \in Id
      <4>3. CASE x = into
        BY <2>3, <4>1, <4>3 DEF Rearranged
      <4>4. CASE x # into
        BY <2>2, <2>3, <4>4 DEF Rearranged
      <4>5. QED BY <4>3, <4>4
    <3>3. QED BY <2>3, <3>1, <3>2 DEF Rearranged
<1>4. /\ put \in [Id -> Object]
      /\ \A x \in Id : /\ put[x].status = os[x].status /\ put[x].owner = os[x].owner
                       /\ put[x].at = os[x].at /\ put[x].ships = os[x].ships
                       /\ x # o => put[x].parent = os[x].parent
      /\ put[o].parent = into \/ (put = os /\ pos = os[o].at)
  <2>1. CASE put = os
    <3>1. pos = os[o].at \/ into = from
      <4>1. SUFFICES ASSUME pos # os[o].at, into # from PROVE FALSE
        OBVIOUS
      <4>2. put = AddToParent(RemoveFromParent(os, o), o, into)
        BY <4>1
      <4>3. put[o].parent = into
        BY <1>1, <1>3, <4>1, <4>2
      <4>4. QED BY <2>1, <4>1, <4>3 DEF from
    <3>2. QED BY <1>1, <2>1, <3>1 DEF from
  <2>2. CASE into # from /\ put = AddToParent(RemoveFromParent(os, o), o, into)
    <3> HIDE DEF put
    <3>1. QED BY <1>1, <1>3, <2>2
  <2>3. QED BY <1>2, <2>1, <2>2
<1>5. /\ Held(put) /\ InParent(put)
  <2>1. CASE put = os
    BY <2>1 DEF Sound
  <2>2. CASE into # from /\ put = AddToParent(RemoveFromParent(os, o), o, into)
    <3> HIDE DEF put
    <3>0. /\ \A x \in Id : put[x].status = os[x].status
          /\ \A x \in Id : put[x].parent = IF x = o THEN into ELSE os[x].parent
          /\ \A x \in Id : put[x].contains = IF x = into THEN os[x].contains \cup {o}
                                             ELSE IF x = from THEN os[x].contains \ {o}
                                             ELSE os[x].contains
      BY <1>3, <2>2
    <3>1. Held(put)
      <4>1. SUFFICES ASSUME NEW c \in Id, NEW x \in Id, x \in put[c].contains
                     PROVE  put[x].status # "none" /\ put[x].parent = c
        BY DEF Held
      <4>2. CASE x = o /\ c = into
        BY <1>1, <3>0, <4>2
      <4>3. CASE x # o \/ c # into
        <5>1. x \in os[c].contains /\ ~(c = from /\ x = o)
          <6>1. CASE c = into
            BY <2>2, <3>0, <4>1, <4>3, <6>1
          <6>2. CASE c = from /\ c # into
            BY <3>0, <4>1, <6>2
          <6>3. CASE c # from /\ c # into
            BY <3>0, <4>1, <6>3
          <6>4. QED BY <6>1, <6>2, <6>3
        <5>2. os[x].status # "none" /\ os[x].parent = c
          BY <5>1 DEF Sound, Held
        <5>3. x # o
          BY <5>1, <5>2 DEF from
        <5>4. QED BY <3>0, <5>2, <5>3
      <4>4. QED BY <4>2, <4>3
    <3>2. InParent(put)
      <4>1. SUFFICES ASSUME NEW x \in Alive(put) \ {Universe} PROVE x \in put[put[x].parent].contains
        BY DEF InParent
      <4>2. x \in Id /\ x \in Alive(os) \ {Universe}
        BY <3>0, <4>1 DEF Alive
      <4>3. x \in os[os[x].parent].contains /\ os[x].parent \in Id
        BY <1>1, <4>2, IdsAndPlaces DEF Sound, InParent, Object
      <4>4. CASE x = o
        BY <1>1, <3>0, <4>4
      <4>5. CASE x # o
        <5>1. put[x].parent = os[x].parent
          BY <3>0, <4>2, <4>5
        <5>2. x \in put[os[x].parent].contains
          BY <3>0, <4>3, <4>5
        <5>3. QED BY <5>1, <5>2
      <4>6. QED BY <4>4, <4>5
    <3>3. QED BY <3>1, <3>2
  <2>3. QED BY <1>2, <2>1, <2>2
<1>6. ms = [put EXCEPT ![o].at = pos]
  BY DEF Moved, into, from
<1> HIDE DEF put, ms
<1>7. /\ ms \in [Id -> Object]
      /\ \A x \in Id : /\ ms[x].status = put[x].status /\ ms[x].owner = put[x].owner
                       /\ ms[x].at = IF x = o THEN pos ELSE put[x].at
                       /\ ms[x].ships = put[x].ships /\ ms[x].parent = put[x].parent
                       /\ ms[x].contains = put[x].contains
  BY <1>1, <1>4, <1>6 DEF Object
<1>8. Held(ms) /\ InParent(ms)
  <2>1. Held(ms)
    BY <1>5, <1>7 DEF Held
  <2>2. InParent(ms)
    <3>1. SUFFICES ASSUME NEW x \in Alive(ms) \ {Universe} PROVE x \in ms[ms[x].parent].contains
      BY DEF InParent
    <3>2. x \in Id /\ x \in put[put[x].parent].contains
      BY <1>5, <1>7, <3>1 DEF InParent, Alive
    <3>3. put[x].parent \in Id
      BY <1>4, <3>2, IdsAndPlaces DEF Object
    <3>4. QED BY <1>7, <3>2, <3>3
  <2>3. QED BY <2>1, <2>2
<1>9. Fixed(ms)
  BY <1>1, <1>4, <1>7, IdsAndPlaces DEF Fixed, Sound, Alive
<1>10. InPlace(ms)
  <2>1. SUFFICES ASSUME NEW x \in AliveFleets(ms) PROVE ms[x].parent = Holder(ms[x].at)
    BY <1>9, ContainerIsHolder DEF InPlace
  <2>2. x \in AliveFleets(os) /\ x \in Id
    BY <1>4, <1>7, <2>1 DEF AliveFleets, Alive
  <2>3. os[x].parent = Holder(os[x].at)
    BY <2>2, ContainerIsHolder DEF InPlace, Sound
  <2>4. CASE x # o
    BY <2>2, <2>3, <2>4, <1>4, <1>7
  <2>5. CASE x = o
    BY <2>2, <2>3, <2>5, <1>1, <1>4, <1>7
  <2>6. QED BY <2>4, <2>5
<1>11. QED BY <1>4, <1>7, <1>8, <1>9, <1>10 DEF Sound, ms

\* A fleet that is merged leaves its place and is dead.
LEMMA MergedAway ==
  ASSUME NEW os, Sound(os), NEW o \in AliveFleets(os), NEW ns,
         ns = ScheduleRemove(RemoveFromParent(os, o), {o})
  PROVE  /\ Sound(ns) /\ Alive(ns) = Alive(os) \ {o}
         /\ \A x \in Id : /\ ns[x].owner = os[x].owner /\ ns[x].ships = os[x].ships
                          /\ ns[x].status = IF x = o THEN "dead" ELSE os[x].status
                          /\ ns[x].contains \subseteq os[x].contains /\ o \notin ns[x].contains
<1> DEFINE away == RemoveFromParent(os, o)
           from == os[o].parent
<1>1. /\ os \in [Id -> Object] /\ o \in Id /\ os[o].status = "alive" /\ o \notin Planet \cup {Universe}
      /\ from \in Planet \cup {Universe} /\ from # o /\ from \in Id
  BY IdsAndPlaces DEF Sound, AliveFleets, Alive, Object
<1>2. away = RemoveFromParent(os, o) /\ ns = ScheduleRemove(away, {o})
  OBVIOUS
<1> HIDE DEF away
<1>3. Rearranged(away, os, o, Universe, from, os[from].contains \ {o})
  BY <1>1, <1>2, TakenOut
<1> HIDE DEF from
<1>4. \A x \in Id : away[x] \in Object
  BY <1>3 DEF Rearranged
<1>5. ns \in [Id -> Object]
  <2>1. [away[o] EXCEPT !.status = "dead"] \in Object
    BY <1>1, <1>4 DEF Object
  <2>2. QED BY <1>2, <1>4, <2>1 DEF ScheduleRemove
<1>6. \A x \in Id : /\ ns[x].owner = away[x].owner /\ ns[x].at = away[x].at /\ ns[x].ships = away[x].ships
                    /\ ns[x].parent = away[x].parent /\ ns[x].contains = away[x].contains
                    /\ ns[x].status = IF x = o THEN "dead" ELSE away[x].status
  BY <1>2, <1>4 DEF ScheduleRemove, Object
<1>7. \A x \in Id : /\ ns[x].owner = os[x].owner /\ ns[x].at = os[x].at /\ ns[x].ships = os[x].ships
                    /\ ns[x].parent = IF x = o THEN Universe ELSE os[x].parent
                    /\ ns[x].contains = IF x = from THEN os[x].contains \ {o} ELSE os[x].contains
                    /\ ns[x].status = IF x = o THEN "dead" ELSE os[x].status
  <2> TAKE x \in Id
  <2>1. /\ away[x].owner = os[x].owner /\ away[x].at = os[x].at /\ away[x].ships = os[x].ships
        /\ away[x].status = os[x].status
    BY <1>3 DEF Rearranged
  <2>2. /\ away[x].parent = IF x = o THEN Universe ELSE os[x].parent
        /\ away[x].contains = IF x = from THEN os[from].contains \ {o} ELSE os[x].contains
    BY <1>3 DEF Rearranged
  <2>3. QED BY <1>6, <2>1, <2>2
<1>8. \A x \in Id : ns[x].contains \subseteq os[x].contains /\ o \notin ns[x].contains
  <2>1. \A x \in Id : o \in os[x].contains => x = from
    BY <1>1 DEF Sound, Held, from
  <2>2. QED BY <1>7, <2>1
<1>9. Alive(ns) = Alive(os) \ {o}
  BY <1>7 DEF Alive
<1>10. Held(ns)
  <2>1. SUFFICES ASSUME NEW c \in Id, NEW x \in Id, x \in ns[c].contains
                 PROVE  ns[x].status # "none" /\ ns[x].parent = c
    BY DEF Held
  <2>2. x # o /\ x \in os[c].contains
    BY <1>8, <2>1
  <2>3. os[x].status # "none" /\ os[x].parent = c
    BY <2>2 DEF Sound, Held
  <2>4. ns[x].status = os[x].status /\ ns[x].parent = os[x].parent
    BY <1>7, <2>2
  <2>5. QED BY <2>3, <2>4
<1>11. InParent(ns)
  <2>1. SUFFICES ASSUME NEW x \in Alive(ns) \ {Universe} PROVE x \in ns[ns[x].parent].contains
    BY DEF InParent
  <2>2. x \in Id /\ x # o /\ x \in Alive(os) \ {Universe}
    BY <1>9, <2>1 DEF Alive
  <2>3. x \in os[os[x].parent].contains /\ os[x].parent \in Id
    BY <1>1, <2>2, IdsAndPlaces DEF Sound, InParent, Object
  <2>4. ns[x].parent = os[x].parent /\ x \in ns[os[x].parent].contains
    BY <1>7, <2>2, <2>3
  <2>5. QED BY <2>4
<1>12. Fixed(ns)
  BY <1>1, <1>7, <1>9, IdsAndPlaces DEF Fixed, Sound
<1>13. InPlace(ns)
  <2>1. SUFFICES ASSUME NEW x \in AliveFleets(ns) PROVE ns[x].parent = Holder(ns[x].at)
    BY <1>12, ContainerIsHolder DEF InPlace
  <2>2. x \in AliveFleets(os) /\ x \in Id /\ x # o
    BY <1>9, <2>1 DEF AliveFleets, Alive
  <2>3. os[x].parent = Holder(os[x].at)
    BY <2>2, ContainerIsHolder DEF InPlace, Sound
  <2>4. QED BY <1>7, <2>2, <2>3
<1>14. QED BY <1>5, <1>7, <1>8, <1>9, <1>10, <1>11, <1>12, <1>13 DEF Sound

\* A fleet that is made has an id that nothing has, and is where its maker is.
LEMMA Born ==
  ASSUME NEW os, Sound(os), NEW n \in Id, os[n].status = "none",
         NEW p \in Player, NEW pos \in Int, NEW ships \in Ships, NEW ns,
         ns = NewFleet(os, n, p, pos, Holder(pos), ships)
  PROVE  /\ Sound(ns) /\ Alive(ns) = Alive(os) \cup {n} /\ IsFleet(n)
         /\ ns[n].owner = p /\ ns[n].ships = ships
         /\ \A x \in Id \ {n} : /\ ns[x].owner = os[x].owner /\ ns[x].ships = os[x].ships
                                /\ ns[x].status = os[x].status
         /\ \A x \in Id : ns[x].contains \subseteq os[x].contains \cup {n}
<1> DEFINE fleet == [NoObject EXCEPT !.status = "alive", !.owner = p, !.at = pos, !.ships = ships]
           half == [os EXCEPT ![n] = fleet]
           in == Holder(pos)
<1>1. /\ os \in [Id -> Object] /\ n \notin Planet \cup {Universe} /\ IsFleet(n)
      /\ in \in Planet \cup {Universe} /\ in # n /\ in \in Id
  BY IdsAndPlaces, HolderType DEF Sound, Fixed, Alive
<1>2. /\ fleet \in Object /\ fleet.status = "alive" /\ fleet.owner = p /\ fleet.at = pos
      /\ fleet.ships = ships /\ fleet.contains = {} /\ fleet.parent = Universe
  BY DEF NoObject, Object, Universe
<1> HIDE DEF in, fleet
<1>3. half \in [Id -> Object] /\ half[n] = fleet /\ \A x \in Id \ {n} : half[x] = os[x]
  BY <1>1, <1>2
<1>4. ns = AddToParent(half, n, in)
  BY DEF NewFleet, fleet, in
<1> HIDE DEF half
<1>5. Rearranged(ns, half, n, in, in, half[in].contains \cup {n})
  BY <1>1, <1>3, <1>4, Added
<1>6. ns \in [Id -> Object]
  BY <1>5 DEF Rearranged
<1>7. /\ ns[n].owner = p /\ ns[n].ships = ships /\ ns[n].status = "alive" /\ ns[n].at = pos
      /\ ns[n].parent = in /\ ns[n].contains = {}
  BY <1>1, <1>2, <1>3, <1>5 DEF Rearranged
<1>8. \A x \in Id \ {n} : /\ ns[x].owner = os[x].owner /\ ns[x].ships = os[x].ships
                          /\ ns[x].status = os[x].status /\ ns[x].at = os[x].at
                          /\ ns[x].parent = os[x].parent
                          /\ ns[x].contains = IF x = in THEN os[x].contains \cup {n} ELSE os[x].contains
  <2> TAKE x \in Id \ {n}
  <2>1. /\ ns[x].owner = half[x].owner /\ ns[x].ships = half[x].ships
        /\ ns[x].status = half[x].status /\ ns[x].at = half[x].at
    BY <1>5 DEF Rearranged
  <2>2. ns[x].parent = half[x].parent
    BY <1>5 DEF Rearranged
  <2>3. ns[x].contains = IF x = in THEN half[in].contains \cup {n} ELSE half[x].contains
    BY <1>5 DEF Rearranged
  <2>4. half[x] = os[x] /\ half[in] = os[in]
    BY <1>1, <1>3
  <2>5. QED BY <2>1, <2>2, <2>3, <2>4
<1>9. Alive(ns) = Alive(os) \cup {n}
  <2>1. \A x \in Id : x # n => ns[x].status = os[x].status
    BY <1>8
  <2>2. QED BY <1>7, <2>1 DEF Alive
<1>10. \A x \in Id : ns[x].contains \subseteq os[x].contains \cup {n}
  BY <1>7, <1>8
<1>11. Held(ns)
  <2>1. SUFFICES ASSUME NEW c \in Id, NEW x \in Id, x \in ns[c].contains
                 PROVE  ns[x].status # "none" /\ ns[x].parent = c
    BY DEF Held
  <2>2. c # n
    BY <1>7, <2>1
  <2>3. CASE x = n
    <3>1. n \notin os[c].contains
      BY DEF Sound, Held
    <3>2. c = in
      BY <1>8, <2>1, <2>2, <2>3, <3>1
    <3>3. QED BY <1>7, <2>3, <3>2
  <2>4. CASE x # n
    <3>1. x \in os[c].contains
      BY <1>8, <2>1, <2>2, <2>4
    <3>2. os[x].status # "none" /\ os[x].parent = c
      BY <3>1 DEF Sound, Held
    <3>3. QED BY <1>8, <2>4, <3>2
  <2>5. QED BY <2>3, <2>4
<1>12. InParent(ns)
  <2>1. SUFFICES ASSUME NEW x \in Alive(ns) \ {Universe} PROVE x \in ns[ns[x].parent].contains
    BY DEF InParent
  <2>2. CASE x = n
    BY <1>1, <1>7, <1>8, <2>2
  <2>3. CASE x # n
    <3>1. x \in Id /\ x \in Alive(os) \ {Universe}
      BY <1>9, <2>1, <2>3 DEF Alive
    <3>2. x \in os[os[x].parent].contains /\ os[x].parent \in Planet \cup {Universe} /\ os[x].parent \in Id
      BY <1>1, <3>1, IdsAndPlaces DEF Sound, InParent, Object
    <3>3. os[x].parent # n
      BY <1>1, <3>2
    <3>4. x \in ns[os[x].parent].contains
      BY <1>8, <3>2, <3>3
    <3>5. QED BY <1>8, <2>3, <3>1, <3>4
  <2>4. QED BY <2>2, <2>3
<1>13. Fixed(ns)
  BY <1>1, <1>8, <1>9, IdsAndPlaces DEF Fixed, Sound
<1>14. InPlace(ns)
  <2>1. SUFFICES ASSUME NEW x \in AliveFleets(ns) PROVE ns[x].parent = Holder(ns[x].at)
    BY <1>13, ContainerIsHolder DEF InPlace
  <2>2. CASE x = n
    BY <1>7, <2>2 DEF in
  <2>3. CASE x # n
    <3>1. x \in AliveFleets(os) /\ x \in Id
      BY <1>9, <2>1, <2>3 DEF AliveFleets, Alive
    <3>2. os[x].parent = Holder(os[x].at)
      BY <3>1, ContainerIsHolder DEF InPlace, Sound
    <3>3. QED BY <1>8, <2>3, <3>1, <3>2
  <2>4. QED BY <2>2, <2>3
<1>15. QED BY <1>1, <1>6, <1>7, <1>8, <1>9, <1>10, <1>11, <1>12, <1>13, <1>14 DEF Sound

-----------------------------------------------------------------------------
(* Orders and their queues *)

Creates(order) == order.type \in {"Build Fleet", "Split Fleet"}

CreatingIn(qs) ==
  {s \in Id \X (1 .. MaxOrders) : s[2] \in DOMAIN qs[s[1]].orders /\ Creates(qs[s[1]].orders[s[2]])}

\* An order is one that its object can carry out, and there are no more than were
\* given.
Fits(o, order) ==
  /\ order.type \in {"Move", "Split Fleet", "Merge Fleet", "Colonise"} => IsFleet(o)
  /\ order.type = "Build Fleet" => o \in Planet

Queues(qs, n) ==
  /\ qs \in [Id -> [orders : Seq(Order), owners : SUBSET (Player \cup {Nobody})]]
  /\ \A o \in Id : Len(qs[o].orders) <= n /\ \A i \in 1 .. Len(qs[o].orders) : Fits(o, qs[o].orders[i])

\* The queue of an object answers to its owner.
AnswersTo(q, owner) ==
  /\ q.owners \ {Nobody} = {owner} \ {Nobody}
  /\ \A i \in 1 .. Len(q.orders) : q.orders[i].by = owner

Answering(os, qs) == \A o \in Alive(os) : AnswersTo(qs[o], os[o].owner)

LEMMA OrderFacts ==
  ASSUME NEW order \in Order
  PROVE  /\ order.by \in Player /\ order.by # Nobody
         /\ order.type = "Move" => order.dest \in Int
         /\ Creates(order) => order.ships \in Ships
<1>1. order.by \in Player
  BY DEF Order
<1>2. order.type = "Move" => order.dest \in Places
  BY DEF Order
<1>3. Creates(order) => order.ships \in Fleets
  BY DEF Order, Creates
<1>4. QED BY <1>1, <1>2, <1>3, ConstantsAssumption DEF Ships

LEMMA OneLess == ASSUME NEW m \in Nat, NEW w \in 1 .. m, ~(w <= 1) PROVE w - 1 \in 1 .. m
  OBVIOUS

LEMMA OneMore ==
  ASSUME NEW l \in Nat, NEW m \in Nat, NEW top \in Nat, l + 1 = m, m <= top, NEW k \in 1 .. l
  PROVE  k + 1 \in 1 .. m /\ k + 1 \in 1 .. top /\ k + 1 # 1
  OBVIOUS

LEMMA Waited ==
  ASSUME NEW order \in Order, order.type = "No Operation", ~(order.wait <= 1), NEW new,
         new = [order EXCEPT !.wait = @ - 1]
  PROVE  new \in Order /\ new.type = order.type /\ new.by = order.by
<1>1. Max(Waits) \in Nat
  BY GreatestIn, ConstantsAssumption
<1>2. order \in [type : {"No Operation"}, by : Player, wait : 1 .. Max(Waits)]
  BY DEF Order
<1>3. order.wait - 1 \in 1 .. Max(Waits)
  <2>1. order.wait \in 1 .. Max(Waits)
    BY <1>2
  <2>2. QED BY <1>1, <2>1, OneLess
<1>4. new \in [type : {"No Operation"}, by : Player, wait : 1 .. Max(Waits)]
  BY <1>2, <1>3
<1>5. QED BY <1>2, <1>4 DEF Order

\* The first order is taken off a queue.
TakenOff(ns, qs, o) == ns = [qs EXCEPT ![o].orders = Tail(@)]

LEMMA QueueShrinks ==
  ASSUME NEW n \in Nat, NEW qs, Queues(qs, n), NEW o \in Id, qs[o].orders # <<>>, NEW ns,
         TakenOff(ns, qs, o)
  PROVE  /\ Queues(ns, n)
         /\ \A x \in Id : x # o => ns[x] = qs[x]
         /\ ns[o].owners = qs[o].owners
         /\ Len(ns[o].orders) + 1 = Len(qs[o].orders) /\ Len(ns[o].orders) \in Nat
         /\ \A i \in 1 .. Len(ns[o].orders) : ns[o].orders[i] = qs[o].orders[i + 1]
         /\ \A owner : AnswersTo(qs[o], owner) => AnswersTo(ns[o], owner)
<1> DEFINE s == qs[o].orders
<1>1. s \in Seq(Order) /\ Len(s) \in Nat /\ Len(s) >= 1 /\ s # <<>> /\ qs[o].owners \in SUBSET (Player \cup {Nobody})
  BY DEF Queues
<1>2. Tail(s) \in Seq(Order) /\ Len(Tail(s)) = Len(s) - 1 /\ \A i \in 1 .. Len(Tail(s)) : Tail(s)[i] = s[i + 1]
  BY <1>1
<1>3. ns[o].orders = Tail(s) /\ ns[o].owners = qs[o].owners /\ \A x \in Id : x # o => ns[x] = qs[x]
  BY DEF Queues, TakenOff
<1>4. ns \in [Id -> [orders : Seq(Order), owners : SUBSET (Player \cup {Nobody})]]
  BY <1>2 DEF Queues, TakenOff
<1> HIDE DEF s
<1>5. \A i \in 1 .. Len(Tail(s)) : i + 1 \in 1 .. Len(s)
  BY <1>1, <1>2
<1>6. \A i \in 1 .. Len(s) : Fits(o, s[i])
  BY DEF Queues, s
<1>7. Len(s) <= n
  BY DEF Queues, s
<1>8. Queues(ns, n)
  <2>1. Len(ns[o].orders) <= n
    <3>1. Len(ns[o].orders) = Len(s) - 1
      BY <1>2, <1>3
    <3>2. QED BY <1>1, <1>7, <3>1
  <2>2. \A i \in 1 .. Len(ns[o].orders) : Fits(o, ns[o].orders[i])
    BY <1>2, <1>3, <1>5, <1>6
  <2>3. \A x \in Id : x # o => Len(ns[x].orders) <= n /\ \A i \in 1 .. Len(ns[x].orders) : Fits(x, ns[x].orders[i])
    BY <1>3 DEF Queues
  <2>4. QED BY <1>4, <2>1, <2>2, <2>3 DEF Queues
<1>9. \A owner : AnswersTo(qs[o], owner) => AnswersTo(ns[o], owner)
  BY <1>2, <1>3, <1>5 DEF AnswersTo, s
<1>10. /\ Len(ns[o].orders) + 1 = Len(s) /\ Len(ns[o].orders) \in Nat
       /\ \A i \in 1 .. Len(ns[o].orders) : ns[o].orders[i] = s[i + 1]
  <2>1. \A l \in Nat : l >= 1 => (l - 1) + 1 = l /\ l - 1 \in Nat
    OBVIOUS
  <2>2. Len(ns[o].orders) = Len(s) - 1 /\ ns[o].orders = Tail(s)
    BY <1>2, <1>3
  <2>3. Len(ns[o].orders) + 1 = Len(s) /\ Len(ns[o].orders) \in Nat
    BY <1>1, <2>1, <2>2
  <2>4. QED BY <1>2, <2>2, <2>3
<1>11. QED BY <1>3, <1>8, <1>9, <1>10 DEF s

\* The first order is replaced by what is left of it.
PutBack(ns, qs, o, order) == ns = [qs EXCEPT ![o].orders[1] = order]

LEMMA QueueWaits ==
  ASSUME NEW n \in Nat, NEW qs, Queues(qs, n), NEW o \in Id, qs[o].orders # <<>>,
         NEW order \in Order, order.type = qs[o].orders[1].type, order.by = qs[o].orders[1].by,
         NEW ns, PutBack(ns, qs, o, order)
  PROVE  /\ Queues(ns, n)
         /\ \A x \in Id : x # o => ns[x] = qs[x]
         /\ ns[o].owners = qs[o].owners /\ Len(ns[o].orders) = Len(qs[o].orders)
         /\ \A i \in 1 .. Len(ns[o].orders) : ns[o].orders[i].type = qs[o].orders[i].type
         /\ \A owner : AnswersTo(qs[o], owner) => AnswersTo(ns[o], owner)
<1> DEFINE s == qs[o].orders
           t == [s EXCEPT ![1] = order]
<1>1. s \in Seq(Order) /\ Len(s) \in Nat /\ Len(s) >= 1 /\ qs[o].owners \in SUBSET (Player \cup {Nobody})
  BY DEF Queues
<1>2. t \in Seq(Order) /\ Len(t) = Len(s) /\ \A i \in 1 .. Len(s) : t[i] = IF i = 1 THEN order ELSE s[i]
  BY <1>1
<1>3. ns[o].orders = t /\ ns[o].owners = qs[o].owners /\ \A x \in Id : x # o => ns[x] = qs[x]
  BY DEF Queues, PutBack
<1>4. ns \in [Id -> [orders : Seq(Order), owners : SUBSET (Player \cup {Nobody})]]
  BY <1>2 DEF Queues, PutBack
<1> HIDE DEF t
<1>5. \A i \in 1 .. Len(s) : t[i].type = s[i].type /\ t[i].by = s[i].by
  BY <1>2
<1>6. Queues(ns, n)
  <2>1. Len(ns[o].orders) <= n
    BY <1>2, <1>3 DEF Queues
  <2>2. \A i \in 1 .. Len(ns[o].orders) : Fits(o, ns[o].orders[i])
    <3>1. \A i \in 1 .. Len(s) : Fits(o, s[i])
      BY DEF Queues
    <3>2. QED BY <1>2, <1>3, <1>5, <3>1 DEF Fits
  <2>3. \A x \in Id : x # o => Len(ns[x].orders) <= n /\ \A i \in 1 .. Len(ns[x].orders) : Fits(x, ns[x].orders[i])
    BY <1>3 DEF Queues
  <2>4. QED BY <1>4, <2>1, <2>2, <2>3 DEF Queues
<1>7. \A owner : AnswersTo(qs[o], owner) => AnswersTo(ns[o], owner)
  BY <1>2, <1>3, <1>5 DEF AnswersTo
<1>8. QED BY <1>2, <1>3, <1>5, <1>6, <1>7

LEMMA CreatingFinite ==
  ASSUME NEW qs
  PROVE  IsFiniteSet(CreatingIn(qs)) /\ Cardinality(CreatingIn(qs)) \in Nat
<1>1. IsFiniteSet(Id \X (1 .. MaxOrders))
  <2>1. IsFiniteSet(0 .. MaxId)
    <3>1. 0 \in Int /\ MaxId \in Int
      BY ConstantsAssumption
    <3>2. QED BY <3>1, FS_Interval
  <2>2. IsFiniteSet(1 .. MaxOrders)
    <3>1. 1 \in Int /\ MaxOrders \in Int
      BY ConstantsAssumption
    <3>2. QED BY <3>1, FS_Interval
  <2>3. QED BY <2>1, <2>2, FS_Product DEF Id
<1>2. CreatingIn(qs) \in SUBSET (Id \X (1 .. MaxOrders))
  BY DEF CreatingIn
<1>3. QED BY <1>1, <1>2, FS_Subset, FS_CardinalityType

LEMMA CreatingSubset ==
  ASSUME NEW qs, NEW ns, CreatingIn(ns) \subseteq CreatingIn(qs)
  PROVE  Cardinality(CreatingIn(ns)) <= Cardinality(CreatingIn(qs))
  BY CreatingFinite, FS_Subset

\* An order that is taken off a queue makes room for what it creates.
LEMMA CreatingShrinks ==
  ASSUME NEW n \in Nat, n <= MaxOrders, NEW qs, Queues(qs, n), NEW o \in Id, qs[o].orders # <<>>,
         NEW ns, TakenOff(ns, qs, o)
  PROVE  /\ Cardinality(CreatingIn(ns)) <= Cardinality(CreatingIn(qs))
         /\ Creates(qs[o].orders[1]) => Cardinality(CreatingIn(ns)) + 1 <= Cardinality(CreatingIn(qs))
<1> DEFINE T == CreatingIn(qs) \ {<<o, 1>>}
           f == [s \in CreatingIn(ns) |-> IF s[1] = o THEN <<o, s[2] + 1>> ELSE s]
<1>1. /\ \A x \in Id : x # o => ns[x] = qs[x]
      /\ Len(ns[o].orders) + 1 = Len(qs[o].orders) /\ Len(ns[o].orders) \in Nat
      /\ \A i \in 1 .. Len(ns[o].orders) : ns[o].orders[i] = qs[o].orders[i + 1]
      /\ Queues(ns, n)
  <2> HIDE DEF T, f
  <2>1. QED BY QueueShrinks
<1>2. Len(qs[o].orders) <= MaxOrders /\ MaxOrders \in Nat /\ Len(qs[o].orders) \in Nat
  <2>1. Len(qs[o].orders) <= n /\ qs[o].orders \in Seq(Order)
    BY DEF Queues
  <2>2. QED BY <2>1, ConstantsAssumption
<1>3. /\ \A x \in Id : DOMAIN ns[x].orders = 1 .. Len(ns[x].orders)
      /\ \A x \in Id : DOMAIN qs[x].orders = 1 .. Len(qs[x].orders)
  BY <1>1 DEF Queues
<1>4. \A s \in CreatingIn(ns) :
        /\ s = <<s[1], s[2]>> /\ s[1] \in Id /\ s[2] \in 1 .. MaxOrders
        /\ s[2] \in 1 .. Len(ns[s[1]].orders) /\ Creates(ns[s[1]].orders[s[2]])
  BY <1>3 DEF CreatingIn
<1>5. ASSUME NEW s \in CreatingIn(ns) PROVE f[s] \in T
  <2>1. CASE s[1] = o
    <3>1. s[2] \in 1 .. Len(ns[o].orders) /\ Creates(qs[o].orders[s[2] + 1])
      BY <1>1, <1>4, <2>1
    <3>2. s[2] + 1 \in 1 .. Len(qs[o].orders) /\ s[2] + 1 \in 1 .. MaxOrders /\ s[2] + 1 # 1
      <4> HIDE DEF T, f
      <4>1. QED BY <1>1, <1>2, <3>1, OneMore
    <3>3. <<o, s[2] + 1>> \in CreatingIn(qs)
      BY <1>3, <3>1, <3>2 DEF CreatingIn
    <3>4. <<o, s[2] + 1>> # <<o, 1>>
      BY <3>2
    <3>5. QED BY <2>1, <3>3, <3>4
  <2>2. CASE s[1] # o
    <3>1. s \in CreatingIn(qs)
      BY <1>1, <1>3, <1>4, <2>2 DEF CreatingIn
    <3>2. s # <<o, 1>>
      BY <2>2
    <3>3. QED BY <2>2, <3>1, <3>2
  <2>3. QED BY <2>1, <2>2
<1>6. ASSUME NEW s \in CreatingIn(ns), NEW t \in CreatingIn(ns), f[s] = f[t] PROVE s = t
  <2>1. s[2] \in Nat /\ t[2] \in Nat
    <3>1. s[2] \in 1 .. MaxOrders /\ t[2] \in 1 .. MaxOrders
      BY <1>4
    <3>2. QED BY <1>2, <3>1
  <2>2. f[s][1] = s[1] /\ f[t][1] = t[1]
    OBVIOUS
  <2>3. s[1] = t[1]
    BY <1>6, <2>2
  <2>4. f[s][2] = (IF s[1] = o THEN s[2] + 1 ELSE s[2]) /\ f[t][2] = (IF t[1] = o THEN t[2] + 1 ELSE t[2])
    OBVIOUS
  <2> HIDE DEF f
  <2>5. (IF s[1] = o THEN s[2] + 1 ELSE s[2]) = (IF s[1] = o THEN t[2] + 1 ELSE t[2])
    BY <1>6, <2>3, <2>4
  <2>6. s[2] = t[2]
    BY <2>1, <2>5
  <2>7. QED BY <1>4, <2>3, <2>6
<1>7. f \in Injection(CreatingIn(ns), T)
  <2>1. f \in [CreatingIn(ns) -> T]
    BY <1>5
  <2> HIDE DEF f
  <2>2. QED BY <1>6, <2>1 DEF Injection, IsInjective
<1> HIDE DEF f
<1>8. /\ IsFiniteSet(CreatingIn(qs)) /\ Cardinality(CreatingIn(qs)) \in Nat /\ Cardinality(CreatingIn(ns)) \in Nat
      /\ IsFiniteSet(T)
      /\ Cardinality(T) = IF <<o, 1>> \in CreatingIn(qs) THEN Cardinality(CreatingIn(qs)) - 1
                          ELSE Cardinality(CreatingIn(qs))
  BY CreatingFinite, FS_RemoveElement
<1>9. Cardinality(CreatingIn(ns)) <= Cardinality(T)
  BY <1>7, <1>8, FS_Injection
<1>10. Creates(qs[o].orders[1]) => <<o, 1>> \in CreatingIn(qs)
  <2>1. 1 \in 1 .. Len(qs[o].orders) /\ 1 \in 1 .. MaxOrders
    BY <1>1, <1>2
  <2>2. QED BY <2>1, <1>3 DEF CreatingIn
<1> HIDE DEF T
<1>11. QED BY <1>8, <1>9, <1>10

\* Queues that are emptied or change hands make no new orders.
LEMMA QueuesCut ==
  ASSUME NEW n \in Nat, NEW qs, Queues(qs, n),
         NEW ns \in [Id -> [orders : Seq(Order), owners : SUBSET (Player \cup {Nobody})]],
         \A x \in Id : ns[x].orders = qs[x].orders \/ ns[x].orders = <<>>
  PROVE  Queues(ns, n) /\ Cardinality(CreatingIn(ns)) <= Cardinality(CreatingIn(qs))
<1>1. ASSUME NEW x \in Id
      PROVE  Len(ns[x].orders) <= n /\ \A i \in 1 .. Len(ns[x].orders) : Fits(x, ns[x].orders[i])
  <2>1. CASE ns[x].orders = qs[x].orders
    BY <2>1 DEF Queues
  <2>2. CASE ns[x].orders = <<>>
    <3>1. Len(ns[x].orders) = 0
      BY <2>2
    <3>2. QED BY <3>1
  <2>3. QED BY <2>1, <2>2
<1>2. Queues(ns, n)
  BY <1>1 DEF Queues
<1>3. CreatingIn(ns) \subseteq CreatingIn(qs)
  <2> SUFFICES ASSUME NEW s \in CreatingIn(ns) PROVE s \in CreatingIn(qs)
    OBVIOUS
  <2>1. /\ s \in Id \X (1 .. MaxOrders) /\ s[2] \in DOMAIN ns[s[1]].orders
        /\ Creates(ns[s[1]].orders[s[2]])
    BY DEF CreatingIn
  <2>2. ns[s[1]].orders # <<>>
    BY <2>1
  <2>3. ns[s[1]].orders = qs[s[1]].orders
    BY <2>1, <2>2
  <2>4. QED BY <2>1, <2>3 DEF CreatingIn
<1>4. QED BY <1>2, <1>3, CreatingSubset

\* An order that waits is still the one it was.
LEMMA CreatingWaits ==
  ASSUME NEW n \in Nat, NEW qs, Queues(qs, n), NEW o \in Id, NEW ns, Queues(ns, n),
         \A x \in Id : x # o => ns[x] = qs[x], Len(ns[o].orders) = Len(qs[o].orders),
         \A i \in 1 .. Len(ns[o].orders) : ns[o].orders[i].type = qs[o].orders[i].type
  PROVE  Cardinality(CreatingIn(ns)) <= Cardinality(CreatingIn(qs))
<1>1. /\ \A x \in Id : DOMAIN ns[x].orders = 1 .. Len(ns[x].orders)
      /\ \A x \in Id : DOMAIN qs[x].orders = 1 .. Len(qs[x].orders)
  BY DEF Queues
<1>2. ASSUME NEW s \in CreatingIn(ns) PROVE s \in CreatingIn(qs)
  <2>1. /\ s \in Id \X (1 .. MaxOrders) /\ s[2] \in 1 .. Len(ns[s[1]].orders)
        /\ Creates(ns[s[1]].orders[s[2]])
    BY <1>1 DEF CreatingIn
  <2>2. CASE s[1] = o
    BY <1>1, <2>1, <2>2 DEF CreatingIn, Creates
  <2>3. CASE s[1] # o
    BY <1>1, <2>1, <2>3 DEF CreatingIn
  <2>4. QED BY <2>2, <2>3
<1>3. QED BY <1>2, CreatingSubset

\* An order is added.
AddedTo(ns, qs, o, order) == ns = [qs EXCEPT ![o].orders = Append(@, order)]

LEMMA QueueGrows ==
  ASSUME NEW n \in Nat, n < MaxOrders, NEW qs, Queues(qs, n), NEW o \in Id,
         NEW order \in Order, Fits(o, order), NEW ns, AddedTo(ns, qs, o, order)
  PROVE  /\ Queues(ns, n + 1)
         /\ \A x \in Id : x # o => ns[x] = qs[x]
         /\ \A owner : AnswersTo(qs[o], owner) /\ order.by = owner => AnswersTo(ns[o], owner)
         /\ Cardinality(CreatingIn(ns)) <=
              Cardinality(CreatingIn(qs)) + (IF Creates(order) THEN 1 ELSE 0)
<1> DEFINE s == qs[o].orders
           t == Append(s, order)
<1>1. s \in Seq(Order) /\ Len(s) \in Nat /\ qs[o].owners \in SUBSET (Player \cup {Nobody})
  BY DEF Queues
<1>2. t \in Seq(Order) /\ Len(t) = Len(s) + 1 /\ \A i \in 1 .. Len(t) : t[i] = IF i = Len(s) + 1 THEN order ELSE s[i]
  BY <1>1
<1>3. ns[o].orders = t /\ ns[o].owners = qs[o].owners /\ \A x \in Id : x # o => ns[x] = qs[x]
  BY DEF Queues, AddedTo
<1>4. ns \in [Id -> [orders : Seq(Order), owners : SUBSET (Player \cup {Nobody})]]
  BY <1>2 DEF Queues, AddedTo
<1>5. \A i \in 1 .. Len(s) : Fits(o, s[i])
  BY DEF Queues
<1>6. Len(s) <= n /\ \A x \in Id : Len(qs[x].orders) \in Nat /\ Len(qs[x].orders) <= n
  BY DEF Queues
<1> HIDE DEF t, s
<1>7. \A i \in 1 .. Len(t) : i # Len(s) + 1 => i \in 1 .. Len(s)
  BY <1>1, <1>2
<1>8. Queues(ns, n + 1)
  <2>1. Len(ns[o].orders) <= n + 1
    <3>1. Len(ns[o].orders) = Len(s) + 1
      BY <1>2, <1>3
    <3>2. QED BY <1>1, <1>6, <3>1
  <2>2. \A i \in 1 .. Len(ns[o].orders) : Fits(o, ns[o].orders[i])
    BY <1>2, <1>3, <1>5, <1>7
  <2>3. \A x \in Id : x # o => Len(ns[x].orders) <= n + 1
    BY <1>3, <1>6
  <2>4. \A x \in Id : x # o => \A i \in 1 .. Len(ns[x].orders) : Fits(x, ns[x].orders[i])
    BY <1>3 DEF Queues
  <2>5. QED BY <1>4, <2>1, <2>2, <2>3, <2>4 DEF Queues
<1>9. \A owner : AnswersTo(qs[o], owner) /\ order.by = owner => AnswersTo(ns[o], owner)
  <2>1. \A i \in 1 .. Len(t) : t[i] = order \/ (i \in 1 .. Len(s) /\ t[i] = s[i])
    BY <1>2, <1>7
  <2>2. QED BY <1>3, <2>1 DEF AnswersTo, s
<1>10. /\ \A x \in Id : DOMAIN ns[x].orders = 1 .. Len(ns[x].orders)
       /\ \A x \in Id : DOMAIN qs[x].orders = 1 .. Len(qs[x].orders)
  BY <1>4 DEF Queues
<1> DEFINE e == <<o, Len(s) + 1>>
<1>11. ASSUME NEW c \in CreatingIn(ns)
       PROVE  c \in CreatingIn(qs) \/ (c = e /\ Creates(order))
  <2>1. /\ c \in Id \X (1 .. MaxOrders) /\ c[2] \in 1 .. Len(ns[c[1]].orders)
        /\ Creates(ns[c[1]].orders[c[2]])
    BY <1>10 DEF CreatingIn
  <2>2. CASE c[1] # o
    BY <1>3, <1>10, <2>1, <2>2 DEF CreatingIn
  <2>3. CASE c[1] = o /\ c[2] = Len(s) + 1
    <3>1. c = e
      BY <2>1, <2>3
    <3>2. ns[o].orders[c[2]] = order
      BY <1>2, <1>3, <2>1, <2>3
    <3>3. QED BY <2>1, <2>3, <3>1, <3>2
  <2>4. CASE c[1] = o /\ c[2] # Len(s) + 1
    <3>1. c[2] \in 1 .. Len(s) /\ t[c[2]] = s[c[2]]
      BY <1>2, <1>3, <1>7, <2>1, <2>4
    <3>2. c[2] \in DOMAIN qs[o].orders /\ Creates(qs[o].orders[c[2]])
      BY <1>3, <1>10, <2>1, <2>4, <3>1 DEF s
    <3>3. QED BY <2>1, <2>4, <3>2 DEF CreatingIn
  <2>5. QED BY <2>2, <2>3, <2>4
<1> HIDE DEF e
<1>12. /\ IsFiniteSet(CreatingIn(qs)) /\ Cardinality(CreatingIn(qs)) \in Nat
       /\ Cardinality(CreatingIn(ns)) \in Nat
  BY CreatingFinite
<1>13. CASE ~ Creates(order)
  <2>1. Cardinality(CreatingIn(ns)) <= Cardinality(CreatingIn(qs))
    BY <1>11, <1>13, CreatingSubset
  <2>2. QED BY <1>3, <1>8, <1>9, <1>12, <1>13, <2>1
<1>14. CASE Creates(order)
  <2> DEFINE R == CreatingIn(qs) \cup {e}
  <2>1. IsFiniteSet(R) /\ Cardinality(R) <= Cardinality(CreatingIn(qs)) + 1 /\ Cardinality(R) \in Nat
    <3>1. IsFiniteSet(R) /\ (Cardinality(R) = Cardinality(CreatingIn(qs)) \/ Cardinality(R) = Cardinality(CreatingIn(qs)) + 1)
      BY <1>12, FS_AddElement
    <3> HIDE DEF R
    <3>2. QED BY <3>1, <1>12
  <2>2. CreatingIn(ns) \subseteq R
    BY <1>11
  <2> HIDE DEF R
  <2>3. Cardinality(CreatingIn(ns)) <= Cardinality(R)
    BY <2>1, <2>2, FS_Subset
  <2>4. Cardinality(CreatingIn(ns)) <= Cardinality(CreatingIn(qs)) + 1
    BY <1>12, <2>1, <2>3
  <2>5. QED BY <1>3, <1>8, <1>9, <1>14, <2>4
<1>15. QED BY <1>13, <1>14

-----------------------------------------------------------------------------
(* Sums and battles, which are folds *)

LEMMA IdsFinite == IsFiniteSet(Id)
<1>1. 0 \in Int /\ MaxId \in Int
  BY ConstantsAssumption
<1>2. QED BY <1>1, FS_Interval DEF Id

LEMMA SumOfZeros ==
  ASSUME NEW S, IsFiniteSet(S), NEW f, f = [s \in S |-> 0]
  PROVE  SumFunction(f) = 0
<1> DEFINE sum == SumFunctionOnSet(f, S)
<1>1. SumFunction(f) = sum
  BY DEF SumFunction
<1>2. \A s \in S : f[s] \in Nat /\ f[s] = f[s] + f[s]
  OBVIOUS
<1>3. sum \in Nat /\ sum = sum + sum
  BY <1>2, SumStep, SumOfBoth
<1> HIDE DEF sum
<1>4. QED BY <1>1, <1>3

LEMMA TotalOf ==
  ASSUME NEW ships \in Ships
  PROVE  Total(ships) \in Nat /\ Total(ships) = SumFunctionOnSet(ships, Design)
<1>1. DOMAIN ships = Design /\ \A d \in Design : ships[d] \in Nat
  BY DEF Ships
<1>2. Total(ships) = SumFunctionOnSet(ships, Design)
  BY <1>1 DEF Total, SumFunction
<1>3. QED BY <1>1, <1>2, SumStep, ConstantsAssumption

LEMMA TotalOfBoth ==
  ASSUME NEW a \in Ships, NEW b \in Ships, NEW c \in Ships, \A d \in Design : c[d] = a[d] + b[d]
  PROVE  Total(c) = Total(a) + Total(b)
<1>1. \A d \in Design : a[d] \in Nat /\ b[d] \in Nat
  BY DEF Ships
<1>2. SumFunctionOnSet(c, Design) = SumFunctionOnSet(a, Design) + SumFunctionOnSet(b, Design)
  BY <1>1, SumOfBoth, ConstantsAssumption
<1>3. QED BY <1>2, TotalOf

\* The ships of some fleets.
ShipsOf(os, F) == SumFunctionOnSet([o \in Id |-> Total(os[o].ships)], F)

LEMMA ShipsOfFleets ==
  ASSUME NEW os \in [Id -> Object], NEW F \in SUBSET Id
  PROVE  /\ ShipsOf(os, F) \in Nat
         /\ \A o \in F : Total(os[o].ships) \in Nat /\ ShipsOf(os, F) = Total(os[o].ships) + ShipsOf(os, F \ {o})
<1> DEFINE f == [o \in Id |-> Total(os[o].ships)]
<1>1. \A o \in F : f[o] = Total(os[o].ships) /\ f[o] \in Nat
  <2> SUFFICES ASSUME NEW o \in F PROVE f[o] = Total(os[o].ships) /\ f[o] \in Nat
    OBVIOUS
  <2>1. os[o].ships \in Ships
    BY DEF Object
  <2>2. QED BY <2>1, TotalOf
<1>2. IsFiniteSet(F)
  BY IdsFinite, FS_Subset
<1>3. ShipsOf(os, F) = SumFunctionOnSet(f, F) /\ \A o \in F : ShipsOf(os, F \ {o}) = SumFunctionOnSet(f, F \ {o})
  BY DEF ShipsOf
<1> HIDE DEF f
<1>4. /\ SumFunctionOnSet(f, F) \in Nat
      /\ \A o \in F : SumFunctionOnSet(f, F) = f[o] + SumFunctionOnSet(f, F \ {o})
  BY <1>1, <1>2, SumStep
<1>5. QED BY <1>1, <1>3, <1>4

LEMMA SameShips ==
  ASSUME NEW os \in [Id -> Object], NEW ns \in [Id -> Object], NEW F \in SUBSET Id,
         \A o \in F : ns[o].ships = os[o].ships
  PROVE  ShipsOf(ns, F) = ShipsOf(os, F)
<1> DEFINE f == [o \in Id |-> Total(os[o].ships)]
           g == [o \in Id |-> Total(ns[o].ships)]
<1>1. \A o \in F : f[o] \in Nat /\ g[o] = f[o]
  <2> SUFFICES ASSUME NEW o \in F PROVE f[o] \in Nat /\ g[o] = f[o]
    OBVIOUS
  <2>1. os[o].ships \in Ships
    BY DEF Object
  <2>2. QED BY <2>1, TotalOf
<1>2. IsFiniteSet(F)
  BY IdsFinite, FS_Subset
<1>3. ShipsOf(os, F) = SumFunctionOnSet(f, F) /\ ShipsOf(ns, F) = SumFunctionOnSet(g, F)
  BY DEF ShipsOf
<1> HIDE DEF f, g
<1>4. QED BY <1>1, <1>2, <1>3, SumSame

\* What is taken and the rest are what there was.
LEMMA TakenAndRest ==
  ASSUME NEW o, obj[o].ships \in Ships, NEW asked \in Ships
  PROVE  /\ Taken(o, asked) \in Ships /\ Minus(obj[o].ships, Taken(o, asked)) \in Ships
         /\ Total(obj[o].ships)
              = Total(Taken(o, asked)) + Total(Minus(obj[o].ships, Taken(o, asked)))
         /\ Taken(o, asked) = NoShips => Minus(obj[o].ships, Taken(o, asked)) = obj[o].ships
         /\ Minus(obj[o].ships, Taken(o, asked)) = NoShips => Taken(o, asked) = obj[o].ships
<1> DEFINE ships == obj[o].ships
           taken == Taken(o, asked)
           rest == Minus(ships, taken)
<1>1. \A d \in Design : /\ taken[d] = (IF ships[d] >= asked[d] THEN asked[d] ELSE 0)
                        /\ ships[d] \in Nat /\ asked[d] \in Nat
  BY DEF Taken, Ships
<1>2. taken \in Ships
  BY <1>1 DEF Taken, Ships
<1>3. \A d \in Design : /\ rest[d] = ships[d] - taken[d] /\ ships[d] - taken[d] \in Nat
                        /\ taken[d] \in Nat
  BY <1>1 DEF Minus
<1>4. rest \in Ships
  BY <1>3 DEF Minus, Ships
<1>5. \A d \in Design : ships[d] = taken[d] + rest[d]
  BY <1>1, <1>3
<1> HIDE DEF taken, rest
<1>6. Total(ships) = Total(taken) + Total(rest)
  BY <1>2, <1>4, <1>5, TotalOfBoth
<1>7. ASSUME taken = NoShips PROVE rest = ships
  <2>1. \A d \in Design : rest[d] = ships[d]
    BY <1>1, <1>3, <1>7 DEF NoShips
  <2>2. QED BY <1>4, <2>1 DEF Ships
<1>8. ASSUME rest = NoShips PROVE taken = ships
  <2>1. \A d \in Design : taken[d] = ships[d]
    BY <1>1, <1>3, <1>5, <1>8 DEF NoShips
  <2>2. QED BY <1>2, <2>1 DEF Ships
<1>9. QED BY <1>2, <1>4, <1>6, <1>7, <1>8 DEF taken, rest

\* The groups that the combatants make, and the battles among them.
LEMMA GroupsType ==
  ASSUME Combatants \subseteq Id
  PROVE  Groups \in Seq(SUBSET Combatants)
<1> DEFINE S == Combatants
           Eq(it) == it = [s \in SUBSET S |-> IF s = {} THEN <<>>
                             ELSE Join(it[s \ {Max(s)}], Max(s))]
           iter == CHOOSE it : Eq(it)
           pick == [s \in (SUBSET S) \ {{}} |-> Max(s)]
           T == Seq(SUBSET S)
           base == <<>>
           step == [p \in S \X T |-> Join(p[2], p[1])]
<1>1. Groups = iter[S]
  BY DEF Groups, MapThenFoldSet
<1>2. \A s \in SUBSET S : s # {} => Max(s) \in s
  <2> SUFFICES ASSUME NEW s \in SUBSET S, s # {} PROVE Max(s) \in s
    OBVIOUS
  <2>1. s \in SUBSET Nat /\ s \subseteq Id
    BY IdsAndPlaces
  <2>2. IsFiniteSet(s)
    BY <2>1, IdsFinite, FS_Subset
  <2>3. QED BY <2>1, <2>2, GreatestIn
<1>3. IsFiniteSet(S)
  BY IdsFinite, FS_Subset
<1>4. \A o \in S, groups \in T : Join(groups, o) \in T
  <2> SUFFICES ASSUME NEW o \in S, NEW groups \in T PROVE Join(groups, o) \in T
    OBVIOUS
  <2> DEFINE met == {i \in DOMAIN groups : \E m \in groups[i] : Meet(obj[m].at, obj[o].at)}
             k == Min(met)
  <2> HIDE DEF k, S
  <2>1. Append(groups, {o}) \in T
    OBVIOUS
  <2>2. [groups EXCEPT ![k] = @ \cup {o}] \in T
    <3>1. CASE k \in DOMAIN groups
      <4>1. groups[k] \cup {o} \in SUBSET S
        BY <3>1
      <4>2. QED BY <4>1, ExceptInSeq
    <3>2. CASE k \notin DOMAIN groups
      <4>1. [groups EXCEPT ![k] = @ \cup {o}] = groups
        BY <3>2
      <4>2. QED BY <4>1
    <3>3. QED BY <3>1, <3>2
  <2>3. QED BY <2>1, <2>2 DEF Join, k
<1> HIDE DEF S
<1>5. FoldPicks(pick, S)
  BY <1>2 DEF FoldPicks
<1>6. FoldSteps(step, S, T) /\ base \in T
  BY <1>4 DEF FoldSteps
<1>7. \E it : Eq(it)
  <2>1. PICK it \in [SUBSET S -> T] : IsFold(it, S, base, pick, step)
    <3> HIDE DEF pick, step, T, base
    <3>1. QED BY <1>3, <1>5, <1>6, FoldExists
  <2>2. ASSUME NEW s \in SUBSET S, s # {}
        PROVE  /\ pick[s] = Max(s)
               /\ step[<<pick[s], it[s \ {pick[s]}]>>] = Join(it[s \ {pick[s]}], pick[s])
    <3>1. pick[s] = Max(s)
      BY <2>2
    <3> HIDE DEF pick, T
    <3>2. <<pick[s], it[s \ {pick[s]}]>> \in S \X T
      BY <1>5, <2>2 DEF FoldPicks
    <3>3. QED BY <3>1, <3>2
  <2> HIDE DEF pick, step
  <2>3. Eq(it)
    BY <2>1, <2>2 DEF IsFold
  <2>4. QED BY <2>3
<1>8. Eq(iter)
  <2> HIDE DEF Eq
  <2>1. QED BY <1>7
<1> HIDE DEF iter
<1>9. iter[S] \in T
  <2>1. iter[{}] \in T
    BY <1>8
  <2>2. \A s \in (SUBSET S) \ {{}} : \E x \in s : iter[s \ {x}] \in T => iter[s] \in T
    <3> SUFFICES ASSUME NEW s \in SUBSET S, s # {}
                 PROVE  \E x \in s : iter[s \ {x}] \in T => iter[s] \in T
      OBVIOUS
    <3>1. PICK x \in s : x = Max(s)
      BY <1>2
    <3>2. iter[s] = Join(iter[s \ {x}], x)
      BY <1>8, <3>1
    <3> HIDE DEF T
    <3>3. QED BY <3>2, <1>4
  <2> HIDE DEF Eq, T
  <2>3. QED BY <1>3, <2>1, <2>2, FoldKeeps
<1>10. QED BY <1>1, <1>9 DEF S

LEMMA BattlesIn ==
  ASSUME NEW G, NEW seq \in Seq(G), NEW T, <<>> \in T,
         \A fought \in T, group \in G : AddBattle(fought, group) \in T
  PROVE  FoldLeft(AddBattle, <<>>, seq) \in T
<1> DEFINE S == 1 .. Len(seq)
           Eq(it) == it = [s \in SUBSET S |-> IF s = {} THEN <<>>
                             ELSE AddBattle(it[s \ {Max(s)}], seq[Max(s)])]
           iter == CHOOSE it : Eq(it)
           pick == [s \in (SUBSET S) \ {{}} |-> Max(s)]
           base == <<>>
           step == [p \in S \X T |-> AddBattle(p[2], seq[p[1]])]
<1>1. FoldLeft(AddBattle, <<>>, seq) = iter[S]
  <2>1. DOMAIN seq = S
    OBVIOUS
  <2>2. QED BY <2>1 DEF FoldLeft, MapThenFoldSet
<1>2. IsFiniteSet(S) /\ S \in SUBSET Nat /\ \A i \in S : seq[i] \in G
  <2>1. Len(seq) \in Int /\ 1 \in Int
    OBVIOUS
  <2>2. QED BY <2>1, FS_Interval
<1> HIDE DEF S
<1>3. \A s \in SUBSET S : s # {} => Max(s) \in s
  <2> SUFFICES ASSUME NEW s \in SUBSET S, s # {} PROVE Max(s) \in s
    OBVIOUS
  <2>1. s \in SUBSET Nat /\ IsFiniteSet(s)
    BY <1>2, FS_Subset
  <2>2. QED BY <2>1, GreatestIn
<1>5. FoldPicks(pick, S)
  BY <1>3 DEF FoldPicks
<1>6. FoldSteps(step, S, T) /\ base \in T
  BY <1>2 DEF FoldSteps
<1>7. \E it : Eq(it)
  <2>1. PICK it \in [SUBSET S -> T] : IsFold(it, S, base, pick, step)
    <3> HIDE DEF pick, step, base
    <3>1. QED BY <1>2, <1>5, <1>6, FoldExists
  <2>2. ASSUME NEW s \in SUBSET S, s # {}
        PROVE  /\ pick[s] = Max(s)
               /\ step[<<pick[s], it[s \ {pick[s]}]>>] = AddBattle(it[s \ {pick[s]}], seq[pick[s]])
    <3>1. pick[s] = Max(s)
      BY <2>2
    <3> HIDE DEF pick
    <3>2. <<pick[s], it[s \ {pick[s]}]>> \in S \X T
      BY <1>5, <2>2 DEF FoldPicks
    <3>3. QED BY <3>1, <3>2
  <2> HIDE DEF pick, step
  <2>3. Eq(it)
    BY <2>1, <2>2 DEF IsFold
  <2>4. QED BY <2>3
<1>8. Eq(iter)
  <2> HIDE DEF Eq
  <2>1. QED BY <1>7
<1> HIDE DEF iter
<1>9. iter[S] \in T
  <2>1. iter[{}] \in T
    BY <1>8
  <2>2. \A s \in (SUBSET S) \ {{}} : \E x \in s : iter[s \ {x}] \in T => iter[s] \in T
    <3> SUFFICES ASSUME NEW s \in SUBSET S, s # {}
                 PROVE  \E x \in s : iter[s \ {x}] \in T => iter[s] \in T
      OBVIOUS
    <3>1. PICK x \in s : x = Max(s)
      BY <1>3
    <3>2. iter[s] = AddBattle(iter[s \ {x}], seq[x])
      BY <1>8, <3>1
    <3>3. QED BY <3>2, <1>2
  <2> HIDE DEF Eq
  <2>3. QED BY <1>2, <2>1, <2>2, FoldKeeps
<1>10. QED BY <1>1, <1>9

-----------------------------------------------------------------------------
(* The inductive invariant *)

Types ==
  /\ nextid \in 1 .. MaxId + 1 /\ given \in 0 .. MaxOrders
  /\ owned \in [Player -> SUBSET Id]
  /\ view \in [Player -> [known : SUBSET Id, gone : SUBSET Id]]
  /\ living \subseteq Player /\ score \in [Player -> Nat]
  /\ phase \in {"play", "move", "fight", "orders"}
  /\ todo \subseteq Id /\ later \subseteq Id
  /\ battles \in Seq(SUBSET (Id \ {Universe})) /\ (phase # "fight" => battles = <<>>)

\* Who is visited while fleets move has a move to make; who is visited later was
\* not destroyed in a battle.
Visits ==
  /\ phase = "move" => todo \subseteq Movers
  /\ phase = "orders" => \A o \in todo : obj[o].status # "dead"

\* Ids are given out in turn.
Unborn ==
  \A o \in Id : o >= nextid => /\ obj[o].status # "alive"
                               /\ phase # "fight" => obj[o].status = "none"

NoneDead == phase \in {"play", "move"} => \A o \in Id : obj[o].status # "dead"

\* There are ids for what has been ordered.
Room == nextid + Cardinality(CreatingIn(queue)) <= MaxId + 1

Watched ==
  \A p \in Player :
    /\ view[p].known \cup view[p].gone \subseteq 0 .. nextid - 1
    /\ view[p].gone \cap Alive(obj) = {}
    /\ phase = "play" => view[p].known \ view[p].gone = Alive(obj)

\* A fleet that is used up and still in its place has left its owner a planet:
\* who merges into it does not lose the last thing he has.
Remains ==
  phase = "orders" =>
    \A c \in Id : \A t \in obj[c].contains :
      obj[t].status = "dead" /\ obj[t].owner # Nobody => owned[obj[t].owner] \cap Planet # {}

Survivor ==
  /\ \A p \in Player \ living : owned[p] = {}
  /\ \A p \in Player : living = {p} => owned[p] # {} /\ battles = <<>>
  /\ phase = "play" => \A p \in living : owned[p] # {}
  /\ \A p \in Player : phase = "play" /\ living = {p} => score[p] = Cardinality(Player) - 1
  /\ \A p \in Player : score[p] > 0 => living = {p}

Stands ==
  /\ Types /\ Sound(obj) /\ Shipped(obj)
  /\ Queues(queue, given) /\ Answering(obj, queue) /\ Room
  /\ OwnedHeld /\ Visits /\ Unborn /\ NoneDead
  /\ Watched /\ Remains /\ Survivor

\* What is known of an object that has an order to carry out.
Serves(o) ==
  /\ o \in Id /\ o \in Alive(obj) /\ obj[o] \in Object
  /\ obj[o].owner \in Player /\ obj[o].owner # Nobody
  /\ o \in owned[obj[o].owner] /\ obj[o].owner \in living
  /\ queue[o].orders # <<>> /\ FirstOrder(o) = queue[o].orders[1]
  /\ FirstOrder(o) \in Order /\ Fits(o, FirstOrder(o))
  /\ o < nextid

LEMMA Numbers ==
  ASSUME Types
  PROVE  nextid \in Nat /\ nextid >= 1 /\ given \in Nat /\ given <= MaxOrders /\ MaxOrders \in Nat /\ MaxId \in Nat
  BY ConstantsAssumption DEF Types

LEMMA Ordering ==
  ASSUME Stands, NEW o \in Alive(obj), queue[o].orders # <<>>
  PROVE  Serves(o)
<1>1. o \in Id /\ obj[o] \in Object /\ obj[o].status = "alive"
  BY DEF Stands, Sound, Alive
<1>2. queue[o].orders \in Seq(Order) /\ 1 \in 1 .. Len(queue[o].orders)
  BY <1>1 DEF Stands, Queues
<1>3. FirstOrder(o) = queue[o].orders[1] /\ FirstOrder(o) \in Order
  BY <1>2 DEF FirstOrder
<1>4. Fits(o, FirstOrder(o))
  BY <1>1, <1>2, <1>3 DEF Stands, Queues
<1>5. FirstOrder(o).by = obj[o].owner
  BY <1>2, <1>3 DEF Stands, Answering, AnswersTo
<1>6. obj[o].owner \in Player /\ obj[o].owner # Nobody
  BY <1>3, <1>5, OrderFacts
<1>7. o \in owned[obj[o].owner]
  BY <1>6 DEF Stands, OwnedHeld
<1>8. obj[o].owner \in living
  BY <1>6, <1>7 DEF Stands, Survivor
<1>9. o < nextid
  <2>1. o \in Nat /\ nextid \in Nat
    BY <1>1, IdsAndPlaces, Numbers DEF Stands
  <2>2. ~ (o >= nextid)
    BY <1>1 DEF Stands, Unborn
  <2>3. QED BY <2>1, <2>2
<1>10. QED BY <1>1, <1>3, <1>4, <1>6, <1>7, <1>8, <1>9 DEF Serves

\* There is an id for what an order makes.
LEMMA HasRoom ==
  ASSUME Stands, NEW o, Serves(o), phase = "orders", Creates(FirstOrder(o))
  PROVE  nextid \in Id /\ obj[nextid].status = "none" /\ nextid # o
<1>1. nextid \in Nat /\ MaxId \in Nat /\ given \in Nat /\ given <= MaxOrders
  BY Numbers DEF Stands
<1>2. queue[o].orders # <<>> /\ o \in Id /\ Creates(queue[o].orders[1]) /\ Queues(queue, given)
  BY DEF Serves, Stands
<1> DEFINE ns == [queue EXCEPT ![o].orders = Tail(@)]
<1>3. TakenOff(ns, queue, o)
  BY DEF TakenOff
<1> HIDE DEF ns
<1>4. Cardinality(CreatingIn(ns)) + 1 <= Cardinality(CreatingIn(queue))
  BY <1>1, <1>2, <1>3, CreatingShrinks
<1>5. Cardinality(CreatingIn(ns)) \in Nat /\ Cardinality(CreatingIn(queue)) \in Nat
  BY CreatingFinite
<1>6. nextid + Cardinality(CreatingIn(queue)) <= MaxId + 1
  BY DEF Stands, Room
<1>7. nextid \in Id
  <2>1. nextid \in 0 .. MaxId
    BY <1>1, <1>4, <1>5, <1>6
  <2>2. QED BY <2>1 DEF Id
<1>8. nextid >= nextid /\ o # nextid
  BY <1>1 DEF Serves
<1>9. obj[nextid].status = "none"
  BY <1>7, <1>8 DEF Stands, Unborn
<1>10. QED BY <1>7, <1>8, <1>9

\* An order that is finished or waits, among queues that stand.
LEMMA Finished ==
  ASSUME NEW qs, Queues(qs, given), Types, NEW o \in Id, qs[o].orders # <<>>, Finish(o, qs)
  PROVE  /\ Queues(queue', given) /\ todo' = todo \ {o}
         /\ Cardinality(CreatingIn(queue')) <= Cardinality(CreatingIn(qs))
         /\ Creates(qs[o].orders[1]) =>
              Cardinality(CreatingIn(queue')) + 1 <= Cardinality(CreatingIn(qs))
         /\ \A x \in Id : x # o => queue'[x] = qs[x]
         /\ \A owner : AnswersTo(qs[o], owner) => AnswersTo(queue'[o], owner)
<1>1. TakenOff(queue', qs, o) /\ todo' = todo \ {o}
  BY DEF Finish, TakenOff
<1>2. given \in Nat /\ given <= MaxOrders
  BY Numbers
<1>3. /\ Queues(queue', given)
      /\ \A x \in Id : x # o => queue'[x] = qs[x]
      /\ \A owner : AnswersTo(qs[o], owner) => AnswersTo(queue'[o], owner)
  <2>1. Queues(queue', given)
    BY <1>1, <1>2, QueueShrinks
  <2>2. \A x \in Id : x # o => queue'[x] = qs[x]
    BY <1>1, <1>2, QueueShrinks
  <2>3. \A owner : AnswersTo(qs[o], owner) => AnswersTo(queue'[o], owner)
    BY <1>1, <1>2, QueueShrinks
  <2>4. QED BY <2>1, <2>2, <2>3
<1>4. /\ Cardinality(CreatingIn(queue')) <= Cardinality(CreatingIn(qs))
      /\ Creates(qs[o].orders[1]) =>
           Cardinality(CreatingIn(queue')) + 1 <= Cardinality(CreatingIn(qs))
  BY <1>1, <1>2, CreatingShrinks
<1>5. QED BY <1>1, <1>3, <1>4

LEMMA Kept ==
  ASSUME Queues(queue, given), Types, NEW o \in Id, queue[o].orders # <<>>, NEW order \in Order,
         order.type = queue[o].orders[1].type, order.by = queue[o].orders[1].by, Keep(o, order)
  PROVE  /\ Queues(queue', given) /\ todo' = todo \ {o}
         /\ Cardinality(CreatingIn(queue')) <= Cardinality(CreatingIn(queue))
         /\ \A x \in Id : x # o => queue'[x] = queue[x]
         /\ \A owner : AnswersTo(queue[o], owner) => AnswersTo(queue'[o], owner)
<1>1. PutBack(queue', queue, o, order) /\ todo' = todo \ {o}
  BY DEF Keep, PutBack
<1>2. given \in Nat
  BY Numbers
<1>3. /\ Queues(queue', given)
      /\ \A x \in Id : x # o => queue'[x] = queue[x]
      /\ Len(queue'[o].orders) = Len(queue[o].orders)
      /\ \A i \in 1 .. Len(queue'[o].orders) : queue'[o].orders[i].type = queue[o].orders[i].type
      /\ \A owner : AnswersTo(queue[o], owner) => AnswersTo(queue'[o], owner)
  <2>1. Queues(queue', given)
    BY <1>1, <1>2, QueueWaits
  <2>2. \A x \in Id : x # o => queue'[x] = queue[x]
    BY <1>1, <1>2, QueueWaits
  <2>3. /\ Len(queue'[o].orders) = Len(queue[o].orders)
        /\ \A i \in 1 .. Len(queue'[o].orders) : queue'[o].orders[i].type = queue[o].orders[i].type
    BY <1>1, <1>2, QueueWaits
  <2>4. \A owner : AnswersTo(queue[o], owner) => AnswersTo(queue'[o], owner)
    BY <1>1, <1>2, QueueWaits
  <2>5. QED BY <2>1, <2>2, <2>3, <2>4
<1>4. Cardinality(CreatingIn(queue')) <= Cardinality(CreatingIn(queue))
  BY <1>2, <1>3, CreatingWaits
<1>5. QED BY <1>1, <1>3, <1>4

\* Room is left when no id is given out.
LEMMA RoomLeft ==
  ASSUME Room, Types, nextid' = nextid, Cardinality(CreatingIn(queue')) <= Cardinality(CreatingIn(queue))
  PROVE  Room'
<1>1. /\ Cardinality(CreatingIn(queue')) \in Nat /\ Cardinality(CreatingIn(queue)) \in Nat
      /\ nextid \in Nat /\ MaxId \in Nat
  BY CreatingFinite, Numbers
<1>2. QED BY <1>1 DEF Room

\* Nothing is made, destroyed or given away.
LEMMA Quiet ==
  ASSUME Stands, UNCHANGED <<nextid, owned, view, living, score, phase, battles>>,
         \A x \in Id : /\ obj'[x].owner = obj[x].owner /\ obj'[x].status = obj[x].status
                       /\ phase = "orders" => obj'[x].contains = obj[x].contains
  PROVE  /\ Alive(obj') = Alive(obj) /\ OwnedHeld' /\ Unborn' /\ NoneDead' /\ Watched' /\ Remains' /\ Survivor'
<1>1. Alive(obj') = Alive(obj)
  BY DEF Alive
<1>2. OwnedHeld'
  <2> SUFFICES ASSUME NEW p \in Player PROVE owned'[p] = {o \in Alive(obj') : obj'[o].owner = p}
    BY DEF OwnedHeld
  <2>1. owned[p] = {o \in Alive(obj) : obj[o].owner = p}
    BY DEF Stands, OwnedHeld
  <2>2. \A o \in Alive(obj) : obj'[o].owner = obj[o].owner
    BY DEF Alive
  <2>3. QED BY <1>1, <2>1, <2>2
<1>3. Unborn' /\ NoneDead'
  BY DEF Stands, Unborn, NoneDead
<1>4. Watched'
  BY <1>1 DEF Stands, Watched
<1>5. Remains'
  <2> SUFFICES ASSUME phase = "orders", NEW c \in Id, NEW t \in obj'[c].contains, obj'[t].status = "dead",
                      obj'[t].owner # Nobody
               PROVE  owned[obj'[t].owner] \cap Planet # {}
    BY DEF Remains
  <2>1. t \in obj[c].contains /\ t \in Id
    BY DEF Stands, Sound, Object
  <2>2. QED BY <2>1 DEF Stands, Remains
<1>6. Survivor'
  BY DEF Stands, Survivor
<1>7. QED BY <1>1, <1>2, <1>3, <1>4, <1>5, <1>6

-----------------------------------------------------------------------------
(* Every action keeps the invariant *)

LEMMA GiveOrderStands ==
  ASSUME Stands, NEW p \in Player, NEW o \in Id, NEW order \in NewOrder, GiveOrder(p, o, order)
  PROVE  Stands'
<1>1. /\ phase = "play" /\ given < MaxOrders /\ o \in Alive(obj) /\ o # Universe
      /\ p \in queue[o].owners /\ order.by = p /\ order.type \in Allowed(o)
      /\ Creates(order) => nextid + Cardinality(CreatingIn(queue)) <= MaxId
      /\ AddedTo(queue', queue, o, order) /\ given' = given + 1
      /\ UNCHANGED <<obj, nextid, owned, view, living, score, phase, todo, later, battles>>
  BY DEF GiveOrder, AddedTo, Creating, CreatingIn, Creates
<1>2. order \in Order /\ Fits(o, order)
  <2>1. order \in Order
    BY DEF NewOrder
  <2>2. Fits(o, order)
    BY <1>1, IdsAndPlaces DEF Fits, Allowed
  <2>3. QED BY <2>1, <2>2
<1>3. p = obj[o].owner
  <2>1. queue[o].owners \ {Nobody} = {obj[o].owner} \ {Nobody}
    BY <1>1 DEF Stands, Answering, AnswersTo
  <2>2. p # Nobody
    BY ConstantsAssumption
  <2>3. QED BY <1>1, <2>1, <2>2
<1>4. /\ given \in Nat /\ nextid \in Nat /\ MaxId \in Nat /\ MaxOrders \in Nat
      /\ Queues(queue, given)
  BY Numbers DEF Stands
<1>5. Queues(queue', given + 1)
  BY <1>1, <1>2, <1>4, QueueGrows
<1>6. \A x \in Id : x # o => queue'[x] = queue[x]
  BY <1>1, <1>2, <1>4, QueueGrows
<1>7. AnswersTo(queue[o], p) => AnswersTo(queue'[o], p)
  BY <1>1, <1>2, <1>4, QueueGrows
<1>8. Cardinality(CreatingIn(queue')) <= Cardinality(CreatingIn(queue)) + (IF Creates(order) THEN 1 ELSE 0)
  BY <1>1, <1>2, <1>4, QueueGrows
<1>9. Room'
  <2>1. Cardinality(CreatingIn(queue')) \in Nat /\ Cardinality(CreatingIn(queue)) \in Nat
    BY CreatingFinite
  <2>2. nextid + Cardinality(CreatingIn(queue)) <= MaxId + 1
    BY DEF Stands, Room
  <2>3. nextid + Cardinality(CreatingIn(queue')) <= MaxId + 1
    BY <1>1, <1>4, <1>8, <2>1, <2>2
  <2>4. QED BY <1>1, <2>3 DEF Room
<1>10. Answering(obj', queue')
  <2> SUFFICES ASSUME NEW x \in Alive(obj) PROVE AnswersTo(queue'[x], obj[x].owner)
    BY <1>1 DEF Answering
  <2>1. AnswersTo(queue[x], obj[x].owner) /\ x \in Id
    BY DEF Stands, Answering, Alive
  <2>2. QED BY <1>3, <1>6, <1>7, <2>1
<1>11. Types'
  <2>1. given' \in 0 .. MaxOrders
    BY <1>1, <1>4
  <2>2. QED BY <1>1, <2>1 DEF Stands, Types
<1>12. Visits' /\ Sound(obj') /\ Shipped(obj')
  BY <1>1 DEF Stands, Visits
<1>13. OwnedHeld' /\ Unborn' /\ NoneDead' /\ Watched' /\ Remains' /\ Survivor'
  BY <1>1, Quiet
<1>14. QED BY <1>1, <1>5, <1>9, <1>10, <1>11, <1>12, <1>13 DEF Stands

LEMMA StartTurnStands == ASSUME Stands, StartTurn PROVE Stands'
<1>1. /\ phase = "play" /\ phase' = "move" /\ todo' = Movers /\ later' = WithOrders \ Movers
      /\ UNCHANGED <<obj, nextid, queue, owned, view, living, score, battles, given>>
  BY DEF StartTurn
<1>2. Types'
  <2>1. Movers \subseteq Id /\ WithOrders \subseteq Id
    BY DEF Movers, WithOrders, Alive
  <2>2. QED BY <1>1, <2>1 DEF Stands, Types
<1>3. Visits'
  BY <1>1 DEF Visits, Movers, WithOrders, FirstOrder
<1>4. Unborn' /\ NoneDead' /\ OwnedHeld' /\ Remains'
  BY <1>1 DEF Stands, Unborn, NoneDead, OwnedHeld, Remains
<1>5. Watched' /\ Survivor' /\ Room'
  BY <1>1 DEF Stands, Watched, Survivor, Room
<1>6. QED BY <1>1, <1>2, <1>3, <1>4, <1>5 DEF Stands

\* A fleet that has ships has a speed.
LEMMA SpeedIn == ASSUME NEW ships \in Ships, ships # NoShips PROVE MaxSpeed(ships) \in Nat
<1> DEFINE D == {e \in Design : ships[e] > 0}
           S == {Speed[d] : d \in D}
<1>1. S \in SUBSET Nat
  BY ConstantsAssumption
<1>2. S # {}
  <2>1. PICK d \in Design : ships[d] # 0
    BY DEF Ships, NoShips
  <2>2. d \in D
    BY <2>1 DEF Ships
  <2>3. QED BY <2>2
<1>3. MaxSpeed(ships) = Min(S)
  BY DEF MaxSpeed
<1> HIDE DEF S
<1>4. QED BY <1>1, <1>2, <1>3, LeastIn

LEMMA MoveStands == ASSUME Stands, NEW o \in todo, Move(o) PROVE Stands'
<1> DEFINE order == FirstOrder(o)
           to == Towards(obj[o].at, order.dest, MaxSpeed(obj[o].ships))
<1>1. /\ phase = "move" /\ o \in Movers /\ todo \subseteq Movers
      /\ obj' = Moved(obj, o, to)
      /\ IF to = order.dest THEN Finish(o, queue) ELSE Keep(o, order)
      /\ UNCHANGED <<nextid, owned, view, living, score, phase, later, battles, given>>
  BY DEF Move, Moving, Stands, Visits
<1>2. o \in Alive(obj) /\ o # Universe /\ queue[o].orders # <<>> /\ order.type = "Move"
  BY <1>1 DEF Movers, WithOrders
<1>3. Serves(o)
  BY <1>2, Ordering
<1>4. IsFleet(o) /\ order.dest \in Int
  BY <1>2, <1>3, OrderFacts DEF Serves, Fits
<1>5. o \in AliveFleets(obj) /\ obj[o].at \in Int /\ obj[o].ships \in Ships /\ obj[o].ships # NoShips
  BY <1>2, <1>3, <1>4 DEF Serves, AliveFleets, Stands, Shipped, Object
<1>6. to \in Int
  <2>1. MaxSpeed(obj[o].ships) \in Nat
    BY <1>5, SpeedIn
  <2>2. QED BY <1>4, <1>5, <2>1 DEF Towards
<1> HIDE DEF to
<1>7. /\ Sound(obj')
      /\ \A x \in Id : /\ obj'[x].status = obj[x].status /\ obj'[x].owner = obj[x].owner
                       /\ obj'[x].ships = obj[x].ships
  BY <1>1, <1>5, <1>6, Flown DEF Stands
<1>8. o \in Id /\ queue[o].orders[1] = order /\ order \in Order /\ Queues(queue, given) /\ Types
  BY <1>3 DEF Serves, Stands
<1> HIDE DEF order
<1>9. /\ Queues(queue', given) /\ todo' = todo \ {o}
      /\ Cardinality(CreatingIn(queue')) <= Cardinality(CreatingIn(queue))
      /\ \A x \in Id : x # o => queue'[x] = queue[x]
      /\ \A owner : AnswersTo(queue[o], owner) => AnswersTo(queue'[o], owner)
  <2>1. CASE Finish(o, queue)
    BY <1>2, <1>8, <2>1, Finished
  <2>2. CASE Keep(o, order)
    BY <1>2, <1>8, <2>2, Kept
  <2>3. QED BY <1>1, <2>1, <2>2
<1>10. /\ Alive(obj') = Alive(obj)
       /\ OwnedHeld' /\ Unborn' /\ NoneDead' /\ Watched' /\ Remains' /\ Survivor'
  BY <1>1, <1>7, Quiet
<1>11. Shipped(obj')
  BY <1>7, <1>10 DEF Stands, Shipped, AliveFleets, Alive
<1>12. Answering(obj', queue')
  <2> SUFFICES ASSUME NEW x \in Alive(obj) PROVE AnswersTo(queue'[x], obj'[x].owner)
    BY <1>10 DEF Answering
  <2>1. AnswersTo(queue[x], obj[x].owner) /\ x \in Id
    BY DEF Stands, Answering, Alive
  <2>2. QED BY <1>7, <1>9, <2>1
<1>13. Room'
  BY <1>1, <1>8, <1>9, RoomLeft DEF Stands
<1>14. Visits'
  <2> SUFFICES ASSUME NEW x \in todo, x # o PROVE x \in Movers'
    BY <1>1, <1>9 DEF Visits
  <2>1. x \in Movers /\ x \in Id
    BY <1>1, <1>8 DEF Types
  <2>2. queue'[x] = queue[x]
    BY <1>9, <2>1
  <2>3. QED BY <1>10, <2>1, <2>2 DEF Movers, WithOrders, FirstOrder
<1>15. Types'
  BY <1>1, <1>8, <1>9 DEF Types
<1>16. QED BY <1>1, <1>7, <1>9, <1>10, <1>11, <1>12, <1>13, <1>14, <1>15 DEF Stands

\* Who is alone has nobody to fight.
LEMMA TakeSidesStands == ASSUME Stands, TakeSides PROVE Stands'
<1>1. /\ phase = "move" /\ todo = {} /\ phase' = "fight" /\ battles' = FoldLeft(AddBattle, <<>>, Groups)
      /\ UNCHANGED <<obj, nextid, queue, owned, view, living, score, todo, later, given>>
  BY DEF TakeSides
<1>2. Combatants \subseteq Id \ {Universe}
  BY DEF Combatants, Alive
<1>3. Groups \in Seq(SUBSET Combatants)
  BY <1>2, GroupsType
<1> DEFINE G == SUBSET Combatants
<1> HIDE DEF G
<1>4. battles' \in Seq(SUBSET (Id \ {Universe}))
  <2> DEFINE T == Seq(SUBSET (Id \ {Universe}))
  <2>1. \A fought \in T, group \in G : AddBattle(fought, group) \in T
    <3> SUFFICES ASSUME NEW fought \in T, NEW group \in G PROVE AddBattle(fought, group) \in T
      OBVIOUS
    <3>1. group \in SUBSET (Id \ {Universe})
      BY <1>2 DEF G
    <3>2. Append(fought, group) \in T
      BY <3>1
    <3>3. QED BY <3>2 DEF AddBattle
  <2>2. <<>> \in T
    OBVIOUS
  <2>3. Groups \in Seq(G)
    BY <1>3 DEF G
  <2> HIDE DEF T
  <2>4. battles' \in T
    BY <1>1, <2>1, <2>2, <2>3, BattlesIn
  <2>5. QED BY <2>4 DEF T
<1>5. ASSUME NEW p \in Player, living = {p} PROVE battles' = <<>>
  <2>1. \A o \in Combatants : obj[o].owner = p
    <3> SUFFICES ASSUME NEW o \in Combatants PROVE obj[o].owner = p
      OBVIOUS
    <3>1. o \in Alive(obj) /\ obj[o].owner # Nobody /\ obj[o] \in Object
      BY DEF Combatants, Stands, Sound, Alive
    <3>2. obj[o].owner \in Player
      BY <3>1 DEF Object
    <3>3. o \in owned[obj[o].owner]
      BY <3>1, <3>2 DEF Stands, OwnedHeld
    <3>4. QED BY <1>5, <3>2, <3>3 DEF Stands, Survivor
  <2>2. ASSUME NEW group \in G PROVE ~ (Cardinality(Sides(group)) >= 2)
    <3>1. Sides(group) \subseteq {p}
      BY <2>1, <2>2 DEF Sides, G
    <3>2. IsFiniteSet({p}) /\ Cardinality({p}) = 1
      BY FS_Singleton
    <3>3. Cardinality(Sides(group)) <= 1 /\ Cardinality(Sides(group)) \in Nat
      BY <3>1, <3>2, FS_Subset, FS_CardinalityType
    <3>4. QED BY <3>3
  <2> DEFINE T == {<<>>}
  <2>3. \A fought \in T, group \in G : AddBattle(fought, group) \in T
    BY <2>2 DEF AddBattle
  <2>4. <<>> \in T
    OBVIOUS
  <2>5. Groups \in Seq(G)
    BY <1>3 DEF G
  <2> HIDE DEF T
  <2>6. battles' \in T
    BY <1>1, <2>3, <2>4, <2>5, BattlesIn
  <2>7. QED BY <2>6 DEF T
<1>6. Types'
  BY <1>1, <1>4 DEF Stands, Types
<1>7. Survivor'
  BY <1>1, <1>5 DEF Stands, Survivor
<1>8. Unborn' /\ NoneDead' /\ OwnedHeld' /\ Remains' /\ Watched' /\ Room' /\ Visits'
  BY <1>1 DEF Stands, Unborn, NoneDead, OwnedHeld, Remains, Watched, Room, Visits
<1>9. QED BY <1>1, <1>6, <1>7, <1>8 DEF Stands

\* What a battle leaves of a fleet are ships.
LEMMA LeftoverType == ASSUME NEW o, NEW s \in Leftover(o), obj[o].ships \in Ships PROVE s \in Ships
<1>1. s \in [Design -> 0 .. Max(Range(obj[o].ships))]
  BY DEF Leftover
<1>2. \A d \in Design : s[d] \in Int /\ 0 <= s[d]
  BY <1>1
<1>3. QED BY <1>1, <1>2 DEF Ships

LEMMA FightStands == ASSUME Stands, Fight PROVE Stands'
<1> DEFINE fleets == {o \in Head(battles) : IsFleet(o)}
<1>1. phase = "fight" /\ battles # <<>> /\ battles' = Tail(battles)
      /\ UNCHANGED <<nextid, view, living, score, phase, todo, later, given>>
  BY DEF Fight
<1>2. PICK fallen \in SUBSET (Head(battles) \ fleets),
           left \in [fleets -> UNION {Leftover(o) : o \in fleets}] :
        /\ \A o \in fleets : left[o] \in Leftover(o)
        /\ LET lost == {o \in fleets : left[o] = NoShips}
           IN  /\ obj' = ScheduleRemove(
                           [o \in Id |->
                              IF o \in fleets THEN [obj[o] EXCEPT !.ships = left[o]]
                              ELSE IF o \in fallen THEN [obj[o] EXCEPT !.owner = Nobody]
                              ELSE obj[o]], lost)
               /\ queue' = [o \in Id |->
                              IF o \in fallen THEN Deserted(queue[o], obj[o].owner)
                              ELSE queue[o]]
               /\ Lose(lost \cup fallen)
  BY DEF Fight
<1> DEFINE lost == {o \in fleets : left[o] = NoShips}
           fought == [o \in Id |->
                        IF o \in fleets THEN [obj[o] EXCEPT !.ships = left[o]]
                        ELSE IF o \in fallen THEN [obj[o] EXCEPT !.owner = Nobody]
                        ELSE obj[o]]
<1>3. Head(battles) \subseteq Id \ {Universe} /\ Tail(battles) \in Seq(SUBSET (Id \ {Universe}))
  BY <1>1 DEF Stands, Types
<1>4. /\ fleets \subseteq Id /\ (\A o \in fleets : IsFleet(o))
      /\ fallen \subseteq Planet /\ fallen \subseteq Id /\ lost \subseteq fleets
      /\ \A o \in fleets : o \notin fallen
  BY <1>2, <1>3, IdsAndPlaces
<1>5. \A o \in fleets : left[o] \in Ships
  BY <1>2, <1>4, LeftoverType DEF Stands, Sound, Object
<1>6. obj' = ScheduleRemove(fought, lost)
      /\ owned' = [p \in Player |-> owned[p] \ (lost \cup fallen)]
  BY <1>2 DEF Lose
<1>7. \A o \in Id : obj[o] \in Object
  BY DEF Stands, Sound
<1> HIDE DEF fleets
<1>8. \A o \in Id : fought[o] = IF o \in fleets THEN [obj[o] EXCEPT !.ships = left[o]]
                                ELSE IF o \in fallen THEN [obj[o] EXCEPT !.owner = Nobody]
                                ELSE obj[o]
  OBVIOUS
<1> HIDE DEF fought
<1>9. /\ obj' = [o \in Id |-> IF o \in lost THEN [fought[o] EXCEPT !.status = "dead"] ELSE fought[o]]
  BY <1>6 DEF ScheduleRemove
<1>10. ASSUME NEW o \in Id
       PROVE  /\ fought[o] \in Object /\ fought[o].at = obj[o].at /\ fought[o].parent = obj[o].parent
              /\ fought[o].contains = obj[o].contains /\ fought[o].status = obj[o].status
              /\ fought[o].owner = IF o \in fallen THEN Nobody ELSE obj[o].owner
              /\ fought[o].ships = IF o \in fleets THEN left[o] ELSE obj[o].ships
  <2>1. CASE o \in fleets
    <3>1. fought[o] = [obj[o] EXCEPT !.ships = left[o]] /\ left[o] \in Ships /\ o \notin fallen
      BY <1>4, <1>5, <1>8, <2>1
    <3>2. QED BY <1>7, <2>1, <3>1 DEF Object
  <2>2. CASE o \in fallen
    <3>1. fought[o] = [obj[o] EXCEPT !.owner = Nobody] /\ o \notin fleets
      BY <1>4, <1>8, <2>2
    <3>2. QED BY <1>7, <2>2, <3>1 DEF Object
  <2>3. CASE o \notin fleets /\ o \notin fallen
    BY <1>7, <1>8, <2>3
  <2>4. QED BY <2>1, <2>2, <2>3
<1> HIDE DEF lost
<1>11. ASSUME NEW o \in Id
       PROVE  /\ obj'[o] \in Object /\ obj'[o].at = obj[o].at /\ obj'[o].parent = obj[o].parent
              /\ obj'[o].contains = obj[o].contains
              /\ obj'[o].status = IF o \in lost THEN "dead" ELSE obj[o].status
              /\ obj'[o].owner = IF o \in fallen THEN Nobody ELSE obj[o].owner
              /\ obj'[o].ships = IF o \in fleets THEN left[o] ELSE obj[o].ships
  BY <1>9, <1>10 DEF Object
<1>12. obj' \in [Id -> Object]
  BY <1>9, <1>11
<1>13. Sound(obj') /\ Alive(obj') \subseteq Alive(obj)
  <2>1. \A o \in Id : /\ obj'[o].at = obj[o].at /\ obj'[o].parent = obj[o].parent
                      /\ obj'[o].contains = obj[o].contains
                      /\ obj'[o].status = obj[o].status \/ (obj'[o].status = "dead" /\ IsFleet(o))
    BY <1>4, <1>11
  <2>2. obj'[Universe].owner = Nobody
    BY <1>4, <1>11, IdsAndPlaces DEF Stands, Sound, Fixed
  <2>3. QED BY <1>12, <2>1, <2>2, Frame DEF Stands
<1>14. Alive(obj') = Alive(obj) \ lost
  BY <1>11 DEF Alive
<1>15. Shipped(obj')
  <2> SUFFICES ASSUME NEW o \in AliveFleets(obj') PROVE obj'[o].ships # NoShips
    BY DEF Shipped
  <2>1. o \in Id /\ o \in AliveFleets(obj) /\ o \notin lost
    BY <1>14 DEF AliveFleets, Alive
  <2>2. CASE o \in fleets
    BY <1>11, <2>1, <2>2 DEF lost
  <2>3. CASE o \notin fleets
    BY <1>11, <2>1, <2>3 DEF Stands, Shipped
  <2>4. QED BY <2>2, <2>3
<1>16. /\ \A o \in Id : queue'[o] = IF o \in fallen THEN [queue[o] EXCEPT !.orders = <<>>, !.owners = @ \ {obj[o].owner}]
                                    ELSE queue[o]
       /\ queue' = [o \in Id |-> queue'[o]]
  BY <1>2 DEF Deserted
<1>17. queue \in [Id -> [orders : Seq(Order), owners : SUBSET (Player \cup {Nobody})]]
  BY DEF Stands, Queues
<1>18. ASSUME NEW o \in Id
       PROVE  /\ queue'[o] \in [orders : Seq(Order), owners : SUBSET (Player \cup {Nobody})]
              /\ queue'[o].orders = IF o \in fallen THEN <<>> ELSE queue[o].orders
              /\ queue'[o].owners = IF o \in fallen THEN queue[o].owners \ {obj[o].owner} ELSE queue[o].owners
  <2>1. CASE o \in fallen
    <3>1. <<>> \in Seq(Order) /\ queue[o].owners \ {obj[o].owner} \in SUBSET (Player \cup {Nobody})
      BY <1>17
    <3>2. queue'[o] = [queue[o] EXCEPT !.orders = <<>>, !.owners = @ \ {obj[o].owner}]
      BY <1>16, <2>1
    <3>3. QED BY <1>17, <2>1, <3>1, <3>2
  <2>2. CASE o \notin fallen
    BY <1>16, <1>17, <2>2
  <2>3. QED BY <2>1, <2>2
<1>19. queue' \in [Id -> [orders : Seq(Order), owners : SUBSET (Player \cup {Nobody})]]
  BY <1>16, <1>18
<1>20. given \in Nat /\ Queues(queue, given)
  BY Numbers DEF Stands
<1>21. Queues(queue', given) /\ Cardinality(CreatingIn(queue')) <= Cardinality(CreatingIn(queue))
  BY <1>18, <1>19, <1>20, QueuesCut
<1>22. Room'
  BY <1>1, <1>21, RoomLeft DEF Stands
<1>23. Answering(obj', queue')
  <2> SUFFICES ASSUME NEW o \in Alive(obj') PROVE AnswersTo(queue'[o], obj'[o].owner)
    BY DEF Answering
  <2>1. o \in Id /\ AnswersTo(queue[o], obj[o].owner)
    BY <1>14 DEF Stands, Answering, Alive
  <2>2. CASE o \in fallen
    <3>1. queue[o].owners \ {Nobody} = {obj[o].owner} \ {Nobody}
      BY <2>1 DEF AnswersTo
    <3>2. queue'[o].owners \ {Nobody} = {Nobody} \ {Nobody} /\ Len(queue'[o].orders) = 0
      <4>1. queue'[o].orders = <<>> /\ queue'[o].owners = queue[o].owners \ {obj[o].owner}
        BY <1>18, <2>1, <2>2
      <4>2. QED BY <3>1, <4>1
    <3>3. obj'[o].owner = Nobody
      BY <1>11, <2>1, <2>2
    <3>4. \A i \in 1 .. Len(queue'[o].orders) : FALSE
      BY <3>2
    <3>5. QED BY <3>2, <3>3, <3>4 DEF AnswersTo
  <2>3. CASE o \notin fallen
    BY <1>11, <1>16, <2>1, <2>3
  <2>4. QED BY <2>2, <2>3
<1>24. OwnedHeld'
  <2> SUFFICES ASSUME NEW p \in Player PROVE owned'[p] = {o \in Alive(obj') : obj'[o].owner = p}
    BY DEF OwnedHeld
  <2>1. owned[p] = {o \in Alive(obj) : obj[o].owner = p} /\ p # Nobody
    BY ConstantsAssumption DEF Stands, OwnedHeld
  <2>2. owned'[p] = owned[p] \ (lost \cup fallen)
    BY <1>6
  <2>3. \A o \in Alive(obj') : o \in Id /\ obj'[o].owner = IF o \in fallen THEN Nobody ELSE obj[o].owner
    BY <1>11 DEF Alive
  <2>4. QED BY <1>14, <2>1, <2>2, <2>3
<1>25. Types'
  <2>1. owned' \in [Player -> SUBSET Id]
    BY <1>6 DEF Stands, Types
  <2>2. QED BY <1>1, <1>3, <2>1 DEF Stands, Types
<1>26. Unborn'
  BY <1>1, <1>14 DEF Stands, Unborn, Alive
<1>27. Visits' /\ NoneDead' /\ Remains'
  BY <1>1 DEF Visits, NoneDead, Remains
<1>28. Watched'
  BY <1>1, <1>13 DEF Stands, Watched
<1>29. Survivor'
  <2>1. \A p \in Player : living # {p}
    BY <1>1 DEF Stands, Survivor
  <2>2. \A p \in Player : owned[p] = {} => owned'[p] = {}
    BY <1>6
  <2>3. QED BY <1>1, <2>1, <2>2 DEF Stands, Survivor
<1>30. QED BY <1>1, <1>13, <1>15, <1>21, <1>22, <1>23, <1>24, <1>25, <1>26, <1>27, <1>28, <1>29 DEF Stands

LEMMA EndFightsStands == ASSUME Stands, EndFights PROVE Stands'
<1>1. /\ phase = "fight" /\ battles = <<>> /\ obj' = ClearRemoved(obj) /\ phase' = "orders"
      /\ todo' = later /\ later' = {}
      /\ UNCHANGED <<nextid, queue, owned, view, living, score, battles, given>>
  BY DEF EndFights
<1>2. /\ Sound(obj') /\ Alive(obj') = Alive(obj)
      /\ \A o \in Id : obj'[o].status \in {"none", "alive"}
      /\ \A o \in Alive(obj) : obj'[o].owner = obj[o].owner /\ obj'[o].ships = obj[o].ships
      /\ \A o \in Id : obj[o].status = "none" => obj'[o].status = "none"
  BY <1>1, Cleared DEF Stands
<1>3. Shipped(obj') /\ Answering(obj', queue')
  BY <1>1, <1>2 DEF Stands, Shipped, AliveFleets, Answering
<1>4. OwnedHeld'
  <2> SUFFICES ASSUME NEW p \in Player PROVE owned'[p] = {o \in Alive(obj') : obj'[o].owner = p}
    BY DEF OwnedHeld
  <2>1. owned[p] = {o \in Alive(obj) : obj[o].owner = p}
    BY DEF Stands, OwnedHeld
  <2>2. QED BY <1>1, <1>2, <2>1
<1>5. Types' /\ Room'
  BY <1>1 DEF Stands, Types, Room
<1>6. Unborn'
  <2> SUFFICES ASSUME NEW o \in Id, o >= nextid PROVE obj'[o].status = "none"
    BY <1>1 DEF Unborn
  <2>1. o \notin Alive(obj)
    BY DEF Stands, Unborn, Alive
  <2>2. QED BY <1>2, <2>1 DEF Alive
<1>7. Visits' /\ NoneDead'
  BY <1>1, <1>2 DEF Stands, Types, Visits, NoneDead
<1>8. Remains'
  <2>1. \A c \in Id : obj'[c].contains \subseteq Id
    BY <1>2 DEF Sound, Object
  <2>2. QED BY <1>2, <2>1 DEF Remains
<1>9. Watched' /\ Survivor'
  BY <1>1, <1>2 DEF Stands, Watched, Survivor
<1>10. QED BY <1>1, <1>2, <1>3, <1>4, <1>5, <1>6, <1>7, <1>8, <1>9 DEF Stands

\* The visits that remain after one of the later orders.
LEMMA Visited ==
  ASSUME Stands, phase = "orders", phase' = phase, NEW o \in Id, todo' = todo \ {o},
         \A x \in Id : x # o /\ obj'[x].status = "dead" => obj[x].status = "dead"
  PROVE  Visits'
  BY DEF Stands, Types, Visits

LEMMA OrderedUnchanged ==
  ASSUME Stands, NEW o \in todo, Ordered(o)
  PROVE  /\ o \in Id /\ phase = "orders"
         /\ UNCHANGED <<living, score, phase, later, battles, given>>
  BY DEF Ordered, Stands, Types

LEMMA CarryingServes ==
  ASSUME Stands, NEW o \in todo, NEW type, Carrying(o, type)
  PROVE  /\ Ordered(o) /\ phase = "orders" /\ Serves(o) /\ FirstOrder(o).type = type
         /\ UNCHANGED <<living, score, phase, later, battles, given>>
<1>1. /\ Ordered(o) /\ obj[o].status # "none" /\ queue[o].orders # <<>> /\ FirstOrder(o).type = type
      /\ phase = "orders" /\ o \in Id /\ UNCHANGED <<living, score, phase, later, battles, given>>
  BY OrderedUnchanged DEF Carrying
<1>2. obj[o].status # "dead" /\ obj[o].status \in {"none", "alive", "dead"}
  BY <1>1 DEF Stands, Visits, Sound, Object
<1>3. o \in Alive(obj)
  BY <1>1, <1>2 DEF Alive
<1>4. QED BY <1>1, <1>3, Ordering

LEMMA SkipStands == ASSUME Stands, NEW o \in todo, Skip(o) PROVE Stands'
<1>1. /\ o \in Id /\ phase = "orders" /\ todo' = todo \ {o}
      /\ UNCHANGED <<obj, nextid, queue, owned, view, living, score, phase, later, battles, given>>
  BY OrderedUnchanged DEF Skip
<1>2. Types' /\ Room'
  BY <1>1 DEF Stands, Types, Room
<1>3. OwnedHeld' /\ Unborn' /\ NoneDead' /\ Watched' /\ Remains' /\ Survivor'
  BY <1>1, Quiet
<1>4. Visits'
  BY <1>1, Visited
<1>5. QED BY <1>1, <1>2, <1>3, <1>4 DEF Stands

\* An order is finished or put back, and its object at most loses or gains parts
\* or ships.
LEMMA ServedStands ==
  ASSUME Stands, NEW o \in todo, Serves(o), phase = "orders",
         UNCHANGED <<nextid, owned, view, living, score, phase, later, battles, given>>,
         \/ Finish(o, queue)
         \/ \E order \in Order : /\ order.type = FirstOrder(o).type /\ order.by = FirstOrder(o).by
                                 /\ Keep(o, order),
         Sound(obj'), Shipped(obj'),
         \A x \in Id : /\ obj'[x].owner = obj[x].owner /\ obj'[x].status = obj[x].status
                       /\ obj'[x].contains = obj[x].contains
  PROVE  Stands'
<1>1. /\ o \in Id /\ queue[o].orders # <<>> /\ FirstOrder(o) = queue[o].orders[1]
      /\ Queues(queue, given) /\ Types
  BY DEF Serves, Stands
<1>2. /\ Queues(queue', given) /\ todo' = todo \ {o}
      /\ Cardinality(CreatingIn(queue')) <= Cardinality(CreatingIn(queue))
      /\ \A x \in Id : x # o => queue'[x] = queue[x]
      /\ \A owner : AnswersTo(queue[o], owner) => AnswersTo(queue'[o], owner)
  <2>1. CASE Finish(o, queue)
    BY <1>1, <2>1, Finished
  <2>2. ASSUME NEW order \in Order, order.type = FirstOrder(o).type, order.by = FirstOrder(o).by, Keep(o, order)
        PROVE  /\ Queues(queue', given) /\ todo' = todo \ {o}
               /\ Cardinality(CreatingIn(queue')) <= Cardinality(CreatingIn(queue))
               /\ \A x \in Id : x # o => queue'[x] = queue[x]
               /\ \A owner : AnswersTo(queue[o], owner) => AnswersTo(queue'[o], owner)
    BY <1>1, <2>2, Kept
  <2>3. QED BY <2>1, <2>2
<1>3. /\ Alive(obj') = Alive(obj)
      /\ OwnedHeld' /\ Unborn' /\ NoneDead' /\ Watched' /\ Remains' /\ Survivor'
  BY Quiet
<1>4. Answering(obj', queue')
  <2> SUFFICES ASSUME NEW x \in Alive(obj) PROVE AnswersTo(queue'[x], obj'[x].owner)
    BY <1>3 DEF Answering
  <2>1. AnswersTo(queue[x], obj[x].owner) /\ x \in Id
    BY DEF Stands, Answering, Alive
  <2>2. QED BY <1>2, <2>1
<1>5. Room'
  BY <1>1, <1>2, RoomLeft DEF Stands
<1>6. Visits'
  BY <1>1, <1>2, Visited
<1>7. Types'
  BY <1>1, <1>2 DEF Types
<1>8. QED BY <1>2, <1>3, <1>4, <1>5, <1>6, <1>7 DEF Stands

LEMMA NopStands == ASSUME Stands, NEW o \in todo, Nop(o) PROVE Stands'
<1> DEFINE order == FirstOrder(o)
           less == [order EXCEPT !.wait = @ - 1]
<1>1. /\ Carrying(o, "No Operation") /\ UNCHANGED <<obj, nextid, owned, view>>
      /\ IF order.wait <= 1 THEN Finish(o, queue) ELSE Keep(o, less)
  BY DEF Nop
<1>2. /\ Serves(o) /\ order.type = "No Operation" /\ phase = "orders"
      /\ UNCHANGED <<living, score, phase, later, battles, given>>
  BY <1>1, CarryingServes
<1>3. \/ Finish(o, queue)
      \/ \E ord \in Order : ord.type = order.type /\ ord.by = order.by /\ Keep(o, ord)
  <2>1. CASE ~(order.wait <= 1)
    <3>1. order \in Order
      BY <1>2 DEF Serves
    <3> HIDE DEF order
    <3>2. less \in Order /\ less.type = order.type /\ less.by = order.by
      BY <1>2, <2>1, <3>1, Waited
    <3>3. Keep(o, less)
      BY <1>1, <2>1
    <3> HIDE DEF less
    <3>4. QED BY <3>2, <3>3
  <2>2. QED BY <1>1, <2>1
<1>4. Sound(obj') /\ Shipped(obj')
  BY <1>1 DEF Stands
<1>5. QED BY <1>1, <1>2, <1>3, <1>4, ServedStands

\* A fleet is made: somebody has one more object, and sees it.
LEMMA CreateStands ==
  ASSUME Stands, NEW o \in todo, Serves(o), phase = "orders", Creates(FirstOrder(o)),
         UNCHANGED <<living, score, phase, later, battles, given>>,
         NEW os, Sound(os), Shipped(os),
         \A x \in Id : /\ os[x].owner = obj[x].owner /\ os[x].status = obj[x].status
                       /\ os[x].contains = obj[x].contains,
         NEW ships \in Ships, ships # NoShips, Create(o, os, ships, Holder(obj[o].at))
  PROVE  Stands'
<1> DEFINE p == obj[o].owner
           n == nextid
           pos == obj[o].at
           fresh == [orders |-> <<>>, owners |-> {p}]
           qs == [queue EXCEPT ![n] = fresh]
<1>1. /\ o \in Id /\ o \in Alive(obj) /\ p \in Player /\ p # Nobody /\ o \in owned[p] /\ p \in living
      /\ pos \in Int /\ queue[o].orders # <<>> /\ FirstOrder(o) = queue[o].orders[1] /\ o < n
  BY DEF Serves, Object
<1>2. n \in Id /\ obj[n].status = "none" /\ n # o
  BY HasRoom
<1>3. /\ obj' = NewFleet(os, n, p, pos, Holder(pos), ships) /\ nextid' = n + 1
      /\ owned' = [owned EXCEPT ![p] = @ \cup {n}]
      /\ view' = [view EXCEPT ![p].known = @ \cup {n}]
      /\ Finish(o, qs)
  BY DEF Create
<1>4. /\ Types /\ Queues(queue, given) /\ given \in Nat /\ n \in Nat /\ n >= 1 /\ MaxId \in Nat
  BY Numbers DEF Stands
<1> HIDE DEF pos
<1>5. /\ Sound(obj') /\ Alive(obj') = Alive(os) \cup {n} /\ IsFleet(n)
      /\ obj'[n].owner = p /\ obj'[n].ships = ships
      /\ \A x \in Id \ {n} : /\ obj'[x].owner = os[x].owner /\ obj'[x].ships = os[x].ships
                             /\ obj'[x].status = os[x].status
      /\ \A x \in Id : obj'[x].contains \subseteq os[x].contains \cup {n}
  <2>1. os[n].status = "none"
    BY <1>2
  <2> HIDE DEF p, n
  <2>2. QED BY <1>1, <1>2, <1>3, <2>1, Born
<1>6. Alive(os) = Alive(obj)
  BY DEF Alive
<1>7. Shipped(obj')
  <2> SUFFICES ASSUME NEW x \in AliveFleets(obj') PROVE obj'[x].ships # NoShips
    BY DEF Shipped
  <2>1. CASE x = n
    BY <1>5, <2>1
  <2>2. CASE x # n
    <3>1. x \in AliveFleets(os) /\ x \in Id
      BY <1>5, <2>2 DEF AliveFleets, Alive
    <3>2. QED BY <1>5, <2>2, <3>1 DEF Shipped
  <2>3. QED BY <2>1, <2>2
<1>8. queue \in [Id -> [orders : Seq(Order), owners : SUBSET (Player \cup {Nobody})]]
  BY <1>4 DEF Queues
<1>9. /\ qs \in [Id -> [orders : Seq(Order), owners : SUBSET (Player \cup {Nobody})]]
      /\ qs[n] = fresh /\ \A x \in Id : x # n => qs[x] = queue[x]
  <2>1. fresh \in [orders : Seq(Order), owners : SUBSET (Player \cup {Nobody})]
    BY <1>1
  <2> HIDE DEF fresh
  <2>2. QED BY <1>2, <1>8, <2>1
<1>10. fresh.orders = <<>> /\ fresh.owners = {p}
  OBVIOUS
<1> HIDE DEF fresh, qs
<1>11. Queues(qs, given) /\ Cardinality(CreatingIn(qs)) <= Cardinality(CreatingIn(queue))
  BY <1>4, <1>9, <1>10, QueuesCut
<1>12. /\ qs[o].orders # <<>> /\ Creates(qs[o].orders[1])
  BY <1>1, <1>2, <1>9
<1>13. /\ Queues(queue', given) /\ todo' = todo \ {o}
       /\ Cardinality(CreatingIn(queue')) + 1 <= Cardinality(CreatingIn(qs))
       /\ \A x \in Id : x # o => queue'[x] = qs[x]
       /\ \A owner : AnswersTo(qs[o], owner) => AnswersTo(queue'[o], owner)
  BY <1>1, <1>3, <1>4, <1>11, <1>12, Finished
<1>14. Room' /\ n + 1 <= MaxId + 1
  <2>1. /\ Cardinality(CreatingIn(queue')) \in Nat /\ Cardinality(CreatingIn(queue)) \in Nat
        /\ Cardinality(CreatingIn(qs)) \in Nat
    BY CreatingFinite
  <2>2. n + Cardinality(CreatingIn(queue)) <= MaxId + 1
    BY DEF Stands, Room
  <2>3. (n + 1) + Cardinality(CreatingIn(queue')) <= MaxId + 1 /\ n + 1 <= MaxId + 1
    BY <1>4, <1>11, <1>13, <2>1, <2>2
  <2>4. QED BY <1>3, <2>3 DEF Room
<1>15. Answering(obj', queue')
  <2> SUFFICES ASSUME NEW x \in Alive(obj') PROVE AnswersTo(queue'[x], obj'[x].owner)
    BY DEF Answering
  <2>1. CASE x = n
    <3>1. queue'[n] = fresh
      BY <1>2, <1>9, <1>13
    <3>2. \A i \in 1 .. Len(fresh.orders) : FALSE
      BY <1>10
    <3>3. AnswersTo(fresh, p)
      BY <1>10, <3>2 DEF AnswersTo
    <3>4. QED BY <1>5, <2>1, <3>1, <3>3
  <2>2. CASE x # n
    <3>1. x \in Alive(obj) /\ x \in Id /\ obj'[x].owner = obj[x].owner
      BY <1>5, <1>6, <2>2 DEF Alive
    <3>2. AnswersTo(queue[x], obj[x].owner)
      BY <3>1 DEF Stands, Answering
    <3>3. qs[x] = queue[x]
      BY <1>9, <2>2, <3>1
    <3>4. QED BY <1>13, <3>1, <3>2, <3>3
  <2>3. QED BY <2>1, <2>2
<1>16. owned \in [Player -> SUBSET Id] /\ view \in [Player -> [known : SUBSET Id, gone : SUBSET Id]]
  BY <1>4 DEF Types
<1>17. /\ owned'[p] = owned[p] \cup {n} /\ \A q \in Player : q # p => owned'[q] = owned[q]
       /\ owned' \in [Player -> SUBSET Id]
  BY <1>1, <1>2, <1>3, <1>16
<1>18. /\ view'[p].known = view[p].known \cup {n} /\ view'[p].gone = view[p].gone
       /\ \A q \in Player : q # p => view'[q] = view[q]
       /\ view' \in [Player -> [known : SUBSET Id, gone : SUBSET Id]]
  BY <1>1, <1>2, <1>3, <1>16
<1> HIDE DEF p
<1>19. OwnedHeld'
  <2> SUFFICES ASSUME NEW q \in Player PROVE owned'[q] = {x \in Alive(obj') : obj'[x].owner = q}
    BY DEF OwnedHeld
  <2>1. owned[q] = {x \in Alive(obj) : obj[x].owner = q} /\ n \notin Alive(obj)
    BY <1>2 DEF Stands, OwnedHeld, Alive
  <2>2. \A x \in Alive(obj) : obj'[x].owner = obj[x].owner
    BY <1>2, <1>5 DEF Alive
  <2>3. CASE q = p
    BY <1>5, <1>6, <1>17, <2>1, <2>2, <2>3
  <2>4. CASE q # p
    BY <1>5, <1>6, <1>17, <2>1, <2>2, <2>4
  <2>5. QED BY <2>3, <2>4
<1>20. Types'
  <2>1. nextid' \in 1 .. MaxId + 1
    BY <1>3, <1>4, <1>14
  <2>2. QED BY <1>4, <1>13, <1>17, <1>18, <2>1 DEF Types
<1>21. Unborn'
  <2> SUFFICES ASSUME NEW x \in Id, x >= n + 1 PROVE obj'[x].status = "none"
    BY <1>3 DEF Unborn
  <2>1. x >= n /\ x # n
    <3>1. x \in Nat
      BY IdsAndPlaces
    <3>2. QED BY <1>4, <3>1
  <2>2. obj[x].status = "none"
    BY <2>1 DEF Stands, Unborn
  <2>3. QED BY <1>5, <2>1, <2>2
<1>22. NoneDead'
  BY DEF NoneDead
<1>23. Watched'
  <2> SUFFICES ASSUME NEW q \in Player
               PROVE  /\ view'[q].known \cup view'[q].gone \subseteq 0 .. (n + 1) - 1
                      /\ view'[q].gone \cap Alive(obj') = {}
    BY <1>3 DEF Watched
  <2>1. view[q].known \cup view[q].gone \subseteq 0 .. n - 1 /\ view[q].gone \cap Alive(obj) = {}
    BY DEF Stands, Watched
  <2>2. 0 .. n - 1 \subseteq 0 .. (n + 1) - 1 /\ n \in 0 .. (n + 1) - 1 /\ n \notin 0 .. n - 1
    BY <1>4
  <2> HIDE DEF n
  <2>3. CASE q = p
    BY <1>5, <1>6, <1>18, <2>1, <2>2, <2>3
  <2>4. CASE q # p
    BY <1>5, <1>6, <1>18, <2>1, <2>2, <2>4
  <2>5. QED BY <2>3, <2>4
<1>24. Remains'
  <2> SUFFICES ASSUME NEW c \in Id, NEW t \in obj'[c].contains, obj'[t].status = "dead", obj'[t].owner # Nobody
               PROVE  owned'[obj'[t].owner] \cap Planet # {}
    BY DEF Remains
  <2>1. t # n
    BY <1>5, <1>6 DEF Alive
  <2>2. t \in obj[c].contains
    BY <1>5, <2>1
  <2>3. t \in Id /\ obj[t] \in Object
    BY <2>2 DEF Stands, Sound, Object
  <2>4. obj'[t].owner = obj[t].owner /\ obj[t].status = "dead"
    BY <1>5, <2>1, <2>3
  <2>5. obj[t].owner \in Player
    BY <2>3, <2>4 DEF Object
  <2>6. owned[obj[t].owner] \cap Planet # {}
    BY <2>2, <2>4 DEF Stands, Remains
  <2>7. owned[obj[t].owner] \subseteq owned'[obj[t].owner]
    BY <1>17, <2>5
  <2>8. QED BY <2>4, <2>6, <2>7
<1>25. Survivor'
  BY <1>1, <1>17 DEF Stands, Survivor, p
<1>26. Visits'
  <2>1. obj'[n].status # "dead"
    BY <1>5 DEF Alive
  <2>2. \A x \in Id : x # o /\ obj'[x].status = "dead" => obj[x].status = "dead"
    BY <1>5, <2>1
  <2>3. QED BY <1>1, <1>13, <2>2, Visited
<1>27. QED BY <1>5, <1>7, <1>13, <1>14, <1>15, <1>19, <1>20, <1>21, <1>22, <1>23, <1>24, <1>25, <1>26 DEF Stands

LEMMA NothingCostsNothing == Cost(NoShips) = 0
<1> DEFINE f == [d \in Design |-> NoShips[d] * BuildTime[d]]
<1>1. f = [d \in Design |-> 0]
  <2>1. \A d \in Design : NoShips[d] * BuildTime[d] = 0
    <3> TAKE d \in Design
    <3>1. NoShips[d] = 0 /\ BuildTime[d] \in Nat
      BY ConstantsAssumption DEF NoShips
    <3>2. QED BY <3>1
  <2>2. QED BY <2>1
<1>2. Cost(NoShips) = SumFunction(f)
  BY DEF Cost
<1> HIDE DEF f
<1>3. QED BY <1>1, <1>2, ConstantsAssumption, SumOfZeros

LEMMA BuildStands == ASSUME Stands, NEW o \in todo, Build(o) PROVE Stands'
<1> DEFINE order == FirstOrder(o)
           parts == obj[o].parts + 1
           cost == Cost(order.ships)
           making == obj[o].owner # Nobody /\ cost \in 1 .. parts
           dropped == obj[o].owner = Nobody \/ cost = 0
<1>1. /\ Carrying(o, "Build Fleet")
      /\ making => Create(o, [obj EXCEPT ![o].parts = parts - cost], order.ships, o)
      /\ ~making => /\ UNCHANGED <<nextid, owned, view>>
                    /\ dropped => Finish(o, queue) /\ UNCHANGED obj
                    /\ ~dropped => Keep(o, order) /\ obj' = [obj EXCEPT ![o].parts = parts]
  BY DEF Build
<1>2. /\ Serves(o) /\ order.type = "Build Fleet" /\ phase = "orders"
      /\ UNCHANGED <<living, score, phase, later, battles, given>>
  BY <1>1, CarryingServes
<1>3. /\ o \in Id /\ obj[o] \in Object /\ order \in Order /\ o \in Planet /\ parts \in Nat
  <2>1. o \in Id /\ obj[o] \in Object /\ order \in Order /\ o \in Planet
    BY <1>2 DEF Serves, Fits
  <2>2. obj[o].parts \in Nat
    BY <2>1 DEF Object
  <2>3. QED BY <2>1, <2>2
<1>4. obj \in [Id -> Object] /\ Sound(obj) /\ Shipped(obj)
  BY DEF Stands, Sound
<1> DEFINE Fitted(os) == /\ Sound(os) /\ Shipped(os)
                         /\ \A x \in Id : /\ os[x].owner = obj[x].owner /\ os[x].status = obj[x].status
                                          /\ os[x].contains = obj[x].contains
<1>5. ASSUME NEW m \in Nat, NEW os, os = [obj EXCEPT ![o].parts = m] PROVE Fitted(os)
  <2>1. os \in [Id -> Object]
    <3>1. [obj[o] EXCEPT !.parts = m] \in Object
      BY <1>3 DEF Object
    <3>2. QED BY <1>3, <1>4, <1>5, <3>1
  <2>2. \A x \in Id : /\ os[x].at = obj[x].at /\ os[x].parent = obj[x].parent /\ os[x].ships = obj[x].ships
                      /\ os[x].contains = obj[x].contains /\ os[x].status = obj[x].status
                      /\ os[x].owner = obj[x].owner
    BY <1>4, <1>5 DEF Object
  <2>3. os[Universe].owner = Nobody
    BY <1>4, <2>2, IdsAndPlaces DEF Sound, Fixed
  <2>4. Sound(os) /\ Alive(os) \subseteq Alive(obj)
    BY <1>4, <2>1, <2>2, <2>3, Frame
  <2>5. Shipped(os)
    BY <1>4, <2>2, <2>4 DEF Shipped, AliveFleets, Alive
  <2>6. QED BY <2>2, <2>4, <2>5
<1>6. CASE making
  <2> DEFINE os == [obj EXCEPT ![o].parts = parts - cost]
  <2>1. parts - cost \in Nat /\ cost # 0
    <3> HIDE DEF parts, cost
    <3>1. QED BY <1>3, <1>6
  <2>2. Fitted(os)
    <3> HIDE DEF parts, cost, Fitted
    <3>1. QED BY <1>5, <2>1
  <2>3. order.ships \in Ships /\ Creates(order)
    BY <1>2, <1>3, OrderFacts DEF Creates
  <2>4. order.ships # NoShips
    BY <2>1, NothingCostsNothing
  <2>5. Holder(obj[o].at) = o
    <3>1. obj[o].at = Start[o].at
      BY <1>3, <1>4 DEF Sound, Fixed
    <3>2. QED BY <1>3, <3>1, HolderOfPlanet
  <2>6. Create(o, os, order.ships, Holder(obj[o].at))
    BY <1>1, <1>6, <2>5
  <2> HIDE DEF os, order
  <2>7. QED BY <1>2, <2>2, <2>3, <2>4, <2>6, CreateStands DEF order
<1>7. CASE ~making
  <2>1. \/ Finish(o, queue)
        \/ \E ord \in Order : ord.type = order.type /\ ord.by = order.by /\ Keep(o, ord)
    <3> HIDE DEF dropped, making, order
    <3>1. QED BY <1>1, <1>3, <1>7
  <2>2. Fitted(obj')
    <3>1. CASE dropped
      BY <1>1, <1>4, <1>7, <3>1
    <3>2. CASE ~dropped
      <4>1. obj' = [obj EXCEPT ![o].parts = parts]
        BY <1>1, <1>7, <3>2
      <4> HIDE DEF parts, Fitted
      <4>2. QED BY <1>3, <1>5, <4>1
    <3>3. QED BY <3>1, <3>2
  <2>3. UNCHANGED <<nextid, owned, view>>
    BY <1>1, <1>7
  <2> HIDE DEF order, making
  <2>4. QED BY <1>2, <2>1, <2>2, <2>3, ServedStands DEF order
<1>8. QED BY <1>6, <1>7

\* Ships that change leave the objects sound.
Refitted(os) ==
  /\ Sound(os) /\ Shipped(os)
  /\ \A x \in Id : /\ os[x].owner = obj[x].owner /\ os[x].status = obj[x].status
                  /\ os[x].contains = obj[x].contains

LEMMA Refit ==
  ASSUME Stands, NEW o \in AliveFleets(obj), NEW s \in Ships, s # NoShips,
         NEW os, os = [obj EXCEPT ![o].ships = s]
  PROVE  Refitted(os)
<1>1. obj \in [Id -> Object] /\ Sound(obj) /\ Shipped(obj) /\ o \in Id
  BY DEF Stands, Sound, AliveFleets, Alive
<1>2. os \in [Id -> Object]
  <2>1. [obj[o] EXCEPT !.ships = s] \in Object
    BY <1>1 DEF Object
  <2>2. QED BY <1>1, <2>1
<1>3. \A x \in Id : /\ os[x].at = obj[x].at /\ os[x].parent = obj[x].parent
                    /\ os[x].ships = (IF x = o THEN s ELSE obj[x].ships)
                    /\ os[x].contains = obj[x].contains /\ os[x].status = obj[x].status
                    /\ os[x].owner = obj[x].owner
  BY <1>1 DEF Object
<1>4. os[Universe].owner = Nobody
  BY <1>1, <1>3, IdsAndPlaces DEF Sound, Fixed
<1>5. Sound(os) /\ Alive(os) \subseteq Alive(obj)
  BY <1>1, <1>2, <1>3, <1>4, Frame
<1>6. Shipped(os)
  BY <1>1, <1>3, <1>5 DEF Shipped, AliveFleets, Alive
<1>7. QED BY <1>3, <1>5, <1>6 DEF Refitted

LEMMA SplitStands == ASSUME Stands, NEW o \in todo, Split(o) PROVE Stands'
<1> DEFINE asked == FirstOrder(o).ships
           taken == Taken(o, asked)
           rest == Minus(obj[o].ships, taken)
           making == rest # NoShips /\ taken # NoShips
           last == IF rest = NoShips THEN asked ELSE rest
<1>1. /\ Carrying(o, "Split Fleet")
      /\ making => Create(o, [obj EXCEPT ![o].ships = rest], taken, obj[o].parent)
      /\ ~making => /\ obj' = [obj EXCEPT ![o].ships = last] /\ Finish(o, queue)
                    /\ UNCHANGED <<nextid, owned, view>>
  BY DEF Split
<1>2. /\ Serves(o) /\ FirstOrder(o).type = "Split Fleet" /\ phase = "orders"
      /\ UNCHANGED <<living, score, phase, later, battles, given>>
  BY <1>1, CarryingServes
<1>3. /\ o \in Id /\ obj[o] \in Object /\ FirstOrder(o) \in Order /\ IsFleet(o) /\ o \in Alive(obj)
      /\ o \in AliveFleets(obj) /\ obj[o].ships \in Ships
  BY <1>2 DEF Serves, Fits, Object, AliveFleets
<1>4. obj \in [Id -> Object] /\ Sound(obj) /\ Shipped(obj)
  BY DEF Stands, Sound
<1>5. asked \in Ships /\ Creates(FirstOrder(o))
  BY <1>2, <1>3, OrderFacts DEF Creates
<1> HIDE DEF asked
<1>6. /\ taken \in Ships /\ rest \in Ships
      /\ asked = NoShips => rest = obj[o].ships
  <2>1. /\ taken \in Ships /\ rest \in Ships
        /\ taken = NoShips => rest = obj[o].ships
    BY <1>3, <1>5, TakenAndRest
  <2>2. asked = NoShips => taken = NoShips
    BY <1>3 DEF Taken, NoShips, Ships
  <2> HIDE DEF taken, rest
  <2>3. QED BY <2>1, <2>2
<1>7. obj[o].ships # NoShips
  BY <1>3, <1>4 DEF Shipped
<1> HIDE DEF taken, rest
<1>8. CASE making
  <2> DEFINE os == [obj EXCEPT ![o].ships = rest]
  <2>1. Refitted(os) /\ taken \in Ships /\ taken # NoShips
    BY <1>3, <1>6, <1>8, Refit
  <2>2. obj[o].parent = Holder(obj[o].at)
    BY <1>3, <1>4, ContainerIsHolder DEF Sound, InPlace
  <2>3. Create(o, os, taken, Holder(obj[o].at))
    BY <1>1, <1>8, <2>2
  <2> HIDE DEF os
  <2>4. QED BY <1>2, <1>5, <2>1, <2>3, CreateStands DEF Refitted
<1>9. CASE ~making
  <2>1. last \in Ships /\ last # NoShips
    BY <1>5, <1>6, <1>7
  <2> HIDE DEF last
  <2>2. Refitted(obj')
    BY <1>1, <1>3, <1>9, <2>1, Refit
  <2> HIDE DEF making
  <2>3. QED BY <1>1, <1>2, <1>9, <2>2, ServedStands DEF Refitted
<1>10. QED BY <1>8, <1>9

\* A planet that is nobody's has no orders.
LEMMA NoOrders ==
  ASSUME Stands, NEW x \in Alive(obj), obj[x].owner = Nobody
  PROVE  queue[x].owners \ {Nobody} = {} /\ \A i \in 1 .. Len(queue[x].orders) : FALSE
<1>1. AnswersTo(queue[x], Nobody) /\ queue[x].orders \in Seq(Order)
  BY DEF Stands, Answering, Queues, Alive
<1>2. ASSUME NEW i \in 1 .. Len(queue[x].orders) PROVE FALSE
  <2>1. queue[x].orders[i] \in Order /\ queue[x].orders[i].by = Nobody
    BY <1>1 DEF AnswersTo
  <2>2. QED BY <2>1, OrderFacts
<1>3. QED BY <1>1, <1>2 DEF AnswersTo

LEMMA ColoniseStands == ASSUME Stands, NEW o \in todo, Colonise(o) PROVE Stands'
<1> DEFINE planet == obj[o].parent
           able == {d \in Coloniser : obj[o].ships[d] > 0}
           p == obj[o].owner
           settles == planet \in Planet /\ obj[planet].owner = Nobody /\ able # {}
<1>1. /\ Carrying(o, "Colonise") /\ UNCHANGED nextid
      /\ ~settles => Finish(o, queue) /\ UNCHANGED <<obj, owned, view>>
  BY DEF Colonise
<1>2. /\ Serves(o) /\ FirstOrder(o).type = "Colonise" /\ phase = "orders"
      /\ UNCHANGED <<living, score, phase, later, battles, given>>
  BY <1>1, CarryingServes
<1>3. /\ o \in Id /\ obj[o] \in Object /\ IsFleet(o) /\ o \in Alive(obj)
      /\ obj[o].ships \in Ships /\ o \notin Planet /\ o # Universe
      /\ p \in Player /\ p # Nobody /\ p \in living /\ queue[o].orders # <<>> /\ o \in owned[p]
  BY <1>2, IdsAndPlaces DEF Serves, Fits, Object
<1>4. obj \in [Id -> Object] /\ Sound(obj) /\ Shipped(obj) /\ Types /\ Queues(queue, given) /\ given \in Nat
  BY Numbers DEF Stands, Sound
<1>5. CASE ~settles
  BY <1>1, <1>2, <1>4, <1>5, ServedStands
<1>6. CASE settles
  <2>1. PICK d \in able :
          LET ships == [obj[o].ships EXCEPT ![d] = @ - 1]
              used  == IF ships = NoShips THEN {o} ELSE {}
          IN  /\ obj' = ScheduleRemove([obj EXCEPT ![planet].owner = p, ![o].ships = ships], used)
              /\ owned' = [owned EXCEPT ![p] = (@ \cup {planet}) \ used]
              /\ view' = [view EXCEPT ![p].known = @ \cup {planet}]
              /\ Finish(o, [queue EXCEPT ![planet].owners = (@ \ {Nobody}) \cup {p}])
    BY <1>6 DEF Colonise
  <2> DEFINE ships == [obj[o].ships EXCEPT ![d] = @ - 1]
             used == IF ships = NoShips THEN {o} ELSE {}
             base == [obj EXCEPT ![planet].owner = p, ![o].ships = ships]
             qs == [queue EXCEPT ![planet].owners = (@ \ {Nobody}) \cup {p}]
  <2>2. /\ obj' = ScheduleRemove(base, used) /\ Finish(o, qs)
        /\ owned' = [owned EXCEPT ![p] = (@ \cup {planet}) \ used]
        /\ view' = [view EXCEPT ![p].known = @ \cup {planet}]
    BY <2>1
  <2>3. planet \in Planet /\ planet \in Id /\ planet # o /\ planet \in Alive(obj) /\ obj[planet].owner = Nobody
    BY <1>3, <1>4, <1>6, IdsAndPlaces DEF Sound, Fixed
  <2>4. ships \in Ships
    <3>1. d \in Design /\ obj[o].ships[d] - 1 \in Nat
      BY <1>3, ConstantsAssumption DEF Ships
    <3>2. QED BY <1>3, <3>1 DEF Ships
  <2>5. used \subseteq {o} /\ (o \notin used => ships # NoShips)
    OBVIOUS
  <2> HIDE DEF ships, used, planet, p
  <2>6. \A x \in Id : base[x] = IF x = planet THEN [obj[x] EXCEPT !.owner = p]
                                ELSE IF x = o THEN [obj[x] EXCEPT !.ships = ships] ELSE obj[x]
    BY <1>3, <1>4, <2>3
  <2> HIDE DEF base
  <2>7. ASSUME NEW x \in Id
        PROVE  /\ base[x] \in Object /\ base[x].at = obj[x].at /\ base[x].parent = obj[x].parent
               /\ base[x].contains = obj[x].contains /\ base[x].status = obj[x].status
               /\ base[x].owner = IF x = planet THEN p ELSE obj[x].owner
               /\ base[x].ships = IF x = o THEN ships ELSE obj[x].ships
    <3>1. obj[x] \in Object
      BY <1>4
    <3>2. CASE x = planet
      <4>1. base[x] = [obj[x] EXCEPT !.owner = p] /\ x # o
        BY <2>3, <2>6, <3>2
      <4>2. QED BY <1>3, <3>1, <3>2, <4>1 DEF Object
    <3>3. CASE x = o
      <4>1. base[x] = [obj[x] EXCEPT !.ships = ships] /\ x # planet
        BY <2>3, <2>6, <3>3
      <4>2. QED BY <2>4, <3>1, <3>3, <4>1 DEF Object
    <3>4. CASE x # planet /\ x # o
      BY <2>6, <3>1, <3>4
    <3>5. QED BY <3>2, <3>3, <3>4
  <2>8. obj' = [x \in Id |-> IF x \in used THEN [base[x] EXCEPT !.status = "dead"] ELSE base[x]]
    BY <2>2 DEF ScheduleRemove
  <2>9. ASSUME NEW x \in Id
        PROVE  /\ obj'[x] \in Object /\ obj'[x].at = obj[x].at /\ obj'[x].parent = obj[x].parent
               /\ obj'[x].contains = obj[x].contains
               /\ obj'[x].status = IF x \in used THEN "dead" ELSE obj[x].status
               /\ obj'[x].owner = IF x = planet THEN p ELSE obj[x].owner
               /\ obj'[x].ships = IF x = o THEN ships ELSE obj[x].ships
    BY <2>7, <2>8 DEF Object
  <2>10. Sound(obj')
    <3>1. obj' \in [Id -> Object]
      BY <2>8, <2>9
    <3>2. \A x \in Id : /\ obj'[x].at = obj[x].at /\ obj'[x].parent = obj[x].parent
                        /\ obj'[x].contains = obj[x].contains
                        /\ obj'[x].status = obj[x].status \/ (obj'[x].status = "dead" /\ IsFleet(x))
      BY <1>3, <2>5, <2>9
    <3>3. obj'[Universe].owner = Nobody
      BY <1>4, <2>3, <2>9, IdsAndPlaces DEF Sound, Fixed
    <3>4. QED BY <1>4, <3>1, <3>2, <3>3, Frame
  <2>11. Alive(obj') = Alive(obj) \ used
    BY <2>9 DEF Alive
  <2>12. Shipped(obj')
    <3> SUFFICES ASSUME NEW x \in AliveFleets(obj') PROVE obj'[x].ships # NoShips
      BY DEF Shipped
    <3>1. x \in Id /\ x \in AliveFleets(obj) /\ x \notin used
      BY <2>11 DEF AliveFleets, Alive
    <3>2. QED BY <1>4, <2>5, <2>9, <3>1 DEF Shipped
  <2>13. queue \in [Id -> [orders : Seq(Order), owners : SUBSET (Player \cup {Nobody})]]
    BY <1>4 DEF Queues
  <2>14. /\ qs \in [Id -> [orders : Seq(Order), owners : SUBSET (Player \cup {Nobody})]]
         /\ qs[planet].orders = queue[planet].orders
         /\ qs[planet].owners = (queue[planet].owners \ {Nobody}) \cup {p}
         /\ \A x \in Id : x # planet => qs[x] = queue[x]
    BY <1>3, <2>3, <2>13
  <2> HIDE DEF qs
  <2>15. Queues(qs, given) /\ Cardinality(CreatingIn(qs)) <= Cardinality(CreatingIn(queue))
    <3>1. \A x \in Id : qs[x].orders = queue[x].orders \/ qs[x].orders = <<>>
      BY <2>14
    <3>2. QED BY <1>4, <2>14, <3>1, QueuesCut
  <2>16. qs[o] = queue[o] /\ qs[o].orders # <<>>
    BY <1>3, <2>3, <2>14
  <2>17. /\ Queues(queue', given) /\ todo' = todo \ {o}
         /\ Cardinality(CreatingIn(queue')) <= Cardinality(CreatingIn(qs))
         /\ \A x \in Id : x # o => queue'[x] = qs[x]
         /\ \A owner : AnswersTo(qs[o], owner) => AnswersTo(queue'[o], owner)
    BY <1>3, <1>4, <2>2, <2>15, <2>16, Finished
  <2>18. Room'
    <3>1. Cardinality(CreatingIn(queue')) \in Nat /\ Cardinality(CreatingIn(queue)) \in Nat
          /\ Cardinality(CreatingIn(qs)) \in Nat
      BY CreatingFinite
    <3>2. Cardinality(CreatingIn(queue')) <= Cardinality(CreatingIn(queue))
      BY <2>15, <2>17, <3>1
    <3>3. QED BY <1>1, <1>4, <3>2, RoomLeft DEF Stands
  <2>19. Answering(obj', queue')
    <3> SUFFICES ASSUME NEW x \in Alive(obj') PROVE AnswersTo(queue'[x], obj'[x].owner)
      BY DEF Answering
    <3>1. x \in Alive(obj) /\ x \in Id
      BY <2>11 DEF Alive
    <3>2. AnswersTo(queue[x], obj[x].owner)
      BY <3>1 DEF Stands, Answering
    <3>3. CASE x = planet
      <4>1. queue[planet].owners \ {Nobody} = {} /\ \A i \in 1 .. Len(queue[planet].orders) : FALSE
        BY <2>3, NoOrders
      <4>2. queue'[planet] = qs[planet]
        BY <2>3, <2>17
      <4>3. qs[planet].owners = {p} /\ \A i \in 1 .. Len(qs[planet].orders) : FALSE
        BY <2>14, <4>1
      <4>4. AnswersTo(qs[planet], p)
        BY <4>3 DEF AnswersTo
      <4>5. QED BY <2>9, <3>1, <3>3, <4>2, <4>4
    <3>4. CASE x # planet
      <4>1. qs[x] = queue[x] /\ obj'[x].owner = obj[x].owner
        BY <2>9, <2>14, <3>1, <3>4
      <4>2. QED BY <2>17, <3>1, <3>2, <4>1
    <3>5. QED BY <3>3, <3>4
  <2>20. owned \in [Player -> SUBSET Id] /\ view \in [Player -> [known : SUBSET Id, gone : SUBSET Id]]
    BY <1>4 DEF Types
  <2>21. /\ owned'[p] = (owned[p] \cup {planet}) \ used /\ \A q \in Player : q # p => owned'[q] = owned[q]
         /\ owned' \in [Player -> SUBSET Id]
    BY <1>3, <2>2, <2>3, <2>20
  <2>22. /\ view'[p].known = view[p].known \cup {planet} /\ view'[p].gone = view[p].gone
         /\ \A q \in Player : q # p => view'[q] = view[q]
         /\ view' \in [Player -> [known : SUBSET Id, gone : SUBSET Id]]
    BY <1>3, <2>2, <2>3, <2>20
  <2>23. OwnedHeld'
    <3> SUFFICES ASSUME NEW q \in Player PROVE owned'[q] = {x \in Alive(obj') : obj'[x].owner = q}
      BY DEF OwnedHeld
    <3>1. owned[q] = {x \in Alive(obj) : obj[x].owner = q} /\ q # Nobody
      BY ConstantsAssumption DEF Stands, OwnedHeld
    <3>2. \A x \in Alive(obj) : x \in Id /\ obj'[x].owner = IF x = planet THEN p ELSE obj[x].owner
      BY <2>9 DEF Alive
    <3>3. planet \notin used
      BY <2>3, <2>5
    <3>4. CASE q = p
      BY <2>3, <2>11, <2>21, <3>1, <3>2, <3>3, <3>4
    <3>5. CASE q # p
      <4>1. o \notin owned[q] /\ planet \notin owned[q]
        BY <2>3, <3>1, <3>5 DEF p
      <4>2. QED BY <2>5, <2>11, <2>21, <3>1, <3>2, <3>5, <4>1
    <3>6. QED BY <3>4, <3>5
  <2>24. Types'
    BY <1>1, <1>2, <1>4, <2>17, <2>21, <2>22 DEF Types
  <2>25. Unborn' /\ NoneDead'
    <3>1. \A x \in Id : x >= nextid => x # o
      BY <1>2, <1>4, Numbers DEF Serves
    <3>2. QED BY <1>1, <1>2, <2>5, <2>9, <3>1 DEF Stands, Unborn, NoneDead
  <2>26. Watched'
    <3> SUFFICES ASSUME NEW q \in Player
                 PROVE  /\ view'[q].known \cup view'[q].gone \subseteq 0 .. nextid - 1
                        /\ view'[q].gone \cap Alive(obj') = {}
      BY <1>1, <1>2 DEF Watched
    <3>1. view[q].known \cup view[q].gone \subseteq 0 .. nextid - 1 /\ view[q].gone \cap Alive(obj) = {}
      BY DEF Stands, Watched
    <3>2. planet \in 0 .. nextid - 1
      <4>1. planet \in Nat /\ nextid \in Nat
        BY <1>4, <2>3, IdsAndPlaces, Numbers
      <4>2. ~ (planet >= nextid)
        BY <2>3 DEF Stands, Unborn, Alive
      <4>3. QED BY <4>1, <4>2
    <3>3. QED BY <2>11, <2>22, <3>1, <3>2
  <2>27. Remains'
    <3> SUFFICES ASSUME NEW c \in Id, NEW t \in obj'[c].contains, obj'[t].status = "dead", obj'[t].owner # Nobody
                 PROVE  owned'[obj'[t].owner] \cap Planet # {}
      BY DEF Remains
    <3>1. t \in obj[c].contains /\ t \in Id
      BY <2>9, <2>10 DEF Sound, Object
    <3>2. planet \in owned'[p]
      BY <2>3, <2>5, <2>21
    <3>3. CASE t = o
      BY <2>3, <2>9, <3>1, <3>2, <3>3 DEF p
    <3>4. CASE t # o
      <4>1. obj[t].status = "dead" /\ t # planet
        BY <2>3, <2>5, <2>9, <3>1, <3>4 DEF Alive
      <4>2. obj'[t].owner = obj[t].owner /\ obj[t].owner \in Player
        BY <1>4, <2>9, <3>1, <4>1 DEF Object
      <4>3. owned[obj[t].owner] \cap Planet # {}
        BY <1>2, <3>1, <4>1, <4>2 DEF Stands, Remains
      <4>4. owned[obj[t].owner] \cap Planet \subseteq owned'[obj[t].owner]
        BY <1>3, <2>5, <2>21, <4>2
      <4>5. QED BY <4>2, <4>3, <4>4
    <3>5. QED BY <3>3, <3>4
  <2>28. Survivor'
    <3>1. planet \in owned'[p]
      BY <2>3, <2>5, <2>21
    <3>2. \A q \in Player \ living : owned'[q] = {}
      BY <1>3, <2>21 DEF Stands, Survivor
    <3>3. QED BY <1>2, <2>21, <3>1, <3>2 DEF Stands, Survivor
  <2>29. Visits'
    <3>1. \A x \in Id : x # o /\ obj'[x].status = "dead" => obj[x].status = "dead"
      BY <2>5, <2>9
    <3>2. QED BY <1>2, <1>3, <2>17, <3>1, Visited
  <2>30. Queues(queue', given')
    BY <1>2, <2>17
  <2>31. QED BY <2>10, <2>12, <2>18, <2>19, <2>23, <2>24, <2>25, <2>26, <2>27, <2>28, <2>29, <2>30 DEF Stands
<1>7. QED BY <1>5, <1>6

\* The fleet that is merged leaves its place and is dead, its ships are with the other.
LEMMA MergeInto ==
  ASSUME Stands, NEW o \in todo, Merge(o), MergeTargets(o) # {}, NEW t, t = Min(MergeTargets(o))
  PROVE  /\ obj[o].parent \in Id /\ t \in obj[obj[o].parent].contains
         /\ t # o /\ t \in Id /\ IsFleet(t) /\ obj[t].owner = obj[o].owner
         /\ obj[t].status \in {"alive", "dead"}
         /\ Plus(obj[t].ships, obj[o].ships) \in Ships /\ Plus(obj[t].ships, obj[o].ships) # NoShips
         /\ Sound(obj') /\ Alive(obj') = Alive(obj) \ {o}
         /\ \A x \in Id :
              /\ obj'[x].owner = obj[x].owner
              /\ obj'[x].ships = IF x = t THEN Plus(obj[t].ships, obj[o].ships) ELSE obj[x].ships
              /\ obj'[x].status = IF x = o THEN "dead" ELSE obj[x].status
              /\ obj'[x].contains \subseteq obj[x].contains /\ o \notin obj'[x].contains
<1> DEFINE p == obj[o].owner
           merged == [obj EXCEPT ![t].ships = Plus(@, obj[o].ships)]
<1>1. /\ Carrying(o, "Merge Fleet") /\ Finish(o, queue) /\ UNCHANGED <<nextid, view>>
      /\ MergeTargets(o) = {} => UNCHANGED <<obj, owned>>
      /\ MergeTargets(o) # {} => obj' = ScheduleRemove(RemoveFromParent(merged, o), {o}) /\ Lose({o})
  BY DEF Merge
<1>2. /\ Serves(o) /\ FirstOrder(o).type = "Merge Fleet" /\ phase = "orders"
      /\ UNCHANGED <<living, score, phase, later, battles, given>>
  BY <1>1, CarryingServes
<1>3. /\ o \in Id /\ obj[o] \in Object /\ IsFleet(o) /\ o \in Alive(obj) /\ o \in AliveFleets(obj)
      /\ obj[o].ships \in Ships /\ o \notin Planet /\ o # Universe
      /\ p \in Player /\ p # Nobody /\ p \in living /\ queue[o].orders # <<>> /\ o \in owned[p]
      /\ queue[o].orders[1] = FirstOrder(o)
  BY <1>2, IdsAndPlaces DEF Serves, Fits, Object, AliveFleets
<1>4. obj \in [Id -> Object] /\ Sound(obj) /\ Shipped(obj) /\ Types /\ Queues(queue, given) /\ given \in Nat
  BY Numbers DEF Stands, Sound
<1>5. t \in MergeTargets(o)
  <2>1. MergeTargets(o) \in SUBSET Nat
    <3>1. obj[o].parent \in Id
      BY <1>3, IdsAndPlaces DEF Object
    <3>2. obj[obj[o].parent].contains \subseteq Id
      BY <1>4, <3>1 DEF Object
    <3>3. QED BY <3>2, IdsAndPlaces DEF MergeTargets
  <2>2. QED BY <2>1, LeastIn
<1>6. /\ obj[o].parent \in Id /\ t \in obj[obj[o].parent].contains /\ t # o /\ t \in Id
      /\ IsFleet(t) /\ obj[t].owner = p
  <2>1. obj[o].parent \in Id
    BY <1>3, IdsAndPlaces DEF Object
  <2>2. t \in obj[obj[o].parent].contains /\ t # o /\ IsFleet(t) /\ obj[t].owner = p
    BY <1>5 DEF MergeTargets
  <2>3. t \in Id
    BY <1>4, <2>1, <2>2 DEF Object
  <2>4. QED BY <2>1, <2>2, <2>3
<1>7. obj[t].status # "none" /\ obj[t].status \in {"none", "alive", "dead"}
  BY <1>4, <1>6 DEF Sound, Held, Object
<1>8. Plus(obj[t].ships, obj[o].ships) \in Ships /\ Plus(obj[t].ships, obj[o].ships) # NoShips
  <2>1. \A d \in Design : obj[t].ships[d] \in Nat /\ obj[o].ships[d] \in Nat
    BY <1>3, <1>4, <1>6 DEF Object, Ships
  <2>2. Plus(obj[t].ships, obj[o].ships) \in Ships
    BY <2>1 DEF Plus, Ships
  <2>3. PICK d \in Design : obj[o].ships[d] # 0
    BY <1>3, <1>4 DEF Shipped, Ships, NoShips
  <2>4. Plus(obj[t].ships, obj[o].ships)[d] # 0
    <3>1. Plus(obj[t].ships, obj[o].ships)[d] = obj[t].ships[d] + obj[o].ships[d]
      BY DEF Plus
    <3>2. QED BY <2>1, <2>3, <3>1
  <2>5. QED BY <2>2, <2>4 DEF NoShips
<1>9. /\ merged \in [Id -> Object]
      /\ \A x \in Id : /\ merged[x].at = obj[x].at /\ merged[x].parent = obj[x].parent
                       /\ merged[x].contains = obj[x].contains /\ merged[x].status = obj[x].status
                       /\ merged[x].owner = obj[x].owner
                       /\ merged[x].ships = IF x = t THEN Plus(obj[t].ships, obj[o].ships) ELSE obj[x].ships
  <2>1. [obj[t] EXCEPT !.ships = Plus(@, obj[o].ships)] \in Object
    BY <1>4, <1>6, <1>8 DEF Object
  <2>2. merged \in [Id -> Object]
    BY <1>4, <1>6, <2>1
  <2>3. QED BY <1>4, <1>6, <2>2 DEF Object
<1> HIDE DEF merged
<1>10. Sound(merged) /\ Alive(merged) = Alive(obj) /\ o \in AliveFleets(merged)
  <2>1. merged[Universe].owner = Nobody
    BY <1>4, <1>9, IdsAndPlaces DEF Sound, Fixed
  <2>2. Sound(merged)
    BY <1>4, <1>9, <2>1, Frame
  <2>3. QED BY <1>3, <1>9, <2>2 DEF Alive, AliveFleets
<1>11. /\ Sound(obj') /\ Alive(obj') = Alive(merged) \ {o}
       /\ \A x \in Id : /\ obj'[x].owner = merged[x].owner /\ obj'[x].ships = merged[x].ships
                        /\ obj'[x].status = IF x = o THEN "dead" ELSE merged[x].status
                        /\ obj'[x].contains \subseteq merged[x].contains /\ o \notin obj'[x].contains
  <2>1. obj' = ScheduleRemove(RemoveFromParent(merged, o), {o})
    BY <1>1
  <2>2. QED BY <1>9, <1>10, <2>1, MergedAway
<1>12. \A x \in Id : /\ obj'[x].owner = obj[x].owner
                     /\ obj'[x].status = IF x = o THEN "dead" ELSE obj[x].status
                     /\ obj'[x].contains \subseteq obj[x].contains /\ o \notin obj'[x].contains
  BY <1>9, <1>11
<1>13. QED BY <1>6, <1>7, <1>8, <1>9, <1>10, <1>11, <1>12

LEMMA MergeStands == ASSUME Stands, NEW o \in todo, Merge(o) PROVE Stands'
<1> DEFINE p == obj[o].owner
           t == Min(MergeTargets(o))
<1>1. /\ Carrying(o, "Merge Fleet") /\ Finish(o, queue) /\ UNCHANGED <<nextid, view>>
      /\ MergeTargets(o) = {} => UNCHANGED <<obj, owned>>
      /\ MergeTargets(o) # {} => Lose({o})
  BY DEF Merge
<1>2. /\ Serves(o) /\ FirstOrder(o).type = "Merge Fleet" /\ phase = "orders"
      /\ UNCHANGED <<living, score, phase, later, battles, given>>
  BY <1>1, CarryingServes
<1>3. /\ o \in Id /\ obj[o] \in Object /\ IsFleet(o) /\ o \in Alive(obj) /\ o \in AliveFleets(obj)
      /\ obj[o].ships \in Ships /\ o \notin Planet /\ o # Universe
      /\ p \in Player /\ p # Nobody /\ p \in living /\ queue[o].orders # <<>> /\ o \in owned[p]
      /\ queue[o].orders[1] = FirstOrder(o)
  BY <1>2, IdsAndPlaces DEF Serves, Fits, Object, AliveFleets
<1>4. obj \in [Id -> Object] /\ Sound(obj) /\ Shipped(obj) /\ Types /\ Queues(queue, given) /\ given \in Nat
  BY Numbers DEF Stands, Sound
<1>5. CASE MergeTargets(o) = {}
  BY <1>1, <1>2, <1>4, <1>5, ServedStands
<1>6. CASE MergeTargets(o) # {}
  <2>1. /\ obj[o].parent \in Id /\ t \in obj[obj[o].parent].contains
        /\ t # o /\ t \in Id /\ IsFleet(t) /\ obj[t].owner = p
        /\ obj[t].status \in {"alive", "dead"}
        /\ Plus(obj[t].ships, obj[o].ships) # NoShips
        /\ Sound(obj') /\ Alive(obj') = Alive(obj) \ {o}
        /\ \A x \in Id : /\ obj'[x].owner = obj[x].owner
                         /\ obj'[x].ships = IF x = t THEN Plus(obj[t].ships, obj[o].ships) ELSE obj[x].ships
                         /\ obj'[x].status = IF x = o THEN "dead" ELSE obj[x].status
                         /\ obj'[x].contains \subseteq obj[x].contains /\ o \notin obj'[x].contains
    BY <1>6, MergeInto
  <2> HIDE DEF t
  <2>2. Shipped(obj')
    <3> SUFFICES ASSUME NEW x \in AliveFleets(obj') PROVE obj'[x].ships # NoShips
      BY DEF Shipped
    <3>1. x \in Id /\ x \in AliveFleets(obj)
      BY <2>1 DEF AliveFleets, Alive
    <3>2. QED BY <1>4, <2>1, <3>1 DEF Shipped
  <2>3. /\ Queues(queue', given) /\ todo' = todo \ {o}
        /\ Cardinality(CreatingIn(queue')) <= Cardinality(CreatingIn(queue))
        /\ \A x \in Id : x # o => queue'[x] = queue[x]
        /\ \A owner : AnswersTo(queue[o], owner) => AnswersTo(queue'[o], owner)
    BY <1>1, <1>3, <1>4, Finished
  <2>4. Room'
    BY <1>1, <1>4, <2>3, RoomLeft DEF Stands
  <2>5. Answering(obj', queue')
    <3> SUFFICES ASSUME NEW x \in Alive(obj') PROVE AnswersTo(queue'[x], obj'[x].owner)
      BY DEF Answering
    <3>1. x \in Alive(obj) /\ x \in Id
      BY <2>1 DEF Alive
    <3>2. AnswersTo(queue[x], obj[x].owner)
      BY <3>1 DEF Stands, Answering
    <3>3. QED BY <2>1, <2>3, <3>1, <3>2
  <2>6. owned' = [q \in Player |-> owned[q] \ {o}] /\ owned \in [Player -> SUBSET Id]
    BY <1>1, <1>4, <1>6 DEF Lose, Types
  <2> HIDE DEF p
  <2>7. OwnedHeld'
    <3> SUFFICES ASSUME NEW q \in Player PROVE owned'[q] = {x \in Alive(obj') : obj'[x].owner = q}
      BY DEF OwnedHeld
    <3>1. owned[q] = {x \in Alive(obj) : obj[x].owner = q}
      BY DEF Stands, OwnedHeld
    <3>2. \A x \in Alive(obj) : obj'[x].owner = obj[x].owner
      BY <2>1 DEF Alive
    <3>3. QED BY <2>1, <2>6, <3>1, <3>2
  <2>8. Types'
    BY <1>1, <1>2, <1>4, <2>3, <2>6 DEF Types
  <2>9. Unborn' /\ NoneDead'
    <3>1. o < nextid /\ o \in Nat /\ nextid \in Nat
      BY <1>2, <1>3, <1>4, IdsAndPlaces, Numbers DEF Serves
    <3>2. \A x \in Id : x >= nextid => x # o
      BY <3>1, IdsAndPlaces
    <3>3. QED BY <1>1, <1>2, <2>1, <3>2 DEF Stands, Unborn, NoneDead
  <2>10. Watched'
    BY <1>1, <1>2, <2>1 DEF Stands, Watched
  <2>11. \A q \in Player : owned[q] \cap Planet \subseteq owned'[q]
    BY <1>3, <2>6
  <2>12. Remains'
    <3> SUFFICES ASSUME NEW c \in Id, NEW x \in obj'[c].contains, obj'[x].status = "dead", obj'[x].owner # Nobody
                 PROVE  owned'[obj'[x].owner] \cap Planet # {}
      BY DEF Remains
    <3>1. x \in obj[c].contains /\ x \in Id /\ x # o
      BY <2>1 DEF Sound, Object
    <3>2. obj[x].status = "dead" /\ obj'[x].owner = obj[x].owner
      BY <2>1, <3>1
    <3>3. obj[x].owner \in Player
      BY <1>4, <3>1, <3>2 DEF Object
    <3>4. owned[obj[x].owner] \cap Planet # {}
      BY <1>2, <3>1, <3>2 DEF Stands, Remains
    <3>5. QED BY <2>11, <3>2, <3>3, <3>4
  <2>13. owned'[p] # {}
    <3>1. CASE obj[t].status = "alive"
      <4>1. t \in owned[p]
        BY <1>3, <2>1, <3>1 DEF Stands, OwnedHeld, Alive
      <4>2. QED BY <1>3, <2>1, <2>6, <4>1
    <3>2. CASE obj[t].status = "dead"
      <4>1. owned[p] \cap Planet # {}
        BY <1>2, <1>3, <2>1, <3>2 DEF Stands, Remains
      <4>2. QED BY <1>3, <2>11, <4>1
    <3>3. QED BY <2>1, <3>1, <3>2
  <2>14. \A q \in Player : q # p => owned'[q] = owned[q]
    BY <1>3, <2>6 DEF Stands, OwnedHeld, p
  <2>15. Survivor'
    <3>1. \A q \in Player \ living : owned'[q] = {}
      BY <1>3, <2>14 DEF Stands, Survivor
    <3>2. QED BY <1>2, <2>13, <2>14, <3>1 DEF Stands, Survivor
  <2>16. Visits'
    <3>1. \A x \in Id : x # o /\ obj'[x].status = "dead" => obj[x].status = "dead"
      BY <2>1
    <3>2. QED BY <1>2, <1>3, <2>3, <3>1, Visited
  <2>17. Queues(queue', given')
    BY <1>2, <2>3
  <2>18. QED BY <2>1, <2>2, <2>4, <2>5, <2>7, <2>8, <2>9, <2>10, <2>12, <2>15, <2>16, <2>17 DEF Stands
<1>7. QED BY <1>5, <1>6

LEMMA EndTurnStands == ASSUME Stands, EndTurn PROVE Stands'
<1> DEFINE now == {p \in living : owned[p] # {}}
<1>1. /\ phase = "orders" /\ todo = {} /\ obj' = ClearRemoved(obj)
      /\ view' = [p \in Player |-> Seen(view[p], Alive(obj'))]
      /\ living' = now /\ phase' = "play"
      /\ score' = IF Cardinality(now) = 1
                  THEN [p \in Player |-> IF p \in now THEN NumDeadPlayers(now) - 1 ELSE score[p]]
                  ELSE score
      /\ UNCHANGED <<nextid, queue, owned, todo, later, battles, given>>
  BY DEF EndTurn
<1>2. /\ Sound(obj') /\ Alive(obj') = Alive(obj)
      /\ \A o \in Id : obj'[o].status \in {"none", "alive"}
      /\ \A o \in Alive(obj) : obj'[o].owner = obj[o].owner /\ obj'[o].ships = obj[o].ships
      /\ \A o \in Id : obj[o].status = "none" => obj'[o].status = "none"
  BY <1>1, Cleared DEF Stands
<1>3. Shipped(obj') /\ Answering(obj', queue')
  BY <1>1, <1>2 DEF Stands, Shipped, AliveFleets, Answering
<1>4. OwnedHeld'
  <2> SUFFICES ASSUME NEW p \in Player PROVE owned'[p] = {o \in Alive(obj') : obj'[o].owner = p}
    BY DEF OwnedHeld
  <2>1. owned[p] = {o \in Alive(obj) : obj[o].owner = p}
    BY DEF Stands, OwnedHeld
  <2>2. QED BY <1>1, <1>2, <2>1
<1>5. Unborn' /\ NoneDead'
  BY <1>1, <1>2 DEF Stands, Unborn, NoneDead
<1>6. Visits' /\ Remains' /\ Room'
  BY <1>1 DEF Stands, Visits, Remains, Room
<1>7. Types /\ nextid \in Nat /\ Alive(obj) \subseteq Id
  BY Numbers DEF Stands, Alive
<1>8. Watched' /\ view' \in [Player -> [known : SUBSET Id, gone : SUBSET Id]]
  <2>1. \A o \in Alive(obj) : o \in 0 .. nextid - 1
    <3> TAKE o \in Alive(obj)
    <3>1. o \in Nat /\ ~(o >= nextid)
      BY <1>7, IdsAndPlaces DEF Stands, Unborn, Alive
    <3>2. QED BY <1>7, <3>1
  <2>2. ASSUME NEW p \in Player
        PROVE  /\ view'[p].known \cup view'[p].gone \subseteq 0 .. nextid - 1
               /\ view'[p].gone \cap Alive(obj) = {}
               /\ view'[p].known \ view'[p].gone = Alive(obj)
               /\ view'[p] \in [known : SUBSET Id, gone : SUBSET Id]
    <3>1. /\ view[p].known \cup view[p].gone \subseteq 0 .. nextid - 1 /\ view[p].gone \cap Alive(obj) = {}
          /\ view[p] \in [known : SUBSET Id, gone : SUBSET Id]
      BY <1>7 DEF Stands, Watched, Types
    <3>2. view'[p] = [known |-> view[p].known \cup Alive(obj), gone |-> view[p].gone \cup (view[p].known \ Alive(obj))]
      BY <1>1, <1>2 DEF Seen
    <3>3. /\ view'[p].known = view[p].known \cup Alive(obj)
          /\ view'[p].gone = view[p].gone \cup (view[p].known \ Alive(obj))
      BY <3>2
    <3>4. view'[p] \in [known : SUBSET Id, gone : SUBSET Id]
      BY <1>7, <3>1, <3>2
    <3>5. QED BY <2>1, <3>1, <3>3, <3>4
  <2>3. view' \in [Player -> [known : SUBSET Id, gone : SUBSET Id]]
    <3>1. view' = [p \in Player |-> view'[p]]
      BY <1>1
    <3>2. QED BY <2>2, <3>1
  <2>4. Watched'
    BY <1>1, <1>2, <2>2 DEF Watched
  <2>5. QED BY <2>3, <2>4
<1>9. now \subseteq living /\ now \subseteq Player /\ IsFiniteSet(Player) /\ IsFiniteSet(now)
  BY <1>7, ConstantsAssumption, FS_Subset DEF Types
<1>10. ASSUME NEW p \in Player, now = {p}
       PROVE  /\ Cardinality(now) = 1
              /\ NumDeadPlayers(now) - 1 = Cardinality(Player) - 1
  <2>1. Cardinality(now) = 1
    BY <1>10, FS_Singleton
  <2>2. Cardinality(Player \ {p}) = Cardinality(Player) - 1 /\ Cardinality(Player) \in Nat
    BY <1>9, FS_RemoveElement, FS_CardinalityType
  <2>3. NumDeadPlayers(now) = Cardinality(Player \ {p}) + 1
    BY <1>10 DEF NumDeadPlayers
  <2> HIDE DEF now
  <2>4. QED BY <2>1, <2>2, <2>3
<1>11. Cardinality(now) = 1 => \E p \in Player : now = {p}
  <2> SUFFICES ASSUME Cardinality(now) = 1 PROVE \E p \in Player : now = {p}
    OBVIOUS
  <2> HIDE DEF now
  <2>1. PICK p : now = {p}
    BY <1>9, FS_Singleton
  <2>2. QED BY <1>9, <2>1
<1>12. Cardinality(Player) - 1 \in Nat \/ Player = {}
  <2>1. Cardinality(Player) \in Nat /\ (Cardinality(Player) = 0 <=> Player = {})
    BY <1>9, FS_CardinalityType, FS_EmptySet
  <2>2. QED BY <2>1
<1>13. \A p \in Player : living = {p} => owned[p] # {} /\ now = {p}
  BY DEF Stands, Survivor
<1>14. \A p \in Player : score[p] > 0 => living = {p}
  BY DEF Stands, Survivor
<1>15. score \in [Player -> Nat]
  BY <1>7 DEF Types
<1>16. \A p \in Player \ now : owned[p] = {}
  BY <1>9 DEF Stands, Survivor
<1>17. battles = <<>>
  BY <1>1, <1>7 DEF Types
<1>18. \A p \in now : owned[p] # {}
  OBVIOUS
<1> HIDE DEF now
<1>19. CASE Cardinality(now) = 1
  <2>1. PICK p \in Player : now = {p}
    BY <1>11, <1>19
  <2>2. score' = [q \in Player |-> IF q = p THEN Cardinality(Player) - 1 ELSE score[q]]
    BY <1>1, <1>10, <1>19, <2>1
  <2>3. score' \in [Player -> Nat]
    BY <1>12, <1>15, <2>1, <2>2
  <2>4. \A q \in Player : score'[q] > 0 => q = p
    BY <1>13, <1>14, <2>1, <2>2
  <2>5. Survivor'
    BY <1>1, <1>16, <1>17, <1>18, <2>1, <2>2, <2>4 DEF Survivor
  <2>6. Types'
    BY <1>1, <1>7, <1>8, <1>9, <2>3 DEF Types
  <2>7. QED BY <1>1, <1>2, <1>3, <1>4, <1>5, <1>6, <1>8, <2>5, <2>6 DEF Stands
<1>20. CASE Cardinality(now) # 1
  <2>1. score' = score
    BY <1>1, <1>20
  <2>2. \A p \in Player : now # {p}
    BY <1>10, <1>20
  <2>3. Survivor'
    BY <1>1, <1>13, <1>14, <1>16, <1>18, <2>1, <2>2 DEF Survivor
  <2>4. Types'
    BY <1>1, <1>7, <1>8, <1>9, <2>1 DEF Types
  <2>5. QED BY <1>1, <1>2, <1>3, <1>4, <1>5, <1>6, <1>8, <2>3, <2>4 DEF Stands
<1>21. QED BY <1>19, <1>20

-----------------------------------------------------------------------------
(* The first turn *)

LEMMA InitStands == Init => Stands
<1> SUFFICES ASSUME Init PROVE Stands
  OBVIOUS
<1> DEFINE b == [o \in Id |-> IF o = Universe THEN [NoObject EXCEPT !.status = "alive"]
                              ELSE IF o \in DOMAIN Start THEN StartObject(o) ELSE NoObject]
           last == Max(DOMAIN Start)
<1>1. /\ obj = Placed(b) /\ nextid = last + 1
      /\ queue = [o \in Id |-> IF o \in DOMAIN Start THEN [NoQueue EXCEPT !.owners = {Start[o].owner}]
                               ELSE NoQueue]
      /\ owned = [p \in Player |-> {o \in DOMAIN Start : Start[o].owner = p}]
      /\ view = [p \in Player |-> [known |-> {Universe} \cup DOMAIN Start, gone |-> {}]]
      /\ living = Player /\ score = [p \in Player |-> 0]
      /\ phase = "play" /\ todo = {} /\ later = {} /\ battles = <<>> /\ given = 0
  BY DEF Init
<1>2. last \in DOMAIN Start /\ \A o \in DOMAIN Start : o <= last
  <2>1. DOMAIN Start \subseteq Nat /\ DOMAIN Start # {} /\ \A o \in DOMAIN Start : o <= MaxId
    BY IdsAndPlaces, StartAssumption
  <2>2. MaxId \in Nat
    BY ConstantsAssumption
  <2>3. QED BY <2>1, <2>2, MaxBounded
<1> HIDE DEF last
<1>3. last \in 1 .. MaxId /\ MaxId \in Nat /\ MaxOrders \in Nat /\ Universe \notin DOMAIN Start
  BY <1>2, ConstantsAssumption DEF Universe
<1>4. \A o \in Id : /\ b[o] \in Object
                    /\ b[o].status = IF o = Universe \/ o \in DOMAIN Start THEN "alive" ELSE "none"
                    /\ b[o].owner = IF o \in DOMAIN Start THEN Start[o].owner ELSE Nobody
                    /\ o \in DOMAIN Start => b[o].at = Start[o].at /\ b[o].ships = Start[o].ships
  <2>1. NoShips \in Ships
    BY DEF NoShips, Ships
  <2>2. NoObject \in Object /\ [NoObject EXCEPT !.status = "alive"] \in Object
    BY <2>1 DEF NoObject, Object
  <2> SUFFICES ASSUME NEW o \in Id
               PROVE  /\ b[o] \in Object
                      /\ b[o].status = IF o = Universe \/ o \in DOMAIN Start THEN "alive" ELSE "none"
                      /\ b[o].owner = IF o \in DOMAIN Start THEN Start[o].owner ELSE Nobody
                      /\ o \in DOMAIN Start => b[o].at = Start[o].at /\ b[o].ships = Start[o].ships
    OBVIOUS
  <2>3. CASE o = Universe
    BY <1>3, <2>2, <2>3 DEF NoObject
  <2>4. CASE o # Universe /\ o \in DOMAIN Start
    BY <2>4, StartAssumption DEF StartObject, NoObject, Object
  <2>5. CASE o # Universe /\ o \notin DOMAIN Start
    BY <2>2, <2>5 DEF NoObject
  <2>6. QED BY <2>3, <2>4, <2>5
<1> HIDE DEF b
<1>5. Alive(b) = {Universe} \cup DOMAIN Start
  BY <1>4, IdsAndPlaces DEF Alive
<1>6. Fixed(b)
  <2>1. b[Universe].owner = Nobody
    BY <1>3, <1>4, IdsAndPlaces
  <2>2. Planet \subseteq DOMAIN Start
    BY ConstantsAssumption
  <2>3. QED BY <1>4, <1>5, <2>1, <2>2, IdsAndPlaces DEF Fixed
<1>7. \A o \in Id : /\ obj[o] \in Object
                    /\ obj[o].status = b[o].status /\ obj[o].owner = b[o].owner
                    /\ obj[o].at = b[o].at /\ obj[o].ships = b[o].ships
                    /\ obj[o].parent = IF IsFleet(o) /\ o \in Alive(b) THEN Holder(b[o].at) ELSE Universe
                    /\ obj[o].contains = {c \in Alive(b) \ {Universe, o} :
                                            o = IF IsFleet(c) THEN Holder(b[c].at) ELSE Universe}
  <2> SUFFICES ASSUME NEW o \in Id
               PROVE  /\ obj[o] \in Object
                      /\ obj[o].status = b[o].status /\ obj[o].owner = b[o].owner
                      /\ obj[o].at = b[o].at /\ obj[o].ships = b[o].ships
                      /\ obj[o].parent = IF IsFleet(o) /\ o \in Alive(b) THEN Holder(b[o].at) ELSE Universe
                      /\ obj[o].contains = {c \in Alive(b) \ {Universe, o} :
                                              o = IF IsFleet(c) THEN Holder(b[c].at) ELSE Universe}
    OBVIOUS
  <2> DEFINE into == IF IsFleet(o) /\ o \in Alive(b) THEN Holder(b[o].at) ELSE Universe
             inside == {c \in Alive(b) \ {Universe, o} :
                          o = IF IsFleet(c) THEN Holder(b[c].at) ELSE Universe}
  <2>1. \A pos : Container(b, pos) = Holder(pos)
    BY <1>6, ContainerIsHolder
  <2>2. obj[o] = [b[o] EXCEPT !.parent = into, !.contains = inside]
    <3>1. obj[o] = [b[o] EXCEPT
                      !.parent = IF IsFleet(o) /\ o \in Alive(b) THEN Container(b, b[o].at) ELSE Universe,
                      !.contains = {c \in Alive(b) \ {Universe, o} :
                                      o = IF IsFleet(c) THEN Container(b, b[c].at) ELSE Universe}]
      BY <1>1 DEF Placed
    <3>2. into = IF IsFleet(o) /\ o \in Alive(b) THEN Container(b, b[o].at) ELSE Universe
      BY <2>1
    <3>3. inside = {c \in Alive(b) \ {Universe, o} :
                      o = IF IsFleet(c) THEN Container(b, b[c].at) ELSE Universe}
      BY <2>1
    <3> HIDE DEF into, inside
    <3>4. QED BY <3>1, <3>2, <3>3
  <2>3. into \in Planet \cup {Universe} /\ inside \in SUBSET Id
    BY HolderType DEF Alive
  <2> HIDE DEF into, inside
  <2>4. b[o] \in Object
    BY <1>4
  <2>5. /\ obj[o] \in Object /\ obj[o].parent = into /\ obj[o].contains = inside
        /\ obj[o].status = b[o].status /\ obj[o].owner = b[o].owner
        /\ obj[o].at = b[o].at /\ obj[o].ships = b[o].ships
    BY <2>2, <2>3, <2>4 DEF Object
  <2>6. QED BY <2>5 DEF into, inside
<1>8. \A o \in Id : obj[o].parent \in Planet \cup {Universe}
  BY <1>7, HolderType
<1>9. Alive(obj) = {Universe} \cup DOMAIN Start
  BY <1>5, <1>7 DEF Alive
<1>10. obj \in [Id -> Object]
  <2>1. obj = [o \in Id |-> obj[o]]
    BY <1>1 DEF Placed
  <2>2. QED BY <1>7, <2>1
<1>11. Fixed(obj)
  BY <1>5, <1>6, <1>7, <1>9, IdsAndPlaces DEF Fixed
<1>12. Held(obj)
  <2> SUFFICES ASSUME NEW c \in Id, NEW o \in Id, o \in obj[c].contains
               PROVE  obj[o].status # "none" /\ obj[o].parent = c
    BY DEF Held
  <2>1. o \in Alive(b) /\ c = IF IsFleet(o) THEN Holder(b[o].at) ELSE Universe
    BY <1>7
  <2>2. QED BY <1>7, <2>1 DEF Alive
<1>13. InParent(obj)
  <2> SUFFICES ASSUME NEW o \in Alive(obj) \ {Universe} PROVE o \in obj[obj[o].parent].contains
    BY DEF InParent
  <2>1. o \in Id /\ o \in Alive(b) /\ obj[o].parent \in Id
    BY <1>5, <1>8, <1>9, IdsAndPlaces DEF Alive
  <2>2. obj[o].parent # o
    BY <1>7, <1>8, <2>1, IdsAndPlaces
  <2>3. QED BY <1>7, <2>1, <2>2
<1>14. InPlace(obj)
  BY <1>5, <1>7, <1>9, <1>11, ContainerIsHolder DEF InPlace, AliveFleets, Alive
<1>15. Sound(obj)
  BY <1>10, <1>11, <1>12, <1>13, <1>14 DEF Sound
<1>16. Shipped(obj)
  <2> SUFFICES ASSUME NEW o \in AliveFleets(obj) PROVE obj[o].ships # NoShips
    BY DEF Shipped
  <2>1. o \in Id /\ o \in DOMAIN Start /\ IsFleet(o)
    BY <1>9, IdsAndPlaces DEF AliveFleets, Alive
  <2>2. QED BY <1>4, <1>7, <2>1, StartAssumption
<1>17. \A o \in Id : /\ queue[o] \in [orders : Seq(Order), owners : SUBSET (Player \cup {Nobody})]
                     /\ queue[o].orders = <<>>
                     /\ queue[o].owners = IF o \in DOMAIN Start THEN {Start[o].owner} ELSE {}
  <2> SUFFICES ASSUME NEW o \in Id
               PROVE  /\ queue[o] \in [orders : Seq(Order), owners : SUBSET (Player \cup {Nobody})]
                      /\ queue[o].orders = <<>>
                      /\ queue[o].owners = IF o \in DOMAIN Start THEN {Start[o].owner} ELSE {}
    OBVIOUS
  <2>1. CASE o \in DOMAIN Start
    <3>1. queue[o] = [orders |-> <<>>, owners |-> {Start[o].owner}]
      BY <1>1, <2>1 DEF NoQueue
    <3>2. QED BY <2>1, <3>1, StartAssumption
  <2>2. CASE o \notin DOMAIN Start
    <3>1. queue[o] = [orders |-> <<>>, owners |-> {}]
      BY <1>1, <2>2 DEF NoQueue
    <3>2. QED BY <2>2, <3>1
  <2>3. QED BY <2>1, <2>2
<1>18. Queues(queue, given)
  <2>1. queue = [o \in Id |-> queue[o]]
    BY <1>1
  <2>2. queue \in [Id -> [orders : Seq(Order), owners : SUBSET (Player \cup {Nobody})]]
    BY <1>17, <2>1
  <2>3. \A o \in Id : Len(queue[o].orders) = 0
    <3>1. \A o \in Id : queue[o].orders = <<>>
      BY <1>17
    <3>2. \A q : q = <<>> => Len(q) = 0
      OBVIOUS
    <3>3. QED BY <3>1, <3>2
  <2>4. \A o \in Id : Len(queue[o].orders) <= given /\ 1 .. Len(queue[o].orders) = {}
    BY <1>1, <2>3
  <2>5. QED BY <2>2, <2>4 DEF Queues
<1>19. Answering(obj, queue)
  <2> SUFFICES ASSUME NEW o \in Alive(obj) PROVE AnswersTo(queue[o], obj[o].owner)
    BY DEF Answering
  <2>1. o \in Id
    BY DEF Alive
  <2>2. queue[o].orders = <<>> /\ queue[o].owners = IF o \in DOMAIN Start THEN {Start[o].owner} ELSE {}
    BY <1>17, <2>1
  <2>3. obj[o].owner = IF o \in DOMAIN Start THEN Start[o].owner ELSE Nobody
    BY <1>4, <1>7, <2>1
  <2>4. QED BY <2>2, <2>3 DEF AnswersTo
<1>20. Room
  <2>1. \A o \in Id : DOMAIN queue[o].orders = {}
    <3>1. \A q : q = <<>> => DOMAIN q = {}
      OBVIOUS
    <3>2. \A o \in Id : queue[o].orders = <<>>
      BY <1>17
    <3>3. QED BY <3>1, <3>2
  <2>2. CreatingIn(queue) = {}
    BY <2>1 DEF CreatingIn
  <2>3. Cardinality(CreatingIn(queue)) = 0
    BY <2>2, FS_EmptySet
  <2>4. QED BY <1>1, <1>3, <2>3 DEF Room
<1>21. OwnedHeld
  <2> SUFFICES ASSUME NEW p \in Player PROVE owned[p] = {o \in Alive(obj) : obj[o].owner = p}
    BY DEF OwnedHeld
  <2>1. obj[Universe].owner # p
    BY <1>11, ConstantsAssumption DEF Fixed
  <2>2. QED BY <1>1, <1>4, <1>7, <1>9, <2>1, IdsAndPlaces
<1>22. Types
  <2>1. owned \in [Player -> SUBSET Id]
    BY <1>1, IdsAndPlaces
  <2>2. view \in [Player -> [known : SUBSET Id, gone : SUBSET Id]]
    BY <1>1, IdsAndPlaces
  <2>3. nextid \in 1 .. MaxId + 1 /\ given \in 0 .. MaxOrders
    BY <1>1, <1>3
  <2>4. QED BY <1>1, <2>1, <2>2, <2>3 DEF Types
<1>23. Unborn /\ NoneDead
  <2>1. \A o \in Id : o >= nextid => o # Universe /\ o \notin DOMAIN Start
    BY <1>1, <1>2, <1>3, IdsAndPlaces DEF Universe
  <2>2. QED BY <1>4, <1>7, <2>1 DEF Unborn, NoneDead
<1>24. Watched
  <2>1. {Universe} \cup DOMAIN Start \subseteq 0 .. nextid - 1
    <3> SUFFICES ASSUME NEW o \in {Universe} \cup DOMAIN Start PROVE o \in 0 .. nextid - 1
      OBVIOUS
    <3>1. o \in Nat /\ o <= last
      BY <1>2, <1>3, IdsAndPlaces DEF Universe
    <3>2. QED BY <1>1, <1>3, <3>1
  <2>2. QED BY <1>1, <1>9, <2>1 DEF Watched
<1>25. Visits /\ Remains
  BY <1>1 DEF Visits, Remains
<1>26. Survivor
  <2>1. \A p \in Player : owned[p] # {}
    BY <1>1, StartAssumption
  <2>2. \A p \in Player : living = {p} => score[p] = Cardinality(Player) - 1
    <3> SUFFICES ASSUME NEW p \in Player, living = {p} PROVE score[p] = Cardinality(Player) - 1
      OBVIOUS
    <3>1. Cardinality(Player) = 1
      BY <1>1, FS_Singleton
    <3>2. QED BY <1>1, <3>1
  <2>3. QED BY <1>1, <2>1, <2>2 DEF Survivor
<1>27. QED BY <1>15, <1>16, <1>18, <1>19, <1>20, <1>21, <1>22, <1>23, <1>24, <1>25, <1>26 DEF Stands

-----------------------------------------------------------------------------
(* What holds of every turn *)

LEMMA NextStands == Stands /\ [Next]_vars => Stands'
<1> SUFFICES ASSUME Stands, [Next]_vars PROVE Stands'
  OBVIOUS
<1>1. ASSUME NEW p \in Player, NEW o \in Id, NEW order \in NewOrder, GiveOrder(p, o, order) PROVE Stands'
  BY <1>1, GiveOrderStands
<1>2. CASE StartTurn
  BY <1>2, StartTurnStands
<1>3. CASE TakeSides
  BY <1>3, TakeSidesStands
<1>4. CASE Fight
  BY <1>4, FightStands
<1>5. CASE EndFights
  BY <1>5, EndFightsStands
<1>6. CASE EndTurn
  BY <1>6, EndTurnStands
<1>7. ASSUME NEW o \in todo, Move(o) PROVE Stands'
  BY <1>7, MoveStands
<1>8. ASSUME NEW o \in todo, Skip(o) PROVE Stands'
  BY <1>8, SkipStands
<1>9. ASSUME NEW o \in todo, Nop(o) PROVE Stands'
  BY <1>9, NopStands
<1>10. ASSUME NEW o \in todo, Build(o) PROVE Stands'
  BY <1>10, BuildStands
<1>11. ASSUME NEW o \in todo, Colonise(o) PROVE Stands'
  BY <1>11, ColoniseStands
<1>12. ASSUME NEW o \in todo, Merge(o) PROVE Stands'
  BY <1>12, MergeStands
<1>13. ASSUME NEW o \in todo, Split(o) PROVE Stands'
  BY <1>13, SplitStands
<1>14. CASE UNCHANGED vars
  BY <1>14 DEF Stands, Types, Queues, Answering, Room, OwnedHeld, Visits, Movers, WithOrders, FirstOrder,
               Unborn, NoneDead, Watched, Remains, Survivor, vars
<1>15. QED BY <1>1, <1>2, <1>3, <1>4, <1>5, <1>6, <1>7, <1>8, <1>9, <1>10, <1>11, <1>12, <1>13, <1>14 DEF Next

LEMMA AlwaysStands == Spec => []Stands
<1>1. Init => Stands
  BY InitStands
<1>2. Stands /\ [Next]_vars => Stands'
  BY NextStands
<1>3. QED BY <1>1, <1>2, PTL DEF Spec

\* No order is carried out for another player than the one who gave it: whatever
\* falls, is colonised or is merged, the queue of every object answers to its
\* owner and holds his orders alone (order.cpp, rspcombat.cpp, colonise.cpp).
THEOREM OrdersAreTheOwners == Spec => []OrdersFromOwner
<1>1. Stands => OrdersFromOwner
  <2> SUFFICES ASSUME Stands, NEW o \in Alive(obj) \ {Universe}
               PROVE  /\ queue[o].owners \ {Nobody} = {obj[o].owner} \ {Nobody}
                      /\ \A i \in DOMAIN queue[o].orders : queue[o].orders[i].by = obj[o].owner
    BY DEF OrdersFromOwner
  <2>1. o \in Id
    BY DEF Alive
  <2>2. AnswersTo(queue[o], obj[o].owner) /\ queue[o].orders \in Seq(Order)
    BY <2>1 DEF Stands, Answering, Queues
  <2>3. DOMAIN queue[o].orders = 1 .. Len(queue[o].orders)
    BY <2>2
  <2>4. QED BY <2>2, <2>3 DEF AnswersTo
<1>2. QED BY <1>1, AlwaysStands, PTL

\* The objects stay consistent through every order and battle: each living one is
\* in its parent and nowhere else, a fleet in the planet it is at and not without
\* ships, and a player's view lists as his own the living objects he owns.
THEOREM ObjectsStayConsistent == Spec => []ObjectsConsistent
<1>1. Stands => TypeOK
  <2> SUFFICES ASSUME Stands PROVE TypeOK
    OBVIOUS
  <2>1. phase = "play" => InManager(obj) = Alive(obj)
    BY DEF Stands, NoneDead, Sound, Object, InManager, Alive
  <2>2. battles \in Seq(SUBSET Id)
    <3>1. battles \in Seq(SUBSET (Id \ {Universe}))
      BY DEF Stands, Types
    <3>2. QED BY <3>1, IdsAndPlaces
  <2>3. QED BY <2>1, <2>2 DEF Stands, Types, Sound, Queues, TypeOK
<1>2. Stands => Contained
  <2> SUFFICES ASSUME Stands PROVE Contained
    OBVIOUS
  <2>1. ASSUME NEW o \in Alive(obj) \ {Universe}
        PROVE  /\ {c \in Id : o \in obj[c].contains} = {obj[o].parent}
               /\ IsFleet(o) => obj[o].parent = Container(obj, obj[o].at)
    <3>1. o \in Id /\ obj[o].parent \in Id /\ o \in obj[obj[o].parent].contains
      BY <2>1, IdsAndPlaces DEF Stands, Sound, InParent, Alive, Object
    <3>2. \A c \in Id : o \in obj[c].contains => c = obj[o].parent
      BY <3>1 DEF Stands, Sound, Held
    <3>3. IsFleet(o) => obj[o].parent = Container(obj, obj[o].at)
      BY <2>1 DEF Stands, Sound, InPlace, AliveFleets
    <3>4. QED BY <3>1, <3>2, <3>3
  <2>2. \A c \in Id : obj[c].contains \subseteq InManager(obj)
    BY DEF Stands, Sound, Held, Object, InManager
  <2>3. QED BY <2>1, <2>2 DEF Contained
<1>3. Stands => OwnedHeld /\ FleetsHaveShips
  BY DEF Stands, Shipped, FleetsHaveShips
<1>4. QED BY <1>1, <1>2, <1>3, AlwaysStands, PTL DEF ObjectsConsistent

\* After every turn a player sees the objects there are, and what he knew and is
\* no more is gone (MinisecTurn::doTurn, the loop over the players).
THEOREM ViewsStayCurrent == Spec => []ViewsCurrent
<1>1. Stands => ViewsCurrent
  BY DEF Stands, Watched, ViewsCurrent
<1>2. QED BY <1>1, AlwaysStands, PTL

\* Whoever owns nothing at the end of a turn is dead from then on, who is left
\* alone scores the number of the others and keeps his life (minisecturn.cpp).
THEOREM LastOneStaysWinner == Spec => []LastOneWins
<1>1. Stands => LastOneWins
  <2> SUFFICES ASSUME Stands PROVE LastOneWins
    OBVIOUS
  <2>1. ASSUME phase = "play" PROVE living = {p \in Player : \E o \in Alive(obj) : obj[o].owner = p}
    <3>1. living \subseteq Player
      BY DEF Stands, Types
    <3>2. \A p \in Player : p \in living <=> owned[p] # {}
      BY <2>1 DEF Stands, Survivor
    <3>3. \A p \in Player : owned[p] # {} <=> \E o \in Alive(obj) : obj[o].owner = p
      BY DEF Stands, OwnedHeld
    <3>4. QED BY <3>1, <3>2, <3>3
  <2>2. QED BY <2>1 DEF Stands, Survivor, LastOneWins
<1>2. QED BY <1>1, AlwaysStands, PTL

-----------------------------------------------------------------------------
(* Ships are handed on *)

LEMMA MergeKeeps ==
  ASSUME Stands, NEW o \in todo, Merge(o),
         MergeTargets(o) = {} \/ Min(MergeTargets(o)) \in Alive(obj)
  PROVE  LivingShips(obj') = LivingShips(obj)
<1>1. CASE MergeTargets(o) = {}
  BY <1>1 DEF Merge
<1>2. CASE MergeTargets(o) # {}
  <2> DEFINE t == Min(MergeTargets(o))
             F == AliveFleets(obj)
  <2>1. /\ t # o /\ t \in Id /\ IsFleet(t) /\ t \in Alive(obj)
        /\ Sound(obj') /\ Alive(obj') = Alive(obj) \ {o}
        /\ \A x \in Id : obj'[x].ships = IF x = t THEN Plus(obj[t].ships, obj[o].ships) ELSE obj[x].ships
    BY <1>2, MergeInto
  <2>2. Serves(o) /\ FirstOrder(o).type = "Merge Fleet"
    BY CarryingServes DEF Merge
  <2> HIDE DEF t
  <2>3. o \in F /\ t \in F /\ F \in SUBSET Id /\ o \in Id
    BY <2>1, <2>2 DEF Serves, Fits, AliveFleets, Alive
  <2>4. AliveFleets(obj') = F \ {o}
    BY <2>1 DEF AliveFleets
  <2>5. obj \in [Id -> Object] /\ obj' \in [Id -> Object]
    BY <2>1 DEF Stands, Sound
  <2> HIDE DEF F
  <2> DEFINE R == (F \ {o}) \ {t}
  <2>6. /\ ShipsOf(obj, F) = Total(obj[o].ships) + ShipsOf(obj, F \ {o})
        /\ Total(obj[o].ships) \in Nat
    BY <2>3, <2>5, ShipsOfFleets
  <2>7. /\ ShipsOf(obj, F \ {o}) = Total(obj[t].ships) + ShipsOf(obj, R)
        /\ Total(obj[t].ships) \in Nat
    <3>1. F \ {o} \in SUBSET Id /\ t \in F \ {o}
      BY <2>1, <2>3
    <3>2. QED BY <2>5, <3>1, ShipsOfFleets
  <2>8. ShipsOf(obj', F \ {o}) = Total(obj'[t].ships) + ShipsOf(obj', R)
    <3>1. F \ {o} \in SUBSET Id /\ t \in F \ {o}
      BY <2>1, <2>3
    <3>2. QED BY <2>5, <3>1, ShipsOfFleets
  <2>9. ShipsOf(obj', R) = ShipsOf(obj, R) /\ ShipsOf(obj, R) \in Nat
    <3>1. R \in SUBSET Id /\ \A x \in R : obj'[x].ships = obj[x].ships
      BY <2>1, <2>3
    <3> HIDE DEF R
    <3>2. QED BY <2>5, <3>1, SameShips, ShipsOfFleets
  <2>10. Total(obj'[t].ships) = Total(obj[t].ships) + Total(obj[o].ships)
    <3>1. obj[t].ships \in Ships /\ obj[o].ships \in Ships /\ obj'[t].ships \in Ships
      BY <2>3, <2>5 DEF Object
    <3>2. obj'[t].ships = Plus(obj[t].ships, obj[o].ships)
      BY <2>1
    <3>3. \A d \in Design : obj'[t].ships[d] = obj[t].ships[d] + obj[o].ships[d]
      BY <3>2 DEF Plus
    <3>4. QED BY <3>1, <3>3, TotalOfBoth
  <2>11. ShipsOf(obj', F \ {o}) = ShipsOf(obj, F)
    <3> DEFINE a == Total(obj[o].ships)
               b == Total(obj[t].ships)
               c == Total(obj'[t].ships)
               r == ShipsOf(obj, R)
               u == ShipsOf(obj, F \ {o})
    <3>1. /\ a \in Nat /\ b \in Nat /\ r \in Nat /\ c = b + a /\ u = b + r
          /\ ShipsOf(obj, F) = a + u /\ ShipsOf(obj', F \ {o}) = c + r
      BY <2>6, <2>7, <2>8, <2>9, <2>10
    <3> HIDE DEF a, b, c, r, u
    <3>2. QED BY <3>1
  <2>12. QED BY <2>4, <2>11 DEF LivingShips, ShipsOf, F
<1>3. QED BY <1>1, <1>2

\* The new fleet has what was taken, the old one the rest.
LEMMA SplitKeeps ==
  ASSUME Stands, NEW o \in todo, Split(o), Taken(o, FirstOrder(o).ships) # obj[o].ships
  PROVE  LivingShips(obj') = LivingShips(obj)
<1> DEFINE asked == FirstOrder(o).ships
           taken == Taken(o, asked)
           rest == Minus(obj[o].ships, taken)
           n == nextid
           F == AliveFleets(obj)
<1>1. Serves(o) /\ FirstOrder(o).type = "Split Fleet" /\ phase = "orders"
  BY CarryingServes DEF Split
<1>2. /\ o \in Id /\ o \in F /\ F \in SUBSET Id /\ obj \in [Id -> Object] /\ Sound(obj)
      /\ obj[o].ships \in Ships /\ asked \in Ships /\ obj[o].owner \in Player /\ obj[o].at \in Int
  <2>1. /\ o \in Id /\ obj[o] \in Object /\ FirstOrder(o) \in Order /\ Fits(o, FirstOrder(o))
        /\ o \in Alive(obj) /\ obj[o].owner \in Player /\ obj \in [Id -> Object] /\ Sound(obj)
    BY <1>1 DEF Serves, Stands, Sound
  <2>2. IsFleet(o)
    BY <1>1, <2>1 DEF Fits
  <2>3. asked \in Ships
    BY <1>1, <2>1, OrderFacts DEF Creates
  <2> HIDE DEF asked
  <2>4. QED BY <2>1, <2>2, <2>3 DEF Object, AliveFleets, Alive
<1>3. /\ taken \in Ships /\ rest \in Ships
      /\ Total(obj[o].ships) = Total(taken) + Total(rest)
      /\ taken = NoShips => rest = obj[o].ships
      /\ rest # NoShips
  <2> HIDE DEF asked
  <2>1. QED BY <1>2, TakenAndRest DEF asked
<1>4. /\ rest # NoShips /\ taken # NoShips
           => Create(o, [obj EXCEPT ![o].ships = rest], taken, obj[o].parent)
      /\ ~ (rest # NoShips /\ taken # NoShips)
           => obj' = [obj EXCEPT ![o].ships = IF rest = NoShips THEN asked ELSE rest]
  BY DEF Split
<1> HIDE DEF asked, taken, rest, F
<1>5. CASE taken = NoShips
  <2>1. obj' = [obj EXCEPT ![o].ships = obj[o].ships]
    BY <1>3, <1>4, <1>5
  <2>2. obj' = obj
    BY <1>2, <2>1 DEF Object
  <2>3. QED BY <2>2
<1>6. CASE taken # NoShips
  <2> DEFINE os == [obj EXCEPT ![o].ships = rest]
  <2>1. obj' = NewFleet(os, n, obj[o].owner, obj[o].at, obj[o].parent, taken)
    BY <1>3, <1>4, <1>6 DEF Create
  <2>2. n \in Id /\ obj[n].status = "none" /\ n # o
    BY <1>1, HasRoom DEF Creates
  <2>3. Refitted(os) /\ \A x \in Id : os[x].ships = IF x = o THEN rest ELSE obj[x].ships
    <3>1. o \in AliveFleets(obj) /\ os = [obj EXCEPT ![o].ships = rest]
      BY <1>2 DEF F
    <3>2. \A x \in Id : os[x].ships = IF x = o THEN rest ELSE obj[x].ships
      BY <1>2 DEF Object
    <3> HIDE DEF os
    <3>3. Refitted(os)
      BY <1>3, <3>1, Refit
    <3>4. QED BY <3>2, <3>3
  <2>4. obj[o].parent = Holder(obj[o].at)
    BY <1>2, ContainerIsHolder DEF Sound, InPlace, F
  <2> HIDE DEF os
  <2>5. Sound(os) /\ os[n].status = "none" /\ Alive(os) = Alive(obj)
    BY <2>2, <2>3 DEF Refitted, Alive
  <2> HIDE DEF n
  <2>6. /\ Sound(obj') /\ Alive(obj') = Alive(obj) \cup {n} /\ IsFleet(n) /\ obj'[n].ships = taken
        /\ \A x \in Id \ {n} : obj'[x].ships = os[x].ships
    BY <1>2, <1>3, <2>1, <2>2, <2>4, <2>5, Born
  <2>7. AliveFleets(obj') = F \cup {n} /\ n \notin F
    BY <2>2, <2>6 DEF F, AliveFleets, Alive
  <2>8. obj' \in [Id -> Object] /\ obj'[o].ships = rest /\ \A x \in F \ {o} : obj'[x].ships = obj[x].ships
    BY <1>2, <2>2, <2>3, <2>6, <2>7 DEF Sound
  <2>9. /\ ShipsOf(obj', F \cup {n}) = Total(taken) + ShipsOf(obj', F)
        /\ Total(taken) \in Nat
    <3> DEFINE G == F \cup {n}
    <3>1. G \in SUBSET Id /\ n \in G /\ G \ {n} = F
      BY <1>2, <2>2, <2>7
    <3> HIDE DEF G
    <3>2. /\ ShipsOf(obj', G) = Total(obj'[n].ships) + ShipsOf(obj', G \ {n})
          /\ Total(obj'[n].ships) \in Nat
      BY <2>8, <3>1, ShipsOfFleets
    <3>3. QED BY <2>6, <3>1, <3>2 DEF G
  <2>10. ShipsOf(obj', F) = Total(rest) + ShipsOf(obj', F \ {o}) /\ Total(rest) \in Nat
    BY <1>2, <2>8, ShipsOfFleets
  <2>11. ShipsOf(obj, F) = Total(obj[o].ships) + ShipsOf(obj, F \ {o})
    BY <1>2, ShipsOfFleets
  <2>12. ShipsOf(obj', F \ {o}) = ShipsOf(obj, F \ {o}) /\ ShipsOf(obj, F \ {o}) \in Nat
    <3>1. F \ {o} \in SUBSET Id
      BY <1>2
    <3>2. QED BY <1>2, <2>8, <3>1, SameShips, ShipsOfFleets
  <2>13. ShipsOf(obj', F \cup {n}) = ShipsOf(obj, F)
    BY <1>3, <2>9, <2>10, <2>11, <2>12
  <2>14. QED BY <2>7, <2>13 DEF LivingShips, ShipsOf, F
<1>7. QED BY <1>5, <1>6

\* A merge and a split hand on the ships they find: those of the living fleets
\* are as many as before, whatever else happened in the turn (mergefleet.cpp,
\* splitfleet.cpp, fleet.cpp).
THEOREM ShipsAreHandedOn == Spec => ShipsKept
<1> DEFINE HandsOn(o) ==
      \/ Merge(o) /\ (MergeTargets(o) = {} \/ Min(MergeTargets(o)) \in Alive(obj))
      \/ Split(o) /\ Taken(o, FirstOrder(o).ships) # obj[o].ships
      => LivingShips(obj') = LivingShips(obj)
<1>1. Stands /\ [Next]_vars => [\A o \in todo : HandsOn(o)]_vars
  BY MergeKeeps, SplitKeeps
<1>2. QED BY <1>1, AlwaysStands, PTL DEF Spec, ShipsKept
=============================================================================
