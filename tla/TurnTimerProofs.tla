-------------------------- MODULE TurnTimerProofs --------------------------
(***************************************************************************)
(* Proofs about TurnTimer, for every set of players, settings and lengths. *)
(*                                                                         *)
(* The variables fall into two groups that the handlers change by a few    *)
(* shared operators: the clock (timer, timers, valid, told), changed by    *)
(* Arm, Disarm and the master loop, and the roster (players, alive,        *)
(* finished, numdead ...), changed by DoEndOfTurn and the players.  Each   *)
(* group has its invariant, and each operator a lemma.                     *)
(***************************************************************************)
EXTENDS TurnTimer, FiniteSetTheorems, TLAPS

ClockType ==
  /\ timer \in TimerCallback \cup {NoTimer}
  /\ timers \in SUBSET TimerCallback
  /\ valid \in SUBSET ImplIds
  /\ told \in Nat \cup {Forever}

ClockInv == ClockType /\ SoleTimer /\ TimerQueued /\ CountdownTrue

SettingsType ==
  /\ threshold \in Thresholds
  /\ lenOver \in LengthsOver
  /\ lenUnder \in LengthsUnder

RosterType ==
  /\ started \in BOOLEAN
  /\ turnNum \in 0 .. TurnMod - 1
  /\ players \in SUBSET Player
  /\ alive \in SUBSET players
  /\ finished \in SUBSET players
  /\ numdead \in Nat

\* Nobody has finished a turn of a game that has not started.
RosterInv == RosterType /\ ThresholdOverLiving /\ (~started => finished = {})

FlagsType == phase \in {"timers", "io"} /\ overthreshold \in BOOLEAN

\* A game that has not started has no timer.
Unstarted == ~started => timer = NoTimer

IInv == FlagsType /\ SettingsType /\ RosterInv /\ ClockInv /\ Unstarted

-----------------------------------------------------------------------------
(* The clock *)

LEMMA IncrementsAreLengths ==
  ASSUME SettingsType
  PROVE  OverIncrement \in Nat /\ lenUnder \in Nat
BY ConstantsAssumption DEF SettingsType, OverIncrement

\* A new callback object takes the place of the old one.
LEMMA ArmKeepsClockInv ==
  ASSUME ClockInv, NEW queue \in SUBSET timers, NEW increment \in Nat,
         Arm(queue, increment)
  PROVE  ClockInv'
<1> PICK i \in ImplIds \ UsedImpls(queue) :
      /\ timer' = [impl |-> i, left |-> increment]
      /\ timers' = queue \cup {timer'}
      /\ valid' = (valid \ HandleImpls) \cup {i}
      /\ told' = increment
  BY DEF Arm
<1> timer' \in TimerCallback
  BY DEF TimerCallback
<1> \A u \in queue : u \in TimerCallback /\ u.impl # i
  BY DEF UsedImpls, ClockInv, ClockType
<1>1. ClockType'
  BY DEF ClockInv, ClockType
<1>2. SoleTimer'
  <2> SUFFICES ASSUME NEW u \in timers', u.impl \in valid', u # timer'
               PROVE  FALSE
    BY DEF SoleTimer
  <2>1. u \in queue /\ u.impl \in valid \ HandleImpls
    OBVIOUS
  <2>2. u = timer
    BY <2>1 DEF ClockInv, SoleTimer
  <2>3. timer # NoTimer
    BY <2>1, <2>2, NoTimerAssumption
  <2> QED
    BY <2>1, <2>2, <2>3 DEF HandleImpls
<1>3. TimerQueued'
  BY DEF TimerQueued
<1>4. CountdownTrue'
  BY NoTimerAssumption DEF CountdownTrue
<1> QED
  BY <1>1, <1>2, <1>3, <1>4 DEF ClockInv

\* Without a timer no callback is left that can be called.
LEMMA DisarmKeepsClockInv ==
  ASSUME ClockInv, NEW queue \in SUBSET timers, Disarm(queue)
  PROVE  ClockInv'
<1> USE DEF Disarm
<1>1. ClockType'
  BY DEF ClockInv, ClockType, Forever
<1>2. SoleTimer'
  <2> SUFFICES ASSUME NEW u \in timers', u.impl \in valid'
               PROVE  FALSE
    BY DEF SoleTimer
  <2>1. u = timer /\ u \in TimerCallback
    BY DEF ClockInv, SoleTimer, ClockType
  <2> QED
    BY <2>1, NoTimerAssumption DEF HandleImpls
<1>3. TimerQueued' /\ CountdownTrue'
  BY DEF TimerQueued, CountdownTrue
<1> QED
  BY <1>1, <1>2, <1>3 DEF ClockInv

LEMMA SetTimerKeepsClockInv ==
  ASSUME ClockInv, SettingsType, NEW queue \in SUBSET timers,
         NEW fin, NEW dead, NEW thr, SetTimer(queue, fin, dead, thr)
  PROVE  ClockInv'
<1>1. CASE Arm(queue, OverIncrement)
  BY <1>1, IncrementsAreLengths, ArmKeepsClockInv
<1>2. CASE Disarm(queue)
  BY <1>2, DisarmKeepsClockInv
<1>3. CASE Arm(queue, lenUnder)
  BY <1>3, IncrementsAreLengths, ArmKeepsClockInv
<1> QED
  BY <1>1, <1>2, <1>3 DEF SetTimer

LEMMA SameClock ==
  ASSUME ClockInv, UNCHANGED <<timer, timers, valid, told>>
  PROVE  ClockInv'
BY DEF ClockInv, ClockType, SoleTimer, TimerQueued, CountdownTrue

LEMMA RunEndOfTurnKeepsClockInv ==
  ASSUME ClockInv, SettingsType, NEW queue \in SUBSET timers, NEW thr,
         RunEndOfTurn(queue, thr)
  PROVE  ClockInv'
BY SetTimerKeepsClockInv DEF RunEndOfTurn

LEMMA ResetTimerKeepsClockInv ==
  ASSUME ClockInv, SettingsType, NEW thr, ResetTimer(thr)
  PROVE  ClockInv'
BY SetTimerKeepsClockInv, RunEndOfTurnKeepsClockInv DEF ResetTimer

LEMMA UpdateTimerKeepsClockInv ==
  ASSUME ClockInv, SettingsType, NEW fin, NEW thr, UpdateTimer(fin, thr)
  PROVE  ClockInv'
BY SameClock, ArmKeepsClockInv, IncrementsAreLengths, RunEndOfTurnKeepsClockInv
   DEF UpdateTimer

LEMMA SoonerType ==
  ASSUME NEW n \in Nat
  PROVE  Sooner(n) \in Nat
BY DEF Sooner

\* Time passes for a callback and its copies alike.
LEMMA TickKeepsClockInv ==
  ASSUME ClockInv, Tick
  PROVE  ClockInv'
<1> USE DEF Tick
<1> \A t \in TimerCallback : Elapse(t) \in TimerCallback /\ Elapse(t).impl = t.impl
  BY SoonerType DEF TimerCallback, Elapse
<1>1. ClockType'
  <2>1. told' \in Nat \cup {Forever}
    BY DEF ClockInv, ClockType, Sooner, Forever
  <2> QED
    BY <2>1 DEF ClockInv, ClockType
<1>2. SoleTimer'
  <2> SUFFICES ASSUME NEW u \in timers, u.impl \in valid
               PROVE  Elapse(u) = timer'
    BY DEF SoleTimer, ClockInv, ClockType
  <2>1. u = timer /\ u \in TimerCallback
    BY DEF ClockInv, ClockType, SoleTimer
  <2> QED
    BY <2>1, NoTimerAssumption
<1>3. TimerQueued'
  <2> SUFFICES ASSUME timer # NoTimer
               PROVE  timer' \in timers' /\ timer'.impl \in valid'
    BY DEF TimerQueued
  <2> QED
    BY DEF ClockInv, ClockType, TimerQueued
<1>4. CountdownTrue'
  <2>1. CASE timer = NoTimer
    BY <2>1 DEF ClockInv, CountdownTrue, Sooner, Forever
  <2>2. CASE timer # NoTimer
    <3>1. timer \in TimerCallback /\ timer' = Elapse(timer) /\ timer' # NoTimer
      BY <2>2, NoTimerAssumption DEF ClockInv, ClockType
    <3>2. timer'.left = Sooner(timer.left)
      BY <3>1 DEF Elapse, TimerCallback
    <3> QED
      BY <2>2, <3>1, <3>2 DEF ClockInv, CountdownTrue
  <2> QED
    BY <2>1, <2>2
<1> QED
  BY <1>1, <1>2, <1>3, <1>4 DEF ClockInv

\* What DropTimer drops is not the callback of the turn.
LEMMA DropTimerKeepsClockInv ==
  ASSUME ClockInv, NEW t \in timers, DropTimer(t)
  PROVE  ClockInv'
BY DEF DropTimer, ClockInv, ClockType, SoleTimer, TimerQueued, CountdownTrue

-----------------------------------------------------------------------------
(* The roster *)

LEMMA PlayersAreFinite ==
  ASSUME NEW S \in SUBSET Player
  PROVE  IsFiniteSet(S) /\ Cardinality(S) \in Nat
BY FS_Subset, FS_CardinalityType, ConstantsAssumption

\* A count of the dead that is exact is a count that ThresholdOverLiving allows.
LEMMA DeadCounted ==
  ASSUME NEW P \in SUBSET Player, NEW A
  PROVE  /\ Cardinality(P \ A) \in Nat
         /\ Cardinality(P \ A) >= Cardinality((P \ A) \ Guest)
<1>1. P \ A \in SUBSET Player /\ (P \ A) \ Guest \subseteq P \ A
  OBVIOUS
<1> QED
  BY <1>1, PlayersAreFinite, FS_Subset

LEMMA DoEndOfTurnKeepsRosterInv ==
  ASSUME RosterInv, DoEndOfTurn, finished' = {}
  PROVE  RosterInv'
<1> PICK dying \in SUBSET alive : alive' = alive \ dying
  BY DEF DoEndOfTurn
<1>1. /\ players' \in SUBSET Player /\ alive' \in SUBSET players'
      /\ numdead' = Cardinality(players' \ alive')
  BY DEF DoEndOfTurn, RosterInv, RosterType
<1>2. numdead' \in Nat /\ numdead' >= Cardinality((players' \ alive') \ Guest)
  BY <1>1, DeadCounted
<1>3. turnNum' \in 0 .. TurnMod - 1
  BY ConstantsAssumption DEF DoEndOfTurn, RosterInv, RosterType
<1>4. started' \in BOOLEAN
  BY DEF DoEndOfTurn, RosterInv, RosterType
<1> QED
  BY <1>1, <1>2, <1>3, <1>4 DEF RosterInv, RosterType, ThresholdOverLiving

LEMMA StartKeepsRosterInv ==
  ASSUME RosterInv, Start
  PROVE  RosterInv'
<1>1. numdead' = Cardinality(players \ alive) /\ finished' = {}
  BY DEF Start, RosterInv
<1>2. numdead' \in Nat /\ numdead' >= Cardinality((players \ alive) \ Guest)
  BY <1>1, DeadCounted DEF RosterInv, RosterType
<1> QED
  BY <1>1, <1>2 DEF Start, RosterInv, RosterType, ThresholdOverLiving

\* Joining adds to the dead only a guest.
LEMMA JoinGameKeepsRosterInv ==
  ASSUME RosterInv, NEW p \in Player, JoinGame(p)
  PROVE  RosterInv'
<1> USE DEF JoinGame
<1>1. RosterType' /\ (~started' => finished' = {})
  BY DEF RosterInv, RosterType
<1>2. ASSUME started
      PROVE  /\ numdead <= Cardinality(players' \ alive')
             /\ numdead >= Cardinality((players' \ alive') \ Guest)
  <2>1. (players' \ alive') \ Guest = (players \ alive) \ Guest
    OBVIOUS
  <2>2. players \ alive \subseteq players' \ alive'
    BY DEF RosterInv, RosterType
  <2>3. Cardinality(players \ alive) <= Cardinality(players' \ alive')
    BY <2>2, <1>1, PlayersAreFinite, FS_Subset DEF RosterType
  <2>4. /\ numdead <= Cardinality(players \ alive)
        /\ numdead >= Cardinality((players \ alive) \ Guest)
        /\ numdead \in Nat
    BY <1>2 DEF RosterInv, RosterType, ThresholdOverLiving
  <2>5. Cardinality(players \ alive) \in Nat /\ Cardinality(players' \ alive') \in Nat
    BY <1>1, DeadCounted DEF RosterInv, RosterType
  <2> QED
    BY <2>1, <2>3, <2>4, <2>5
<1>3. started => finished \subseteq alive
  BY DEF RosterInv, ThresholdOverLiving
<1> QED
  BY <1>1, <1>2, <1>3 DEF RosterInv, ThresholdOverLiving

LEMMA RunEndOfTurnKeepsRosterInv ==
  ASSUME RosterInv, NEW queue, NEW thr, RunEndOfTurn(queue, thr)
  PROVE  RosterInv'
BY DoEndOfTurnKeepsRosterInv DEF RunEndOfTurn

LEMMA SameRoster ==
  ASSUME RosterInv, UNCHANGED roster, started \/ finished' = finished,
         finished' \in SUBSET alive \/ finished' = finished
  PROVE  RosterInv'
BY DEF RosterInv, RosterType, ThresholdOverLiving, roster

LEMMA ResetTimerKeepsRosterInv ==
  ASSUME RosterInv, NEW thr, ResetTimer(thr)
  PROVE  RosterInv'
BY SameRoster, RunEndOfTurnKeepsRosterInv DEF ResetTimer

LEMMA UpdateTimerKeepsRosterInv ==
  ASSUME RosterInv, started, NEW fin \in SUBSET alive, NEW thr,
         UpdateTimer(fin, thr)
  PROVE  RosterInv'
BY SameRoster, RunEndOfTurnKeepsRosterInv DEF UpdateTimer

-----------------------------------------------------------------------------
(* The inductive invariant *)

LEMMA InitEstablishesIInv == Init => IInv
<1> SUFFICES ASSUME Init PROVE IInv
  OBVIOUS
<1>1. RosterInv
  <2>1. turnNum \in 0 .. TurnMod - 1
    BY ConstantsAssumption DEF Init
  <2> QED
    BY <2>1 DEF Init, RosterInv, RosterType, ThresholdOverLiving
<1>2. ClockInv
  BY DEF Init, ClockInv, ClockType, SoleTimer, TimerQueued, CountdownTrue
<1> QED
  BY <1>1, <1>2 DEF Init, IInv, FlagsType, SettingsType, Unstarted

\* Before Start nothing sets a timer: there is none to run out, and the
\* commands and players that could set one find no game.
LEMMA NothingBeforeStart ==
  ASSUME IInv, [Next]_vars
  PROVE  Unstarted'
<1> SUFFICES ASSUME ~started, ~started'
             PROVE  timer' = NoTimer
  <2>1. started => started'
    BY DEF Next, Loop, Start, JoinGame, PlayerFinishedTurn, SetThreshold,
           SetLengths, TurnEnd, TurnReset, TimerFinished, DropTimer, Select,
           EndPass, Tick, UpdateTimer, ResetTimer, RunEndOfTurn, DoEndOfTurn,
           roster, vars
  <2> QED
    BY <2>1 DEF Unstarted
<1>1. timer = NoTimer
  BY DEF IInv, Unstarted
<1>2. \A t \in timers : t.impl \notin valid
  BY <1>1, NoTimerAssumption DEF IInv, ClockInv, ClockType, SoleTimer
<1>3. \A t \in timers : ~TimerFinished(t)
  BY <1>2 DEF TimerFinished
<1> QED
  BY <1>1, <1>3
     DEF Next, Loop, Start, JoinGame, PlayerFinishedTurn, SetThreshold,
         SetLengths, TurnEnd, TurnReset, DropTimer, Select, EndPass, Tick, vars

LEMMA NextKeepsIInv == IInv /\ [Next]_vars => IInv'
<1> SUFFICES ASSUME IInv, [Next]_vars
             PROVE  IInv'
  OBVIOUS
<1> USE DEF IInv
<1> timers \subseteq timers
  OBVIOUS
<1> Unstarted'
  BY NothingBeforeStart
<1>0. started => finished \subseteq alive
  BY DEF RosterInv, ThresholdOverLiving
<1>1. CASE Start
  <2>1. ClockInv'
    BY <1>1, SetTimerKeepsClockInv DEF Start
  <2>2. FlagsType' /\ SettingsType'
    BY <1>1 DEF Start, FlagsType, SettingsType, settings
  <2> QED
    BY <1>1, <2>1, <2>2, StartKeepsRosterInv
<1>2. ASSUME NEW p \in Player, JoinGame(p)
      PROVE  IInv'
  <2>1. ClockInv'
    BY <1>2, SameClock DEF JoinGame
  <2>2. FlagsType' /\ SettingsType'
    BY <1>2 DEF JoinGame, FlagsType, SettingsType, settings
  <2> QED
    BY <1>2, <2>1, <2>2, JoinGameKeepsRosterInv
<1>3. ASSUME NEW p \in Player, PlayerFinishedTurn(p)
      PROVE  IInv'
  <2> USE <1>3 DEF PlayerFinishedTurn
  <2>1. finished \cup {p} \in SUBSET alive
    BY <1>0
  <2>2. FlagsType' /\ SettingsType'
    BY DEF FlagsType, SettingsType, settings
  <2>3. CASE UpdateTimer(finished \cup {p}, threshold)
    BY <2>1, <2>2, <2>3, UpdateTimerKeepsClockInv, UpdateTimerKeepsRosterInv
  <2>4. CASE finished' = finished \cup {p} /\ UNCHANGED <<roster, timer, timers, valid, told>>
    BY <2>1, <2>2, <2>4, SameClock, SameRoster
  <2> QED
    BY <2>3, <2>4
<1>4. ASSUME NEW thr \in Thresholds, SetThreshold(thr)
      PROVE  IInv'
  <2> USE <1>4 DEF SetThreshold
  <2>1. FlagsType' /\ SettingsType'
    <3>1. IsOverThreshold(finished, numdead, thr) \in BOOLEAN
      BY DEF IsOverThreshold
    <3> QED
      BY <3>1 DEF FlagsType, SettingsType
  <2>2. CASE started /\ UpdateTimer(finished, thr)
    BY <1>0, <2>1, <2>2, UpdateTimerKeepsClockInv, UpdateTimerKeepsRosterInv
  <2>3. CASE ResetTimer(thr)
    BY <2>1, <2>3, ResetTimerKeepsClockInv, ResetTimerKeepsRosterInv
  <2>4. CASE UNCHANGED <<roster, finished, timer, timers, valid, told>>
    BY <2>1, <2>4, SameClock, SameRoster
  <2> QED
    BY <2>2, <2>3, <2>4
<1>5. ASSUME NEW over \in LengthsOver, NEW under \in LengthsUnder,
             SetLengths(over, under)
      PROVE  IInv'
  <2> USE <1>5 DEF SetLengths
  <2>1. FlagsType' /\ SettingsType'
    BY DEF FlagsType, SettingsType
  <2> QED
    BY <2>1, SameClock, SameRoster
<1>6. CASE TurnEnd
  <2> USE <1>6 DEF TurnEnd
  <2>1. FlagsType' /\ SettingsType'
    BY DEF FlagsType, SettingsType, settings
  <2> QED
    BY <2>1, RunEndOfTurnKeepsClockInv, RunEndOfTurnKeepsRosterInv
<1>7. CASE TurnReset
  <2> USE <1>7 DEF TurnReset
  <2>1. FlagsType' /\ SettingsType'
    BY DEF FlagsType, SettingsType, settings
  <2> QED
    BY <2>1, ResetTimerKeepsClockInv, ResetTimerKeepsRosterInv
<1>8. ASSUME NEW t \in timers, TimerFinished(t)
      PROVE  IInv'
  <2> USE <1>8 DEF TimerFinished
  <2>1. FlagsType' /\ SettingsType'
    BY DEF FlagsType, SettingsType, settings
  <2>2. timers \ {t} \in SUBSET timers
    OBVIOUS
  <2> QED
    BY <2>1, <2>2, RunEndOfTurnKeepsClockInv, RunEndOfTurnKeepsRosterInv
<1>9. ASSUME NEW t \in timers, DropTimer(t)
      PROVE  IInv'
  <2>1. FlagsType' /\ SettingsType'
    BY <1>9 DEF DropTimer, FlagsType, SettingsType, settings
  <2>2. RosterInv'
    BY <1>9, SameRoster DEF DropTimer
  <2> QED
    BY <1>9, <2>1, <2>2, DropTimerKeepsClockInv
<1>10. CASE Select \/ EndPass
  <2> USE <1>10 DEF Select, EndPass
  <2>1. FlagsType' /\ SettingsType'
    BY DEF FlagsType, SettingsType, settings
  <2> QED
    BY <2>1, SameClock, SameRoster
<1>11. CASE Tick
  <2>1. FlagsType' /\ SettingsType'
    BY <1>11 DEF Tick, FlagsType, SettingsType, settings
  <2>2. RosterInv'
    BY <1>11, SameRoster DEF Tick
  <2> QED
    BY <1>11, <2>1, <2>2, TickKeepsClockInv
<1>12. CASE UNCHANGED vars
  <2> USE <1>12 DEF vars
  <2>1. FlagsType' /\ SettingsType' /\ UNCHANGED roster
    BY DEF FlagsType, SettingsType, roster
  <2> QED
    BY <2>1, SameClock, SameRoster
<1> QED
  BY <1>1, <1>2, <1>3, <1>4, <1>5, <1>6, <1>7, <1>8, <1>9, <1>10, <1>11, <1>12
     DEF Next, Loop

-----------------------------------------------------------------------------
(* The theorems *)

\* The inductive invariant holds in every reachable state.
THEOREM IInvHolds == Spec => []IInv
BY InitEstablishesIInv, NextKeepsIInv, PTL DEF Spec

\* Every variable keeps its type, whatever the settings.
THEOREM TypeCorrect == Spec => []TypeOK
<1>1. IInv => TypeOK
  BY DEF IInv, FlagsType, SettingsType, RosterInv, RosterType, ClockInv,
         ClockType, TypeOK
<1> QED
  BY <1>1, IInvHolds, PTL

\* One moment ends the turn.  The master loop can call no callback but the one
\* TurnTimer now has, so a turn that was ended or shortened is not ended again by
\* a callback it left in the queue; that one is in the queue, so the turn is not
\* forgotten; and it is the moment the clients count down to.
THEOREM OneClockOnly == Spec => []OneClock
<1>1. IInv => OneClock
  BY DEF IInv, ClockInv, OneClock
<1> QED
  BY <1>1, IInvHolds, PTL

\* The threshold is taken over the living players.
THEOREM DeadDoNotCount == Spec => []ThresholdOverLiving
<1>1. IInv => ThresholdOverLiving
  BY DEF IInv, RosterInv
<1> QED
  BY <1>1, IInvHolds, PTL

-----------------------------------------------------------------------------
(* The promise to the players *)

LEMMA ProductsOrdered ==
  ASSUME NEW a \in Nat, NEW b \in Nat, NEW c \in Nat, a <= b
  PROVE  c * a <= c * b
OBVIOUS

\* What the server tests is at least the share of the living.
LEMMA OverThresholdIsShareOfLiving ==
  ASSUME IInv, started, NEW fin \in SUBSET Player, NEW thr \in Nat,
         IsOverThreshold(fin, numdead, thr)
  PROVE  Cardinality(fin) * 100 >= thr * Cardinality(alive)
<1> DEFINE a == Cardinality(alive)
           n == Cardinality(players) - numdead
<1>1. /\ IsFiniteSet(players) /\ alive \in SUBSET players
      /\ a \in Nat /\ Cardinality(players) \in Nat /\ numdead \in Nat
      /\ Cardinality(players \ alive) \in Nat
  BY PlayersAreFinite, DeadCounted DEF IInv, RosterInv, RosterType
<1>2. Cardinality(players \ alive) = Cardinality(players) - a
  <2>1. players \cap alive = alive
    BY <1>1
  <2> QED
    BY <1>1, <2>1, FS_Difference
<1>3. a <= n
  BY <1>1, <1>2 DEF IInv, RosterInv, ThresholdOverLiving
<1>4. Cardinality(fin) * 100 >= thr * n
  BY DEF IsOverThreshold
<1>5. n \in Nat /\ thr * a <= thr * n
  <2>1. n \in Nat
    BY <1>1, <1>3
  <2> QED
    BY <1>1, <1>3, <2>1, ProductsOrdered
<1> HIDE DEF n
<1>6. Cardinality(fin) \in Nat /\ thr * n \in Nat /\ thr * a \in Nat
  BY <1>1, <1>5, PlayersAreFinite
<1> QED
  BY <1>4, <1>5, <1>6

LEMMA ClockCounts ==
  ASSUME NEW S
  PROVE  Clock!Cardinality(S) = Cardinality(S)
BY DEF Clock!Cardinality, Cardinality

LEMMA EndOfTurnIsClockEndTurn ==
  ASSUME IInv', NEW queue, NEW thr, RunEndOfTurn(queue, thr)
  PROVE  Clock!EndTurn
BY DEF RunEndOfTurn, DoEndOfTurn, Clock!EndTurn, IInv, ClockInv, ClockType,
       Forever, Clock!Forever

LEMMA UpdateTimerShortens ==
  ASSUME IInv, NEW fin, NEW thr, UpdateTimer(fin, thr), ~Immediate(thr)
  PROVE  Clock!NotLonger
<1> USE DEF Clock!NotLonger, Forever, Clock!Forever
<1>1. CASE UNCHANGED told
  BY <1>1 DEF IInv, ClockInv, ClockType
<1>2. CASE /\ Arm(timers, OverIncrement)
           /\ ~(timer # NoTimer /\ timer.left <= OverIncrement)
  <2>1. told' = OverIncrement /\ OverIncrement \in Nat
    BY <1>2, IncrementsAreLengths DEF Arm, IInv
  <2>2. told = Forever \/ (told = timer.left /\ timer.left \in Nat /\ timer # NoTimer)
    BY DEF IInv, ClockInv, ClockType, CountdownTrue, TimerCallback
  <2> QED
    BY <1>2, <2>1, <2>2
<1> QED
  BY <1>1, <1>2 DEF UpdateTimer

LEMMA StepKeepsPromise ==
  IInv /\ IInv' /\ [Next]_vars => [Clock!Next]_(Clock!clockVars)
<1> SUFFICES ASSUME IInv, IInv', [Next]_vars
             PROVE  Clock!Next \/ UNCHANGED Clock!clockVars
  OBVIOUS
<1> USE DEF Clock!clockVars
<1>1. CASE Start
  <2>1. Clock!Begin
    BY <1>1 DEF Start, settings, Clock!Begin, IInv, ClockInv, ClockType,
                Forever, Clock!Forever
  <2> QED
    BY <2>1 DEF Clock!Next
<1>2. ASSUME NEW p \in Player, JoinGame(p)
      PROVE  Clock!Next \/ UNCHANGED Clock!clockVars
  <2>1. CASE p \in Guest
    BY <1>2, <2>1 DEF JoinGame, settings
  <2>2. CASE p \notin Guest
    BY <1>2, <2>2 DEF JoinGame, settings, Clock!Join, Clock!Next
  <2> QED
    BY <2>1, <2>2
<1>3. ASSUME NEW p \in Player, PlayerFinishedTurn(p)
      PROVE  Clock!Next \/ UNCHANGED Clock!clockVars
  <2> USE <1>3 DEF PlayerFinishedTurn
  <2> DEFINE fin == finished \cup {p}
  <2>1. threshold' = threshold /\ threshold \in Nat /\ fin \in SUBSET Player
    BY ConstantsAssumption
       DEF settings, IInv, SettingsType, RosterInv, RosterType
  <2>2. CASE /\ IsOverThreshold(fin, numdead, threshold)
             /\ UpdateTimer(fin, threshold) /\ Immediate(threshold)
    <3>1. RunEndOfTurn(timers, threshold)
      BY <2>2 DEF UpdateTimer
    <3>2. Clock!EndTurn
      BY <3>1, EndOfTurnIsClockEndTurn
    <3>3. Cardinality(fin) * 100 >= threshold * Cardinality(alive)
      BY <2>1, <2>2, OverThresholdIsShareOfLiving
    <3>4. Clock!EndEarly(p)
      BY <2>1, <2>2, <3>2, <3>3, ClockCounts DEF Clock!EndEarly, Immediate
    <3> QED
      BY <3>4 DEF Clock!Next
  <2>3. CASE UpdateTimer(fin, threshold) /\ ~Immediate(threshold)
    <3>1. Clock!NotLonger
      BY <2>3, UpdateTimerShortens
    <3>2. finished' = fin /\ UNCHANGED roster
      BY <2>3 DEF UpdateTimer
    <3>3. Clock!Finish(p)
      BY <2>1, <3>1, <3>2 DEF Clock!Finish, roster
    <3> QED
      BY <3>3 DEF Clock!Next
  <2>4. CASE finished' = fin /\ UNCHANGED <<roster, told>>
    <3>1. Clock!NotLonger
      BY <2>4 DEF Clock!NotLonger, IInv, ClockInv, ClockType, Forever,
                  Clock!Forever
    <3>2. Clock!Finish(p)
      BY <2>1, <2>4, <3>1 DEF Clock!Finish, roster
    <3> QED
      BY <3>2 DEF Clock!Next
  <2> QED
    BY <2>2, <2>3, <2>4
<1>4. ASSUME NEW thr \in Thresholds, SetThreshold(thr)
      PROVE  Clock!Next
  <2> USE <1>4 DEF SetThreshold
  <2>1. CASE \E q, t : RunEndOfTurn(q, t)
    BY <2>1, EndOfTurnIsClockEndTurn DEF Clock!Operate, Clock!Next
  <2>2. CASE UNCHANGED <<roster, finished>>
    BY <2>2 DEF roster, Clock!Operate, Clock!Next
  <2> QED
    BY <2>1, <2>2 DEF UpdateTimer, ResetTimer
<1>5. ASSUME NEW over \in LengthsOver, NEW under \in LengthsUnder,
             SetLengths(over, under)
      PROVE  UNCHANGED Clock!clockVars
  BY <1>5 DEF SetLengths, roster
<1>6. CASE TurnEnd \/ TurnReset
  <2> USE <1>6 DEF TurnEnd, TurnReset
  <2>1. CASE \E q, t : RunEndOfTurn(q, t)
    BY <2>1, EndOfTurnIsClockEndTurn DEF Clock!Operate, Clock!Next
  <2>2. CASE UNCHANGED <<roster, finished>>
    BY <2>2 DEF roster, Clock!Operate, Clock!Next
  <2> QED
    BY <2>1, <2>2 DEF ResetTimer
<1>7. ASSUME NEW t \in timers, TimerFinished(t)
      PROVE  Clock!Next
  <2>1. t = timer /\ t.left = 0
    BY <1>7 DEF TimerFinished, ToPop, IInv, ClockInv, SoleTimer
  <2>2. timer # NoTimer
    BY <2>1, NoTimerAssumption DEF IInv, ClockInv, ClockType
  <2>3. told = 0
    BY <2>1, <2>2 DEF IInv, ClockInv, CountdownTrue
  <2>4. started
    BY <2>2 DEF IInv, Unstarted
  <2>5. Clock!TimeUp
    BY <1>7, <2>3, <2>4, EndOfTurnIsClockEndTurn
       DEF TimerFinished, settings, Clock!TimeUp
  <2> QED
    BY <2>5 DEF Clock!Next
<1>8. ASSUME NEW t \in timers, DropTimer(t)
      PROVE  UNCHANGED Clock!clockVars
  BY <1>8 DEF DropTimer, roster, settings
<1>9. CASE Select \/ EndPass
  BY <1>9 DEF Select, EndPass, roster, settings
<1>10. CASE Tick
  <2>1. CASE told > 0
    BY <1>10, <2>1 DEF Tick, Sooner, roster, settings, Clock!Second, Clock!Next
  <2>2. CASE ~(told > 0)
    BY <1>10, <2>2 DEF Tick, Sooner, roster, settings
  <2> QED
    BY <2>1, <2>2
<1>11. CASE UNCHANGED vars
  BY <1>11 DEF vars
<1> QED
  BY <1>1, <1>2, <1>3, <1>4, <1>5, <1>6, <1>7, <1>8, <1>9, <1>10, <1>11
     DEF Next, Loop

\* The turn cycle keeps the promise of TurnClock: time is only ever taken off a
\* turn, and a turn ends early only with the share of the living.
THEOREM TurnTimerKeepsPromise == Spec => KeepsPromise
<1>1. Init => Clock!Init
  BY DEF Init, Clock!Init, Forever, Clock!Forever
<1> QED
  BY <1>1, IInvHolds, StepKeepsPromise, PTL DEF Spec, KeepsPromise, Clock!Spec

-----------------------------------------------------------------------------
(* The length of the turn over the threshold *)

ShortInv == ThresholdShortens /\ (~started => ~overthreshold)

LEMMA UpdateTimerIsShort ==
  ASSUME IInv, IInv', NEW fin, NEW thr, UpdateTimer(fin, thr),
         lenOver' = lenOver, lenOver > 0
  PROVE  timer' # NoTimer /\ timer'.left <= lenOver
<1>1. lenOver \in Nat /\ OverIncrement = lenOver
  BY ConstantsAssumption DEF IInv, SettingsType, OverIncrement
<1>2. CASE /\ timer # NoTimer /\ timer.left <= OverIncrement
           /\ timer' = timer
  BY <1>1, <1>2
<1>3. CASE Arm(timers, OverIncrement)
  BY <1>1, <1>3, NoTimerAssumption DEF Arm, TimerCallback
<1> QED
  BY <1>1, <1>2, <1>3 DEF UpdateTimer, Immediate

LEMMA StepKeepsShortInv ==
  ASSUME Commands \subseteq {"threshold", "turn-end"},
         IInv, IInv', ShortInv, [Next]_vars
  PROVE  ShortInv'
<1> USE DEF ShortInv, ThresholdShortens
<1>1. CASE Start
  BY <1>1 DEF Start
<1>2. ASSUME NEW p \in Player, JoinGame(p)
      PROVE  ShortInv'
  BY <1>2 DEF JoinGame, settings
<1>3. ASSUME NEW p \in Player, PlayerFinishedTurn(p)
      PROVE  ShortInv'
  <2> USE <1>3 DEF PlayerFinishedTurn
  <2>1. CASE UpdateTimer(finished \cup {p}, threshold)
    <3>1. started'
      BY <2>1 DEF UpdateTimer, RunEndOfTurn, DoEndOfTurn, roster
    <3> QED
      BY <2>1, <3>1, UpdateTimerIsShort DEF settings
  <2>2. CASE UNCHANGED <<roster, overthreshold, timer>>
    BY <2>2 DEF settings, roster
  <2> QED
    BY <2>1, <2>2
<1>4. ASSUME NEW thr \in Thresholds, SetThreshold(thr)
      PROVE  ShortInv'
  <2> USE <1>4 DEF SetThreshold
  <2>1. CASE started /\ UpdateTimer(finished, thr)
    <3>1. started'
      BY <2>1 DEF UpdateTimer, RunEndOfTurn, DoEndOfTurn, roster
    <3> QED
      BY <2>1, <3>1, UpdateTimerIsShort
  <2>2. CASE started /\ overthreshold' = FALSE
    BY <2>2
  <2>3. CASE UNCHANGED <<roster, overthreshold, timer>>
    BY <2>3 DEF roster
  <2> QED
    BY <2>1, <2>2, <2>3 DEF IsOverThreshold
<1>5. ASSUME NEW over \in LengthsOver, NEW under \in LengthsUnder,
             SetLengths(over, under)
      PROVE  FALSE
  BY <1>5 DEF SetLengths
<1>6. CASE TurnEnd
  BY <1>6 DEF TurnEnd
<1>7. CASE TurnReset
  BY <1>7 DEF TurnReset
<1>8. ASSUME NEW t \in timers, TimerFinished(t) \/ DropTimer(t)
      PROVE  ShortInv'
  BY <1>8 DEF TimerFinished, DropTimer, roster, settings
<1>9. CASE Select \/ EndPass
  BY <1>9 DEF Select, EndPass, roster, settings
<1>10. CASE Tick
  <2> SUFFICES ASSUME started, overthreshold, lenOver > 0
               PROVE  timer' # NoTimer /\ timer'.left <= lenOver
    BY <1>10 DEF Tick, roster, settings
  <2>1. timer \in TimerCallback /\ timer.left <= lenOver /\ lenOver \in Nat
    BY ConstantsAssumption DEF IInv, ClockInv, ClockType, SettingsType
  <2>2. timer' = Elapse(timer)
    BY <2>1, <1>10, NoTimerAssumption DEF Tick
  <2>3. Elapse(timer) \in TimerCallback /\ Elapse(timer).left <= timer.left
    <3>1. timer.left \in Nat
      BY <2>1 DEF TimerCallback
    <3>2. Elapse(timer) = [impl |-> timer.impl, left |-> Sooner(timer.left)]
      BY <2>1 DEF Elapse, TimerCallback
    <3> QED
      BY <2>1, <3>1, <3>2 DEF Sooner, TimerCallback
  <2>4. Elapse(timer).left \in Nat /\ timer.left \in Nat
    BY <2>1, <2>3 DEF TimerCallback
  <2> QED
    BY <2>1, <2>2, <2>3, <2>4, NoTimerAssumption
<1>11. CASE UNCHANGED vars
  BY <1>11 DEF vars
<1> QED
  BY <1>1, <1>2, <1>3, <1>4, <1>5, <1>6, <1>7, <1>8, <1>9, <1>10, <1>11
     DEF Next, Loop

\* As long as the administrator leaves the lengths and the timer alone, the
\* rest of a turn over the threshold is not longer than the length for it.
THEOREM OverThresholdIsShort ==
  ASSUME Commands \subseteq {"threshold", "turn-end"}
  PROVE  Spec => []ThresholdShortens
<1>1. Init => ShortInv
  BY DEF Init, ShortInv, ThresholdShortens
<1>2. IInv /\ IInv' /\ ShortInv /\ [Next]_vars => ShortInv'
  BY StepKeepsShortInv
<1>3. ShortInv => ThresholdShortens
  BY DEF ShortInv
<1> QED
  BY <1>1, <1>2, <1>3, IInvHolds, PTL DEF Spec

-----------------------------------------------------------------------------
(* What TurnTimer knows of the threshold *)

\* Nobody is no share of somebody.
LEMMA NobodyIsNotOver ==
  ASSUME RosterInv, NEW thr \in Nat, thr > 0,
         NEW dead \in Nat, dead <= Cardinality(players)
  PROVE  ~IsOverThreshold({}, dead, thr)
<1> DEFINE n == Cardinality(players) - dead
<1>1. Cardinality(players) \in Nat /\ Cardinality({}) = 0
  BY PlayersAreFinite, FS_EmptySet DEF RosterInv, RosterType
<1>2. n \in Nat
  BY <1>1
<1> HIDE DEF n
<1>3. ASSUME n # 0
      PROVE  ~(0 * 100 >= thr * n)
  BY <1>2, <1>3
<1> QED
  BY <1>1, <1>3 DEF IsOverThreshold, n

\* An end of turn leaves a threshold that nobody has reached.
LEMMA EndOfTurnIsNotOver ==
  ASSUME IInv, NEW queue, NEW thr \in Nat, RunEndOfTurn(queue, thr), threshold' = thr
  PROVE  ReachedIsKnown'
<1>1. /\ players' = players /\ finished' = {}
      /\ numdead' = Cardinality(players \ alive')
  BY DEF RunEndOfTurn, DoEndOfTurn
<1>2. /\ numdead' \in Nat
      /\ players \ alive' \subseteq players /\ players \in SUBSET Player
  BY <1>1, DeadCounted DEF IInv, RosterInv, RosterType
<1>3. numdead' <= Cardinality(players)
  BY <1>1, <1>2, PlayersAreFinite, FS_Subset
<1>4. thr > 0 => ~IsOverThreshold({}, numdead', thr)
  BY <1>2, <1>3, NobodyIsNotOver DEF IInv
<1>5. thr > 0 => ~IsOverThreshold(finished, numdead, threshold)'
  BY <1>1, <1>4 DEF IsOverThreshold
<1> QED
  BY <1>5 DEF ReachedIsKnown

\* A handler that leaves the finished and the dead as they are, or passes the
\* flag on.
LEMMA SameShareIsKnown ==
  ASSUME ReachedIsKnown,
         UNCHANGED <<started, players, finished, numdead, threshold, overthreshold>>
  PROVE  ReachedIsKnown'
BY DEF ReachedIsKnown, IsOverThreshold

\* The finished are at most the players over whom the threshold is taken: with
\* one player more they are no larger a share.
LEMMA JoiningIsNotReaching ==
  ASSUME IInv, ReachedIsKnown, NEW p \in Player, JoinGame(p)
  PROVE  ReachedIsKnown'
<1> SUFFICES ASSUME started, threshold > 0, IsOverThreshold(finished, numdead, threshold)'
             PROVE  overthreshold
  <2>1. UNCHANGED <<started, threshold, overthreshold>>
    BY DEF JoinGame, settings
  <2> QED
    BY <2>1 DEF ReachedIsKnown
<1> DEFINE n == Cardinality(players) - numdead
           f == Cardinality(finished)
<1>1. /\ IsFiniteSet(players) /\ p \notin players /\ players' = players \cup {p}
      /\ Cardinality(players) \in Nat /\ numdead \in Nat
      /\ f \in Nat /\ finished \subseteq alive /\ alive \subseteq players
      /\ threshold \in Nat /\ UNCHANGED <<finished, numdead, threshold, overthreshold>>
  BY PlayersAreFinite, ConstantsAssumption
     DEF JoinGame, IInv, RosterInv, RosterType, ThresholdOverLiving, SettingsType, settings
<1>2. Cardinality(players') = Cardinality(players) + 1
  BY <1>1, FS_AddElement
<1>3. Cardinality(players \ alive) = Cardinality(players) - Cardinality(alive)
  <2>1. players \cap alive = alive
    BY <1>1
  <2> QED
    BY <1>1, <2>1, FS_Difference
<1>4. Cardinality(alive) \in Nat /\ f <= Cardinality(alive)
  BY <1>1, FS_Subset, FS_CardinalityType
<1>5. n \in Nat /\ f <= n
  BY <1>1, <1>3, <1>4 DEF IInv, RosterInv, ThresholdOverLiving
<1> HIDE DEF n, f
<1>6. f * 100 >= threshold * (n + 1)
  BY <1>1, <1>2, <1>5 DEF IsOverThreshold, n, f
<1>7. threshold * (n + 1) = threshold * n + threshold /\ threshold * n \in Nat
  BY <1>1, <1>5
<1>8. n # 0
  BY <1>1, <1>5, <1>6, <1>7
<1>9. IsOverThreshold(finished, numdead, threshold)
  BY <1>1, <1>6, <1>7, <1>8 DEF IsOverThreshold, n, f
<1> QED
  BY <1>9 DEF ReachedIsKnown

LEMMA StepKeepsReachedIsKnown ==
  ASSUME IInv, ReachedIsKnown, [Next]_vars
  PROVE  ReachedIsKnown'
<1>0. threshold \in Nat /\ \A thr \in Thresholds : thr \in Nat
  BY ConstantsAssumption DEF IInv, SettingsType
<1>1. CASE Start
  <2>1. /\ finished' = {} /\ players' = players /\ threshold' = threshold
        /\ numdead' = Cardinality(players \ alive)
    BY <1>1 DEF Start, IInv, RosterInv, settings
  <2>2. /\ numdead' \in Nat
        /\ players \ alive \subseteq players /\ players \in SUBSET Player
    BY <2>1, DeadCounted DEF IInv, RosterInv, RosterType
  <2>3. numdead' <= Cardinality(players)
    BY <2>1, <2>2, PlayersAreFinite, FS_Subset
  <2>4. threshold > 0 => ~IsOverThreshold({}, numdead', threshold)
    BY <1>0, <2>2, <2>3, NobodyIsNotOver DEF IInv
  <2> QED
    BY <2>1, <2>4 DEF ReachedIsKnown, IsOverThreshold
<1>2. ASSUME NEW p \in Player, JoinGame(p)
      PROVE  ReachedIsKnown'
  BY <1>2, JoiningIsNotReaching
<1>3. ASSUME NEW p \in Player, PlayerFinishedTurn(p)
      PROVE  ReachedIsKnown'
  <2> DEFINE fin == finished \cup {p}
  <2>1. CASE ~overthreshold /\ IsOverThreshold(fin, numdead, threshold)
    BY <1>3, <2>1 DEF PlayerFinishedTurn, ReachedIsKnown
  <2>2. CASE overthreshold
    <3>1. overthreshold'
      BY <1>3, <2>2, Zenon DEF PlayerFinishedTurn
    <3> QED
      BY <3>1 DEF ReachedIsKnown
  <2>3. CASE ~overthreshold /\ ~IsOverThreshold(fin, numdead, threshold)
    <3>1. /\ UNCHANGED <<players, numdead, threshold>> /\ finished' = fin
      BY <1>3, <2>3 DEF PlayerFinishedTurn, settings, roster
    <3>2. ~IsOverThreshold(finished, numdead, threshold)'
      BY <2>3, <3>1 DEF IsOverThreshold
    <3> QED
      BY <3>2 DEF ReachedIsKnown
  <2> QED
    BY <2>1, <2>2, <2>3 DEF IInv, FlagsType
<1>4. ASSUME NEW thr \in Thresholds, SetThreshold(thr)
      PROVE  ReachedIsKnown'
  <2>1. threshold' = thr /\ thr \in Nat
    BY <1>0, <1>4 DEF SetThreshold
  <2>2. ASSUME NEW queue, RunEndOfTurn(queue, thr)
        PROVE  ReachedIsKnown'
    BY <2>1, <2>2, EndOfTurnIsNotOver
  <2>3. CASE ~\E queue : RunEndOfTurn(queue, thr)
    <3>1. UNCHANGED <<started, players, finished, numdead>>
      BY <1>4, <2>3 DEF SetThreshold, UpdateTimer, ResetTimer, roster
    <3>2. started => overthreshold' = IsOverThreshold(finished, numdead, thr)
      BY <1>4 DEF SetThreshold
    <3> QED
      BY <2>1, <3>1, <3>2 DEF ReachedIsKnown, IsOverThreshold
  <2> QED
    BY <2>2, <2>3
<1>5. ASSUME NEW over \in LengthsOver, NEW under \in LengthsUnder,
             SetLengths(over, under)
      PROVE  ReachedIsKnown'
  BY <1>5, SameShareIsKnown DEF SetLengths, roster
<1>6. CASE TurnEnd
  BY <1>0, <1>6, EndOfTurnIsNotOver DEF TurnEnd, settings
<1>7. CASE TurnReset
  <2>1. threshold' = threshold
    BY <1>7 DEF TurnReset, settings
  <2>2. CASE RunEndOfTurn(timers, threshold)
    BY <1>0, <2>1, <2>2, EndOfTurnIsNotOver
  <2>3. CASE ~RunEndOfTurn(timers, threshold)
    BY <1>7, <2>1, <2>3, SameShareIsKnown DEF TurnReset, ResetTimer, roster
  <2> QED
    BY <2>2, <2>3
<1>8. ASSUME NEW t \in timers, TimerFinished(t)
      PROVE  ReachedIsKnown'
  BY <1>0, <1>8, EndOfTurnIsNotOver DEF TimerFinished, settings
<1>9. ASSUME NEW t \in timers, DropTimer(t)
      PROVE  ReachedIsKnown'
  BY <1>9, SameShareIsKnown DEF DropTimer, roster, settings
<1>10. CASE Select \/ EndPass \/ Tick
  BY <1>10, SameShareIsKnown DEF Select, EndPass, Tick, roster, settings
<1>11. CASE UNCHANGED vars
  BY <1>11, SameShareIsKnown DEF vars
<1> QED
  BY <1>1, <1>2, <1>3, <1>4, <1>5, <1>6, <1>7, <1>8, <1>9, <1>10, <1>11
     DEF Next, Loop

\* When the threshold counts and is reached, TurnTimer knows it: no join, death,
\* command or end of turn lets it be reached behind its back.
THEOREM ReachedThresholdKnown == Spec => []ReachedIsKnown
<1>1. Init => ReachedIsKnown
  BY DEF Init, ReachedIsKnown
<1> QED
  BY <1>1, StepKeepsReachedIsKnown, IInvHolds, PTL DEF Spec
=============================================================================
