----------------------------- MODULE TurnTimer -----------------------------
(***************************************************************************)
(* The turn cycle of the server: TurnTimer (who has finished, the          *)
(* threshold, the timer), the timer queue of Network::masterLoop with the  *)
(* reference counted TimerCallbacks it holds, and Game::doEndOfTurn.       *)
(*                                                                         *)
(* The server has one thread.  A pass of the master loop first runs the    *)
(* due timers (phase "timers"), then the handlers of the connections that  *)
(* select() found readable (phase "io"); a handler is atomic.  Time is     *)
(* relative: "left" is the number of seconds until a callback expires, and *)
(* an overdue callback has 0 left.                                         *)
(***************************************************************************)
EXTENDS Integers, FiniteSets

CONSTANTS
  Player,        \* player ids that can exist
  Guest,         \* those whom the ruleset makes dead as they join: minisec
                 \* does so to the player named "guest"
  ImplIds,       \* addresses of TimerCallbackBase objects; bounds the queue
  Thresholds,    \* values of the setting turn_player_threshold (a percentage)
  LengthsOver,   \* values of the setting turn_length_over_threshold
  LengthsUnder,  \* values of the setting turn_length_under_threshold
  MinLength,     \* the length used instead of 0: 60 seconds in the code
  TurnMod,       \* turn numbers wrap at TurnMod: 2^32 in the code
  Commands,      \* the commands the administrator of this instance gives
  NoTimer        \* a null TimerCallback pointer

ASSUME ConstantsAssumption ==
  /\ IsFiniteSet(Player)
  /\ Guest \subseteq Player
  /\ IsFiniteSet(ImplIds)
  /\ Thresholds \subseteq Nat
  /\ LengthsOver \subseteq Nat
  /\ LengthsUnder \subseteq Nat
  /\ MinLength \in Nat \ {0}
  /\ TurnMod \in Nat \ {0, 1}

TimerCallback == [impl : ImplIds, left : Nat]

ASSUME NoTimerAssumption == NoTimer \notin TimerCallback

VARIABLES
  phase,         \* where the master loop is: "timers" or "io"
  started,       \* Game::started
  turnNum,       \* Game::turnNum
  players,       \* the keys of PlayerManager::players
  alive,         \* those whose Player::alive is set
  threshold,     \* turn_player_threshold
  lenOver,       \* turn_length_over_threshold
  lenUnder,      \* turn_length_under_threshold
  timer,         \* TurnTimer::timer
  finished,      \* TurnTimer::finishedPlayers
  overthreshold, \* TurnTimer::overthreshold
  numdead,       \* TurnTimer::numdead
  timers,        \* Network::timers, the queue of callbacks
  valid,         \* the callback objects whose "valid" is set
  told           \* seconds to the end of turn the clients count down: the
                 \* last AsyncTimeRemaining frame less the time since

settings == <<threshold, lenOver, lenUnder>>
roster   == <<started, turnNum, players, alive, numdead>>
vars == <<phase, started, turnNum, players, alive, threshold, lenOver,
          lenUnder, timer, finished, overthreshold, numdead, timers, valid,
          told>>

Forever == -1    \* UINT32_NEG_ONE: no timer is set

-----------------------------------------------------------------------------
(* Helpers *)

HandleImpls == IF timer = NoTimer THEN {} ELSE {timer.impl}

UsedImpls(queue) == {t.impl : t \in queue} \cup HandleImpls

\* Bound: a handler that sets a timer leaves a callback object for the end of
\* turn to use.
MayArm == \E i \in ImplIds : ImplIds \ UsedImpls(timers) \notin {{}, {i}}

\* TurnTimer::isOverThreshold
IsOverThreshold(fin, dead, thr) ==
  LET numPlayers == Cardinality(players) - dead
  IN  numPlayers # 0 /\ Cardinality(fin) * 100 >= thr * numPlayers

OverIncrement == IF lenOver = 0 THEN MinLength ELSE lenOver

\* No time limit once the threshold is reached: the end of turn runs at once.
Immediate(thr) == lenOver = 0 /\ thr > 0

\* The copies of the old callback stay callable.
ArmKeepsOld(queue, increment) ==
  \E i \in ImplIds \ UsedImpls(queue) :
    LET t == [impl |-> i, left |-> increment]
    IN  /\ timer' = t
        /\ timers' = queue \cup {t}
        /\ valid' = valid \cup {i}
        /\ told' = increment

\* The new callback is not given to the network.
ArmUnqueued(queue, increment) ==
  \E i \in ImplIds \ UsedImpls(queue) :
    /\ timer' = [impl |-> i, left |-> increment]
    /\ timers' = queue
    /\ valid' = (valid \ HandleImpls) \cup {i}
    /\ told' = increment

\* Invalidate and delete the old timer, create the new one, queue a copy of it
\* and broadcast the time that remains.
Arm(queue, increment) ==
  \E i \in ImplIds \ UsedImpls(queue) :
    LET t == [impl |-> i, left |-> increment]
    IN  /\ timer' = t
        /\ timers' = queue \cup {t}
        /\ valid' = (valid \ HandleImpls) \cup {i}
        /\ told' = increment

\* resetTimer where nobody limits the length of the turn
Disarm(queue) ==
  /\ timer' = NoTimer
  /\ timers' = queue
  /\ valid' = valid \ HandleImpls
  /\ told' = Forever

\* TurnTimer::resetTimer, except for the end of turn it may run
SetTimer(queue, fin, dead, thr) ==
  IF IsOverThreshold(fin, dead, thr) THEN Arm(queue, OverIncrement)
  ELSE IF lenUnder = 0 THEN Disarm(queue)
  ELSE Arm(queue, lenUnder)

\* Game::doEndOfTurn.  TurnProcess::doTurn belongs to the ruleset: all that
\* matters here is the set of players it eliminates.
DoEndOfTurn ==
  \E dying \in SUBSET alive :
    /\ turnNum' = (turnNum + 1) % TurnMod
    /\ alive' = alive \ dying
    /\ numdead' = Cardinality(players \ alive')
    /\ UNCHANGED <<started, players>>

\* The finished players are kept over the end of turn.
RunEndOfTurnKeepsFinished(queue, thr) ==
  /\ DoEndOfTurn
  /\ UNCHANGED finished
  /\ SetTimer(queue, {}, numdead', thr)

\* The body shared by manuallyRunEndOfTurn, timerFinished and
\* thresholdDoneAndStartEOT.  With nobody finished, resetTimer does not run
\* another end of turn: that takes a positive threshold that nobody reaches.
RunEndOfTurn(queue, thr) ==
  /\ DoEndOfTurn
  /\ finished' = {}
  /\ SetTimer(queue, {}, numdead', thr)

\* TurnTimer::resetTimer
ResetTimer(thr) ==
  IF Immediate(thr) /\ IsOverThreshold(finished, numdead, thr)
  THEN /\ RunEndOfTurn(timers, thr)
  ELSE /\ SetTimer(timers, finished, numdead, thr)
       /\ UNCHANGED <<roster, finished>>

\* Any timer there is stays.
UpdateTimerKeepsLonger(fin, thr) ==
  IF Immediate(thr) THEN RunEndOfTurn(timers, thr)
  ELSE /\ finished' = fin
       /\ UNCHANGED roster
       /\ IF timer # NoTimer
          THEN UNCHANGED <<timer, timers, valid, told>>
          ELSE Arm(timers, OverIncrement)

\* A timer that ends the turn sooner is replaced too.
UpdateTimerReplacesShorter(fin, thr) ==
  IF Immediate(thr) THEN RunEndOfTurn(timers, thr)
  ELSE /\ finished' = fin
       /\ UNCHANGED roster
       /\ Arm(timers, OverIncrement)

\* TurnTimer::updateTimer: never lengthens the turn
UpdateTimer(fin, thr) ==
  IF Immediate(thr) THEN RunEndOfTurn(timers, thr)
  ELSE /\ finished' = fin
       /\ UNCHANGED roster
       /\ IF timer # NoTimer /\ timer.left <= OverIncrement
          THEN UNCHANGED <<timer, timers, valid, told>>
          ELSE Arm(timers, OverIncrement)

-----------------------------------------------------------------------------
(* The game is loaded, by createGame or from the database, and not started. *)

Init ==
  /\ phase = "io"
  /\ started = FALSE
  /\ turnNum = 0
  /\ players \in SUBSET Player
  /\ alive \in SUBSET players
  /\ threshold \in Thresholds
  /\ lenOver \in LengthsOver
  /\ lenUnder \in LengthsUnder
  /\ timer = NoTimer
  /\ finished = {}
  /\ overthreshold = FALSE
  /\ numdead = 0
  /\ timers = {}
  /\ valid = {}
  /\ told = Forever

\* Game::start
Start ==
  /\ phase = "io"
  /\ ~started
  /\ started' = TRUE
  /\ numdead' = Cardinality(players \ alive)
  /\ SetTimer(timers, finished, numdead', threshold)
  /\ UNCHANGED <<phase, turnNum, players, alive, settings, finished,
                 overthreshold>>

\* PlayerManager::createNewPlayer, as far as the turn cycle sees it
JoinGame(p) ==
  /\ phase = "io"
  /\ p \in Player \ players
  /\ players' = players \cup {p}
  /\ alive' = alive \cup ({p} \ Guest)
  /\ UNCHANGED <<phase, started, turnNum, settings, timer, finished,
                 overthreshold, numdead, timers, valid, told>>

\* The threshold is tested before the player is counted.
PlayerFinishedTurnTestsFirst(p) ==
  /\ phase = "io"
  /\ started
  /\ p \in alive
  /\ LET fin == finished \cup {p}
     IN  IF ~overthreshold /\ IsOverThreshold(finished, numdead, threshold)
         THEN /\ MayArm
              /\ UpdateTimer(fin, threshold)
              /\ overthreshold' = TRUE
         ELSE /\ finished' = fin
              /\ UNCHANGED <<roster, overthreshold, timer, timers, valid, told>>
  /\ UNCHANGED <<phase, settings>>

\* TurnTimer::playerFinishedTurn, from a TurnFinished frame
PlayerFinishedTurn(p) ==
  /\ phase = "io"
  /\ started
  /\ p \in alive
  /\ LET fin == finished \cup {p}
     IN  IF ~overthreshold /\ IsOverThreshold(fin, numdead, threshold)
         THEN /\ MayArm
              /\ UpdateTimer(fin, threshold)
              /\ overthreshold' = TRUE
         ELSE /\ finished' = fin
              /\ UNCHANGED <<roster, overthreshold, timer, timers, valid, told>>
  /\ UNCHANGED <<phase, settings>>

\* Settings::set on turn_player_threshold, and its callback
\* TurnTimer::thresholdChanged, which a TurnTimer registers when it is made.
SetThreshold(thr) ==
  LET over == IsOverThreshold(finished, numdead, thr)
  IN
  /\ phase = "io"
  /\ "threshold" \in Commands
  /\ threshold' = thr
  /\ IF started /\ over # overthreshold
     THEN /\ MayArm
          /\ IF over THEN UpdateTimer(finished, thr) ELSE ResetTimer(thr)
          /\ overthreshold' = over
     ELSE UNCHANGED <<roster, finished, overthreshold, timer, timers, valid,
                      told>>
  /\ UNCHANGED <<phase, lenOver, lenUnder>>

\* Settings::set on the two lengths: no callback, they wait for the next reset.
SetLengths(over, under) ==
  /\ phase = "io"
  /\ "lengths" \in Commands
  /\ lenOver' = over
  /\ lenUnder' = under
  /\ UNCHANGED <<phase, roster, threshold, timer, finished, overthreshold,
                 timers, valid, told>>

\* The command turn-end: TurnTimer::manuallyRunEndOfTurn
TurnEnd ==
  /\ phase = "io"
  /\ started
  /\ "turn-end" \in Commands
  /\ MayArm
  /\ RunEndOfTurn(timers, threshold)
  /\ overthreshold' = FALSE
  /\ UNCHANGED <<phase, settings>>

\* The command turn-reset: TurnTimer::resetTimer
TurnReset ==
  /\ phase = "io"
  /\ started
  /\ "turn-reset" \in Commands
  /\ MayArm
  /\ ResetTimer(threshold)
  /\ overthreshold' =
       IF Immediate(threshold) /\ IsOverThreshold(finished, numdead, threshold)
       THEN FALSE ELSE overthreshold
  /\ UNCHANGED <<phase, settings>>

-----------------------------------------------------------------------------
(* Network::masterLoop *)

\* A callback the priority queue may have on top: none expires before it.
IsTop(t) == t \in timers /\ \A u \in timers : t.left <= u.left

ToPop(t) == IsTop(t) /\ (t.left = 0 \/ t.impl \notin valid)

\* TurnTimer::timerFinished
TimerFinished(t) ==
  /\ phase = "timers"
  /\ ToPop(t)
  /\ t.impl \in valid
  /\ RunEndOfTurn(timers \ {t}, threshold)
  /\ overthreshold' = FALSE
  /\ UNCHANGED <<phase, settings>>

\* An invalid callback is dropped without a call.
DropTimer(t) ==
  /\ phase = "timers"
  /\ ToPop(t)
  /\ t.impl \notin valid
  /\ timers' = timers \ {t}
  /\ UNCHANGED <<phase, roster, settings, timer, finished, overthreshold,
                 valid, told>>

\* No callback is left to pop: select() returns and the handlers run.
Select ==
  /\ phase = "timers"
  /\ timers = {} \/ \E t \in timers : IsTop(t) /\ t.left > 0 /\ t.impl \in valid
  /\ phase' = "io"
  /\ UNCHANGED <<roster, settings, timer, finished, overthreshold, timers,
                 valid, told>>

EndPass ==
  /\ phase = "io"
  /\ phase' = "timers"
  /\ UNCHANGED <<roster, settings, timer, finished, overthreshold, timers,
                 valid, told>>

Sooner(n) == IF n > 0 THEN n - 1 ELSE n

Elapse(t) == [t EXCEPT !.left = Sooner(@)]

\* One second passes.
Tick ==
  /\ \E t \in timers : t.left > 0
  /\ timers' = {Elapse(t) : t \in timers}
  /\ timer' = IF timer = NoTimer THEN NoTimer ELSE Elapse(timer)
  /\ told' = Sooner(told)
  /\ UNCHANGED <<phase, roster, settings, finished, overthreshold, valid>>

Loop ==
  \/ \E t \in timers : TimerFinished(t) \/ DropTimer(t)
  \/ Select
  \/ EndPass

Next ==
  \/ Start
  \/ \E p \in Player : JoinGame(p) \/ PlayerFinishedTurn(p)
  \/ \E thr \in Thresholds : SetThreshold(thr)
  \/ \E over \in LengthsOver, under \in LengthsUnder : SetLengths(over, under)
  \/ TurnEnd
  \/ TurnReset
  \/ Loop
  \/ Tick

\* The loop never stops (select() has a timeout of at most 60 seconds) and
\* time passes.  Nothing is assumed of players and administrators.
Fairness ==
  /\ WF_vars(Loop)
  /\ WF_vars(Tick)

Spec == Init /\ [][Next]_vars

FairSpec == Spec /\ Fairness

-----------------------------------------------------------------------------
(* The promise to the players *)

Clock == INSTANCE TurnClock WITH
  Person <- Player, Modulus <- TurnMod, OperatorActs <- Commands # {},
  running <- started, turn <- turnNum, left <- told, living <- alive,
  ready <- finished, share <- threshold

-----------------------------------------------------------------------------
(* Properties *)

\* The types of the variables.
TypeOK ==
  /\ phase \in {"timers", "io"}
  /\ started \in BOOLEAN
  /\ turnNum \in 0 .. TurnMod - 1
  /\ players \in SUBSET Player
  /\ alive \in SUBSET players
  /\ threshold \in Thresholds
  /\ lenOver \in LengthsOver
  /\ lenUnder \in LengthsUnder
  /\ timer \in TimerCallback \cup {NoTimer}
  /\ finished \in SUBSET players
  /\ overthreshold \in BOOLEAN
  /\ numdead \in Nat
  /\ timers \in SUBSET TimerCallback
  /\ valid \in SUBSET ImplIds
  /\ told \in Nat \cup {Forever}

\* The queue holds copies of callbacks that TurnTimer deleted, but only the
\* copy of the one it now has can still be called: no turn ends twice.
SoleTimer == \A t \in timers : t.impl \in valid => t = timer

\* The callback TurnTimer has is in the queue and will be called: a turn with
\* a timer is never forgotten.
TimerQueued == timer # NoTimer => timer \in timers /\ timer.impl \in valid

\* Every change of the timer is broadcast: what the clients count down to is
\* the moment the server ends the turn.
CountdownTrue == told = IF timer = NoTimer THEN Forever ELSE timer.left

\* One moment ends the turn: the only copy in the queue that can be called, the
\* callback TurnTimer holds and what the clients count down to are the same,
\* whatever was replaced, dropped or has expired in between.
OneClock == SoleTimer /\ TimerQueued /\ CountdownTrue

\* The threshold is taken over the living players: none of the dead is counted
\* as finished, and the dead are subtracted, but for a guest that joined dead
\* since the last end of turn.
ThresholdOverLiving ==
  started => /\ finished \subseteq alive
             /\ numdead <= Cardinality(players \ alive)
             /\ numdead >= Cardinality((players \ alive) \ Guest)

\* While the threshold is reached, and 0 is not its length, the rest of the
\* turn is no longer than the length for that case.
ThresholdShortens ==
  started /\ overthreshold /\ lenOver > 0
    => timer # NoTimer /\ timer.left <= lenOver

\* A turn that has a time limit ends, whatever the players do.
TurnComesAround ==
  \A n \in 0 .. TurnMod - 1 :
    (timer # NoTimer /\ turnNum = n) ~> (turnNum # n)

\* A turn without a time limit ends once enough living players have finished.
ThresholdEndsTurn ==
  \A n \in 0 .. TurnMod - 1 :
    ( /\ started /\ turnNum = n /\ lenOver > 0 /\ threshold > 0
      /\ IsOverThreshold(finished, numdead, threshold) ) ~> (turnNum # n)

\* TurnTimer and the master loop implement TurnClock.
KeepsPromise == Clock!Spec

\* However players finish, join and die and an administrator changes the
\* threshold: when it counts and is reached, TurnTimer knows, so that nobody
\* who has finished waits for a test that is not made again.
ReachedIsKnown ==
  started /\ threshold > 0 /\ IsOverThreshold(finished, numdead, threshold) => overthreshold
=============================================================================
