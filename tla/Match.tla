------------------------------- MODULE Match -------------------------------
(***************************************************************************)
(* How a match is decided: T-mode, the surrender timers, the win, the      *)
(* pause after it and the reset.                                           *)
(*                                                                         *)
(* Kept of the galaxy is how many planets each team holds, and of the slot *)
(* table how many slots of each team have a playerId.  Conquest says how   *)
(* planets change hands and is checked to implement this module.           *)
(***************************************************************************)
EXTENDS Integers

CONSTANTS
  StartHeld,      \* team -> planets it holds in a new galaxy
  TModeMin,       \* TMODE_MIN_PLAYERS
  SurrenderAt,    \* SURRENDER_PLANET_THRESHOLD
  SurrenderClear, \* SURRENDER_CLEAR_PLANETS
  SurrenderTicks, \* SURRENDER_TIMER_TICKS
  WinPauseTicks,  \* WIN_PAUSE_DURATION in ticks
  MaxCrew         \* bound: slots one team can occupy

FED == 0
ROM == 1
Teams == 0 .. 3
PlayTeams == {FED, ROM}         \* the teams a player or a bot can join
ThirdSpace == Teams \ PlayTeams

\* The two playing teams start with so many planets that whoever takes all
\* but SurrenderAt of them leads the third space as well.
ASSUME MatchAssumption ==
  /\ StartHeld \in [Teams -> Nat]
  /\ TModeMin \in Nat \ {0} /\ MaxCrew \in Nat
  /\ SurrenderAt \in Nat /\ SurrenderClear \in Nat /\ SurrenderAt < SurrenderClear
  /\ SurrenderTicks \in Nat \ {0} /\ WinPauseTicks \in Nat \ {0}
  /\ \A t \in ThirdSpace : StartHeld[t] + SurrenderAt < StartHeld[FED] + StartHeld[ROM]
  /\ 2 * SurrenderAt < StartHeld[FED] + StartHeld[ROM]

VARIABLES
  held,             \* team -> number of planets
  crew,             \* team -> number of slots with a playerId
  phase,            \* "between" two ticks, or "playing" inside one
  tmode,
  surrenderTimers,  \* team -> ticks left, 0 when not running
  winPause,         \* winPauseTicks
  result            \* the win announced last, or NoResult

vars == <<held, crew, phase, tmode, surrenderTimers, winPause, result>>
judgement == <<tmode, surrenderTimers, winPause, result>>

NoResult == [winner |-> -1, loser |-> -1, type |-> "none"]
Results == [winner: Teams \cup {-1}, loser: Teams \cup {-1},
            type: {"none", "genocide", "timercide"}]

TypeOK ==
  /\ held \in [Teams -> Nat]
  /\ crew \in [Teams -> Nat]
  /\ phase \in {"between", "playing"}
  /\ tmode \in BOOLEAN
  /\ surrenderTimers \in [Teams -> 0 .. SurrenderTicks]
  /\ winPause \in 0 .. WinPauseTicks
  /\ result \in Results

Crews == {c \in [Teams -> 0 .. MaxCrew] : \A t \in ThirdSpace : c[t] = 0}

Init ==
  /\ held = StartHeld
  /\ crew \in Crews
  /\ phase = "between"
  /\ tmode = FALSE
  /\ surrenderTimers = [t \in Teams |-> 0]
  /\ winPause = 0
  /\ result = NoResult

-----------------------------------------------------------------------------
(* Players and bots come and go between two ticks. *)

Join(t) ==
  /\ phase = "between" /\ crew[t] < MaxCrew
  /\ crew' = [crew EXCEPT ![t] = @ + 1]
  /\ UNCHANGED <<held, phase, judgement>>

Leave(t) ==
  /\ phase = "between" /\ crew[t] > 0
  /\ crew' = [crew EXCEPT ![t] = @ - 1]
  /\ UNCHANGED <<held, phase, judgement>>

-----------------------------------------------------------------------------
(* A tick of play *)

StartTick ==
  /\ phase = "between" /\ winPause = 0
  /\ phase' = "playing"
  /\ UNCHANGED <<held, crew, judgement>>

\* updateBeaming: a team takes a planet of another.  tmode is that of the
\* tick before.
Capture(t, from) ==
  /\ phase = "playing" /\ tmode
  /\ crew[t] > 0 /\ t # from /\ held[from] > 0
  /\ held' = [held EXCEPT ![t] = @ + 1, ![from] = @ - 1]
  /\ UNCHANGED <<crew, phase, judgement>>

\* updateTMode
EnoughPlayers == \A t \in PlayTeams : crew[t] >= TModeMin

\* findWinningTeam: the lowest of the teams that hold the most planets.
FindWinningTeam(losing) ==
  LET candidates == {t \in Teams : t # losing /\ held[t] > 0}
  IN  IF candidates = {} THEN -1
      ELSE CHOOSE t \in candidates :
             \A u \in candidates : held[u] < held[t] \/ (held[u] = held[t] /\ t <= u)

\* The loop of checkWinCondition ends at the first team that has lost; the
\* timers of the teams after it, and of one without planets, stay.
Expiring(t) == held[t] <= SurrenderAt /\ surrenderTimers[t] = 1
Lost(t) == crew[t] > 0 /\ (held[t] = 0 \/ Expiring(t))
Losers == {t \in Teams : Lost(t)}

\* Fault: the timer is cleared one planet too late.
NextTimerLate(t) ==
  IF crew[t] = 0 \/ held[t] = 0 THEN surrenderTimers[t]
  ELSE IF held[t] <= SurrenderAt
       THEN IF surrenderTimers[t] = 0 THEN SurrenderTicks ELSE surrenderTimers[t] - 1
  ELSE IF held[t] > SurrenderClear THEN 0
  ELSE surrenderTimers[t]

\* Fault: the timer is never started, only counted down.
NextTimerUnstarted(t) ==
  IF crew[t] = 0 \/ held[t] = 0 THEN surrenderTimers[t]
  ELSE IF held[t] <= SurrenderAt THEN surrenderTimers[t] - 1
  ELSE IF held[t] >= SurrenderClear THEN 0
  ELSE surrenderTimers[t]

\* Fault: the timer starts again in every tick of danger.
NextTimerRestarts(t) ==
  IF crew[t] = 0 \/ held[t] = 0 THEN surrenderTimers[t]
  ELSE IF held[t] <= SurrenderAt THEN SurrenderTicks
  ELSE IF held[t] >= SurrenderClear THEN 0
  ELSE surrenderTimers[t]

NextTimer(t) ==
  IF crew[t] = 0 \/ held[t] = 0 THEN surrenderTimers[t]
  ELSE IF held[t] <= SurrenderAt
       THEN IF surrenderTimers[t] = 0 THEN SurrenderTicks ELSE surrenderTimers[t] - 1
  ELSE IF held[t] >= SurrenderClear THEN 0
  ELSE surrenderTimers[t]

TriggerWin(losing) ==
  /\ \A t \in Losers : losing <= t
  /\ result' = [winner |-> FindWinningTeam(losing), loser |-> losing,
                type |-> IF held[losing] = 0 THEN "genocide" ELSE "timercide"]
  /\ winPause' = WinPauseTicks
  /\ surrenderTimers' =
       [t \in Teams |-> IF t <= losing THEN NextTimer(t) ELSE surrenderTimers[t]]

CheckWinCondition ==
  IF ~tmode'
  THEN UNCHANGED <<surrenderTimers, winPause, result>>
  ELSE \/ \E t \in Losers : TriggerWin(t)
       \/ /\ Losers = {}
          /\ surrenderTimers' = [t \in Teams |-> NextTimer(t)]
          /\ UNCHANGED <<winPause, result>>

\* The end of the tick: updateTMode and checkWinCondition.
Judge ==
  /\ phase = "playing"
  /\ phase' = "between"
  /\ tmode' = EnoughPlayers
  /\ CheckWinCondition
  /\ UNCHANGED <<held, crew>>

-----------------------------------------------------------------------------
(* The pause after a win *)

PauseTick ==
  /\ phase = "between" /\ winPause > 1
  /\ winPause' = winPause - 1
  /\ UNCHANGED <<held, crew, phase, tmode, surrenderTimers, result>>

\* resetGame.  How many slots are taken afterwards depends on the bots.
ResetTick ==
  /\ phase = "between" /\ winPause = 1
  /\ winPause' = 0
  /\ held' = StartHeld
  /\ crew' \in Crews
  /\ tmode' = FALSE
  /\ surrenderTimers' = [t \in Teams |-> 0]
  /\ result' = NoResult
  /\ UNCHANGED phase

-----------------------------------------------------------------------------
Tick == StartTick \/ Judge \/ PauseTick \/ ResetTick

Next ==
  \/ \E t \in PlayTeams : Join(t) \/ Leave(t)
  \/ \E t \in PlayTeams, from \in Teams : Capture(t, from)
  \/ Tick

Spec == Init /\ [][Next]_vars

\* setInterval keeps the ticks coming.
FairSpec == Spec /\ WF_vars(Tick)
-----------------------------------------------------------------------------
(* Properties *)

\* While T-mode is on and the match open, a timer runs for every playing team
\* in danger and for none that is out of it, although timers freeze, stay
\* behind when T-mode goes, and are judged team by team with an early return.
TimersMatchDanger ==
  phase = "between" /\ tmode /\ result = NoResult =>
    \A t \in PlayTeams :
      /\ held[t] > 0
      /\ held[t] <= SurrenderAt => surrenderTimers[t] > 0
      /\ held[t] >= SurrenderClear => surrenderTimers[t] = 0

\* A match is won by the playing team that holds more planets than any other,
\* never by a third-space team nor by nobody, and the pause shows exactly a
\* decided match.
WinnerLeads ==
  /\ result # NoResult <=> winPause > 0
  /\ result # NoResult =>
       /\ result.winner \in PlayTeams /\ result.loser \in PlayTeams
       /\ \A t \in Teams \ {result.winner} : held[t] < held[result.winner]

\* The timers, the verdict and the pause agree with the galaxy.
JudgedRightly == TimersMatchDanger /\ WinnerLeads

\* A team cannot stay in danger for ever with T-mode on: it recovers, T-mode
\* ends, or the match is decided.
DangerEnds ==
  \A t \in PlayTeams : []<>~(tmode /\ result = NoResult /\ held[t] <= SurrenderAt)

\* Every decided match gives way to a new one.
PauseEnds == result # NoResult ~> result = NoResult

\* The match gets somewhere: danger does not last, nor does the pause.
MatchGoesOn == DangerEnds /\ PauseEnds
=============================================================================
