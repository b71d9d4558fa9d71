---------------------------- MODULE MatchProofs ----------------------------
(***************************************************************************)
(* Proofs about Match for every galaxy, every threshold and every length   *)
(* of the timers that MatchAssumption admits.                              *)
(*                                                                         *)
(* That the winner leads is a matter of arithmetic over the whole match:   *)
(* captures conserve the planets, and the third space has nobody who could *)
(* take one.  So whatever the loser does not hold, and the third space     *)
(* did not hold in the beginning, the other playing team has.              *)
(***************************************************************************)
EXTENDS Match, TLAPS

Total(h) == h[0] + h[1] + h[2] + h[3]

\* Planets change hands and are neither made nor lost.
PlanetsConserved == Total(held) = Total(StartHeld)

\* Nobody plays for the third space, so it never gains a planet.
ThirdSpaceIdle == \A t \in ThirdSpace : crew[t] = 0 /\ held[t] <= StartHeld[t]

\* A tick of play runs only while no match is decided.
NoPlayAfterWin == phase = "playing" => winPause = 0

IInv ==
  /\ TypeOK
  /\ PlanetsConserved
  /\ ThirdSpaceIdle
  /\ NoPlayAfterWin
  /\ TimersMatchDanger
  /\ WinnerLeads

-----------------------------------------------------------------------------
(* Who wins *)

\* The order in which findWinningTeam prefers teams.
Prefers(h, t, u) == h[u] < h[t] \/ (h[u] = h[t] /\ t <= u)
Best(h, C, t) == t \in C /\ \A u \in C : Prefers(h, t, u)
HasBest(h, C) == C = {} \/ \E t \in C : Best(h, C, t)

\* One step of the scan: the best of the teams below k, and k itself, give
\* the best of the teams up to k.
LEMMA ScanStep ==
  ASSUME NEW h \in [Teams -> Nat], NEW C \in SUBSET Teams, NEW k \in Teams,
         HasBest(h, {u \in C : u < k})
  PROVE  HasBest(h, {u \in C : u <= k})
<1> DEFINE below == {u \in C : u < k}
           upto == {u \in C : u <= k}
<1> SUFFICES HasBest(h, upto)
  OBVIOUS
<1>0. upto = below \cup {u \in C : u = k}
  <2>1. \A u \in C : u <= k <=> u < k \/ u = k
    BY DEF Teams
  <2> QED BY <2>1
<1>1. CASE k \notin C
  <2>1. upto = below
    BY <1>0, <1>1
  <2> QED BY <2>1
<1>2. CASE k \in C /\ below = {}
  <2>1. upto = {k}
    BY <1>0, <1>2
  <2> QED BY <2>1, <1>2 DEF HasBest, Best, Prefers, Teams
<1>3. CASE k \in C /\ below # {}
  <2>1. PICK t \in below : Best(h, below, t)
    BY <1>3 DEF HasBest
  <2>2. upto = below \cup {k}
    BY <1>0, <1>3
  <2>5. t \in Teams /\ h[t] \in Nat /\ h[k] \in Nat /\ t < k
    BY <2>1
  <2> HIDE DEF below, upto
  <2>3. CASE h[k] <= h[t]
    <3>1. Prefers(h, t, k)
      BY <2>3, <2>5 DEF Prefers, Teams
    <3>2. \A u \in below : Prefers(h, t, u)
      BY <2>1 DEF Best
    <3>3. Best(h, upto, t)
      BY <3>1, <3>2, <2>1, <2>2 DEF Best
    <3> QED BY <3>3 DEF HasBest, Best
  <2>4. CASE h[k] > h[t]
    <3>1. \A u \in below : h[u] \in Nat /\ h[u] <= h[t]
      BY <2>1, <2>5 DEF Best, Prefers, below
    <3>2. Best(h, upto, k)
      BY <3>1, <2>2, <2>4, <2>5 DEF Best, Prefers, Teams
    <3> QED BY <3>2 DEF HasBest, Best
  <2> QED BY <2>3, <2>4, <2>5
<1> QED BY <1>1, <1>2, <1>3

\* Among some teams there is always one that findWinningTeam prefers.
LEMMA BestExists ==
  ASSUME NEW h \in [Teams -> Nat], NEW C \in SUBSET Teams, C # {}
  PROVE  \E t \in C : Best(h, C, t)
<1> DEFINE Below(k) == {u \in C : u < k}
           Upto(k) == {u \in C : u <= k}
<1>0. \A u \in C : u \in Nat /\ u <= 3
  BY DEF Teams
<1>1. HasBest(h, Below(0))
  <2>1. \A u \in C : ~(u < 0)
    BY <1>0
  <2>2. Below(0) = {}
    BY <2>1
  <2> QED BY <2>2 DEF HasBest
<1>2. ASSUME NEW k \in Teams, HasBest(h, Below(k)) PROVE HasBest(h, Upto(k))
  BY <1>2, ScanStep
<1>3. Upto(0) = Below(1) /\ Upto(1) = Below(2) /\ Upto(2) = Below(3) /\ Upto(3) = C
  <2>1. \A u \in C : /\ u <= 0 <=> u < 1
                     /\ u <= 1 <=> u < 2
                     /\ u <= 2 <=> u < 3
    BY <1>0
  <2>2. Upto(0) = Below(1)
    BY <2>1
  <2>3. Upto(1) = Below(2)
    BY <2>1
  <2>4. Upto(2) = Below(3)
    BY <2>1
  <2>5. Upto(3) = C
    BY <1>0
  <2> QED BY <2>2, <2>3, <2>4, <2>5
<1> HIDE DEF Below, Upto
<1>4. HasBest(h, C)
  BY <1>1, <1>2, <1>3 DEF Teams
<1> QED BY <1>4 DEF HasBest

\* findWinningTeam returns -1 or a team other than the loser that holds
\* planets and that no other such team outnumbers.
LEMMA FindWinningTeamFinds ==
  ASSUME held \in [Teams -> Nat], NEW losing \in Teams
  PROVE  LET candidates == {t \in Teams : t # losing /\ held[t] > 0}
         IN  IF candidates = {} THEN FindWinningTeam(losing) = -1
             ELSE Best(held, candidates, FindWinningTeam(losing))
<1> DEFINE candidates == {t \in Teams : t # losing /\ held[t] > 0}
<1>1. CASE candidates = {}
  BY <1>1 DEF FindWinningTeam
<1>2. CASE candidates # {}
  <2>1. \E t \in candidates : Best(held, candidates, t)
    BY <1>2, BestExists
  <2>2. \E t \in candidates :
          \A u \in candidates : held[u] < held[t] \/ (held[u] = held[t] /\ t <= u)
    BY <2>1 DEF Best, Prefers
  <2>3. FindWinningTeam(losing) =
          CHOOSE t \in candidates :
            \A u \in candidates : held[u] < held[t] \/ (held[u] = held[t] /\ t <= u)
    BY <1>2 DEF FindWinningTeam
  <2> HIDE DEF candidates
  <2>4. Best(held, candidates, FindWinningTeam(losing))
    BY <2>2, <2>3 DEF Best, Prefers
  <2> QED BY <1>2, <2>4 DEF candidates
<1> QED BY <1>1, <1>2

\* A team that has lost is a playing team, and the other playing team then
\* holds more planets than anybody else.
LEMMA OtherTeamLeads ==
  ASSUME IInv, NEW losing \in Losers
  PROVE  /\ losing \in PlayTeams
         /\ \E other \in PlayTeams \ {losing} :
              held[other] > 0 /\ \A t \in Teams \ {other} : held[t] < held[other]
<1>1. /\ held \in [Teams -> Nat] /\ crew \in [Teams -> Nat]
      /\ StartHeld \in [Teams -> Nat] /\ SurrenderAt \in Nat
  BY MatchAssumption DEF IInv, TypeOK
<1>2. losing \in Teams /\ crew[losing] > 0 /\ held[losing] <= SurrenderAt
  BY <1>1 DEF Losers, Lost, Expiring, Teams
<1>3. losing \in PlayTeams
  BY <1>2 DEF IInv, ThirdSpaceIdle, ThirdSpace
<1>4. /\ held[2] <= StartHeld[2] /\ held[3] <= StartHeld[3]
      /\ StartHeld[2] + SurrenderAt < StartHeld[0] + StartHeld[1]
      /\ StartHeld[3] + SurrenderAt < StartHeld[0] + StartHeld[1]
      /\ 2 * SurrenderAt < StartHeld[0] + StartHeld[1]
  BY MatchAssumption DEF IInv, ThirdSpaceIdle, ThirdSpace, Teams, PlayTeams, FED, ROM
<1>5. held[0] + held[1] + held[2] + held[3]
        = StartHeld[0] + StartHeld[1] + StartHeld[2] + StartHeld[3]
  BY DEF IInv, PlanetsConserved, Total
<1>6. \A t \in Teams : held[t] \in Nat /\ StartHeld[t] \in Nat
  BY <1>1
<1>7. /\ 0 \in Teams /\ 1 \in Teams /\ 2 \in Teams /\ 3 \in Teams
      /\ \A t \in Teams : t = 0 \/ t = 1 \/ t = 2 \/ t = 3
      /\ PlayTeams = {0, 1}
  BY DEF Teams, PlayTeams, FED, ROM
<1>8. CASE losing = 0
  <2>1. held[0] < held[1] /\ held[2] < held[1] /\ held[3] < held[1] /\ held[1] > 0
    BY <1>1, <1>2, <1>4, <1>5, <1>6, <1>7, <1>8
  <2> QED BY <2>1, <1>3, <1>7, <1>8
<1>9. CASE losing = 1
  <2>1. held[1] < held[0] /\ held[2] < held[0] /\ held[3] < held[0] /\ held[0] > 0
    BY <1>1, <1>2, <1>4, <1>5, <1>6, <1>7, <1>9
  <2> QED BY <2>1, <1>3, <1>7, <1>9
<1> QED BY <1>3, <1>7, <1>8, <1>9

\* The team triggerWin announces is that other team.
LEMMA WinnerIsOther ==
  ASSUME IInv, NEW losing \in Losers
  PROVE  /\ FindWinningTeam(losing) \in PlayTeams
         /\ \A t \in Teams \ {FindWinningTeam(losing)} : held[t] < held[FindWinningTeam(losing)]
<1> DEFINE candidates == {t \in Teams : t # losing /\ held[t] > 0}
<1>1. PICK other \in PlayTeams \ {losing} :
        held[other] > 0 /\ \A t \in Teams \ {other} : held[t] < held[other]
  BY OtherTeamLeads
<1>2. losing \in Teams /\ held \in [Teams -> Nat]
  BY DEF Losers, IInv, TypeOK
<1>3. other \in candidates
  BY <1>1 DEF PlayTeams, Teams, FED, ROM
<1>4. Best(held, candidates, FindWinningTeam(losing))
  BY <1>2, <1>3, FindWinningTeamFinds
<1> HIDE DEF candidates
<1>5. FindWinningTeam(losing) \in candidates
      /\ Prefers(held, FindWinningTeam(losing), other)
  BY <1>3, <1>4 DEF Best
<1>6. FindWinningTeam(losing) \in Teams /\ other \in Teams
  BY <1>3, <1>5 DEF candidates
<1>7. FindWinningTeam(losing) = other
  BY <1>1, <1>2, <1>5, <1>6 DEF Prefers
<1> QED BY <1>1, <1>7

-----------------------------------------------------------------------------
(* The timers *)

\* The next value of a timer is within its range, and at least 1 for a team
\* that is in danger and has not lost.
LEMMA NextTimerRight ==
  ASSUME IInv, NEW t \in Teams
  PROVE  /\ NextTimer(t) \in 0 .. SurrenderTicks
         /\ crew[t] > 0 /\ ~Lost(t) /\ held[t] <= SurrenderAt => NextTimer(t) > 0
         /\ crew[t] > 0 /\ ~Lost(t) /\ held[t] >= SurrenderClear => NextTimer(t) = 0
<1>1. /\ held[t] \in Nat /\ crew[t] \in Nat /\ surrenderTimers[t] \in 0 .. SurrenderTicks
      /\ SurrenderTicks \in Nat \ {0}
      /\ SurrenderAt \in Nat /\ SurrenderClear \in Nat /\ SurrenderAt < SurrenderClear
  BY MatchAssumption DEF IInv, TypeOK
<1> QED BY <1>1 DEF NextTimer, Lost, Expiring

-----------------------------------------------------------------------------
(* The invariant *)

LEMMA InitInv == Init => IInv
<1> SUFFICES ASSUME Init PROVE IInv
  OBVIOUS
<1>1. TypeOK
  <2>1. SurrenderTicks \in Nat /\ WinPauseTicks \in Nat /\ MaxCrew \in Nat
        /\ StartHeld \in [Teams -> Nat]
    BY MatchAssumption
  <2>2. crew \in [Teams -> Nat]
    BY <2>1 DEF Init, Crews
  <2>3. surrenderTimers \in [Teams -> 0 .. SurrenderTicks] /\ winPause \in 0 .. WinPauseTicks
    BY <2>1 DEF Init
  <2>4. NoResult \in Results
    BY DEF NoResult, Results
  <2> QED BY <2>1, <2>2, <2>3, <2>4 DEF Init, TypeOK
<1>2. PlanetsConserved
  BY DEF Init, PlanetsConserved
<1>3. ThirdSpaceIdle
  <2>1. \A t \in ThirdSpace : crew[t] = 0
    BY DEF Init, Crews
  <2>2. \A t \in ThirdSpace : StartHeld[t] \in Nat
    BY MatchAssumption DEF ThirdSpace
  <2> QED BY <2>1, <2>2 DEF Init, ThirdSpaceIdle
<1>4. NoPlayAfterWin /\ TimersMatchDanger /\ WinnerLeads
  BY DEF Init, NoPlayAfterWin, TimersMatchDanger, WinnerLeads, NoResult
<1> QED BY <1>1, <1>2, <1>3, <1>4 DEF IInv

\* A change of the crew, with everything else as it was, keeps the invariant
\* if the third space stays empty.
LEMMA CrewChange ==
  ASSUME IInv, crew' \in [Teams -> Nat], \A t \in ThirdSpace : crew'[t] = 0,
         UNCHANGED <<held, phase, judgement>>
  PROVE  IInv'
BY DEF IInv, TypeOK, PlanetsConserved, ThirdSpaceIdle, NoPlayAfterWin, TimersMatchDanger,
       WinnerLeads, judgement, Total

LEMMA JoinLeaveKeep ==
  ASSUME IInv, NEW t \in PlayTeams, Join(t) \/ Leave(t)
  PROVE  IInv'
<1>1. crew \in [Teams -> Nat] /\ t \in Teams /\ t \notin ThirdSpace /\ MaxCrew \in Nat
  BY MatchAssumption DEF IInv, TypeOK, PlayTeams, Teams, ThirdSpace, FED, ROM
<1>2. crew' \in [Teams -> Nat] /\ UNCHANGED <<held, phase, judgement>>
  BY <1>1 DEF Join, Leave
<1>3. \A u \in ThirdSpace : crew[u] = 0 /\ u \in Teams
  BY DEF IInv, ThirdSpaceIdle, ThirdSpace
<1>4. \A u \in ThirdSpace : crew'[u] = 0
  BY <1>1, <1>3 DEF Join, Leave
<1> QED BY <1>2, <1>4, CrewChange

LEMMA StartTickKeeps == ASSUME IInv, StartTick PROVE IInv'
BY DEF IInv, StartTick, TypeOK, PlanetsConserved, ThirdSpaceIdle, NoPlayAfterWin,
       TimersMatchDanger, WinnerLeads, judgement, Total

\* A capture moves one planet, to a playing team.
LEMMA CaptureMoves ==
  ASSUME NEW h \in [Teams -> Nat], NEW t \in Teams, NEW from \in Teams, h[from] > 0,
         NEW g \in [Teams -> Int], g[t] = h[t] + 1, g[from] = h[from] - 1,
         \A u \in Teams \ {t, from} : g[u] = h[u]
  PROVE  /\ g \in [Teams -> Nat]
         /\ Total(g) = Total(h)
         /\ \A u \in Teams \ {t} : g[u] <= h[u]
<1>1. \A u \in Teams : h[u] \in Nat /\ g[u] \in Nat
  OBVIOUS
<1>2. g \in [Teams -> Nat]
  BY <1>1
<1>3. \A u \in Teams \ {t} : g[u] <= h[u]
  BY <1>1
<1>4. Total(g) = Total(h)
  BY <1>1 DEF Total, Teams
<1> QED BY <1>2, <1>3, <1>4

LEMMA CaptureKeeps ==
  ASSUME IInv, NEW t \in PlayTeams, NEW from \in Teams, Capture(t, from)
  PROVE  IInv'
<1>1. held \in [Teams -> Nat] /\ t \in Teams /\ t \notin ThirdSpace /\ held[from] > 0 /\ t # from
  BY DEF IInv, TypeOK, PlayTeams, Teams, ThirdSpace, FED, ROM, Capture
<1>2. /\ held' \in [Teams -> Nat] /\ Total(held') = Total(held)
      /\ \A u \in Teams \ {t} : held'[u] <= held[u]
  <2>1. held' = [held EXCEPT ![t] = @ + 1, ![from] = @ - 1]
    BY DEF Capture
  <2>2. /\ held' \in [Teams -> Int]
        /\ held'[t] = held[t] + 1 /\ held'[from] = held[from] - 1
        /\ \A u \in Teams \ {t, from} : held'[u] = held[u]
    BY <1>1, <2>1
  <2> HIDE DEF Total
  <2> QED BY <1>1, <2>2, CaptureMoves
<1>3. phase = "playing" /\ UNCHANGED <<crew, phase, tmode, surrenderTimers, winPause, result>>
  BY DEF Capture, judgement
<1>4. TypeOK'
  BY <1>2, <1>3 DEF IInv, TypeOK
<1>5. PlanetsConserved'
  BY <1>2 DEF IInv, PlanetsConserved, Total
<1>6. ThirdSpaceIdle'
  <2> SUFFICES ASSUME NEW u \in ThirdSpace
               PROVE  crew'[u] = 0 /\ held'[u] <= StartHeld[u]
    BY DEF ThirdSpaceIdle
  <2>1. /\ u \in Teams \ {t} /\ held[u] \in Nat /\ held'[u] \in Nat /\ StartHeld[u] \in Nat
        /\ held[u] <= StartHeld[u] /\ crew[u] = 0
    BY <1>1, <1>2, MatchAssumption DEF ThirdSpace, IInv, ThirdSpaceIdle
  <2> QED BY <1>2, <1>3, <2>1
<1>7. NoPlayAfterWin' /\ TimersMatchDanger' /\ WinnerLeads'
  <2>1. winPause = 0 /\ result = NoResult
    BY <1>3 DEF IInv, NoPlayAfterWin, WinnerLeads
  <2> QED BY <1>3, <2>1 DEF NoPlayAfterWin, TimersMatchDanger, WinnerLeads
<1> QED BY <1>4, <1>5, <1>6, <1>7 DEF IInv

\* What Judge leaves alone keeps the parts of the invariant about the galaxy.
LEMMA JudgeFrame ==
  ASSUME IInv, Judge
  PROVE  /\ PlanetsConserved' /\ ThirdSpaceIdle' /\ NoPlayAfterWin'
         /\ held' = held /\ crew' = crew /\ tmode' = EnoughPlayers /\ phase' = "between"
         /\ winPause = 0 /\ result = NoResult
BY DEF IInv, Judge, PlanetsConserved, ThirdSpaceIdle, NoPlayAfterWin, WinnerLeads, Total

LEMMA TriggerWinKeeps ==
  ASSUME IInv, Judge, NEW losing \in Losers, TriggerWin(losing)
  PROVE  IInv'
<1> DEFINE winner == FindWinningTeam(losing)
<1>1. losing \in PlayTeams /\ winner \in PlayTeams
  BY OtherTeamLeads, WinnerIsOther
<1>2. \A t \in Teams \ {winner} : held[t] < held[winner]
  BY WinnerIsOther
<1>3. /\ result'.winner = winner /\ result'.loser = losing
      /\ result' \in Results
  BY <1>1 DEF TriggerWin, Results, PlayTeams, Teams, FED, ROM
<1>4. winPause' = WinPauseTicks /\ WinPauseTicks \in Nat \ {0}
  BY MatchAssumption DEF TriggerWin
<1>5. surrenderTimers' \in [Teams -> 0 .. SurrenderTicks]
  <2>1. \A t \in Teams : NextTimer(t) \in 0 .. SurrenderTicks
                         /\ surrenderTimers[t] \in 0 .. SurrenderTicks
    BY NextTimerRight DEF IInv, TypeOK
  <2> QED BY <2>1 DEF TriggerWin
<1>6. result' # NoResult
  BY <1>1, <1>3 DEF NoResult, PlayTeams, FED, ROM
<1>7. TypeOK'
  <2>1. tmode' \in BOOLEAN
    BY JudgeFrame DEF EnoughPlayers
  <2>2. winPause' \in 0 .. WinPauseTicks
    BY <1>4
  <2> QED BY <2>1, <2>2, <1>3, <1>5, JudgeFrame DEF IInv, TypeOK
<1>8. TimersMatchDanger'
  BY <1>6 DEF TimersMatchDanger
<1>9. WinnerLeads'
  BY <1>1, <1>2, <1>3, <1>4, <1>6, JudgeFrame DEF WinnerLeads
<1> QED BY <1>7, <1>8, <1>9, JudgeFrame DEF IInv

LEMMA OpenTickKeeps ==
  ASSUME IInv, Judge, UNCHANGED <<winPause, result>>,
         \/ ~tmode' /\ UNCHANGED surrenderTimers
         \/ tmode' /\ Losers = {} /\ surrenderTimers' = [t \in Teams |-> NextTimer(t)]
  PROVE  IInv'
<1>1. surrenderTimers' \in [Teams -> 0 .. SurrenderTicks]
  <2>1. \A t \in Teams : NextTimer(t) \in 0 .. SurrenderTicks
    BY NextTimerRight
  <2> QED BY <2>1 DEF IInv, TypeOK
<1>2. TypeOK'
  <2>1. tmode' \in BOOLEAN
    BY JudgeFrame DEF EnoughPlayers
  <2> QED BY <2>1, <1>1, JudgeFrame DEF IInv, TypeOK
<1>3. WinnerLeads'
  BY JudgeFrame DEF IInv, WinnerLeads
<1>4. TimersMatchDanger'
  <2> SUFFICES ASSUME tmode', NEW t \in PlayTeams
               PROVE  /\ held[t] > 0
                      /\ held[t] <= SurrenderAt => surrenderTimers'[t] > 0
                      /\ held[t] >= SurrenderClear => surrenderTimers'[t] = 0
    BY JudgeFrame DEF TimersMatchDanger
  <2>1. t \in Teams /\ held[t] \in Nat /\ crew[t] \in Nat
    BY DEF PlayTeams, Teams, FED, ROM, IInv, TypeOK
  <2>2. crew[t] > 0
    <3>1. EnoughPlayers /\ TModeMin \in Nat \ {0}
      BY JudgeFrame, MatchAssumption
    <3> QED BY <3>1, <2>1 DEF EnoughPlayers
  <2>3. ~Lost(t)
    BY <2>1 DEF Losers
  <2>4. held[t] > 0
    BY <2>1, <2>2, <2>3 DEF Lost
  <2>5. surrenderTimers'[t] = NextTimer(t)
    BY <2>1
  <2> QED BY <2>1, <2>2, <2>3, <2>4, <2>5, NextTimerRight
<1> QED BY <1>2, <1>3, <1>4, JudgeFrame DEF IInv

LEMMA JudgeKeeps == ASSUME IInv, Judge PROVE IInv'
<1>1. CASE ~tmode'
  <2>1. UNCHANGED <<surrenderTimers, winPause, result>>
    BY <1>1 DEF Judge, CheckWinCondition
  <2> QED BY <2>1, <1>1, OpenTickKeeps
<1>2. CASE tmode'
  <2>1. \/ \E t \in Losers : TriggerWin(t)
        \/ /\ Losers = {}
           /\ surrenderTimers' = [t \in Teams |-> NextTimer(t)]
           /\ UNCHANGED <<winPause, result>>
    BY <1>2 DEF Judge, CheckWinCondition
  <2>2. CASE \E t \in Losers : TriggerWin(t)
    BY <2>2, TriggerWinKeeps
  <2>3. CASE /\ Losers = {}
             /\ surrenderTimers' = [t \in Teams |-> NextTimer(t)]
             /\ UNCHANGED <<winPause, result>>
    BY <2>3, <1>2, OpenTickKeeps
  <2> QED BY <2>1, <2>2, <2>3
<1> QED BY <1>1, <1>2

LEMMA PauseTickKeeps == ASSUME IInv, PauseTick PROVE IInv'
<1>1. /\ winPause \in 0 .. WinPauseTicks /\ WinPauseTicks \in Nat
      /\ winPause > 1 /\ winPause' = winPause - 1
      /\ UNCHANGED <<held, crew, phase, tmode, surrenderTimers, result>>
  BY MatchAssumption DEF IInv, TypeOK, PauseTick
<1>2. result # NoResult /\ winPause' > 0 /\ winPause' \in 0 .. WinPauseTicks
  BY <1>1 DEF IInv, WinnerLeads
<1>3. TypeOK' /\ PlanetsConserved' /\ ThirdSpaceIdle' /\ NoPlayAfterWin'
  BY <1>1, <1>2 DEF IInv, TypeOK, PlanetsConserved, ThirdSpaceIdle, NoPlayAfterWin, Total, PauseTick
<1>4. TimersMatchDanger' /\ WinnerLeads'
  BY <1>1, <1>2 DEF IInv, TimersMatchDanger, WinnerLeads
<1> QED BY <1>3, <1>4 DEF IInv

LEMMA ResetTickKeeps == ASSUME IInv, ResetTick PROVE IInv'
<1>1. /\ winPause' = 0 /\ held' = StartHeld /\ crew' \in Crews /\ tmode' = FALSE
      /\ surrenderTimers' = [t \in Teams |-> 0] /\ result' = NoResult
      /\ phase = "between" /\ phase' = phase
  BY DEF ResetTick
<1>2. /\ StartHeld \in [Teams -> Nat] /\ SurrenderTicks \in Nat \ {0}
      /\ WinPauseTicks \in Nat \ {0} /\ MaxCrew \in Nat
  BY MatchAssumption
<1>3. TypeOK'
  <2>1. crew' \in [Teams -> Nat]
    BY <1>1, <1>2 DEF Crews
  <2>2. surrenderTimers' \in [Teams -> 0 .. SurrenderTicks] /\ winPause' \in 0 .. WinPauseTicks
    BY <1>1, <1>2
  <2>3. NoResult \in Results
    BY DEF NoResult, Results
  <2> QED BY <1>1, <1>2, <2>1, <2>2, <2>3 DEF TypeOK
<1>4. PlanetsConserved'
  BY <1>1 DEF PlanetsConserved
<1>5. ThirdSpaceIdle'
  <2>1. \A t \in ThirdSpace : crew'[t] = 0 /\ StartHeld[t] \in Nat
    BY <1>1, <1>2 DEF Crews, ThirdSpace
  <2> QED BY <2>1, <1>1 DEF ThirdSpaceIdle
<1>6. NoPlayAfterWin' /\ TimersMatchDanger' /\ WinnerLeads'
  BY <1>1 DEF NoPlayAfterWin, TimersMatchDanger, WinnerLeads
<1> QED BY <1>3, <1>4, <1>5, <1>6 DEF IInv

LEMMA NextKeeps == IInv /\ [Next]_vars => IInv'
<1> SUFFICES ASSUME IInv, [Next]_vars PROVE IInv'
  OBVIOUS
<1>1. ASSUME NEW t \in PlayTeams, Join(t) \/ Leave(t) PROVE IInv'
  BY <1>1, JoinLeaveKeep
<1>2. ASSUME NEW t \in PlayTeams, NEW from \in Teams, Capture(t, from) PROVE IInv'
  BY <1>2, CaptureKeeps
<1>3. CASE Tick
  BY <1>3, StartTickKeeps, JudgeKeeps, PauseTickKeeps, ResetTickKeeps DEF Tick
<1>4. CASE UNCHANGED vars
  BY <1>4 DEF vars, IInv, TypeOK, PlanetsConserved, ThirdSpaceIdle, NoPlayAfterWin,
              TimersMatchDanger, WinnerLeads, Total
<1> QED BY <1>1, <1>2, <1>3, <1>4 DEF Next

LEMMA Invariance == Spec => []IInv
<1>1. Init => IInv
  BY InitInv
<1>2. IInv /\ [Next]_vars => IInv'
  BY NextKeeps
<1> QED BY <1>1, <1>2, PTL DEF Spec

-----------------------------------------------------------------------------
(* The results *)

\* Every reachable state of a match is well typed; above all the winner that
\* findWinningTeam chooses is a team.
THEOREM TypeCorrect == Spec => []TypeOK
<1>1. IInv => TypeOK
  BY DEF IInv
<1> QED BY <1>1, Invariance, PTL

\* The surrender timers of checkWinCondition are right for any thresholds and
\* any length of the countdown.
THEOREM TimersRight == Spec => []TimersMatchDanger
<1>1. IInv => TimersMatchDanger
  BY DEF IInv
<1> QED BY <1>1, Invariance, PTL

\* The winner triggerWin announces leads the galaxy, for any galaxy the
\* assumption admits.
THEOREM WinnerRight == Spec => []WinnerLeads
<1>1. IInv => WinnerLeads
  BY DEF IInv
<1> QED BY <1>1, Invariance, PTL

\* Timers, verdict and pause together.
THEOREM JudgementRight == Spec => []JudgedRightly
<1>1. IInv => JudgedRightly
  BY DEF IInv, JudgedRightly
<1> QED BY <1>1, Invariance, PTL
=============================================================================
