------------------------------ MODULE Conquest ------------------------------
(***************************************************************************)
(* The war for the planets: orbits, bombing, beaming of armies, growth and *)
(* plague, and the refits that meet a ship while it beams.                 *)
(*                                                                         *)
(* A tick is modelled as GameLoopService.tick runs it: commands slot by    *)
(* slot, then the growth of the planets, then updateBombing and            *)
(* updateBeaming ship by ship, each iteration a step, and the rest in      *)
(* FinishTick.  T-mode, timers and the win are those of Match.             *)
(*                                                                         *)
(* Positions and speeds are not kept, and the interval between two rolls   *)
(* or two transfers is a choice: a ship at work may do nothing in a tick.  *)
(* Shields are left out: they are down while a ship works, because raising *)
(* them ends the work in the same command.  No planet of PLANET_DEFS is    *)
(* neutral, and none becomes so.                                           *)
(***************************************************************************)
EXTENDS Integers, FiniteSets

CONSTANTS
  NumSlots,      \* MAX_PLAYERS
  Planets,
  StartTeam, StartArmies,   \* PLANET_DEFS
  Homeworld,     \* playing team -> its homeworld
  Starbases,     \* TRUE if ships may be docked at a friendly starbase
  ShipTypes,
  MaxArmies, ArmiesPerKill, \* SHIP_STATS
  BombMin,       \* BOMB_MIN_ARMIES
  BeamMin,       \* BEAM_MIN_ARMIES
  RefitTicks,    \* REFIT_TICKS
  TModeMin, SurrenderAt, SurrenderClear, SurrenderTicks, WinPauseTicks,
  RefitSlots,    \* bound: slots whose players may ask for a refit
  ArmyCap,       \* bound: armies a planet can hold
  KillCap,       \* bound: kills of a ship, counted whole
  None           \* no planet in orbitPlanetId, no type in refitShipType

Slots == 0 .. NumSlots - 1
Teams == 0 .. 3
PlayTeams == {0, 1}

ASSUME ConquestAssumption ==
  /\ NumSlots \in Nat \ {0} /\ IsFiniteSet(Planets)
  /\ StartTeam \in [Planets -> Teams] /\ StartArmies \in [Planets -> Nat]
  /\ Homeworld \in [PlayTeams -> Planets] /\ Starbases \in BOOLEAN
  /\ MaxArmies \in [ShipTypes -> Nat] /\ ArmiesPerKill \in [ShipTypes -> Nat]
  /\ BombMin \in Nat \ {0} /\ BeamMin \in Nat \ {0} /\ RefitTicks \in Nat \ {0}
  /\ TModeMin \in Nat \ {0}
  /\ SurrenderAt \in Nat /\ SurrenderClear \in Nat
  /\ SurrenderTicks \in Nat \ {0} /\ WinPauseTicks \in Nat \ {0}
  /\ ArmyCap \in Nat /\ KillCap \in Nat
  /\ None \notin Planets /\ None \notin ShipTypes

StartHeld == [t \in Teams |-> Cardinality({p \in Planets : StartTeam[p] = t})]

\* What Match assumes of the galaxy and the thresholds.
ASSUME GalaxyAssumption ==
  /\ SurrenderAt < SurrenderClear
  /\ \A t \in Teams \ PlayTeams : StartHeld[t] + SurrenderAt < StartHeld[0] + StartHeld[1]
  /\ 2 * SurrenderAt < StartHeld[0] + StartHeld[1]

VARIABLES
  ships, planets,
  phase,   \* "idle" between two ticks; then "inputs", "bombing", "beaming", "end"
  turn,    \* the slot that phase is at
  tmode, surrenderTimers, winPause, result

world == <<ships, planets>>
clock == <<phase, turn>>
judgement == <<tmode, surrenderTimers, winPause, result>>
vars == <<world, clock, judgement>>

\* EMPTY is a slot without playerId; DEAD stands for EXPLODING as well.
\* What a ship that is not ALIVE carries and does is never read before
\* initShip resets it, so the model resets it at once.
Ship == [status: {"ALIVE", "DEAD", "EMPTY"}, team: PlayTeams, type: ShipTypes,
         orbit: Planets \cup {None}, bombing: BOOLEAN, beaming: {"no", "up", "down"},
         armies: Nat, kills: Nat, refit: 0 .. RefitTicks, refitTo: ShipTypes \cup {None}]
Planet == [team: Teams, armies: Nat]

Crew == [t \in Teams |-> Cardinality({s \in Slots : ships[s].status # "EMPTY" /\ ships[s].team = t})]
Held == [t \in Teams |-> Cardinality({p \in Planets : planets[p].team = t})]

M == INSTANCE Match
       WITH held <- Held, crew <- Crew, MaxCrew <- NumSlots,
            phase <- IF phase = "idle" THEN "between" ELSE "playing"

TypeOK ==
  /\ ships \in [Slots -> Ship]
  /\ planets \in [Planets -> Planet]
  /\ phase \in {"idle", "inputs", "bombing", "beaming", "end"}
  /\ turn \in Slots
  /\ tmode \in BOOLEAN
  /\ surrenderTimers \in [Teams -> 0 .. SurrenderTicks]
  /\ winPause \in 0 .. WinPauseTicks
  /\ result \in M!Results

\* initShip
NewShip(t, type) ==
  [status |-> "ALIVE", team |-> t, type |-> type, orbit |-> None, bombing |-> FALSE,
   beaming |-> "no", armies |-> 0, kills |-> 0, refit |-> 0, refitTo |-> None]

Gone(ship, status) == [NewShip(ship.team, CHOOSE type \in ShipTypes : TRUE) EXCEPT !.status = status]

NewGalaxy == [p \in Planets |-> [team |-> StartTeam[p], armies |-> StartArmies[p]]]

Init ==
  /\ \E t \in [Slots -> PlayTeams], type \in ShipTypes :
       ships = [s \in Slots |-> NewShip(t[s], type)]
  /\ planets = NewGalaxy
  /\ phase = "idle" /\ turn = 0
  /\ tmode = FALSE /\ surrenderTimers = [t \in Teams |-> 0]
  /\ winPause = 0 /\ result = M!NoResult

-----------------------------------------------------------------------------
(* Between two ticks *)

Join(s, t, type) ==
  /\ phase = "idle" /\ ships[s].status = "EMPTY"
  /\ ships' = [ships EXCEPT ![s] = NewShip(t, type)]
  /\ UNCHANGED <<planets, clock, judgement>>

Leave(s) ==
  /\ phase = "idle" /\ ships[s].status # "EMPTY"
  /\ ships' = [ships EXCEPT ![s] = Gone(@, "EMPTY")]
  /\ UNCHANGED <<planets, clock, judgement>>

Respawn(s, type) ==
  /\ phase = "idle" /\ ships[s].status # "EMPTY"
  /\ ships' = [ships EXCEPT ![s] = NewShip(ships[s].team, type)]
  /\ UNCHANGED <<planets, clock, judgement>>

-----------------------------------------------------------------------------
(* processInputs *)

StartTick ==
  /\ phase = "idle" /\ winPause = 0
  /\ phase' = "inputs" /\ turn' = 0
  /\ UNCHANGED <<world, judgement>>

Alive(s) == ships[s].status = "ALIVE"
InOrbit(s) == ships[s].orbit # None
Below(s) == planets[ships[s].orbit]   \* the planet a ship orbits

\* armyCapacity
Capacity(type, kills) ==
  IF ArmiesPerKill[type] = 0 \/ kills * ArmiesPerKill[type] > MaxArmies[type]
  THEN MaxArmies[type] ELSE kills * ArmiesPerKill[type]

\* A command of slot s leaves its ship as given.  Whether the ship refits is
\* tested once for all its inputs of a tick: those that follow a REFIT are obeyed
\* as well, and only then is a refit at RefitTicks.
Command(s, ship) ==
  /\ phase = "inputs" /\ turn = s /\ Alive(s) /\ ships[s].refit \in {0, RefitTicks}
  /\ ships' = [ships EXCEPT ![s] = ship]
  /\ UNCHANGED <<planets, clock, judgement>>

\* ORBIT, or a planet lock that reached its planet: that happens to a ship
\* that refits at a starbase, too.
EnterOrbit(s, p) ==
  /\ phase = "inputs" /\ turn = s /\ Alive(s) /\ ~InOrbit(s)
  /\ ships' = [ships EXCEPT ![s].orbit = p]
  /\ UNCHANGED <<planets, clock, judgement>>

\* SET_DIRECTION, SET_SPEED and LOCK break the orbit; SHIELD_TOGGLE ends the work.
StopWork(ship) == [ship EXCEPT !.bombing = FALSE, !.beaming = "no"]
BreakOrbit(s) == InOrbit(s) /\ Command(s, [StopWork(ships[s]) EXCEPT !.orbit = None])
RaiseShields(s) == Command(s, StopWork(ships[s]))

\* BOMB
TryBomb(s) ==
  \/ ships[s].bombing /\ Command(s, [ships[s] EXCEPT !.bombing = FALSE])
  \/ /\ ~ships[s].bombing /\ tmode /\ InOrbit(s)
     /\ Below(s).team # ships[s].team /\ Below(s).armies >= BombMin
     /\ Command(s, [ships[s] EXCEPT !.bombing = TRUE, !.beaming = "no"])

\* BEAM_UP
TryBeamUp(s) ==
  \/ ships[s].beaming = "up" /\ Command(s, [ships[s] EXCEPT !.beaming = "no"])
  \/ /\ ships[s].beaming # "up" /\ tmode /\ InOrbit(s)
     /\ Below(s).team = ships[s].team /\ Below(s).armies >= BeamMin
     /\ ships[s].armies < Capacity(ships[s].type, ships[s].kills)
     /\ Command(s, [ships[s] EXCEPT !.beaming = "up", !.bombing = FALSE])

\* BEAM_DOWN; a starbase is turned away from planets of others.
TryBeamDown(s) ==
  \/ ships[s].beaming = "down" /\ Command(s, [ships[s] EXCEPT !.beaming = "no"])
  \/ /\ ships[s].beaming # "down" /\ tmode /\ InOrbit(s) /\ ships[s].armies > 0
     /\ ships[s].type = "SB" => Below(s).team = ships[s].team
     /\ Command(s, [ships[s] EXCEPT !.beaming = "down", !.bombing = FALSE])

\* REFIT at the homeworld or docked; what the ship is doing goes on.
TryRefit(s, type) ==
  /\ ships[s].refit = 0 /\ ships[s].armies = 0
  /\ ships[s].orbit = Homeworld[ships[s].team] \/ Starbases
  /\ Command(s, [ships[s] EXCEPT !.refit = RefitTicks, !.refitTo = type])

\* The next slot of a loop over the slots, or the next phase.
Advance(next) ==
  IF turn < NumSlots - 1 THEN turn' = turn + 1 /\ UNCHANGED phase
  ELSE turn' = 0 /\ phase' = next

NextSlot ==
  /\ phase = "inputs" /\ turn < NumSlots - 1
  /\ turn' = turn + 1
  /\ UNCHANGED <<phase, world, judgement>>

-----------------------------------------------------------------------------
(* updatePlanets, updateBombing, updateBeaming *)

\* Armies grow; a plague takes some but leaves one, and takes none from a
\* planet that has none: it ends with one.
Grown(armies) == {armies} \cup 1 .. ArmyCap

UpdatePlanets ==
  /\ phase = "inputs" /\ turn = NumSlots - 1
  /\ turn' = 0 /\ phase' = "bombing"
  /\ \E growth \in [Planets -> 0 .. ArmyCap] :
       /\ \A p \in Planets : growth[p] \in Grown(planets[p].armies)
       /\ planets' = [p \in Planets |-> [planets[p] EXCEPT !.armies = growth[p]]]
  /\ UNCHANGED <<ships, judgement>>

MayBomb(s) == InOrbit(s) /\ tmode /\ Below(s).team # ships[s].team /\ Below(s).armies >= BombMin

\* What a roll may leave: it destroys nothing below BombMin - 1.
Bombed(armies) == BombMin - 1 .. armies

UpdateBombing ==
  LET s == turn
  IN  /\ phase = "bombing"
      /\ Advance("beaming")
      /\ IF ~Alive(s) \/ ~ships[s].bombing THEN UNCHANGED world
         ELSE IF ~MayBomb(s)
         THEN ships' = [ships EXCEPT ![s].bombing = FALSE] /\ UNCHANGED planets
         ELSE /\ \E left \in Bombed(Below(s).armies) :
                   planets' = [planets EXCEPT ![ships[s].orbit].armies = left]
              /\ UNCHANGED ships
      /\ UNCHANGED judgement

\* Fault: a ship that beams up is not stopped when it is full.
MayBeamUpFull(s) == Below(s).team = ships[s].team /\ Below(s).armies >= BeamMin

\* One army up from a planet of the own team, if the ship has room for it.
MayBeamUp(s) ==
  /\ Below(s).team = ships[s].team /\ Below(s).armies >= BeamMin
  /\ ships[s].armies < Capacity(ships[s].type, ships[s].kills)

MayBeamDown(s) ==
  /\ ships[s].armies > 0
  /\ ships[s].type = "SB" => Below(s).team = ships[s].team

StopBeaming(s) == ships' = [ships EXCEPT ![s].beaming = "no"] /\ UNCHANGED planets

BeamUp(s) ==
  /\ planets' = [planets EXCEPT ![ships[s].orbit].armies = @ - 1]
  /\ ships' = [ships EXCEPT ![s].armies = @ + 1]

\* Fault: a planet is not taken while its garrison is not below zero.
LandedLate(planet, t) ==
  IF planet.team = t THEN [planet EXCEPT !.armies = @ + 1]
  ELSE IF planet.armies >= 0 THEN [planet EXCEPT !.armies = @ - 1]
  ELSE [team |-> t, armies |-> 1]

\* The army reinforces a planet of its team, dies with one of the garrison,
\* or takes a planet that has none.
Landed(planet, t) ==
  IF planet.team = t THEN [planet EXCEPT !.armies = @ + 1]
  ELSE IF planet.armies > 0 THEN [planet EXCEPT !.armies = @ - 1]
  ELSE [team |-> t, armies |-> 1]

BeamDown(s) ==
  /\ planets' = [planets EXCEPT ![ships[s].orbit] = Landed(@, ships[s].team)]
  /\ ships' = [ships EXCEPT ![s].armies = @ - 1,
                            ![s].beaming = IF ships[s].armies = 1 THEN "no" ELSE @]

UpdateBeaming ==
  LET s == turn
  IN  /\ phase = "beaming"
      /\ Advance("end")
      /\ IF ~Alive(s) \/ ships[s].beaming = "no" THEN UNCHANGED world
         ELSE IF ~InOrbit(s) \/ ~tmode THEN StopBeaming(s)
         ELSE \/ UNCHANGED world
              \/ ships[s].beaming = "up" /\ IF MayBeamUp(s) THEN BeamUp(s) ELSE StopBeaming(s)
              \/ /\ ships[s].beaming = "down"
                 /\ IF MayBeamDown(s)
                    THEN Below(s).team = ships[s].team => Below(s).armies < ArmyCap
                    ELSE TRUE
                 /\ IF MayBeamDown(s) THEN BeamDown(s) ELSE StopBeaming(s)
      /\ UNCHANGED judgement

-----------------------------------------------------------------------------
(* updateTractorPressor, updateRefitting, checkDeaths, then updateTMode and *)
(* checkWinCondition                                                        *)

Refitted(ship) ==
  IF ship.refit = 0 THEN ship
  ELSE IF ship.refit > 1 THEN [ship EXCEPT !.refit = @ - 1]
  ELSE [ship EXCEPT !.refit = 0, !.type = ship.refitTo, !.refitTo = None]

\* A ship at the end of the tick: pulled out of its orbit, refitted, destroyed
\* or credited with kills, and stopped when T-mode has just ended.
Survivor(ship, pulled, earned) ==
  LET moved == Refitted(IF pulled THEN [StopWork(ship) EXCEPT !.orbit = None] ELSE ship)
  IN  [moved EXCEPT !.kills = IF @ + earned > KillCap THEN KillCap ELSE @ + earned]

FinishTick ==
  /\ phase = "end"
  /\ phase' = "idle" /\ turn' = 0
  /\ \E killed \in SUBSET Slots :
     \E pulled \in SUBSET (Slots \ killed) : \E lucky \in SUBSET (Slots \ killed) :
       ships' = [s \in Slots |->
         IF ~Alive(s) THEN ships[s]
         ELSE IF s \in killed THEN Gone(ships[s], "DEAD")
         ELSE LET survivor == Survivor(ships[s], s \in pulled, IF s \in lucky THEN 1 ELSE 0)
              IN  IF tmode /\ ~M!EnoughPlayers THEN StopWork(survivor) ELSE survivor]
  /\ UNCHANGED planets
  /\ tmode' = M!EnoughPlayers
  /\ M!CheckWinCondition

-----------------------------------------------------------------------------
(* The pause after a win *)

PauseTick ==
  /\ phase = "idle" /\ winPause > 1
  /\ winPause' = winPause - 1
  /\ UNCHANGED <<world, clock, tmode, surrenderTimers, result>>

\* Fault: the planets stay with those who hold them.
ResetTickKeepsPlanets ==
  /\ phase = "idle" /\ winPause = 1
  /\ winPause' = 0
  /\ \E t \in [Slots -> PlayTeams], type \in ShipTypes, bots, players \in SUBSET Slots :
       ships' = [s \in Slots |->
         IF s \in bots THEN NewShip(t[s], type)
         ELSE Gone(ships[s], IF s \in players THEN "DEAD" ELSE "EMPTY")]
  /\ tmode' = FALSE /\ surrenderTimers' = [t \in Teams |-> 0] /\ result' = M!NoResult
  /\ UNCHANGED <<planets, clock>>

\* resetGame: a new galaxy; bots get new ships, players wait for their respawn.
ResetTick ==
  /\ phase = "idle" /\ winPause = 1
  /\ winPause' = 0
  /\ \E t \in [Slots -> PlayTeams], type \in ShipTypes, bots, players \in SUBSET Slots :
       ships' = [s \in Slots |->
         IF s \in bots THEN NewShip(t[s], type)
         ELSE Gone(ships[s], IF s \in players THEN "DEAD" ELSE "EMPTY")]
  /\ planets' = NewGalaxy
  /\ tmode' = FALSE /\ surrenderTimers' = [t \in Teams |-> 0] /\ result' = M!NoResult
  /\ UNCHANGED clock

-----------------------------------------------------------------------------
Input(s) ==
  \/ \E p \in Planets : EnterOrbit(s, p)
  \/ BreakOrbit(s) \/ RaiseShields(s)
  \/ TryBomb(s) \/ TryBeamUp(s) \/ TryBeamDown(s)
  \/ s \in RefitSlots /\ \E type \in ShipTypes : TryRefit(s, type)

Handler ==
  \E s \in Slots : \/ \E t \in PlayTeams, type \in ShipTypes : Join(s, t, type)
                   \/ Leave(s)
                   \/ \E type \in ShipTypes : Respawn(s, type)

Tick ==
  \/ StartTick \/ (\E s \in Slots : Input(s)) \/ NextSlot
  \/ UpdatePlanets \/ UpdateBombing \/ UpdateBeaming \/ FinishTick
  \/ PauseTick \/ ResetTick

Next == Handler \/ Tick

Spec == Init /\ [][Next]_vars
-----------------------------------------------------------------------------
(* Properties *)

\* Conquest implements Match: a planet changes hands only inside a tick, in
\* T-mode, to a team that has players; the tick, the pause and the reset are
\* Match's.
ImplementsMatch == M!Spec

\* A ship that bombs or beams is alive, in orbit and in T-mode and does one of
\* the two, whatever took it out of its orbit or ended T-mode meanwhile: the
\* work is ended by many different handlers, and none may forget it.
WorkIsLegal ==
  \A s \in Slots :
    ships[s].bombing \/ ships[s].beaming # "no" =>
      /\ Alive(s) /\ InOrbit(s)
      /\ ~(ships[s].bombing /\ ships[s].beaming # "no")
      /\ tmode

\* Ships come to carry more than their capacity only when a refit completes.
CarriesWithinCapacity(S, s) == S[s].armies <= Capacity(S[s].type, S[s].kills)
OverloadOnlyByRefit ==
  [][\A s \in Slots :
       CarriesWithinCapacity(ships, s) /\ ~CarriesWithinCapacity(ships', s)
         => ships[s].refit = 1 /\ ships'[s].refit = 0 /\ phase = "end"]_vars

\* Ships work and carry as the rules allow, with that one exception.
ShipsWorkByTheRules == []WorkIsLegal /\ OverloadOnlyByRefit
=============================================================================
