-------------------------------- MODULE Helm --------------------------------
(***************************************************************************)
(* The systems of one ship: what a command does to it (processInputs and   *)
(* the handlers it calls) and what each tick does to it afterwards, from   *)
(* updateMovement to updateFuel, in the order of tick.                     *)
(*                                                                         *)
(* Of the speed only this is kept: whether it is above ORBIT_MAX_SPEED.    *)
(* Fuel comes in coarse units, so a cost may or may not reach the next     *)
(* one, but 0 is an empty tank.  Heat, positions and other ships are       *)
(* choices: an operator that depends on them yields the set of what the    *)
(* ship can be afterwards.                                                 *)
(***************************************************************************)
EXTENDS Integers

CONSTANTS
  MaxWarp,       \* maxSpeed of the ship's type
  OrbitMaxWarp,  \* ORBIT_MAX_SPEED
  MaxFuel,
  UncloakTicks   \* UNCLOAK_TICKS

ASSUME HelmAssumption ==
  /\ MaxWarp \in Nat \ {0} /\ OrbitMaxWarp \in Nat \ {0}
  /\ MaxFuel \in Nat \ {0} /\ UncloakTicks \in Nat \ {0}

\* orbit: whose planet the ship orbits; burnout: engineBurnoutTicks > 0; jammed:
\* weaponBurnoutTicks > 0
Ship == [alive: BOOLEAN, shields: BOOLEAN, repair: BOOLEAN, cloaked: BOOLEAN,
         uncloak: 0 .. UncloakTicks, orbit: {"none", "own", "enemy"}, bombing: BOOLEAN,
         beaming: 0 .. 2, tractor: BOOLEAN, pressor: BOOLEAN, desired: 0 .. MaxWarp,
         fast: BOOLEAN, burnout: BOOLEAN, jammed: BOOLEAN, fuel: 0 .. MaxFuel]

\* initShip
NewShip ==
  [alive |-> TRUE, shields |-> TRUE, repair |-> FALSE, cloaked |-> FALSE, uncloak |-> 0,
   orbit |-> "none", bombing |-> FALSE, beaming |-> 0, tractor |-> FALSE, pressor |-> FALSE,
   desired |-> 0, fast |-> FALSE, burnout |-> FALSE, jammed |-> FALSE,
   fuel |-> MaxFuel]

Capped(speed, limit) == IF speed <= limit THEN speed ELSE limit

\* What the world makes of a tick's commands: maxWarpForHull; the planet in reach;
\* whether the target of a beam is alive, visible and near; whether T-mode, the
\* garrison and the room aboard allow the work
World == [warp: {1, MaxWarp}, planet: {"none", "own", "enemy"}, target: BOOLEAN, work: BOOLEAN]

------------------------------------------------------------------------------
(* Commands *)

BreakOrbit(S) ==
  IF S.orbit = "none" THEN S
  ELSE [S EXCEPT !.orbit = "none", !.bombing = FALSE, !.beaming = 0]

\* A new speed ends repair mode
SetSpeed(S, w, speed) ==
  LET T == [S EXCEPT !.desired = Capped(speed, w.warp), !.repair = FALSE]
  IN  IF T.desired > OrbitMaxWarp THEN BreakOrbit(T) ELSE T

ToggleShield(S, mode) ==
  LET up == mode = 1 \/ (mode # 2 /\ ~ S.shields)
  IN  IF up THEN [S EXCEPT !.shields = TRUE, !.bombing = FALSE, !.beaming = 0]
      ELSE [S EXCEPT !.shields = FALSE]

ToggleRepair(S) ==
  IF S.repair THEN [S EXCEPT !.repair = FALSE]
  ELSE [S EXCEPT !.repair = TRUE, !.desired = 0, !.shields = FALSE]

\* tryOrbit; docking is Docking's
TryOrbit(S, w) ==
  IF S.orbit # "none" \/ S.fast \/ w.planet = "none" THEN S
  ELSE [S EXCEPT !.orbit = w.planet, !.fast = FALSE, !.desired = 0]

TryBomb(S, w) ==
  IF S.bombing THEN [S EXCEPT !.bombing = FALSE]
  ELSE IF S.orbit = "enemy" /\ w.work
  THEN [S EXCEPT !.shields = FALSE, !.bombing = TRUE, !.beaming = 0] ELSE S

\* tryBeamUp (1) and tryBeamDown (2)
TryBeam(S, w, way) ==
  IF S.beaming = way THEN [S EXCEPT !.beaming = 0]
  ELSE IF w.work /\ S.orbit # "none" /\ (way = 1 => S.orbit = "own")
  THEN [S EXCEPT !.shields = FALSE, !.bombing = FALSE, !.beaming = way] ELSE S

\* mode 1 forces the cloak on, 2 off, 0 toggles it
ToggleCloak(S, mode) ==
  IF S.cloaked
  THEN IF mode = 1 THEN S ELSE [S EXCEPT !.cloaked = FALSE, !.uncloak = UncloakTicks]
  ELSE IF mode = 2 \/ S.uncloak > 0 THEN S
  ELSE [S EXCEPT !.cloaked = TRUE, !.tractor = FALSE, !.pressor = FALSE]

\* Switching one beam on switches the other off, even when there is no target
ToggleTractor(S, w) ==
  IF S.cloaked \/ S.burnout THEN S
  ELSE IF S.tractor THEN [S EXCEPT !.tractor = FALSE]
  ELSE [S EXCEPT !.pressor = FALSE, !.tractor = w.target]
TogglePressor(S, w) ==
  IF S.cloaked \/ S.burnout THEN S
  ELSE IF S.pressor THEN [S EXCEPT !.pressor = FALSE]
  ELSE [S EXCEPT !.tractor = FALSE, !.pressor = w.target]

\* The gates of fireTorp, firePhaser and firePlasma, but for fuel, cooldown and free torpedoes
MayFire(S) == ~ S.cloaked /\ S.uncloak = 0 /\ ~ S.jammed

\* One command; shots change only what is a choice here
Obey(S, c, w) ==
  CASE c.cmd = "SET_DIRECTION" -> BreakOrbit(S)
    [] c.cmd = "SET_SPEED" -> SetSpeed(S, w, c.value)
    [] c.cmd = "SHIELD_TOGGLE" -> ToggleShield(S, c.value)
    [] c.cmd = "REPAIR_TOGGLE" -> ToggleRepair(S)
    [] c.cmd = "ORBIT" -> TryOrbit(S, w)
    [] c.cmd = "BOMB" -> TryBomb(S, w)
    [] c.cmd = "BEAM_UP" -> TryBeam(S, w, 1)
    [] c.cmd = "BEAM_DOWN" -> TryBeam(S, w, 2)
    [] c.cmd = "CLOAK_TOGGLE" -> ToggleCloak(S, c.value)
    [] c.cmd = "TRACTOR" -> ToggleTractor(S, w)
    [] c.cmd = "PRESSOR" -> TogglePressor(S, w)
    [] OTHER -> S

------------------------------------------------------------------------------
(* The steps of a tick *)

\* accelerate: the speed comes nearer to the one desired, or reaches it
Accelerated(S, desired) == {[S EXCEPT !.fast = f] : f \in {S.fast, desired > OrbitMaxWarp}}

\* updateMovement: a ship in orbit does not move
Moved(S, w) ==
  IF S.orbit # "none" THEN {S} ELSE Accelerated(S, Capped(S.desired, w.warp))

\* updateOrbits may end an orbit; updateBombing and updateBeaming end work that
\* has lost its reason
Worked(S, w) ==
  LET Stop(T) == IF T.orbit = "none" \/ T.shields \/ ~ w.work
                 THEN [T EXCEPT !.bombing = FALSE, !.beaming = 0] ELSE T
  IN  {Stop(S), Stop(BreakOrbit(S))}

\* The tank after a cost
Spent(S) == {[S EXCEPT !.fuel = f] : f \in {S.fuel} \cup {f \in {S.fuel - 1} : f >= 0}}

\* Fault: a ship that runs out of fuel reappears at once.
CloakingAtOnce(S) ==
  {IF T.fuel = 0 THEN [T EXCEPT !.cloaked = FALSE] ELSE T :
     T \in IF S.cloaked THEN Spent(S) ELSE {[S EXCEPT !.uncloak = IF @ > 0 THEN @ - 1 ELSE @]}}

\* Fault: the count goes on below zero.
CloakingBelow(S) ==
  LET C == [S EXCEPT !.uncloak = @ - 1]
  IN  IF C.cloaked THEN Spent(C) ELSE {C}

\* updateCloaking
Cloaking(S) ==
  LET C == [S EXCEPT !.uncloak = IF @ > 0 THEN @ - 1 ELSE @]
  IN  IF ~ C.cloaked THEN {C}
      ELSE {IF T.fuel = 0 THEN [T EXCEPT !.cloaked = FALSE, !.uncloak = UncloakTicks] ELSE T :
              T \in Spent(C)}

\* updateTractorPressor; the beam of another ship may pull this one out of orbit
Beamed(S) ==
  LET Off(T) == [T EXCEPT !.tractor = FALSE, !.pressor = FALSE]
      Own == IF ~ (S.tractor \/ S.pressor) THEN {S}
             ELSE {Off(S)} \cup {IF T.fuel = 0 THEN Off(T) ELSE T : T \in Spent(S)}
  IN  Own \cup {BreakOrbit(T) : T \in Own}

\* updateEngineTemp
Heated(S) ==
  IF S.burnout
  THEN {[S EXCEPT !.desired = Capped(@, 1), !.burnout = b] : b \in BOOLEAN}
  ELSE {[S EXCEPT !.burnout = b] : b \in BOOLEAN}

\* updateWeaponTemp
WeaponsHeated(S) == {[S EXCEPT !.jammed = j] : j \in BOOLEAN}

\* updateFuel: an empty tank drops the shields
Fuelled(S) ==
  {[S EXCEPT !.fuel = f, !.shields = @ /\ f > 0] :
     f \in {f \in {S.fuel - 1, S.fuel, S.fuel + 1} : f \in 0 .. MaxFuel}}

\* updateShipSystems, of what is kept here
Systems(S) ==
  UNION {Fuelled(T) : T \in UNION {WeaponsHeated(H) : H \in Heated(S)}}

\* checkDeaths, of what Idle in Docking does not already say
Wreck(S) ==
  [BreakOrbit(S) EXCEPT !.alive = FALSE, !.desired = 0, !.fast = FALSE, !.bombing = FALSE,
                        !.beaming = 0, !.cloaked = FALSE, !.tractor = FALSE, !.pressor = FALSE]
=============================================================================
