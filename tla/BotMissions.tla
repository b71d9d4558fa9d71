---------------------------- MODULE BotMissions ----------------------------
(***************************************************************************)
(* What a bot's ship is told to do, mission by mission: the commands that  *)
(* bot-missions.ts and bot-combat-module.ts return for what the bot sees.  *)
(* No state here: BotBrain decides which mission runs, Flight lets the     *)
(* commands act on the ship.                                               *)
(*                                                                         *)
(* A view v is a record.  Of the ship: hull, fuel (percent), armies,       *)
(* shields, cloaked, repair, orbiting, bombing, beaming (0, 1 up, 2 down), *)
(* tractoring, pressoring; of its surroundings: foe (distance of the       *)
(* nearest enemy), dist (of the mission's object), turn (how far the bow   *)
(* points away from the course, 0 .. 128), ours (the planets known as its  *)
(* team's: distance, fuel, repair), and what the missions ask of their     *)
(* object.  Directions are not kept: SET_DIRECTION has value 0.            *)
(***************************************************************************)
EXTENDS Integers, Sequences, FiniteSets

\* MissionType, and the difficulties in their order
Missions == {"PATROL", "BOMB", "TAKE", "ESCORT", "DEFEND", "OGG", "RESUPPLY"}
NEWBIE == 0
COMPETENT == 1
VETERAN == 2

\* Distances of constants.ts and bot-types.ts; ORBIT_DIST * 1.2 is OrbitReach
OrbitReach == 1080
OrbitMaxSpeed == 2
SafeDist == 10000        \* SHIELDS_DOWN_SAFE_DIST, and executeResupply's own 10000
CloakDist == 12000       \* TAKE_CLOAK_DIST
MinCombatDist == 2500
MaxCombatDist == 6000
Nowhere == 100000        \* Infinity: farther than any two points of the galaxy

LOCAL AtMost(a, b) == IF a <= b THEN a ELSE b
Cmd(c, x) == [cmd |-> c, value |-> x]
Steer == Cmd("SET_DIRECTION", 0)
Speed(s) == Cmd("SET_SPEED", s)
Shield(x) == Cmd("SHIELD_TOGGLE", x)
If(b, cmds) == IF b THEN cmds ELSE << >>

------------------------------------------------------------------------------
(* Moves *)

\* A ship that points elsewhere slows down to turn.  Steering around enemies
\* (moveToAvoidingEnemies) changes the direction only.
MoveTo(v, speed) ==
  << Steer, Speed(IF v.turn > 64 THEN AtMost(speed, 2)
                  ELSE IF v.turn > 32 THEN AtMost(speed, 4) ELSE speed) >>
MoveToAvoiding(v, speed) == MoveTo(v, speed)
Dash(speed) == << Steer, Speed(speed) >>      \* moveTo without currentDir

ToOrbit(dist, move(_)) ==
  IF dist <= OrbitReach THEN << Speed(OrbitMaxSpeed), Cmd("ORBIT", 0) >>
  ELSE move(IF dist > 4500 THEN 6 ELSE 3)
MoveToOrbit(v, dist) == ToOrbit(dist, LAMBDA s : MoveTo(v, s))

RaiseShields(v) == If(~ v.shields, << Shield(1) >>)
LowerShields(v) == If(v.shields, << Shield(2) >>)
MindShields(v) == IF v.foe < SafeDist THEN RaiseShields(v) ELSE LowerShields(v)
\* fuel > 3000, of a maxFuel of 10000
CloakFor(v, level) ==
  If(v.difficulty >= level /\ ~ v.cloaked /\ v.fuel > 30, << Cmd("CLOAK_TOGGLE", 1) >>)

------------------------------------------------------------------------------
(* The nearest planet of ours, of those with a feature *)

Nearest(planets) ==
  IF planets = {} THEN Nowhere
  ELSE (CHOOSE p \in planets : \A q \in planets : p.dist <= q.dist).dist
NearestFriendlyPlanet(v) == Nearest(v.ours)
NearestFuelPlanet(v) == Nearest({p \in v.ours : p.fuel})
NearestRepairPlanet(v) == Nearest({p \in v.ours : p.repair})

------------------------------------------------------------------------------
(* Missions: the empty sequence says that the mission is complete *)

\* A patrol always has somewhere to go: PLANET_DEFS, when no enemy planet is known
Patrol(v) == RaiseShields(v) \o MoveTo(v, 6)

\* Fault: the command is given whether or not the ship bombs already.
BombAgain(v) ==
  IF v.owner # "enemy" \/ v.garrison <= 4 THEN << >>
  ELSE IF v.orbiting /\ v.dist <= OrbitReach THEN << Cmd("BOMB", 1) >>
  ELSE RaiseShields(v) \o MoveToOrbit(v, v.dist)

\* The garrison is what the team last knew of the planet, fresh or stale
Bomb(v) ==
  IF v.owner # "enemy" \/ v.garrison <= 4 THEN << >>
  ELSE IF v.orbiting /\ v.dist <= OrbitReach
  THEN IF v.bombing THEN << Speed(0) >> ELSE << Cmd("BOMB", 1) >>
  ELSE RaiseShields(v) \o CloakFor(v, VETERAN) \o MoveToOrbit(v, v.dist)

\* executeTake also moves its TakePhaseState; pickup is TRUE while a planet to
\* load at is chosen.  v.kept: that planet is still ours; v.rich: some planet of
\* ours can spare enough; v.manned: some planet of ours is known to have armies;
\* v.stock: the chosen one has BEAM_MIN_ARMIES; v.full: capacity or need is reached.
TakePhases == {"pickup", "transit", "approach"}
TakeResult(cmds, phase, pickup) == [cmds |-> cmds, phase |-> phase, pickup |-> pickup]

Approach(v, before, pickup) ==
  IF v.orbiting /\ v.dist <= OrbitReach
  THEN TakeResult(IF v.armies = 0 THEN << >>
                  ELSE before \o << IF v.beaming # 2 THEN Cmd("BEAM_DOWN", 0) ELSE Speed(0) >>,
                  "approach", pickup)
  ELSE TakeResult(before \o CloakFor(v, COMPETENT) \o MoveToOrbit(v, v.dist), "approach", pickup)

Transit(v, pickup) ==
  IF v.dist > CloakDist
  THEN TakeResult(RaiseShields(v) \o MoveToAvoiding(v, 8), "transit", pickup)
  ELSE Approach(v, RaiseShields(v), pickup)

Pickup(v, chosen) ==
  IF ~ ((chosen /\ v.kept) \/ v.rich)
  THEN TakeResult(If(v.manned, MindShields(v) \o MoveTo(v, 6)), "pickup", FALSE)
  ELSE IF ~ (v.orbiting /\ v.pickupDist <= OrbitReach)
  THEN TakeResult(MindShields(v) \o MoveToOrbit(v, v.pickupDist), "pickup", TRUE)
  ELSE IF v.full THEN Transit(v, TRUE)
  ELSE IF v.stock
  THEN TakeResult(<< IF v.beaming # 1 THEN Cmd("BEAM_UP", 0) ELSE Speed(0) >>, "pickup", TRUE)
  ELSE IF v.armies > 0 THEN Transit(v, TRUE)
  ELSE TakeResult(<< Speed(0) >>, "pickup", FALSE)

Take(v, phase, chosen) ==
  IF v.owner = "own" THEN TakeResult(<< >>, phase, chosen)
  ELSE CASE phase = "pickup" -> Pickup(v, chosen)
         [] phase = "transit" -> Transit(v, chosen)
         [] OTHER -> Approach(v, << >>, chosen)

Escort(v) ==
  IF ~ v.alive THEN << >>
  ELSE RaiseShields(v) \o (IF v.dist > 3000 THEN Dash(8)
                           ELSE IF v.dist >= 2000 THEN Dash(v.pace)
                           ELSE << Speed(2) >>)

Defend(v) ==
  IF v.owner # "own" \/ ~ v.threatened THEN << >>
  ELSE RaiseShields(v) \o (IF v.dist > 2700 THEN MoveTo(v, 6)
                           ELSE << Speed(3) >> \o If(~ v.orbiting, ToOrbit(v.dist, Dash)))

Ogg(v) ==
  IF ~ v.alive THEN << >>
  ELSE RaiseShields(v) \o
       (IF v.dist < 500 THEN << Cmd("DETONATE_SELF", 0) >>
        ELSE IF v.dist > 3000 THEN CloakFor(v, VETERAN) \o Dash(9)
        ELSE Dash(9) \o << Cmd("FIRE_PHASER", 0), Cmd("FIRE_TORP", 0) >>
                     \o If(~ v.tractoring, << Cmd("TRACTOR", 0) >>))

\* For fuel to the nearest fuel planet, or else to the nearest planet of ours; with
\* no planet at all there is nothing to command
Refuel(v) ==
  LET depot == IF NearestFuelPlanet(v) < Nowhere THEN NearestFuelPlanet(v)
               ELSE NearestFriendlyPlanet(v)
  IN  If(depot < Nowhere, MoveToOrbit(v, depot))

Flee(v) == IF v.ours # {} THEN MoveTo(v, 6) ELSE << Speed(6) >>

Resupply(v) ==
  IF v.hull < 15 /\ v.fuel > 50 THEN << >>
  ELSE IF v.foe < SafeDist
  THEN If(v.repair, << Cmd("REPAIR_TOGGLE", 1) >>) \o RaiseShields(v) \o Flee(v)
  ELSE LowerShields(v) \o
       (IF v.fuel < 30 \/ v.hull <= 15 THEN Refuel(v)
        ELSE IF NearestRepairPlanet(v) < SafeDist THEN MoveToOrbit(v, NearestRepairPlanet(v))
        ELSE If(~ v.repair, << Cmd("REPAIR_TOGGLE", 1) >>) \o << Speed(0) >>)

------------------------------------------------------------------------------
(* Combat *)

\* By difficulty: how near a torpedo has to be to be dodged, the torpedoes in flight,
\* and the enemy torpedoes around that are worth a detonation (0: never)
TorpDangerDist == << 0, 1200, 1800 >>
MaxTorpsInFlight == << 4, 3, 2 >>
DetAt == << 0, 3, 2 >>
By(table, v) == table[v.difficulty + 1]

\* The enemies that are alive are records: distance, hull damage in percent, starbase or
\* not.  A newbie goes for the nearest, the others for one that is damaged, and for a
\* starbase last.
StarbasePenalty == 20000
Score(e, difficulty) ==
  IF difficulty = NEWBIE THEN e.dist
  ELSE e.dist + (IF e.base THEN StarbasePenalty ELSE 0) - 100 * e.hull
SelectTarget(enemies, difficulty) ==
  CHOOSE e \in enemies : \A f \in enemies : Score(e, difficulty) <= Score(f, difficulty)
CombatPhases == {"NONE", "ENGAGED", "DISENGAGING"}
\* On entering combat the nearest is the target; while one is in range it is chosen
\* anew each tick; when none is, the last one is kept
Targets(enemies, difficulty, phase) ==
  CASE phase = "NONE" -> {SelectTarget(enemies, NEWBIE)}
    [] phase = "ENGAGED" -> {SelectTarget(enemies, difficulty)}
    [] OTHER -> enemies

\* v.torpDist: distance of the nearest enemy torpedo
Dodges(v) == By(TorpDangerDist, v) > 0 /\ v.torpDist <= By(TorpDangerDist, v)
ShouldDetEnemyTorps(v) == By(DetAt, v) > 0 /\ v.torpsNear >= By(DetAt, v)

\* v.heat is the weapon temperature in 255ths of maxWpnTemp, which is 1000 or more,
\* and is divided by maxWpnTemp once again: no weapon is ever too hot for a bot
MaxWpnTemp == 1000
TooHot(v, percent) == 100 * v.heat >= percent * 255 * MaxWpnTemp

ShouldFirePhaser(v) == v.phaserCooldown = 0 /\ v.weaponBurnout = 0 /\ v.target <= 6000
ShouldFireTorp(v) ==
  v.weaponBurnout = 0 /\ v.target <= 9000 /\ v.inFlight < By(MaxTorpsInFlight, v)

CombatShields(v) ==
  IF v.difficulty > NEWBIE THEN RaiseShields(v)
  ELSE IF v.foe <= SafeDist THEN If(v.react, RaiseShields(v)) ELSE LowerShields(v)

\* v.mayTurn, v.mayPace: the hold of the last change of direction, of speed, is over
CombatMovement(v) ==
  IF Dodges(v) THEN Dash(7)
  ELSE IF v.difficulty = NEWBIE THEN Dash(5)
  ELSE If(v.mayTurn, << Steer >>)
       \o If(v.mayPace, << Speed(IF v.target \in MinCombatDist .. MaxCombatDist THEN 4 ELSE 5) >>)

CombatWeapons(v) ==
  IF TooHot(v, 90) THEN << >>
  ELSE If(ShouldFirePhaser(v), << Cmd("FIRE_PHASER", 0) >>)
       \o If(~ TooHot(v, 70) /\ ShouldFireTorp(v), << Cmd("FIRE_TORP", 0) >>)

\* v.fleeing: the enemy points away from us; v.reach: the range of the ship type's beams;
\* v.held: the beam that is on holds this enemy, and not the one before
CombatBeams(v) ==
  IF v.difficulty = NEWBIE \/ v.target > v.reach THEN << >>
  ELSE IF v.target < MinCombatDist
  THEN If(~ (v.pressoring /\ v.held), << Cmd("PRESSOR", 0) >>)
  ELSE If(v.difficulty = VETERAN /\ v.fleeing /\ ~ (v.tractoring /\ v.held),
          << Cmd("TRACTOR", 0) >>)

\* v.target: distance of the target, as long as an enemy is alive
Combat(v) ==
  CombatShields(v)
  \o If(v.target < Nowhere, CombatMovement(v) \o CombatWeapons(v) \o CombatBeams(v))
  \o If(ShouldDetEnemyTorps(v), << Cmd("DETONATE", 0) >>)

\* updateCombat bails out
TooWeakToFight(v) == v.hull > 70 \/ v.fuel < 30
=============================================================================
