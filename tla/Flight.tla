------------------------------- MODULE Flight -------------------------------
(***************************************************************************)
(* A ship and its pilot, tick by tick: the pilot's commands go through the *)
(* slot's queue, processInputs obeys them one by one, the rest of the tick *)
(* follows, and the pilot sees the outcome.                                *)
(*                                                                         *)
(* A human may give any command at any moment, so a human's queue needs no *)
(* state.  A bot thinks once after each tick and commands what BotMissions *)
(* says, for a mission that BotBrain would choose and surroundings that    *)
(* are choices.                                                            *)
(***************************************************************************)
EXTENDS Helm, BotMissions, Wire

VARIABLES
  ship,
  pilot,    \* "human" or "bot"
  stage,    \* of the tick: "think", "inputs"
  told,     \* the bot's commands not yet obeyed
  working,  \* history: the bot was at the work of its mission when it thought
  dark      \* history: whole ticks since the ship was cloaked, capped

flightVars == <<ship, pilot, stage, told, working, dark>>

Works(S) == S.bombing \/ S.beaming # 0
Commands ==
  {Cmd(c, 0) : c \in {"SET_DIRECTION", "REPAIR_TOGGLE", "ORBIT", "BOMB", "BEAM_UP", "BEAM_DOWN",
                      "TRACTOR", "PRESSOR"}}
  \cup {Cmd(c, m) : c \in {"SHIELD_TOGGLE", "CLOAK_TOGGLE"}, m \in 0 .. 2}
  \cup {Cmd("SET_SPEED", s) : s \in 0 .. MaxWarp}

FlightTypeOK ==
  /\ ship \in Ship
  /\ pilot \in {"human", "bot"}
  /\ stage \in {"think", "inputs"}
  /\ \A i \in DOMAIN told : told[i].value \in Nat
  /\ working \in BOOLEAN
  /\ dark \in 0 .. UncloakTicks

FlightInit ==
  /\ ship = NewShip
  /\ pilot \in {"human", "bot"}
  /\ stage = "think" /\ told = << >> /\ working = FALSE
  /\ dark = UncloakTicks

------------------------------------------------------------------------------
(* What a bot may see, and so command *)

\* The records of the own ship come over the wire; everything else is far away or
\* quiet, and the operators below vary what their mission looks at
View(S, difficulty, alert) ==
  LET me == UnpackShip(PackShip(S, alert, MaxFuel))
      self == UnpackSelf(PackSelf(S, 0, FALSE))
  IN
  [hull |-> 0, fuel |-> (100 * me.fuel) \div FuelTop, armies |-> self.armies, shields |-> me.shields,
   cloaked |-> me.cloaked, repair |-> me.repair, orbiting |-> me.orbiting,
   bombing |-> me.bombing, beaming |-> me.beaming, tractoring |-> me.tractoring,
   pressoring |-> me.pressoring, difficulty |-> difficulty, foe |-> 20000, target |-> Nowhere, dist |-> 20000,
   turn |-> 0, pace |-> 2, pickupDist |-> 20000, ours |-> {},
   owner |-> "enemy", garrison |-> 9, kept |-> TRUE, rich |-> TRUE, manned |-> TRUE, stock |-> FALSE,
   full |-> FALSE, alive |-> TRUE, threatened |-> TRUE, react |-> TRUE, torpDist |-> Nowhere,
   torpsNear |-> 0, mayTurn |-> TRUE, mayPace |-> TRUE, heat |-> 255, phaserCooldown |-> 0,
   weaponBurnout |-> self.weaponBurnout, inFlight |-> 0, fleeing |-> TRUE,
   reach |-> 6000, held |-> TRUE]

\* Distances to a planet of that side: a ship in orbit is at the planet or at another
ToPlanet(S, side) ==
  IF S.orbit = "none" THEN {800, 4000, 20000} ELSE IF S.orbit = side THEN {800, 20000} ELSE {20000}

AtDistance(v, d) == [v EXCEPT !.dist = d]
Bombings(v, S) == {Bomb(AtDistance(v, d)) : d \in ToPlanet(S, "enemy")}
\* Beaming up is begun in the pickup phase and ended by the move out of orbit, and
\* beaming down is begun in the approach
PhasesOf(S) ==
  IF S.beaming = 1 THEN {"pickup"} ELSE TakePhases \ (IF S.beaming = 2 THEN {"transit"} ELSE {})
Carrier(v, d, e, a, b, f, r, n) ==
  [v EXCEPT !.dist = d, !.pickupDist = e, !.armies = a, !.stock = b, !.full = a = 1 /\ ~ b,
            !.foe = f, !.rich = r, !.kept = r, !.manned = n]
Carriers(v, S) ==
  {Carrier(v, d, e, a, b, f, r, n) :
     d \in ToPlanet(S, "enemy"), e \in ToPlanet(S, "own"), a \in {0, 1}, b \in BOOLEAN,
     f \in {2000, 20000}, r \in BOOLEAN, n \in BOOLEAN}
TakeFrom(v, phase) == Take(v, phase, TRUE).cmds
Takings(v, S) == {TakeFrom(u, p) : u \in Carriers(v, S), p \in PhasesOf(S)}
Escortings(v) == {Escort(AtDistance(v, d)) : d \in {1000, 2500, 9000}}
Guards(v, S) == {[v EXCEPT !.owner = "own", !.dist = d] : d \in ToPlanet(S, "own") \cup {2000}}
Defendings(v, S) == {Defend(u) : u \in Guards(v, S)}
Oggings(v) == {Ogg(AtDistance(v, d)) : d \in {400, 2000, 9000}}
InNeed(v, S) ==
  {[v EXCEPT !.hull = h, !.foe = f, !.ours = o] :
     h \in {0, 60}, f \in {2000, 20000},
     o \in {{}} \cup {{[dist |-> d, fuel |-> FALSE, repair |-> r]} :
                      d \in ToPlanet(S, "own"), r \in BOOLEAN}}
Resupplies(v, S) == {Resupply(u) : u \in InNeed(v, S)}
\* A fight with a ship, and perhaps with a starbase farther off or nearer
Ships(d) == {[dist |-> d, hull |-> h, base |-> FALSE] : h \in {0, 60}}
Bases(d) == {[dist |-> d, hull |-> 0, base |-> TRUE]}
Parties == {{e} : e \in UNION {Ships(d) : d \in {2000, 5000, 9000}}}
           \cup {{e, b} : e \in Ships(7000), b \in Bases(2000) \cup Bases(8500)}
Dogfights(v) ==
  LET Against(es) == {[v EXCEPT !.foe = SelectTarget(es, NEWBIE).dist, !.target = e.dist] :
                        e \in UNION {Targets(es, v.difficulty, ph) : ph \in CombatPhases}}
      Sights == UNION {Against(es) : es \in Parties} \cup {[v EXCEPT !.foe = Nowhere]}
  IN  {[s EXCEPT !.torpDist = t, !.mayPace = c, !.reach = r, !.held = h] :
         s \in Sights, t \in {1000, Nowhere}, c \in BOOLEAN, r \in {4200, 9000}, h \in BOOLEAN}
Fights(v) == {Combat(u) : u \in Dogfights(v)}

Orders(t, v, S) ==
  CASE t = "BOMB" -> Bombings(v, S)
    [] t = "TAKE" -> Takings(v, S)
    [] t = "ESCORT" -> Escortings(v)
    [] t = "DEFEND" -> Defendings(v, S)
    [] t = "OGG" -> Oggings(v)
    [] t = "RESUPPLY" -> Resupplies(v, S)
    [] t = "COMBAT" -> Fights(v)
    [] OTHER -> {Patrol(v)}

------------------------------------------------------------------------------
\* BotBrain.think and BotPlayer.onTick after the tick.  Ticks mean nothing to a ship
\* that is not alive.
PilotThinks ==
  /\ stage = "think" /\ ship.alive
  /\ stage' = "inputs"
  /\ IF pilot = "bot"
     THEN \E t \in Missions \cup {"COMBAT"}, difficulty \in {NEWBIE, VETERAN}, alert \in Alerts :
            \E cmds \in Orders(t, View(ship, difficulty, alert), ship) :
              /\ told' = cmds
              /\ working' = ((t = "BOMB" /\ ship.bombing) \/ (t = "TAKE" /\ ship.beaming # 0))
     ELSE UNCHANGED <<told, working>>
  /\ UNCHANGED <<ship, pilot, dark>>

\* processInputs, one command
Process ==
  /\ stage = "inputs" /\ ship.alive
  /\ \E w \in World :
       \/ /\ pilot = "human" /\ UNCHANGED told
          /\ \E c \in Commands : ship' = Obey(ship, Received(c), w)
       \/ /\ pilot = "bot" /\ told # << >>
          /\ ship' = Obey(ship, Head(told), w) /\ told' = Tail(told)
  /\ UNCHANGED <<pilot, stage, working, dark>>

\* The rest of the tick
EndTick ==
  /\ stage = "inputs" /\ stage' = "think"
  /\ ship.alive /\ told = << >>
  /\ \E w \in World : \E a \in Moved(ship, w) : \E b \in Worked(a, w) : \E c \in Cloaking(b) :
       \E d \in Beamed(c) : ship' \in Systems(d)
  /\ dark' = IF ship.cloaked THEN 0 ELSE IF dark < UncloakTicks THEN dark + 1 ELSE dark
  /\ working' = FALSE
  /\ UNCHANGED <<pilot, told>>

\* The ship dies at the end of a tick; a bot's brain goes with it
Die ==
  /\ stage = "think" /\ ship.alive
  /\ ship' = Wreck(ship)
  /\ UNCHANGED <<pilot, stage, told, working, dark>>

\* respawn, or a new bot in the slot
Respawn ==
  /\ stage = "think" /\ ~ ship.alive
  /\ ship' = NewShip /\ pilot' \in {"human", "bot"} /\ dark' = UncloakTicks
  /\ UNCHANGED <<stage, told, working>>

\* resetGame at the end of a win pause: the queue still holds what a bot thought of
\* before, commands out of place, which only a human gives here
Reset ==
  /\ stage = "inputs" /\ ship.alive
  /\ stage' = "think" /\ pilot' = "human" /\ told' = << >>
  /\ ship' = NewShip /\ dark' = UncloakTicks
  /\ working' = FALSE

FlightNext == PilotThinks \/ Process \/ EndTick \/ Die \/ Respawn \/ Reset
FlightSpec == FlightInit /\ [][FlightNext]_flightVars

------------------------------------------------------------------------------
OneBeam == ~ (ship.tractor /\ ship.pressor)
NoBeamFromTheDark == ship.cloaked => ~ ship.tractor /\ ~ ship.pressor
RepairAtRest == ship.repair => ship.desired = 0
WorkInTheOpen ==
  Works(ship) => /\ ~ ship.shields /\ ship.orbit # "none"
                 /\ ~ (ship.bombing /\ ship.beaming # 0)
\* Nobody shoots out of the cloak: whichever way the cloak went off, by command or
\* for want of fuel, UNCLOAK_TICKS ticks pass before a weapon may fire.
NoShotFromTheDark == ship.alive /\ MayFire(ship) => dark = UncloakTicks

\* Each system is switched on by one handler and off by many others, which have
\* to agree: a ship never pulls and pushes at once, holds nobody and shoots at
\* nobody from the cloak, repairs only with its engines stopped, and does not work
\* behind its shields, out of orbit, or on two jobs at once.
SystemsExclude ==
  OneBeam /\ NoBeamFromTheDark /\ RepairAtRest /\ WorkInTheOpen /\ NoShotFromTheDark

\* The commands for bombing and beaming are toggles, and a bot repeats its mission
\* every tick: a bot that was bombing on a BOMB, or beaming on a TAKE, and is still
\* in orbit when its commands have been obeyed is still at work.
BotKeepsWorking ==
  stage = "inputs" /\ told = << >> /\ working /\ ship.orbit # "none" => Works(ship)
=============================================================================
