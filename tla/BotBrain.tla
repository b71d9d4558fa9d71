------------------------------ MODULE BotBrain ------------------------------
(***************************************************************************)
(* The brain of one bot: BotBrain.think, run once in every tick in which   *)
(* the bot's ship is alive, between changes of the world it sees and chat  *)
(* orders.  It picks a mission (bot-assessor.ts), lets the combat module   *)
(* take over while an enemy is close, and otherwise executes the mission   *)
(* (BotMissions); a mission that has nothing to command is complete.       *)
(*                                                                         *)
(* Scores depend on distances and on what the other bots do, so among the  *)
(* candidates the best is a choice, except that RESUPPLY without need      *)
(* scores 0 and loses to PATROL unless it is the current mission.          *)
(* Positions and distances are choices of every thought (Settings, Sites). *)
(***************************************************************************)
EXTENDS BotMissions, BotOrders, Wire

CONSTANTS
  Difficulty,
  AssessTicks,  \* ASSESS_INTERVAL_TICKS
  ExitTicks     \* COMBAT_EXIT_TICKS

ASSUME BrainAssumption ==
  /\ IsFiniteSet(Goals) /\ Difficulty \in NEWBIE .. VETERAN
  /\ AssessTicks \in Nat \ {0} /\ ExitTicks \in Nat \ {0, 1}
  /\ Cardinality({Nobody, Home, Mate, Foe}) = 4
  /\ {Nobody, Home, Mate, Foe} \cap Goals = {}

VARIABLES
  world,    \* what the bot's next view shows
  mission,
  take,     \* TakePhaseState.phase
  combat,   \* CombatState: phase, ticksSinceLastThreat
  urgent,   \* needsReassessment
  since,    \* ticks since lastAssessTick, capped at AssessTicks
  failed,   \* failedMissionType and the thoughts left until failedMissionUntil
  ended     \* missions in a row that were over when they were to be executed, since
            \* the world changed, the bot had a mission to command or was in a fight

brain == <<mission, take, combat, urgent, since, failed>>
brainVars == <<world, ended, brain>>

\* What the team may know of a planet; of what it has not scanned since the start it
\* knows the first owner and no armies, and after a reset nothing
Reports == {Knowledge("own", 5, "now"), Knowledge("enemy", 2, "now"), Knowledge("enemy", 9, "now"),
            Knowledge("enemy", 0, "before"), Knowledge("enemy", 0, "never")}
\* Hull damage and fuel, in percent
Shape(hull, fuel) == [hull |-> hull, fuel |-> fuel]
Shapes == {Shape(0, 100), Shape(0, 25), Shape(90, 10)}
\* A mate to escort is a friend that carries or bombs, or the wreck of a bomber:
\* friendlyBombers does not ask whether the ship is alive.  The foe, when there is
\* one, carries armies and threatens a planet of ours, as long as there is one.
\* manned: some planet of ours, a goal or another one, is known to have armies.
Surroundings == [planets: [Goals -> Reports], manned: BOOLEAN, mate: {"none", "friend", "wreck"},
                 foe: BOOLEAN, armies: {0, 1}, shape: Shapes]

Mission(type, target) == [type |-> type, target |-> target]
AllMissions ==
  {Mission("PATROL", Nobody), Mission("RESUPPLY", Nobody), Mission("ESCORT", Mate),
   Mission("DEFEND", Home), Mission("OGG", Foe)}
  \cup {Mission(t, g) : t \in {"BOMB", "TAKE"}, g \in Goals}
NoFailure == [type |-> "none", left |-> 0]
Failure(type) == [type |-> type, left |-> 3 * AssessTicks - 1]
EndedMax == 3     \* bound of the count

BrainTypeOK ==
  /\ world \in Surroundings
  /\ mission \in AllMissions
  /\ take \in TakePhases
  /\ combat \in [phase: CombatPhases, quiet: 0 .. ExitTicks - 1]
  /\ urgent \in BOOLEAN
  /\ since \in 1 .. AssessTicks
  /\ failed \in [type: Missions \cup {"none"}, left: 0 .. 3 * AssessTicks - 1]
  /\ ended \in 0 .. EndedMax

\* No goal is known to be a manned planet of ours
Unmanned(w) == \A g \in Goals : w.planets[g].team # "own"

BrainInit ==
  /\ world \in {w \in Surroundings :
       /\ w.armies = 0 /\ w.shape = Shape(0, 100) /\ w.mate = "none" /\ ~ w.foe
       /\ ~ w.manned => Unmanned(w)}
  /\ mission = Mission("PATROL", Nobody)
  /\ take = "pickup"
  /\ combat = [phase |-> "NONE", quiet |-> 0]
  /\ urgent = TRUE
  /\ since = AssessTicks
  /\ failed = NoFailure
  /\ ended = 0

------------------------------------------------------------------------------
(* The world around the bot, one thing at a time *)

\* The planet is scanned, by us or after a while not at all; or the game is reset
PlanetNews(g) ==
  /\ \E r \in Reports \ {world.planets[g]} :
       world' = [world EXCEPT !.planets[g] = r, !.manned = @ \/ r.team = "own"]
  /\ ended' = 0 /\ UNCHANGED brain
\* Of the other planets of ours, the first is known to have armies, or the last no more
StoresChange ==
  /\ world.manned => Unmanned(world)
  /\ world' = [world EXCEPT !.manned = ~ @]
  /\ ended' = 0 /\ UNCHANGED brain
\* A ship that bombs keeps its bombing flag while it explodes
MateMoves ==
  /\ \E m \in {"none", "friend", "wreck"} :
       /\ <<world.mate, m>> \in
            {<<"none", "friend">>, <<"friend", "none">>, <<"friend", "wreck">>, <<"wreck", "none">>}
       /\ world' = [world EXCEPT !.mate = m]
  /\ ended' = 0 /\ UNCHANGED brain
FoeMoves == world' = [world EXCEPT !.foe = ~ @] /\ ended' = 0 /\ UNCHANGED brain
OwnShip ==
  /\ \/ world' = [world EXCEPT !.armies = 1 - @]
     \/ \E h \in Shapes \ {world.shape} : world' = [world EXCEPT !.shape = h]
  /\ ended' = 0 /\ UNCHANGED brain

\* onChatMessage and setOrder.  The bonus of an order is part of the choice among the
\* candidates, so that whether there is one is not kept.
HearOrder ==
  /\ \E msg \in Messages : Obeys(Me, msg)
  /\ ~ urgent /\ urgent' = TRUE
  /\ UNCHANGED <<world, mission, take, combat, since, failed, ended>>

\* The hull has lost more than 30% since the last thought, or the order expires
Alarm ==
  /\ ~ urgent /\ urgent' = TRUE
  /\ UNCHANGED <<world, mission, take, combat, since, failed, ended>>

------------------------------------------------------------------------------
(* Views *)

\* For a TAKE it matters where the ship is: away from everything, in orbit where
\* armies are loaded, near the goal, in orbit of the goal; what the pickup planet
\* has to offer; and whether a planet of ours can spare enough armies for the goal
Site(place, load, source) == [place |-> place, load |-> load, source |-> source]
Sites ==
  {Site(p, "bare", b) : p \in {"away", "pickup", "near", "goal"}, b \in BOOLEAN}
  \cup {Site("pickup", l, TRUE) : l \in {"full", "stock"}}
Full(t) == t.load = "full"
SitesOf(m) ==
  IF m.type # "TAKE" THEN {Site("away", "bare", TRUE)}
  ELSE {t \in Sites : Full(t) => world.armies > 0}

Seen(g) == SeenPlanet(world.planets[g])
CanOffend == world.shape.fuel >= 20
Enemy(g) == Seen(g).owner = "enemy"
Fresh(g) == Seen(g).visibility = "FRESH"
Takeable == {g \in Goals : CanOffend /\ Enemy(g) /\ Fresh(g) /\ Seen(g).armies <= 4}

\* What a thought finds around the ship: the distance of the nearest enemy; whether T-mode,
\* kills, capacity and the armies of our planets allow a TAKE; and whether a planet of ours
\* is known at all
Settings == [foe: {2000, 6000, 20000}, able: {b \in BOOLEAN : b => Takeable # {} /\ world.manned},
             ours: {b \in BOOLEAN : world.manned => b}]

Alive(target) == IF target = Mate THEN world.mate = "friend" ELSE world.foe
Depots(s) == IF s.ours THEN {[dist |-> 20000, fuel |-> TRUE, repair |-> TRUE]} ELSE {}
\* The owner of Home, which DEFEND is about, is another once no planet of ours is left
OwnerOf(target, s) ==
  IF target \in Goals THEN Seen(target).owner ELSE IF s.ours THEN "own" ELSE "nobody"
\* Shields are down: shields that are up are one thing more to command, for RESUPPLY
Sight(m, s, t) ==
  [hull |-> world.shape.hull, fuel |-> world.shape.fuel, armies |-> world.armies,
   shields |-> FALSE, cloaked |-> FALSE, repair |-> FALSE, bombing |-> FALSE, beaming |-> 0,
   tractoring |-> FALSE, difficulty |-> Difficulty, turn |-> 0, pace |-> 0,
   orbiting |-> t.place \in {"pickup", "goal"}, foe |-> s.foe,
   dist |-> CASE t.place = "goal" -> 800 [] t.place = "near" -> 9000 [] OTHER -> 20000,
   pickupDist |-> IF t.place = "pickup" THEN 800 ELSE 20000,
   ours |-> Depots(s), manned |-> world.manned,
   kept |-> s.ours /\ t.source, rich |-> world.manned /\ t.source,
   stock |-> world.manned /\ t.load = "stock", full |-> Full(t),
   owner |-> OwnerOf(m.target, s),
   garrison |-> IF m.target \in Goals THEN Seen(m.target).armies ELSE 5,
   alive |-> Alive(m.target),
   threatened |-> world.foe]

Execute(m, s, t, phase) ==
  LET v == Sight(m, s, t)
      Still(cmds) == TakeResult(cmds, phase, TRUE) IN
  CASE m.type = "BOMB" -> Still(Bomb(v))
    [] m.type = "TAKE" -> Take(v, phase, TRUE)
    [] m.type = "ESCORT" -> Still(Escort(v))
    [] m.type = "DEFEND" -> Still(Defend(v))
    [] m.type = "OGG" -> Still(Ogg(v))
    [] m.type = "RESUPPLY" -> Still(Resupply(v))
    [] OTHER -> Still(Patrol(v))

------------------------------------------------------------------------------
(* The assessor *)

NeedsResupply == world.shape.hull > 50 \/ world.shape.fuel < 30

BombCandidates ==
  {Mission("BOMB", g) : g \in {g \in Goals :
     CanOffend /\ Enemy(g) /\ ~ (Fresh(g) /\ Seen(g).armies < 5)}}
TakeCandidates(s) == IF s.able THEN {Mission("TAKE", g) : g \in Takeable} ELSE {}
EscortCandidates == IF world.mate = "none" THEN {} ELSE {Mission("ESCORT", Mate)}
OggCandidates ==
  IF CanOffend /\ Difficulty >= COMPETENT /\ world.foe THEN {Mission("OGG", Foe)} ELSE {}
DefendCandidates(s) == IF world.foe /\ s.ours THEN {Mission("DEFEND", Home)} ELSE {}
Candidates(s) ==
  {Mission("RESUPPLY", Nobody), Mission("PATROL", Nobody)}
  \cup BombCandidates \cup TakeCandidates(s) \cup EscortCandidates \cup OggCandidates \cup DefendCandidates(s)

\* Which of them can come first; current has the stickiness bonus
First(cands, current) ==
  {c \in cands : c.type = "RESUPPLY" => NeedsResupply \/ c = current}

------------------------------------------------------------------------------
(* think *)

Purposeful(type) == type \in {"BOMB", "TAKE", "ESCORT", "DEFEND", "OGG"}
EngageRange(type) ==
  CASE type \in {"BOMB", "TAKE", "RESUPPLY", "OGG"} -> 3000 [] type = "ESCORT" -> 5000 [] OTHER -> 8000
Carries(m) == m.type = "TAKE" /\ world.armies > 0

\* Fault: the bot commits itself only once it is near the planet.
CommittedLate == Carries(mission) /\ world.shape.hull <= 80 /\ take = "approach"

\* Armies are gold: no second thoughts on the way to the drop
Committed == Carries(mission) /\ world.shape.hull <= 80
ShouldAssess(s) ==
  /\ urgent \/ (since >= AssessTicks /\ (Purposeful(mission.type) => s.foe < 8000))
  /\ ~ Committed
Assessed(s) ==
  LET cands == {c \in Candidates(s) :
                  /\ c.type # failed.type
                  /\ mission.type = "TAKE" /\ c.type = "TAKE" => c = mission}
  IN  IF cands = {} THEN {mission} ELSE First(cands, mission)

\* Fault: the count of quiet ticks runs one too far.
NextCombatLate(m, s) ==
  IF s.foe <= EngageRange(m.type) THEN [phase |-> "ENGAGED", quiet |-> 0]
  ELSE IF combat.phase = "NONE" \/ combat.quiet >= ExitTicks THEN [phase |-> "NONE", quiet |-> 0]
  ELSE [phase |-> "DISENGAGING", quiet |-> combat.quiet + 1]

\* updateCombat: null when the phase is NONE afterwards
NextCombat(m, s) ==
  LET close == s.foe <= EngageRange(m.type)
      none == [phase |-> "NONE", quiet |-> 0]
      next == CASE close -> [phase |-> "ENGAGED", quiet |-> 0]
                [] ~ close /\ combat.phase = "ENGAGED" -> [phase |-> "DISENGAGING", quiet |-> 1]
                [] ~ close /\ combat.phase = "DISENGAGING" /\ combat.quiet + 1 < ExitTicks ->
                     [phase |-> "DISENGAGING", quiet |-> combat.quiet + 1]
                [] OTHER -> none
  IN  IF Carries(m) \/ TooWeakToFight(world.shape) THEN none ELSE next

\* Fault: the fallback may be the mission that has just come to nothing.
FallbackUnfiltered(s, type) == First(Candidates(s), Mission("none", Nobody))

Fallback(s, type) == First({c \in Candidates(s) : c.type # type}, Mission("none", Nobody))

\* The mission yields commands, or there is a fight, which may hold still for a while
Act(m, phase, cb, assessed) ==
  /\ mission' = m /\ take' = phase /\ combat' = cb
  /\ urgent' = \/ urgent /\ ~ assessed
               \/ combat.phase # "NONE" /\ cb.phase = "NONE" /\ m.type # "TAKE"
  /\ since' = IF assessed THEN 1 ELSE IF since < AssessTicks THEN since + 1 ELSE since
  /\ failed' = IF failed.left <= 1 THEN NoFailure ELSE [failed EXCEPT !.left = @ - 1]
  /\ ended' = 0

\* The mission is complete: another type takes over at once, to act a tick later
Complete(m, phase, cb, s, assessed) ==
  /\ \E n \in Fallback(s, m.type) :
       mission' = n /\ take' = (IF n.type = "TAKE" THEN "pickup" ELSE phase)
  /\ combat' = cb
  /\ urgent' = \/ urgent /\ ~ assessed
               \/ combat.phase # "NONE" /\ m.type # "TAKE"
  /\ since' = 1
  /\ failed' = Failure(m.type)
  /\ ended' = IF ended < EndedMax THEN ended + 1 ELSE ended

Think ==
  \E s \in Settings :
    LET assessed == ShouldAssess(s) IN
    \E m \in IF assessed THEN Assessed(s) ELSE {mission} :
      LET start == IF m # mission /\ m.type = "TAKE" THEN "pickup" ELSE take
          cb == NextCombat(m, s) IN
      /\ IF cb.phase # "NONE" THEN Act(m, start, cb, assessed)
         ELSE \E t \in SitesOf(m) :
                LET r == Execute(m, s, t, start) IN
                IF r.cmds # << >> THEN Act(m, r.phase, cb, assessed)
                ELSE Complete(m, r.phase, cb, s, assessed)
      /\ UNCHANGED world

Drift == StoresChange \/ MateMoves \/ FoeMoves \/ OwnShip \/ \E g \in Goals : PlanetNews(g)
BrainNext == Think \/ HearOrder \/ Alarm \/ Drift
BrainSpec == BrainInit /\ [][BrainNext]_brainVars
------------------------------------------------------------------------------
(* A bot with armies aboard and a sound hull keeps to its TAKE until the   *)
(* planet is taken, whatever it sees, meets or is told meanwhile           *)
(* (bot-ai.ts, "Armies are gold").  It gives up only where it is still     *)
(* loading and no planet of ours is known to have armies (executeTake).    *)
ArmiesAreCommitted ==
  [][ /\ mission.type = "TAKE" /\ world.armies > 0 /\ world.shape.hull <= 80
      /\ Seen(mission.target).owner # "own"
      /\ world.manned \/ take # "pickup"
      /\ world' = world
      => mission' = mission ]_brainVars

\* No bot sets out for the planet it means to take with an empty hold: a new TAKE
\* starts at the pickup, whatever phase the last one was left in (think resets
\* takeState in two places).
FliesLoaded ==
  [][ /\ mission'.type = "TAKE" /\ take' # "pickup"
      /\ take = "pickup" \/ mission' # mission
      => world.armies > 0 ]_brainVars

\* Armies are loaded first and delivered where they were meant for.
CarriersDeliver == ArmiesAreCommitted /\ FliesLoaded

\* In a world that stands still, outside of fights, two missions in a row at most come to
\* nothing: a mission that is over as soon as it is chosen, on a stale report, gives way
\* to one that is not (the fallback of think filters the type that came to nothing).  The
\* wreck of a mate can hold a bot up for longer, and so can a BOMB on a stale report with
\* a RESUPPLY that has no planet of ours to go to.
MissionsTakeHold == world.mate # "wreck" /\ world.manned => ended <= 2
=============================================================================
