------------------------------- MODULE Combat -------------------------------
(***************************************************************************)
(* Torpedoes, plasmas and the lives of the ships that fire them: the       *)
(* shared pools, explosions and their chains, deaths, respawns and resets. *)
(*                                                                         *)
(* Where things are, and so what an explosion reaches, is a choice.  Of    *)
(* shields and hull only this is left: a ship is doomed while its          *)
(* hullDamage is at least the maxHull of its type.  Fuel, heat, cooldowns  *)
(* and kills may keep a weapon from firing in any state, so a command that *)
(* finds them wanting is a command that was not given.                     *)
(***************************************************************************)
EXTENDS Integers, FiniteSets

CONSTANTS
  NumSlots,         \* MAX_PLAYERS
  Teams,
  MaxTorps,         \* MAX_TORPS_PER_PLAYER
  TorpLife,         \* the longest ticksRemaining of a torpedo
  PlasmaLife,       \* PLASMA_LIFETIME
  ExplosionTicks,   \* EXPLOSION_DURATION_TICKS
  RespawnDelay,     \* RESPAWN_DELAY_TICKS
  WinPauseTicks,    \* WIN_PAUSE_DURATION in ticks
  Free              \* an entry of a pool that is not alive

Slots == 0 .. NumSlots - 1
TorpPool == 1 .. NumSlots * MaxTorps   \* MAX_TORPS entries
PlasmaPool == Slots                    \* MAX_PLASMAS = MAX_PLAYERS entries

\* old is auxiliary: the slot of the owner has begun another life since.
Torp == [owner: Slots, team: Teams, ticksRemaining: 1 .. TorpLife, old: BOOLEAN]
Plasma == [owner: Slots, team: Teams, ticksRemaining: 1 .. PlasmaLife]

ASSUME CombatAssumption ==
  /\ NumSlots \in Nat \ {0} /\ MaxTorps \in Nat \ {0} /\ Teams # {}
  /\ TorpLife \in Nat \ {0} /\ PlasmaLife \in Nat \ {0}
  /\ ExplosionTicks \in Nat \ {0} /\ RespawnDelay \in Nat /\ WinPauseTicks \in Nat \ {0}
  /\ Free \notin Torp /\ Free \notin Plasma

\* taken: the playerId is not empty.  sinceDeath is currentTick - deathTick,
\* as far as the delay can tell, or -1 where deathTick is 0.
Ship == [taken: BOOLEAN, status: {"ALIVE", "EXPLODING", "DEAD"}, team: Teams,
         doomed: BOOLEAN, explodeTicks: 0 .. ExplosionTicks, sinceDeath: -1 .. RespawnDelay]

VARIABLES ships, torps, plasmas,
          winPause,  \* winPauseTicks
          stage,     \* how far the tick has come; handlers run when it is "idle"
          turn       \* the slot that processInputs or checkDeaths has reached

tick == <<stage, turn>>
vars == <<ships, torps, plasmas, winPause, tick>>

TypeOK ==
  /\ ships \in [Slots -> Ship]
  /\ \A s \in Slots : ships[s].status = "EXPLODING" <=> ships[s].explodeTicks > 0
  /\ torps \in [TorpPool -> Torp \cup {Free}]
  /\ plasmas \in [PlasmaPool -> Plasma \cup {Free}]
  /\ winPause \in 0 .. WinPauseTicks
  /\ stage \in {"idle", "inputs", "torpedoes", "plasmas", "systems", "deaths", "end"}
  /\ turn \in Slots

Alive(s) == ships[s].status = "ALIVE"

\* What a slot without an occupant still holds is not read before initShip
\* has set it, but for the team.
Cleared(ship) ==
  [ship EXCEPT !.taken = FALSE, !.status = "DEAD", !.doomed = FALSE,
               !.explodeTicks = 0, !.sinceDeath = -1]

Initialized(team) ==
  [taken |-> TRUE, status |-> "ALIVE", team |-> team,
   doomed |-> FALSE, explodeTicks |-> 0, sinceDeath |-> -1]

NoTorps == [i \in TorpPool |-> Free]
NoPlasmas == [i \in PlasmaPool |-> Free]

Init ==
  /\ \E t \in Teams : ships = [s \in Slots |-> Cleared(Initialized(t))]
  /\ torps = NoTorps /\ plasmas = NoPlasmas
  /\ winPause = 0 /\ stage = "idle" /\ turn = 0

Entries(pool, s) == {i \in DOMAIN pool : pool[i] # Free /\ pool[i].owner = s}
FirstFree(pool) ==
  CHOOSE i \in DOMAIN pool : pool[i] = Free /\ \A j \in DOMAIN pool : pool[j] = Free => i <= j
Without(pool, gone) == [i \in DOMAIN pool |-> IF i \in gone THEN Free ELSE pool[i]]

-----------------------------------------------------------------------------
(* Handlers: joins, leaves and respawns, of humans and of bots *)

\* initShip
InitShip(s, team) ==
  /\ ships' = [ships EXCEPT ![s] = Initialized(team)]
  /\ torps' = [i \in TorpPool |->
                 IF i \in Entries(torps, s) THEN [torps[i] EXCEPT !.old = TRUE] ELSE torps[i]]
  /\ UNCHANGED <<plasmas, winPause, tick>>

\* joinGame, and spawnBot
Join(s, team) ==
  /\ stage = "idle"
  /\ ships[s].status = "DEAD" /\ ~ ships[s].taken
  /\ InitShip(s, team)

\* Fault: clearShip forgets the torpedoes in flight.
LeaveKeepsTorps(s) ==
  /\ stage = "idle" /\ ships[s].taken
  /\ ships' = [ships EXCEPT ![s] = Cleared(@)]
  /\ UNCHANGED <<torps, plasmas, winPause, tick>>

\* leaveGame, and removeBot.  Plasmas stay.
Leave(s) ==
  /\ stage = "idle" /\ ships[s].taken
  /\ ships' = [ships EXCEPT ![s] = Cleared(@)]
  /\ torps' = Without(torps, Entries(torps, s))
  /\ UNCHANGED <<plasmas, winPause, tick>>

\* The gates of respawn that a ship other than a starbase passes.
MayRespawn(s) ==
  /\ ships[s].taken
  /\ Entries(torps, s) = {}
  /\ ships[s].sinceDeath >= 0 => ships[s].sinceDeath >= RespawnDelay

\* respawn does not ask whether the ship is dead.
Respawn(s) ==
  /\ stage = "idle"
  /\ MayRespawn(s)
  /\ InitShip(s, ships[s].team)

-----------------------------------------------------------------------------
(* Explosions *)

\* Of the ships within reach some take damage, and some of them too much.
Strike(reach) ==
  \E fatal \in SUBSET {v \in reach : Alive(v)} :
    ships' = [v \in Slots |-> [ships[v] EXCEPT !.doomed = @ \/ v \in fatal]]

EnemyAlive(team) == \E v \in Slots : Alive(v) /\ ships[v].team # team

\* explodeTorp after an impact or at the wall.  Only an impact, which takes an
\* enemy, reaches the firer's team.
TorpReach(i) ==
  {v \in Slots : v # torps[i].owner
                 /\ (ships[v].team # torps[i].team \/ EnemyAlive(torps[i].team))}

\* explodeTorp by a detonation.
DetReach(i, team) == {v \in Slots : v # torps[i].owner /\ ships[v].team # team}

\* explodePlasma spares nobody.
PlasmaReach(exploding) == IF exploding = {} THEN {} ELSE Slots

-----------------------------------------------------------------------------
(* The tick: processInputs.  A ship alive gives any commands in its turn. *)

StartTick ==
  /\ stage = "idle" /\ winPause = 0
  /\ stage' = "inputs" /\ turn' = 0
  /\ UNCHANGED <<ships, torps, plasmas, winPause>>

Commands(s) == stage = "inputs" /\ turn = s /\ Alive(s)

\* Fault: the limit is compared before the torpedo is counted.
FireTorpOneMore(s) ==
  /\ Commands(s)
  /\ Cardinality(Entries(torps, s)) <= MaxTorps /\ \E i \in TorpPool : torps[i] = Free
  /\ \E life \in 1 .. TorpLife :
       torps' = [torps EXCEPT ![FirstFree(torps)] =
                   [owner |-> s, team |-> ships[s].team, ticksRemaining |-> life, old |-> FALSE]]
  /\ UNCHANGED <<ships, plasmas, winPause, tick>>

\* fireTorp and allocateTorp
FireTorp(s) ==
  /\ Commands(s)
  /\ Cardinality(Entries(torps, s)) < MaxTorps /\ \E i \in TorpPool : torps[i] = Free
  /\ \E life \in 1 .. TorpLife :
       torps' = [torps EXCEPT ![FirstFree(torps)] =
                   [owner |-> s, team |-> ships[s].team, ticksRemaining |-> life, old |-> FALSE]]
  /\ UNCHANGED <<ships, plasmas, winPause, tick>>

\* firePlasma and allocatePlasma
FirePlasma(s) ==
  /\ Commands(s)
  /\ Entries(plasmas, s) = {} /\ \E i \in PlasmaPool : plasmas[i] = Free
  /\ plasmas' = [plasmas EXCEPT ![FirstFree(plasmas)] =
                   [owner |-> s, team |-> ships[s].team, ticksRemaining |-> PlasmaLife]]
  /\ UNCHANGED <<ships, torps, winPause, tick>>

EnemyEntries(pool, team) == {i \in DOMAIN pool : pool[i] # Free /\ pool[i].team # team}

\* firePhaser: it hits one enemy, or none, and the enemy plasmas near the hit.
FirePhaser(s) ==
  /\ Commands(s)
  /\ \E target \in SUBSET {v \in Slots : ships[v].team # ships[s].team},
        exploding \in SUBSET EnemyEntries(plasmas, ships[s].team) :
       /\ Cardinality(target) <= 1
       /\ Strike(target \cup PlasmaReach(exploding))
       /\ plasmas' = Without(plasmas, exploding)
  /\ UNCHANGED <<torps, winPause, tick>>

Detonate(s) ==
  /\ Commands(s)
  /\ \E near \in SUBSET EnemyEntries(torps, ships[s].team),
        exploding \in SUBSET EnemyEntries(plasmas, ships[s].team) :
       /\ Strike(UNION {DetReach(i, ships[s].team) : i \in near} \cup PlasmaReach(exploding))
       /\ torps' = Without(torps, near)
       /\ plasmas' = Without(plasmas, exploding)
  /\ UNCHANGED <<winPause, tick>>

DetonateSelf(s) ==
  /\ Commands(s)
  /\ torps' = Without(torps, Entries(torps, s))
  /\ UNCHANGED <<ships, plasmas, winPause, tick>>

NextTurn(last, then) ==
  IF turn < NumSlots - 1 THEN turn' = turn + 1 /\ stage' = last
                         ELSE turn' = 0 /\ stage' = then

EndInputs ==
  /\ stage = "inputs"
  /\ NextTurn("inputs", "torpedoes")
  /\ UNCHANGED <<ships, torps, plasmas, winPause>>

-----------------------------------------------------------------------------
(* The tick: updateTorpedoes, updatePlasmas *)

\* Fault: nothing counts down.
MovedForGood(pool) == pool

\* What is in flight and has time left flies on with less of it.
Moved(pool) ==
  [i \in DOMAIN pool |->
     IF pool[i] = Free \/ pool[i].ticksRemaining = 1 THEN Free
     ELSE [pool[i] EXCEPT !.ticksRemaining = @ - 1]]

Flying(pool) == {i \in DOMAIN pool : pool[i] # Free}

\* A torpedo that is out of time is gone without an explosion.  Of the others
\* some explode, and some hit a plasma of another team, each its own.
UpdateTorpedoes ==
  /\ stage = "torpedoes"
  /\ LET moved == Moved(torps)
     IN  \E exploding \in SUBSET Flying(moved) :
         \E hits \in [Flying(plasmas) -> (Flying(moved) \ exploding) \cup {Free}] :
           LET hit == {p \in Flying(plasmas) : hits[p] # Free}
           IN  /\ \A p \in hit : moved[hits[p]].team # plasmas[p].team
               /\ \A p, q \in hit : hits[p] = hits[q] => p = q
               /\ Strike(UNION {TorpReach(i) : i \in exploding} \cup PlasmaReach(hit))
               /\ torps' = Without(moved, exploding \cup {hits[p] : p \in hit})
               /\ plasmas' = Without(plasmas, hit)
  /\ stage' = "plasmas"
  /\ UNCHANGED <<winPause, turn>>

\* A plasma explodes when its time is over or when it meets a ship that is
\* not its owner's; beyond the edge of the galaxy it is gone.
UpdatePlasmas ==
  /\ stage = "plasmas"
  /\ LET moved == Moved(plasmas)
         expired == Flying(plasmas) \ Flying(moved)
     IN  \E gone \in SUBSET Flying(moved) :
         \E met \in SUBSET (Flying(moved) \ gone) :
           /\ \A p \in met : \E v \in Slots : Alive(v) /\ v # plasmas[p].owner
           /\ Strike(PlasmaReach(expired \cup met))
           /\ plasmas' = Without(moved, gone \cup met)
  /\ stage' = "systems"
  /\ UNCHANGED <<torps, winPause, turn>>

-----------------------------------------------------------------------------
(* The tick: what else harms or mends, deaths, and the rest *)

\* updateHostilePlanetDamage, the end of updateRefitting, and updateRepair.
UpdateSystems ==
  /\ stage = "systems"
  /\ \E doomed \in SUBSET {s \in Slots : Alive(s)} :
       ships' = [s \in Slots |-> [ships[s] EXCEPT !.doomed = s \in doomed]]
  /\ stage' = "deaths"
  /\ UNCHANGED <<torps, plasmas, winPause, turn>>

Exploded(ship) ==
  [ship EXCEPT !.status = "EXPLODING", !.doomed = FALSE, !.explodeTicks = ExplosionTicks]

\* The ship in turn dies, and its explosion may doom others: those before it
\* have had their turn.
Dies(s) ==
  /\ Alive(s) /\ ships[s].doomed
  /\ \E fatal \in SUBSET {v \in Slots : Alive(v) /\ v # s} :
       ships' = [v \in Slots |->
                   IF v = s THEN Exploded(ships[s])
                   ELSE [ships[v] EXCEPT !.doomed = @ \/ v \in fatal]]

Survives(s) ==
  /\ ~ (Alive(s) /\ ships[s].doomed)
  /\ UNCHANGED ships

\* Fault: the pass ends with the first death.
CheckDeathsStopsAtFirst ==
  /\ stage = "deaths"
  /\ \/ Dies(turn) /\ stage' = "end" /\ turn' = 0
     \/ Survives(turn) /\ NextTurn("deaths", "end")
  /\ UNCHANGED <<torps, plasmas, winPause>>

\* One iteration of checkDeaths.
CheckDeaths ==
  /\ stage = "deaths"
  /\ Dies(turn) \/ Survives(turn)
  /\ NextTurn("deaths", "end")
  /\ UNCHANGED <<torps, plasmas, winPause>>

\* Fault: an explosion ends one tick late.
BurntLate(ship) ==
  IF ship.status # "EXPLODING" THEN ship
  ELSE IF ship.explodeTicks = 0 THEN [ship EXCEPT !.status = "DEAD", !.sinceDeath = 0]
  ELSE [ship EXCEPT !.explodeTicks = @ - 1]

\* updateExplosions
Burnt(ship) ==
  IF ship.status # "EXPLODING" THEN ship
  ELSE IF ship.explodeTicks = 1
       THEN [ship EXCEPT !.status = "DEAD", !.explodeTicks = 0, !.sinceDeath = 0]
       ELSE [ship EXCEPT !.explodeTicks = @ - 1]

\* currentTick is one more.
Aged(ship) ==
  IF ship.sinceDeath \in 0 .. RespawnDelay - 1 THEN [ship EXCEPT !.sinceDeath = @ + 1] ELSE ship

\* The rest of the tick; the match may have been decided in it.
FinishTick ==
  /\ stage = "end"
  /\ ships' = [s \in Slots |-> Aged(Burnt(ships[s]))]
  /\ winPause' \in {0, WinPauseTicks}
  /\ stage' = "idle"
  /\ UNCHANGED <<torps, plasmas, turn>>

\* A tick of the pause after a win.
PauseTick ==
  /\ stage = "idle" /\ winPause > 1
  /\ winPause' = winPause - 1
  /\ ships' = [s \in Slots |-> Aged(ships[s])]
  /\ UNCHANGED <<torps, plasmas, tick>>

\* What a reset may leave in a slot.  resetGame clears it, resetForNewGame may
\* spawn a bot in it, and handleReset gives it back to a player that has it.
Reseated(ship) ==
  {Initialized(t) : t \in Teams} \cup {[Cleared(ship) EXCEPT !.taken = b] : b \in BOOLEAN}

\* The last tick of the pause.
ResetTick ==
  /\ stage = "idle" /\ winPause = 1
  /\ winPause' = 0
  /\ \E seats \in [Slots -> UNION {Reseated(ships[s]) : s \in Slots}] :
       /\ \A s \in Slots : seats[s] \in Reseated(ships[s])
       /\ ships' = seats
  /\ torps' = NoTorps /\ plasmas' = NoPlasmas
  /\ UNCHANGED tick

-----------------------------------------------------------------------------
Handler(s) == (\E t \in Teams : Join(s, t)) \/ Leave(s) \/ Respawn(s)

Command(s) ==
  \/ FireTorp(s) \/ FirePlasma(s) \/ FirePhaser(s) \/ Detonate(s) \/ DetonateSelf(s)

Tick ==
  \/ StartTick \/ EndInputs \/ UpdateTorpedoes \/ UpdatePlasmas
  \/ UpdateSystems \/ CheckDeaths \/ FinishTick \/ PauseTick \/ ResetTick

Next == (\E s \in Slots : Handler(s) \/ Command(s)) \/ Tick

Spec == Init /\ [][Next]_vars

\* The interval keeps calling tick, and a tick runs to its end.
FairSpec == Spec /\ WF_vars(Tick)

-----------------------------------------------------------------------------
(* Properties *)

\* Nobody has more in flight than the limits allow, whoever flew in the slot
\* before; and the pools are never what keeps a ship from firing.
ArmsWithinLimits ==
  \A s \in Slots :
    /\ Cardinality(Entries(torps, s)) <= MaxTorps
    /\ Cardinality(Entries(plasmas, s)) <= 1
    /\ Cardinality(Entries(torps, s)) < MaxTorps => \E i \in TorpPool : torps[i] = Free
    /\ Entries(plasmas, s) = {} => \E i \in PlasmaPool : plasmas[i] = Free

\* A torpedo in flight was fired in the present life of the present occupant
\* of its owner's slot, and for the team that slot flies for: through leaves,
\* joins, respawns and resets no torpedo is left to a stranger.
TorpsHaveFirer ==
  \A i \in TorpPool : torps[i] # Free =>
    /\ ships[torps[i].owner].taken
    /\ ships[torps[i].owner].team = torps[i].team
    /\ ~ torps[i].old

\* A doomed ship outlives a tick only when a ship after it in the order of
\* slots exploded in the same pass.
ChainEndsNextTick ==
  [][ stage = "end" =>
        \A s \in Slots : Alive(s) /\ ships[s].doomed =>
          \E k \in Slots : k > s /\ ships[k].explodeTicks = ExplosionTicks ]_vars

\* Whoever is exploding or dead may fly again some time: the explosion ends,
\* the torpedoes in flight resolve and the delay passes.
DeathIsTemporary ==
  \A s \in Slots : ships[s].taken /\ ~ Alive(s) ~> ~ ships[s].taken \/ Alive(s) \/ MayRespawn(s)
=============================================================================
