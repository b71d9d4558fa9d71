------------------------------ MODULE Docking ------------------------------
(***************************************************************************)
(* Docking at starbases, orbits, locks and refits: the parts of a ship that*)
(* refer to other ships and planets by number, and what keeps those        *)
(* references right.                                                       *)
(*                                                                         *)
(* dockedAt of a ship and dockedShips of a starbase are two ends of one    *)
(* relation, written by input handlers, by the tick and, through initShip, *)
(* by the handlers that run between two ticks.  A tick is modelled as      *)
(* GameLoopService.tick runs it: the inputs slot by slot, each command one *)
(* action, and then everything else in one action, FinishTick.             *)
(*                                                                         *)
(* Positions, speeds, hull and planet ownership are not kept.  Where the   *)
(* code compares them, the model allows both answers.                      *)
(***************************************************************************)
EXTENDS Integers, FiniteSets, Functions

CONSTANTS
  NumSlots,     \* MAX_PLAYERS
  Teams,        \* the teams in play
  Planets,      \* planets, named by the team whose homeworld they are
  MaxDock,      \* MAX_DOCK_SHIPS
  RefitTicks,   \* REFIT_TICKS
  NumBots,      \* 2 * BOTS_PER_TEAM, the bots of a new match
  BaseSlots,    \* bound: slots whose players may ask for a starbase
  LockSlots,    \* bound: slots that players may lock on
  None          \* -1 in dockedAt, orbitPlanetId and lockTargetId

Slots == 0 .. NumSlots - 1

ASSUME DockingAssumption ==
  /\ NumSlots \in Nat \ {0}
  /\ Planets \subseteq Teams
  /\ MaxDock \in Nat
  /\ RefitTicks \in Nat \ {0}
  /\ NumBots \in Nat
  /\ BaseSlots \subseteq Slots /\ LockSlots \subseteq Slots
  /\ None \notin Slots /\ None \notin Teams /\ None \notin {"SB", "Other"}
  /\ None \notin [type: {"planet"}, id: Planets] \cup [type: {"player"}, id: Slots]

VARIABLES
  ships,   \* slot -> ship
  turn     \* the slot whose inputs the tick is at; NumSlots between two ticks

vars == <<ships, turn>>

ShipTypes == {"SB", "Other"}
PlanetLocks == [type: {"planet"}, id: Planets]
PlayerLocks == [type: {"player"}, id: Slots]

\* EMPTY is status DEAD with an empty playerId: the slot can be taken.
\* dockedShips is kept as the number of times each slot is in the array.
\* Of a ship that is not ALIVE, orbit, lock and refit are never read again
\* before initShip sets them, so the model resets them.
Ship == [status: {"ALIVE", "EXPLODING", "DEAD", "EMPTY"},
         team: Teams,
         shipType: ShipTypes,
         orbit: Planets \cup {None},
         dockedAt: Slots \cup {None},
         dockedShips: [Slots -> Nat],
         lock: PlanetLocks \cup PlayerLocks \cup {None},
         refit: 0 .. RefitTicks,
         refitTo: ShipTypes \cup {None}]

TypeOK == ships \in [Slots -> Ship] /\ turn \in 0 .. NumSlots

Nobody == [s \in Slots |-> 0]

\* The ship types the player in a slot may ask for.
TypesFor(s) == IF s \in BaseSlots THEN ShipTypes ELSE {"Other"}

Idle(ship, status) ==
  [ship EXCEPT !.status = status, !.orbit = None, !.lock = None,
               !.refit = 0, !.refitTo = None]

NewShip(t, type) ==
  [status |-> "ALIVE", team |-> t, shipType |-> type, orbit |-> None,
   dockedAt |-> None, dockedShips |-> Nobody, lock |-> None,
   refit |-> 0, refitTo |-> None]

Init ==
  /\ \E t \in Teams : ships = [s \in Slots |-> [NewShip(t, "Other") EXCEPT !.status = "EMPTY"]]
  /\ turn = NumSlots

-----------------------------------------------------------------------------
(* Docking *)

Alive(S, s) == S[s].status = "ALIVE"

\* dockedShips.length
DockLoad(S, b) == FoldFunction(+, 0, S[b].dockedShips)

\* The tests tryOrbit and updateLock make of a starbase, but for distance.
CanDockAt(S, s, b) ==
  /\ S[s].shipType # "SB"
  /\ Alive(S, b) /\ S[b].shipType = "SB"
  /\ S[b].team = S[s].team
  /\ DockLoad(S, b) < MaxDock

Dock(S, s, b) ==
  [S EXCEPT ![s].dockedAt = b, ![s].orbit = None, ![b].dockedShips[s] = @ + 1]

Undock(S, s) ==
  IF S[s].dockedAt = None THEN S
  ELSE [S EXCEPT ![s].dockedAt = None,
                 ![S[s].dockedAt].dockedShips[s] = IF @ = 0 THEN 0 ELSE @ - 1]

EnterOrbit(S, s, p) == [S EXCEPT ![s].orbit = p, ![s].lock = None]

-----------------------------------------------------------------------------
(* processInputs: the commands of one slot *)

StartTick ==
  /\ turn = NumSlots
  /\ turn' = 0
  /\ UNCHANGED ships

\* The inputs of a ship that is not alive stay in its queue.  Those of a ship
\* that refits are thrown away, but the refit is tested once for all of them: a
\* ship that begins its refit obeys the rest of its inputs of this tick.  Every
\* tick counts down, so that no refit from an earlier one is at RefitTicks.
Commands(s) ==
  turn = s /\ Alive(ships, s) /\ ships[s].refit \in {0, RefitTicks} /\ UNCHANGED turn

\* SET_DIRECTION
SetDirection(s) ==
  /\ Commands(s)
  /\ ships' = [Undock(ships, s) EXCEPT ![s].lock = None, ![s].orbit = None]

\* SET_SPEED; a speed above ORBIT_MAX_SPEED breaks the orbit.
SetSpeed(s, fast) ==
  /\ Commands(s)
  /\ ships' = IF fast THEN [Undock(ships, s) EXCEPT ![s].orbit = None] ELSE Undock(ships, s)

\* FIRE_TORP, FIRE_PHASER and FIRE_PLASMA undock whether or not they can fire.
Fire(s) ==
  /\ Commands(s)
  /\ ships' = Undock(ships, s)

\* ORBIT: the nearest planet, or a starbase that is nearer.
TryOrbit(s) ==
  /\ Commands(s)
  /\ ships[s].orbit = None /\ ships[s].dockedAt = None
  /\ \/ \E b \in Slots : CanDockAt(ships, s, b) /\ ships' = Dock(ships, s, b)
     \/ \E p \in Planets : ships' = EnterOrbit(ships, s, p)

\* LOCK on a planet, on another ship, or on nothing that can be locked.
SetLock(s, l) ==
  /\ Commands(s)
  /\ l \in PlanetLocks => ships[s].orbit # l.id
  /\ l \in PlayerLocks => l.id # s /\ Alive(ships, l.id)
  /\ ships' = [ships EXCEPT ![s].lock = l, ![s].orbit = IF l = None THEN @ ELSE None]

\* checkSbGates but for rank, planets and cooldown, which may refuse as well.
NoActiveBase(S, t) ==
  \A r \in Slots : S[r].team = t /\ S[r].shipType = "SB" => S[r].status \in {"DEAD", "EMPTY"}

\* REFIT; damage, fuel and armies on board may refuse.
TryRefit(s, type) ==
  /\ Commands(s) /\ ships[s].refit = 0
  /\ \/ ships[s].orbit = ships[s].team
     \/ ships[s].dockedAt # None /\ ships[ships[s].dockedAt].team = ships[s].team
  /\ type = "SB" => NoActiveBase(ships, ships[s].team)
  /\ ships' = [ships EXCEPT ![s].refit = RefitTicks, ![s].refitTo = type]

NextSlot ==
  /\ turn < NumSlots - 1
  /\ turn' = turn + 1
  /\ UNCHANGED ships

-----------------------------------------------------------------------------
(* The rest of the tick *)

\* The ships updateLock steers, and those of them that lose their lock
\* because the target is gone or cloaked.
Seeking(S) == {s \in Slots : Alive(S, s) /\ S[s].lock # None /\ S[s].orbit = None}
LostLock(S, hidden) ==
  {s \in Seeking(S) : /\ S[s].lock \in PlayerLocks
                      /\ ~Alive(S, S[s].lock.id) \/ S[s].lock.id \in hidden}

\* The ships that may get what they are locked on, if they have reached it.
MayOrbit(S) == {s \in Seeking(S) : S[s].lock \in PlanetLocks}
MayDock(S, hidden) ==
  {s \in Seeking(S) \ LostLock(S, hidden) :
     S[s].lock \in PlayerLocks /\ S[s].dockedAt = None /\ CanDockAt(S, s, S[s].lock.id)}

\* updateLock goes through the ships in slot order and counts the places as
\* it docks them: of the ships that reach a base, as many dock as find room.
RoomFor(S, docking) ==
  \A s \in docking :
    LET b == S[s].lock.id
    IN  DockLoad(S, b) + Cardinality({r \in docking : S[r].lock.id = b}) <= MaxDock

UpdateLock(S, orbiting, docking, hidden) ==
  [s \in Slots |->
     [S[s] EXCEPT !.orbit = IF s \in orbiting THEN S[s].lock.id ELSE @,
                  !.dockedAt = IF s \in docking THEN S[s].lock.id ELSE @,
                  !.lock = IF s \in orbiting \cup docking \cup LostLock(S, hidden)
                           THEN None ELSE @,
                  !.dockedShips = [r \in Slots |->
                     S[s].dockedShips[r] + IF r \in docking /\ S[r].lock.id = s
                                           THEN 1 ELSE 0]]]

\* A set of ships leaves what they are docked at, each as Undock does.
UndockAll(S, X) ==
  [s \in Slots |->
     [S[s] EXCEPT !.dockedAt = IF s \in X THEN None ELSE @,
                  !.dockedShips = [r \in Slots |->
                     IF r \in X /\ S[r].dockedAt = s /\ S[s].dockedShips[r] > 0
                     THEN S[s].dockedShips[r] - 1 ELSE S[s].dockedShips[r]]]]

\* updateDocking
UpdateDocking(S) ==
  UndockAll(S, {s \in Slots : /\ S[s].dockedAt # None /\ Alive(S, s)
                              /\ ~Alive(S, S[s].dockedAt)})

\* updateTractorPressor pulls ships out of their orbits.
PullOut(S, pulled) ==
  [s \in Slots |-> IF s \in pulled THEN [S[s] EXCEPT !.orbit = None] ELSE S[s]]

\* Fault: a ship that does not refit is counted down as well.
UpdateRefittingUnguarded(S) ==
  [s \in Slots |->
     IF ~Alive(S, s) THEN S[s]
     ELSE IF S[s].refit # 1 THEN [S[s] EXCEPT !.refit = @ - 1]
     ELSE [S[s] EXCEPT !.refit = 0, !.shipType = S[s].refitTo, !.refitTo = None]]

UpdateRefitting(S) ==
  [s \in Slots |->
     IF ~Alive(S, s) \/ S[s].refit = 0 THEN S[s]
     ELSE IF S[s].refit > 1 THEN [S[s] EXCEPT !.refit = @ - 1]
     ELSE [S[s] EXCEPT !.refit = 0, !.shipType = S[s].refitTo, !.refitTo = None]]

\* Fault: a destroyed ship stays in the list of the base it was docked at.
CheckDeathsNoUndock(S, killed) ==
  LET freed == {s \in Slots : /\ S[s].dockedAt \in killed
                              /\ S[S[s].dockedAt].dockedShips[s] > 0}
  IN  [s \in Slots |->
         IF s \in killed
         THEN [Idle(S[s], "EXPLODING") EXCEPT !.dockedShips = Nobody, !.dockedAt = None]
         ELSE IF s \in freed THEN [S[s] EXCEPT !.dockedAt = None] ELSE S[s]]

\* checkDeaths: the ships in killed are destroyed.  A destroyed base lets go
\* of the ships its own list names, and a destroyed ship leaves its base.
CheckDeaths(S, killed) ==
  LET freed == {s \in Slots : /\ S[s].dockedAt \in killed
                              /\ S[S[s].dockedAt].dockedShips[s] > 0}
      T == UndockAll(S, killed)
  IN  [s \in Slots |->
         IF s \in killed
         THEN [Idle(T[s], "EXPLODING") EXCEPT !.dockedShips = Nobody]
         ELSE IF s \in freed THEN [T[s] EXCEPT !.dockedAt = None] ELSE T[s]]

UpdateExplosions(S, gone) ==
  [s \in Slots |-> IF s \in gone THEN [S[s] EXCEPT !.status = "DEAD"] ELSE S[s]]

WithStatus(status) == {s \in Slots : ships[s].status = status}
LockedOn == {ships[s].lock.id : s \in {r \in Slots : ships[r].lock \in PlayerLocks}}

\* updateLock, updateDocking, updateTractorPressor, updateRefitting,
\* checkDeaths and updateExplosions, in this order.
FinishTick ==
  /\ turn = NumSlots - 1
  /\ turn' = NumSlots
  /\ \E hidden \in SUBSET LockedOn, orbiting \in SUBSET MayOrbit(ships) :
     \E docking \in SUBSET MayDock(ships, hidden) :
       /\ RoomFor(ships, docking)
       /\ \E steered \in {UpdateDocking(UpdateLock(ships, orbiting, docking, hidden))} :
          \E pulled \in SUBSET {s \in Slots : steered[s].orbit # None} :
          \E moved \in {UpdateRefitting(PullOut(steered, pulled))} :
          \E killed \in SUBSET WithStatus("ALIVE") :
          \E fought \in {CheckDeaths(moved, killed)} :
          \E gone \in SUBSET WithStatus("EXPLODING") :
            ships' = UpdateExplosions(fought, gone)

-----------------------------------------------------------------------------
(* What happens between two ticks *)

\* joinGame and spawnBot: the lowest empty slot gets a new ship.
Join(s, t, type) ==
  /\ turn = NumSlots
  /\ s \in WithStatus("EMPTY") /\ \A r \in WithStatus("EMPTY") : s <= r
  /\ ships' = [ships EXCEPT ![s] = NewShip(t, type)]
  /\ UNCHANGED turn

\* leaveGame and removeBot: clearShip leaves the references alone.
Leave(s) ==
  /\ turn = NumSlots
  /\ ships[s].status # "EMPTY"
  /\ ships' = [ships EXCEPT ![s] = Idle(@, "EMPTY")]
  /\ UNCHANGED turn

\* respawn asks only for a playerId in the slot; torpedoes in flight and the
\* delay may refuse.
Respawn(s, type) ==
  /\ turn = NumSlots
  /\ ships[s].status # "EMPTY"
  /\ type = "SB" => NoActiveBase(ships, ships[s].team)
  /\ ships' = [ships EXCEPT ![s] = NewShip(ships[s].team, type)]
  /\ UNCHANGED turn

\* The last tick of the pause after a win: every ship is cleared, the lowest
\* slots get bots and every slot of a player its playerId back.
ResetGame(players) ==
  /\ turn = NumSlots
  /\ \E t \in [Slots -> Teams] :
       ships' = [s \in Slots |->
         IF s < NumBots THEN NewShip(t[s], "Other")
         ELSE Idle(ships[s], IF s \in players THEN "DEAD" ELSE "EMPTY")]
  /\ UNCHANGED turn

-----------------------------------------------------------------------------
Input(s) ==
  \/ SetDirection(s)
  \/ \E fast \in BOOLEAN : SetSpeed(s, fast)
  \/ Fire(s)
  \/ TryOrbit(s)
  \/ \E l \in PlanetLocks \cup {m \in PlayerLocks : m.id \in LockSlots} \cup {None} : SetLock(s, l)
  \/ \E type \in TypesFor(s) : TryRefit(s, type)

TickStep == StartTick \/ (\E s \in Slots : Input(s)) \/ NextSlot \/ FinishTick

Handler ==
  \/ \E s \in Slots, t \in Teams : \E type \in TypesFor(s) : Join(s, t, type)
  \/ \E s \in Slots : Leave(s)
  \/ \E s \in Slots : \E type \in TypesFor(s) : Respawn(s, type)
  \/ \E players \in SUBSET {s \in Slots : s >= NumBots} : ResetGame(players)

Next == TickStep \/ Handler

Spec == Init /\ [][Next]_vars
-----------------------------------------------------------------------------
(* Properties *)

\* Both ends of the docking relation say the same: a ship is in the list of
\* the base it is docked at, once, and in no other.
Agreement ==
  \A s, b \in Slots :
    ships[b].dockedShips[s] = IF ships[s].dockedAt = b THEN 1 ELSE 0

\* No command and no tick makes the two ends disagree, in whatever order
\* ships dock, undock, refit, lose their base or die together with it; only a
\* new ship in a slot (join, respawn, reset) can.
TicksKeepAgreement ==
  [][Agreement => Agreement' \/ (turn = NumSlots /\ turn' = NumSlots)]_vars

\* After a tick no living ship is docked at a wreck, a cleared slot or an
\* explosion, as long as the two ends agree.
NoShipDockedAtWreck ==
  [][turn # turn' /\ turn' = NumSlots /\ Agreement =>
       \A s \in Slots : ships'[s].status = "ALIVE" /\ ships'[s].dockedAt # None
                          => ships'[ships'[s].dockedAt].status = "ALIVE"]_vars

\* Only a lock on a planet brings a ship into orbit while it is docked.
DockedAndOrbiting(S, s) == S[s].dockedAt # None /\ S[s].orbit # None
OrbitWhileDockedOnlyByLock ==
  [][\A s \in Slots : DockedAndOrbiting(ships', s) /\ ~DockedAndOrbiting(ships, s)
       => ships[s].lock \in PlanetLocks]_vars

\* What commands and ticks owe the docks between them: the two ends
\* stay in agreement, nobody stays docked at a wreck, and a docked ship enters
\* an orbit by its lock only.
DocksSurviveTicks == TicksKeepAgreement /\ NoShipDockedAtWreck /\ OrbitWhileDockedOnlyByLock
=============================================================================
