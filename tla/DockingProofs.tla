--------------------------- MODULE DockingProofs ---------------------------
(***************************************************************************)
(* Proofs about Docking.  DockLoad, a fold, stays closed: nothing below    *)
(* depends on how many ships a base holds.                                 *)
(***************************************************************************)
EXTENDS Docking, TLAPS

ShipTable == [Slots -> Ship]

\* Agreement, of any table.
Agree(S) ==
  \A s, b \in Slots : S[b].dockedShips[s] = IF S[s].dockedAt = b THEN 1 ELSE 0

\* T is S as far as docking goes.
SameDocks(S, T) ==
  \A s \in Slots : T[s].dockedAt = S[s].dockedAt /\ T[s].dockedShips = S[s].dockedShips

-----------------------------------------------------------------------------
(* The operators keep the types *)

\* None is a slot, a planet and a lock in none of the fields that use it.
LEMMA Distinct ==
  /\ None \notin Slots /\ None \notin Planets
  /\ None \notin PlanetLocks /\ None \notin PlayerLocks
  /\ \A l \in PlanetLocks : l \notin PlayerLocks /\ l.id \in Planets
  /\ \A l \in PlayerLocks : l \notin PlanetLocks /\ l.id \in Slots
BY DockingAssumption DEF PlanetLocks, PlayerLocks

\* A ship whose fields have been set one by one is a ship again.
LEMMA SetDockedShips ==
  ASSUME NEW ship \in Ship, NEW s \in Slots, NEW n \in Nat
  PROVE  [ship EXCEPT !.dockedShips[s] = n] \in Ship
<1>1. [ship.dockedShips EXCEPT ![s] = n] \in [Slots -> Nat]
  BY DEF Ship
<1>2. [ship EXCEPT !.dockedShips[s] = n]
        = [ship EXCEPT !.dockedShips = [ship.dockedShips EXCEPT ![s] = n]]
  BY DEF Ship
<1>3. QED
  BY <1>1, <1>2 DEF Ship

LEMMA SetDockedAt ==
  ASSUME NEW ship \in Ship, NEW d \in Slots \cup {None}
  PROVE  [ship EXCEPT !.dockedAt = d] \in Ship
BY DEF Ship

LEMMA SetOrbit ==
  ASSUME NEW ship \in Ship, NEW p \in Planets \cup {None}
  PROVE  [ship EXCEPT !.orbit = p] \in Ship
BY DEF Ship

LEMMA SetLockType ==
  ASSUME NEW ship \in Ship, NEW l \in PlanetLocks \cup PlayerLocks \cup {None}
  PROVE  [ship EXCEPT !.lock = l] \in Ship
BY DEF Ship

LEMMA UndockType ==
  ASSUME NEW S \in ShipTable, NEW s \in Slots
  PROVE  Undock(S, s) \in ShipTable
<1>1. CASE S[s].dockedAt = None
  BY <1>1 DEF Undock
<1>2. CASE S[s].dockedAt # None
  <2> DEFINE b == S[s].dockedAt
             T == [S EXCEPT ![s].dockedAt = None]
             n == IF T[b].dockedShips[s] = 0 THEN 0 ELSE T[b].dockedShips[s] - 1
  <2>1. b \in Slots
    BY <1>2 DEF ShipTable, Ship
  <2>2. T \in ShipTable
    BY SetDockedAt DEF ShipTable
  <2>3. T[b] \in Ship /\ n \in Nat
    BY <2>1, <2>2 DEF ShipTable, Ship
  <2>4. [T[b] EXCEPT !.dockedShips[s] = n] \in Ship
    BY <2>3, SetDockedShips
  <2>5. Undock(S, s) = [T EXCEPT ![b] = [T[b] EXCEPT !.dockedShips[s] = n]]
    BY <1>2, <2>1, <2>2 DEF Undock, ShipTable
  <2>6. QED
    BY <2>2, <2>4, <2>5 DEF ShipTable
<1>3. QED
  BY <1>1, <1>2

LEMMA DockType ==
  ASSUME NEW S \in ShipTable, NEW s \in Slots, NEW b \in Slots
  PROVE  Dock(S, s, b) \in ShipTable
<1> DEFINE T == [S EXCEPT ![s].dockedAt = b, ![s].orbit = None]
           n == T[b].dockedShips[s] + 1
<1>1. T \in ShipTable
  <2>1. [[S[s] EXCEPT !.dockedAt = b] EXCEPT !.orbit = None] \in Ship
    BY SetDockedAt, SetOrbit DEF ShipTable
  <2>2. T = [S EXCEPT ![s] = [[S[s] EXCEPT !.dockedAt = b] EXCEPT !.orbit = None]]
    BY DEF ShipTable
  <2>3. QED
    BY <2>1, <2>2 DEF ShipTable
<1>2. T[b] \in Ship /\ n \in Nat
  BY <1>1 DEF ShipTable, Ship
<1>3. Dock(S, s, b) = [T EXCEPT ![b] = [T[b] EXCEPT !.dockedShips[s] = n]]
  BY <1>1 DEF Dock, ShipTable
<1>4. QED
  BY <1>1, <1>2, <1>3, SetDockedShips DEF ShipTable

LEMMA NewShipType ==
  ASSUME NEW t \in Teams, NEW type \in ShipTypes
  PROVE  NewShip(t, type) \in Ship
BY DockingAssumption DEF NewShip, Ship, Nobody

LEMMA IdleType ==
  ASSUME NEW ship \in Ship, NEW status \in {"ALIVE", "EXPLODING", "DEAD", "EMPTY"}
  PROVE  Idle(ship, status) \in Ship /\ Idle(ship, status).refit = 0
<1> DEFINE left == [ship EXCEPT !.status = status, !.orbit = None, !.lock = None]
<1>1. left \in Ship
  BY DEF Ship
<1>2. Idle(ship, status) = [[left EXCEPT !.refit = 0] EXCEPT !.refitTo = None]
  BY DEF Idle
<1> HIDE DEF left
<1>3. 0 \in 0 .. RefitTicks
  BY DockingAssumption
<1>4. [left EXCEPT !.refit = 0] \in Ship /\ [left EXCEPT !.refit = 0].refit = 0
  BY <1>1, <1>3 DEF Ship
<1> DEFINE still == [left EXCEPT !.refit = 0]
<1> HIDE DEF still
<1>5. [still EXCEPT !.refitTo = None] \in Ship /\ [still EXCEPT !.refitTo = None].refit = 0
  BY <1>4 DEF Ship, still
<1>6. QED
  BY <1>2, <1>5 DEF still

LEMMA IdleKeeps ==
  ASSUME NEW ship \in Ship, NEW status
  PROVE  /\ Idle(ship, status).dockedAt = ship.dockedAt
         /\ Idle(ship, status).status = status
         /\ Idle(ship, status).orbit = None
BY DEF Idle, Ship

LEMMA UpdateLockType ==
  ASSUME NEW S \in ShipTable, NEW hidden,
         NEW orbiting \in SUBSET MayOrbit(S), NEW docking \in SUBSET MayDock(S, hidden)
  PROVE  UpdateLock(S, orbiting, docking, hidden) \in ShipTable
<1> SUFFICES ASSUME NEW s \in Slots
             PROVE  UpdateLock(S, orbiting, docking, hidden)[s] \in Ship
  BY DEF UpdateLock, ShipTable
<1>1. s \in orbiting => S[s].lock.id \in Planets
  BY Distinct DEF MayOrbit
<1>2. s \in docking => S[s].lock.id \in Slots
  BY Distinct DEF MayDock
<1>3. [r \in Slots |-> S[s].dockedShips[r] + IF r \in docking /\ S[r].lock.id = s THEN 1 ELSE 0]
        \in [Slots -> Nat]
  BY DEF ShipTable, Ship
<1> DEFINE docks ==
      [r \in Slots |-> S[s].dockedShips[r] + IF r \in docking /\ S[r].lock.id = s THEN 1 ELSE 0]
<1>4. UpdateLock(S, orbiting, docking, hidden)[s]
        = [S[s] EXCEPT !.orbit = IF s \in orbiting THEN S[s].lock.id ELSE S[s].orbit,
                       !.dockedAt = IF s \in docking THEN S[s].lock.id ELSE S[s].dockedAt,
                       !.lock = IF s \in orbiting \cup docking \cup LostLock(S, hidden)
                                THEN None ELSE S[s].lock,
                       !.dockedShips = docks]
  BY DEF UpdateLock, ShipTable, Ship
<1>5. S[s] \in Ship
  BY DEF ShipTable
<1> HIDE DEF docks
<1>6. QED
  BY <1>1, <1>2, <1>3, <1>4, <1>5 DEF Ship, docks

LEMMA UndockAllType ==
  ASSUME NEW S \in ShipTable, NEW X
  PROVE  UndockAll(S, X) \in ShipTable
<1> SUFFICES ASSUME NEW s \in Slots
             PROVE  UndockAll(S, X)[s] \in Ship
  BY DEF UndockAll, ShipTable
<1>1. [r \in Slots |-> IF r \in X /\ S[r].dockedAt = s /\ S[s].dockedShips[r] > 0
                       THEN S[s].dockedShips[r] - 1 ELSE S[s].dockedShips[r]] \in [Slots -> Nat]
  BY DEF ShipTable, Ship
<1> DEFINE docks == [r \in Slots |-> IF r \in X /\ S[r].dockedAt = s /\ S[s].dockedShips[r] > 0
                                     THEN S[s].dockedShips[r] - 1 ELSE S[s].dockedShips[r]]
           d == IF s \in X THEN None ELSE S[s].dockedAt
<1>2. S[s] \in Ship
  BY DEF ShipTable
<1>3. UndockAll(S, X)[s] = [S[s] EXCEPT !.dockedAt = d, !.dockedShips = docks]
  BY <1>2 DEF UndockAll, Ship
<1>4. d \in Slots \cup {None}
  BY <1>2 DEF Ship
<1> HIDE DEF docks, d
<1>5. QED
  BY <1>1, <1>2, <1>3, <1>4 DEF Ship, docks

LEMMA PullOutType ==
  ASSUME NEW S \in ShipTable, NEW pulled
  PROVE  PullOut(S, pulled) \in ShipTable
BY DEF PullOut, ShipTable, Ship

LEMMA UpdateRefittingType ==
  ASSUME NEW S \in ShipTable, \A s \in Slots : S[s].refit > 0 => S[s].refitTo # None
  PROVE  UpdateRefitting(S) \in ShipTable
<1> SUFFICES ASSUME NEW s \in Slots
             PROVE  UpdateRefitting(S)[s] \in Ship
  BY DEF UpdateRefitting, ShipTable
<1>1. S[s] \in Ship
  BY DEF ShipTable
<1>2. CASE ~Alive(S, s) \/ S[s].refit = 0
  BY <1>1, <1>2 DEF UpdateRefitting
<1>3. CASE Alive(S, s) /\ S[s].refit > 1
  <2>1. UpdateRefitting(S)[s] = [S[s] EXCEPT !.refit = S[s].refit - 1]
    BY <1>1, <1>3 DEF UpdateRefitting, Ship
  <2>2. S[s].refit - 1 \in 0 .. RefitTicks
    BY <1>1, <1>3, DockingAssumption DEF Ship
  <2>3. QED
    BY <1>1, <2>1, <2>2 DEF Ship
<1>4. CASE Alive(S, s) /\ S[s].refit = 1
  <2>1. UpdateRefitting(S)[s]
          = [S[s] EXCEPT !.refit = 0, !.shipType = S[s].refitTo, !.refitTo = None]
    BY <1>1, <1>4 DEF UpdateRefitting, Ship
  <2>2. S[s].refitTo \in ShipTypes /\ 0 \in 0 .. RefitTicks
    BY <1>1, <1>4, DockingAssumption DEF Ship
  <2>3. QED
    BY <1>1, <2>1, <2>2 DEF Ship
<1>5. QED
  BY <1>1, <1>2, <1>3, <1>4, DockingAssumption DEF Ship

LEMMA CheckDeathsType ==
  ASSUME NEW S \in ShipTable, NEW killed
  PROVE  CheckDeaths(S, killed) \in ShipTable
<1> DEFINE T == UndockAll(S, killed)
<1>1. T \in ShipTable
  BY UndockAllType
<1>2. \A s \in Slots : /\ [T[s] EXCEPT !.dockedAt = None] \in Ship
                       /\ Idle(T[s], "EXPLODING") \in Ship
  BY <1>1, SetDockedAt, IdleType DEF ShipTable
<1>3. \A s \in Slots : [Idle(T[s], "EXPLODING") EXCEPT !.dockedShips = Nobody] \in Ship
  BY <1>2 DEF Ship, Nobody
<1> HIDE DEF T
<1>4. QED
  BY <1>1, <1>2, <1>3 DEF CheckDeaths, ShipTable, T

LEMMA UpdateExplosionsType ==
  ASSUME NEW S \in ShipTable, NEW gone
  PROVE  UpdateExplosions(S, gone) \in ShipTable
BY DEF UpdateExplosions, ShipTable, Ship

-----------------------------------------------------------------------------
(* What the operators of the tick leave alone *)

LEMMA UpdateLockKeeps ==
  ASSUME NEW S \in ShipTable, NEW orbiting, NEW docking, NEW hidden, NEW s \in Slots
  PROVE  LET T == UpdateLock(S, orbiting, docking, hidden)
         IN  /\ T[s].status = S[s].status
             /\ T[s].orbit = IF s \in orbiting THEN S[s].lock.id ELSE S[s].orbit
             /\ T[s].dockedAt = IF s \in docking THEN S[s].lock.id ELSE S[s].dockedAt
             /\ T[s].refit = S[s].refit /\ T[s].refitTo = S[s].refitTo
             /\ \A r \in Slots : T[s].dockedShips[r] =
                  S[s].dockedShips[r] + IF r \in docking /\ S[r].lock.id = s THEN 1 ELSE 0
<1>1. S[s] \in Ship
  BY DEF ShipTable
<1> DEFINE docks ==
      [r \in Slots |-> S[s].dockedShips[r] + IF r \in docking /\ S[r].lock.id = s THEN 1 ELSE 0]
<1>2. UpdateLock(S, orbiting, docking, hidden)[s]
        = [S[s] EXCEPT !.orbit = IF s \in orbiting THEN S[s].lock.id ELSE S[s].orbit,
                       !.dockedAt = IF s \in docking THEN S[s].lock.id ELSE S[s].dockedAt,
                       !.lock = IF s \in orbiting \cup docking \cup LostLock(S, hidden)
                                THEN None ELSE S[s].lock,
                       !.dockedShips = docks]
  BY <1>1 DEF UpdateLock, Ship
<1>3. \A r \in Slots :
        docks[r] = S[s].dockedShips[r] + IF r \in docking /\ S[r].lock.id = s THEN 1 ELSE 0
  OBVIOUS
<1> HIDE DEF docks
<1>4. QED
  BY <1>1, <1>2, <1>3 DEF Ship

LEMMA UndockAllKeeps ==
  ASSUME NEW S \in ShipTable, NEW X, NEW s \in Slots
  PROVE  /\ UndockAll(S, X)[s].status = S[s].status
         /\ UndockAll(S, X)[s].orbit = S[s].orbit
         /\ UndockAll(S, X)[s].dockedAt = IF s \in X THEN None ELSE S[s].dockedAt
<1>1. S[s] \in Ship
  BY DEF ShipTable
<1>2. QED
  BY <1>1 DEF UndockAll, Ship

LEMMA UpdateRefittingKeeps ==
  ASSUME NEW S \in ShipTable, NEW s \in Slots
  PROVE  /\ UpdateRefitting(S)[s].status = S[s].status
         /\ UpdateRefitting(S)[s].orbit = S[s].orbit
         /\ UpdateRefitting(S)[s].dockedAt = S[s].dockedAt
         /\ UpdateRefitting(S)[s].dockedShips = S[s].dockedShips
<1>1. S[s] \in Ship
  BY DEF ShipTable
<1>2. \/ UpdateRefitting(S)[s] = S[s]
      \/ UpdateRefitting(S)[s] = [S[s] EXCEPT !.refit = S[s].refit - 1]
      \/ UpdateRefitting(S)[s]
           = [S[s] EXCEPT !.refit = 0, !.shipType = S[s].refitTo, !.refitTo = None]
  BY <1>1 DEF UpdateRefitting, Ship
<1>3. QED
  BY <1>1, <1>2 DEF Ship

-----------------------------------------------------------------------------
(* Types: the invariant *)

\* A countdown above zero has a ship type to end with.
RefitHasTarget(S) == \A s \in Slots : S[s].refit > 0 => S[s].refitTo # None

IInv == TypeOK /\ RefitHasTarget(ships)

\* The steps a tick takes after the inputs, with what they are chosen from.
Finished(orbiting, docking, hidden, pulled, killed, gone) ==
  /\ hidden \in SUBSET LockedOn
  /\ orbiting \in SUBSET MayOrbit(ships)
  /\ docking \in SUBSET MayDock(ships, hidden)
  /\ killed \in SUBSET WithStatus("ALIVE")
  /\ gone \in SUBSET WithStatus("EXPLODING")
  /\ ships' = UpdateExplosions(
                CheckDeaths(
                  UpdateRefitting(
                    PullOut(UpdateDocking(UpdateLock(ships, orbiting, docking, hidden)),
                            pulled)), killed), gone)

LEMMA FinishTickSteps ==
  ASSUME FinishTick
  PROVE  \E orbiting, docking, hidden, pulled, killed, gone :
           Finished(orbiting, docking, hidden, pulled, killed, gone)
<1>1. PICK hidden \in SUBSET LockedOn, orbiting \in SUBSET MayOrbit(ships) :
        \E docking \in SUBSET MayDock(ships, hidden) :
          \E steered \in {UpdateDocking(UpdateLock(ships, orbiting, docking, hidden))} :
          \E pulled \in SUBSET {s \in Slots : steered[s].orbit # None} :
          \E moved \in {UpdateRefitting(PullOut(steered, pulled))} :
          \E killed \in SUBSET WithStatus("ALIVE") :
          \E fought \in {CheckDeaths(moved, killed)} :
          \E gone \in SUBSET WithStatus("EXPLODING") :
            ships' = UpdateExplosions(fought, gone)
  BY DEF FinishTick
<1>2. PICK docking \in SUBSET MayDock(ships, hidden) :
          \E steered \in {UpdateDocking(UpdateLock(ships, orbiting, docking, hidden))} :
          \E pulled \in SUBSET {s \in Slots : steered[s].orbit # None} :
          \E moved \in {UpdateRefitting(PullOut(steered, pulled))} :
          \E killed \in SUBSET WithStatus("ALIVE") :
          \E fought \in {CheckDeaths(moved, killed)} :
          \E gone \in SUBSET WithStatus("EXPLODING") :
            ships' = UpdateExplosions(fought, gone)
  BY <1>1
<1> DEFINE steered == UpdateDocking(UpdateLock(ships, orbiting, docking, hidden))
<1>3. PICK pulled \in SUBSET {s \in Slots : steered[s].orbit # None} :
          \E moved \in {UpdateRefitting(PullOut(steered, pulled))} :
          \E killed \in SUBSET WithStatus("ALIVE") :
          \E fought \in {CheckDeaths(moved, killed)} :
          \E gone \in SUBSET WithStatus("EXPLODING") :
            ships' = UpdateExplosions(fought, gone)
  BY <1>2
<1> DEFINE moved == UpdateRefitting(PullOut(steered, pulled))
<1>4. PICK killed \in SUBSET WithStatus("ALIVE") :
          \E fought \in {CheckDeaths(moved, killed)} :
          \E gone \in SUBSET WithStatus("EXPLODING") :
            ships' = UpdateExplosions(fought, gone)
  BY <1>3
<1>5. PICK gone \in SUBSET WithStatus("EXPLODING") :
            ships' = UpdateExplosions(CheckDeaths(moved, killed), gone)
  BY <1>4
<1>6. Finished(orbiting, docking, hidden, pulled, killed, gone)
  BY <1>1, <1>2, <1>4, <1>5 DEF Finished
<1>7. QED
  BY <1>6

LEMMA StageTypes ==
  ASSUME IInv, NEW orbiting, NEW docking, NEW hidden, NEW pulled, NEW killed, NEW gone,
         Finished(orbiting, docking, hidden, pulled, killed, gone)
  PROVE  LET locked == UpdateLock(ships, orbiting, docking, hidden)
             steered == PullOut(UpdateDocking(locked), pulled)
             refitted == UpdateRefitting(steered)
             fought == CheckDeaths(refitted, killed)
         IN  /\ ships' = UpdateExplosions(fought, gone)
             /\ ships \in ShipTable /\ locked \in ShipTable
             /\ UpdateDocking(locked) \in ShipTable /\ steered \in ShipTable
             /\ refitted \in ShipTable /\ fought \in ShipTable /\ ships' \in ShipTable
             /\ RefitHasTarget(ships)'
<1> DEFINE locked == UpdateLock(ships, orbiting, docking, hidden)
           steered == PullOut(UpdateDocking(locked), pulled)
           refitted == UpdateRefitting(steered)
           fought == CheckDeaths(refitted, killed)
<1>2. ships \in ShipTable /\ RefitHasTarget(ships)
  BY DEF IInv, TypeOK, ShipTable
<1>3. locked \in ShipTable /\ RefitHasTarget(locked)
  <2>1. locked \in ShipTable
    BY <1>2, UpdateLockType DEF Finished
  <2>2. \A s \in Slots : locked[s].refit = ships[s].refit /\ locked[s].refitTo = ships[s].refitTo
    BY <1>2, UpdateLockKeeps
  <2>3. QED
    BY <1>2, <2>1, <2>2 DEF RefitHasTarget
<1> HIDE DEF locked
<1>4. UpdateDocking(locked) \in ShipTable /\ RefitHasTarget(UpdateDocking(locked))
  <2>1. UpdateDocking(locked) \in ShipTable
    BY <1>3, UndockAllType DEF UpdateDocking
  <2>2. \A s \in Slots : /\ UpdateDocking(locked)[s].refit = locked[s].refit
                         /\ UpdateDocking(locked)[s].refitTo = locked[s].refitTo
    BY <1>3 DEF UpdateDocking, UndockAll, ShipTable, Ship
  <2>3. QED
    BY <1>3, <2>1, <2>2 DEF RefitHasTarget
<1>5. steered \in ShipTable /\ RefitHasTarget(steered)
  <2>1. steered \in ShipTable
    BY <1>4, PullOutType
  <2>2. \A s \in Slots : /\ steered[s].refit = UpdateDocking(locked)[s].refit
                         /\ steered[s].refitTo = UpdateDocking(locked)[s].refitTo
    BY <1>4 DEF PullOut, ShipTable, Ship
  <2>3. QED
    BY <1>4, <2>1, <2>2 DEF RefitHasTarget
<1> HIDE DEF steered
<1>6. refitted \in ShipTable /\ RefitHasTarget(refitted)
  <2>1. refitted \in ShipTable
    BY <1>5, UpdateRefittingType DEF RefitHasTarget
  <2>2. RefitHasTarget(refitted)
    BY <1>5, DockingAssumption DEF RefitHasTarget, UpdateRefitting, ShipTable, Ship
  <2>3. QED
    BY <2>1, <2>2
<1> HIDE DEF refitted
<1>7. fought \in ShipTable /\ RefitHasTarget(fought)
  <2>1. fought \in ShipTable
    BY <1>6, CheckDeathsType
  <2>2. \A s \in Slots : \/ fought[s].refit = 0
                         \/ /\ fought[s].refit = refitted[s].refit
                            /\ fought[s].refitTo = refitted[s].refitTo
    BY <1>6 DEF CheckDeaths, UndockAll, Idle, ShipTable, Ship
  <2>3. QED
    BY <1>6, <2>1, <2>2 DEF RefitHasTarget
<1> HIDE DEF fought
<1>8. /\ UpdateExplosions(fought, gone) \in ShipTable
      /\ RefitHasTarget(UpdateExplosions(fought, gone))
  <2>1. UpdateExplosions(fought, gone) \in ShipTable
    BY <1>7, UpdateExplosionsType
  <2>2. \A s \in Slots : /\ UpdateExplosions(fought, gone)[s].refit = fought[s].refit
                         /\ UpdateExplosions(fought, gone)[s].refitTo = fought[s].refitTo
    BY <1>7 DEF UpdateExplosions, ShipTable, Ship
  <2>3. QED
    BY <1>7, <2>1, <2>2 DEF RefitHasTarget
<1>9. ships' = UpdateExplosions(fought, gone)
  BY DEF Finished, fought, refitted, steered, locked
<1>10. QED
  BY <1>2, <1>3, <1>4, <1>5, <1>6, <1>7, <1>8, <1>9
     DEF RefitHasTarget, fought, refitted, steered, locked

LEMMA FinishTickTypes ==
  ASSUME IInv, FinishTick
  PROVE  ships' \in ShipTable /\ RefitHasTarget(ships)'
BY FinishTickSteps, StageTypes

\* What a command of slot s can do to the table.
LEMMA InputSteps ==
  ASSUME NEW s \in Slots, Input(s)
  PROVE  \/ ships' = [Undock(ships, s) EXCEPT ![s].lock = None, ![s].orbit = None]
         \/ ships' = [Undock(ships, s) EXCEPT ![s].orbit = None]
         \/ ships' = Undock(ships, s)
         \/ /\ ships[s].dockedAt = None
            /\ \/ \E b \in Slots : ships[b].shipType = "SB" /\ ships' = Dock(ships, s, b)
               \/ \E p \in Planets : ships' = EnterOrbit(ships, s, p)
         \/ \E l \in PlanetLocks \cup PlayerLocks \cup {None} :
              ships' = [ships EXCEPT ![s].lock = l, ![s].orbit = IF l = None THEN @ ELSE None]
         \/ \E type \in ShipTypes :
              ships' = [ships EXCEPT ![s].refit = RefitTicks, ![s].refitTo = type]
<1>1. ASSUME SetDirection(s) PROVE ships' = [Undock(ships, s) EXCEPT ![s].lock = None, ![s].orbit = None]
  BY <1>1 DEF SetDirection
<1>2. ASSUME NEW fast \in BOOLEAN, SetSpeed(s, fast)
      PROVE  \/ ships' = [Undock(ships, s) EXCEPT ![s].orbit = None]
             \/ ships' = Undock(ships, s)
  BY <1>2 DEF SetSpeed
<1>3. ASSUME Fire(s) PROVE ships' = Undock(ships, s)
  BY <1>3 DEF Fire
<1>4. ASSUME TryOrbit(s)
      PROVE  /\ ships[s].dockedAt = None
             /\ \/ \E b \in Slots : ships[b].shipType = "SB" /\ ships' = Dock(ships, s, b)
                \/ \E p \in Planets : ships' = EnterOrbit(ships, s, p)
  BY <1>4 DEF TryOrbit, CanDockAt
<1>5. ASSUME NEW l \in PlanetLocks \cup {m \in PlayerLocks : m.id \in LockSlots} \cup {None},
             SetLock(s, l)
      PROVE  \E k \in PlanetLocks \cup PlayerLocks \cup {None} :
               ships' = [ships EXCEPT ![s].lock = k, ![s].orbit = IF k = None THEN @ ELSE None]
  BY <1>5 DEF SetLock
<1>6. ASSUME NEW type \in TypesFor(s), TryRefit(s, type)
      PROVE  \E k \in ShipTypes :
               ships' = [ships EXCEPT ![s].refit = RefitTicks, ![s].refitTo = k]
  BY <1>6 DEF TryRefit, TypesFor, ShipTypes
<1>7. QED
  BY <1>1, <1>2, <1>3, <1>4, <1>5, <1>6 DEF Input

LEMMA InputTypes ==
  ASSUME IInv, NEW s \in Slots, Input(s)
  PROVE  ships' \in ShipTable /\ RefitHasTarget(ships)'
<1>1. ships \in ShipTable /\ RefitHasTarget(ships)
  BY DEF IInv, TypeOK, ShipTable
<1> DEFINE left == Undock(ships, s)
<1>2. left \in ShipTable
  BY <1>1, UndockType
<1>3. \A r \in Slots : left[r].refit = ships[r].refit /\ left[r].refitTo = ships[r].refitTo
  BY <1>1 DEF Undock, ShipTable, Ship
<1> HIDE DEF left
<1>4. CASE ships' = [left EXCEPT ![s].lock = None, ![s].orbit = None]
  <2>1. [[left[s] EXCEPT !.lock = None] EXCEPT !.orbit = None] \in Ship
    BY <1>2, SetLockType, SetOrbit DEF ShipTable
  <2>2. ships' = [left EXCEPT ![s] = [[left[s] EXCEPT !.lock = None] EXCEPT !.orbit = None]]
    BY <1>2, <1>4 DEF ShipTable
  <2>3. \A r \in Slots : ships'[r].refit = left[r].refit /\ ships'[r].refitTo = left[r].refitTo
    BY <1>2, <2>2 DEF ShipTable, Ship
  <2>4. QED
    BY <1>1, <1>2, <1>3, <2>1, <2>2, <2>3 DEF ShipTable, RefitHasTarget
<1>5. CASE ships' = [left EXCEPT ![s].orbit = None]
  <2>1. [left[s] EXCEPT !.orbit = None] \in Ship
    BY <1>2, SetOrbit DEF ShipTable
  <2>2. \A r \in Slots : ships'[r].refit = left[r].refit /\ ships'[r].refitTo = left[r].refitTo
    BY <1>2, <1>5 DEF ShipTable, Ship
  <2>3. QED
    BY <1>1, <1>2, <1>3, <1>5, <2>1, <2>2 DEF ShipTable, RefitHasTarget
<1>6. CASE ships' = left
  BY <1>1, <1>2, <1>3, <1>6 DEF RefitHasTarget
<1>7. ASSUME NEW b \in Slots, ships' = Dock(ships, s, b)
      PROVE  ships' \in ShipTable /\ RefitHasTarget(ships)'
  <2>1. ships' \in ShipTable
    BY <1>1, <1>7, DockType
  <2>2. \A r \in Slots : ships'[r].refit = ships[r].refit /\ ships'[r].refitTo = ships[r].refitTo
    BY <1>1, <1>7 DEF Dock, ShipTable, Ship
  <2>3. QED
    BY <1>1, <2>1, <2>2 DEF RefitHasTarget
<1>8. ASSUME NEW p \in Planets, ships' = EnterOrbit(ships, s, p)
      PROVE  ships' \in ShipTable /\ RefitHasTarget(ships)'
  <2>1. [[ships[s] EXCEPT !.orbit = p] EXCEPT !.lock = None] \in Ship
    BY <1>1, SetLockType, SetOrbit DEF ShipTable
  <2>2. ships' = [ships EXCEPT ![s] = [[ships[s] EXCEPT !.orbit = p] EXCEPT !.lock = None]]
    BY <1>1, <1>8 DEF EnterOrbit, ShipTable
  <2>3. \A r \in Slots : ships'[r].refit = ships[r].refit /\ ships'[r].refitTo = ships[r].refitTo
    BY <1>1, <2>2 DEF ShipTable, Ship
  <2>4. QED
    BY <1>1, <2>1, <2>2, <2>3 DEF ShipTable, RefitHasTarget
<1>9. ASSUME NEW l \in PlanetLocks \cup PlayerLocks \cup {None},
             ships' = [ships EXCEPT ![s].lock = l, ![s].orbit = IF l = None THEN @ ELSE None]
      PROVE  ships' \in ShipTable /\ RefitHasTarget(ships)'
  <2> DEFINE p == IF l = None THEN ships[s].orbit ELSE None
  <2>1. p \in Planets \cup {None}
    BY <1>1 DEF ShipTable, Ship
  <2>2. [[ships[s] EXCEPT !.lock = l] EXCEPT !.orbit = p] \in Ship
    BY <1>1, <2>1, SetLockType, SetOrbit DEF ShipTable
  <2>3. ships' = [ships EXCEPT ![s] = [[ships[s] EXCEPT !.lock = l] EXCEPT !.orbit = p]]
    BY <1>1, <1>9 DEF ShipTable, Ship
  <2>4. \A r \in Slots : ships'[r].refit = ships[r].refit /\ ships'[r].refitTo = ships[r].refitTo
    BY <1>1, <2>3 DEF ShipTable, Ship
  <2>5. QED
    BY <1>1, <2>2, <2>3, <2>4 DEF ShipTable, RefitHasTarget
<1>10. ASSUME NEW type \in ShipTypes,
              ships' = [ships EXCEPT ![s].refit = RefitTicks, ![s].refitTo = type]
       PROVE  ships' \in ShipTable /\ RefitHasTarget(ships)'
  <2>1. RefitTicks \in 0 .. RefitTicks /\ type # None
    BY DockingAssumption DEF ShipTypes
  <2>2. [ships[s] EXCEPT !.refit = RefitTicks, !.refitTo = type] \in Ship
    <3> DEFINE began == [ships[s] EXCEPT !.refit = RefitTicks]
    <3>1. ships[s] \in Ship
      BY <1>1 DEF ShipTable
    <3>2. [ships[s] EXCEPT !.refit = RefitTicks, !.refitTo = type] = [began EXCEPT !.refitTo = type]
      BY <3>1 DEF Ship
    <3>3. began \in Ship
      BY <2>1, <3>1 DEF Ship
    <3> HIDE DEF began
    <3>4. QED
      BY <3>2, <3>3 DEF Ship
  <2>3. ships' = [ships EXCEPT ![s] = [ships[s] EXCEPT !.refit = RefitTicks, !.refitTo = type]]
    BY <1>1, <1>10 DEF ShipTable
  <2>4. \A r \in Slots : \/ ships'[r].refitTo = type
                         \/ /\ ships'[r].refit = ships[r].refit
                            /\ ships'[r].refitTo = ships[r].refitTo
    BY <1>1, <2>3 DEF ShipTable, Ship
  <2>5. QED
    BY <1>1, <2>1, <2>2, <2>3, <2>4 DEF ShipTable, RefitHasTarget
<1>11. QED
  BY InputSteps, <1>4, <1>5, <1>6, <1>7, <1>8, <1>9, <1>10 DEF left

LEMMA HandlerTypes ==
  ASSUME IInv, Handler
  PROVE  ships' \in ShipTable /\ RefitHasTarget(ships)'
<1>1. ships \in ShipTable /\ RefitHasTarget(ships)
  BY DEF IInv, TypeOK, ShipTable
<1>2. \A s \in Slots : TypesFor(s) \subseteq ShipTypes
  BY DEF TypesFor, ShipTypes
<1>3. ASSUME NEW s \in Slots, NEW t \in Teams, NEW type \in ShipTypes,
             ships' = [ships EXCEPT ![s] = NewShip(t, type)]
      PROVE  ships' \in ShipTable /\ RefitHasTarget(ships)'
  <2>1. NewShip(t, type) \in Ship /\ NewShip(t, type).refit = 0
    BY NewShipType DEF NewShip
  <2>2. QED
    BY <1>1, <1>3, <2>1 DEF ShipTable, RefitHasTarget
<1>4. ASSUME NEW s \in Slots, ships' = [ships EXCEPT ![s] = Idle(@, "EMPTY")]
      PROVE  ships' \in ShipTable /\ RefitHasTarget(ships)'
  <2>1. Idle(ships[s], "EMPTY") \in Ship /\ Idle(ships[s], "EMPTY").refit = 0
    BY <1>1, IdleType DEF ShipTable
  <2>2. QED
    BY <1>1, <1>4, <2>1 DEF ShipTable, RefitHasTarget
<1>5. ASSUME NEW players \in SUBSET {s \in Slots : s >= NumBots}, ResetGame(players)
      PROVE  ships' \in ShipTable /\ RefitHasTarget(ships)'
  <2>1. PICK t \in [Slots -> Teams] :
          ships' = [s \in Slots |->
            IF s < NumBots THEN NewShip(t[s], "Other")
            ELSE Idle(ships[s], IF s \in players THEN "DEAD" ELSE "EMPTY")]
    BY <1>5 DEF ResetGame
  <2>2. \A s \in Slots : NewShip(t[s], "Other") \in Ship /\ NewShip(t[s], "Other").refit = 0
    BY NewShipType DEF NewShip, ShipTypes
  <2>3. \A s \in Slots, status \in {"DEAD", "EMPTY"} :
          Idle(ships[s], status) \in Ship /\ Idle(ships[s], status).refit = 0
    BY <1>1, IdleType DEF ShipTable
  <2>4. \A s \in Slots : ships'[s] \in Ship /\ ships'[s].refit = 0
    BY <2>1, <2>2, <2>3
  <2>5. QED
    BY <2>1, <2>4 DEF ShipTable, RefitHasTarget
<1>6. ASSUME NEW s \in Slots, NEW t \in Teams, NEW type \in TypesFor(s), Join(s, t, type)
      PROVE  ships' \in ShipTable /\ RefitHasTarget(ships)'
  BY <1>2, <1>3, <1>6 DEF Join
<1>7. ASSUME NEW s \in Slots, NEW type \in TypesFor(s), Respawn(s, type)
      PROVE  ships' \in ShipTable /\ RefitHasTarget(ships)'
  <2>1. ships[s].team \in Teams
    BY <1>1 DEF ShipTable, Ship
  <2>2. QED
    BY <1>2, <1>3, <1>7, <2>1 DEF Respawn
<1>8. ASSUME NEW s \in Slots, Leave(s)
      PROVE  ships' \in ShipTable /\ RefitHasTarget(ships)'
  BY <1>4, <1>8 DEF Leave
<1>9. QED
  BY <1>5, <1>6, <1>7, <1>8 DEF Handler

\* Every step of the specification keeps the invariant.
LEMMA IInvStep == IInv /\ [Next]_vars => IInv'
<1> SUFFICES ASSUME IInv, [Next]_vars
             PROVE  IInv'
  OBVIOUS
<1>1. ships \in ShipTable /\ RefitHasTarget(ships) /\ turn \in 0 .. NumSlots
  BY DEF IInv, TypeOK, ShipTable
<1>2. CASE StartTick \/ NextSlot \/ UNCHANGED vars
  BY <1>1, <1>2, DockingAssumption DEF StartTick, NextSlot, vars, IInv, TypeOK, ShipTable
<1>3. ASSUME NEW s \in Slots, Input(s) PROVE IInv'
  <2>1. turn' = turn
    BY <1>3 DEF Input, SetDirection, SetSpeed, Fire, TryOrbit, SetLock, TryRefit, Commands
  <2>2. QED
    BY <1>1, <1>3, <2>1, InputTypes DEF IInv, TypeOK, ShipTable
<1>4. CASE FinishTick
  <2>1. turn' \in 0 .. NumSlots
    BY <1>4, DockingAssumption DEF FinishTick
  <2>2. QED
    BY <1>4, <2>1, FinishTickTypes DEF IInv, TypeOK, ShipTable
<1>5. CASE Handler
  <2>1. turn' = turn
    BY <1>5 DEF Handler, Join, Leave, Respawn, ResetGame
  <2>2. QED
    BY <1>1, <1>5, <2>1, HandlerTypes DEF IInv, TypeOK, ShipTable
<1>6. QED
  BY <1>2, <1>3, <1>4, <1>5 DEF Next, TickStep

LEMMA IInvInit == Init => IInv
<1> SUFFICES ASSUME Init PROVE IInv
  OBVIOUS
<1>1. PICK t \in Teams : ships = [s \in Slots |-> [NewShip(t, "Other") EXCEPT !.status = "EMPTY"]]
  BY DEF Init
<1>2. [NewShip(t, "Other") EXCEPT !.status = "EMPTY"] \in Ship
  BY NewShipType DEF Ship, ShipTypes
<1>3. [NewShip(t, "Other") EXCEPT !.status = "EMPTY"].refit = 0
  BY DEF NewShip
<1>4. turn \in 0 .. NumSlots
  BY DockingAssumption DEF Init
<1>5. ships \in [Slots -> Ship] /\ \A s \in Slots : ships[s].refit = 0
  BY <1>1, <1>2, <1>3
<1>6. QED
  BY <1>4, <1>5 DEF IInv, TypeOK, RefitHasTarget

LEMMA Invariance == Spec => []IInv
<1>1. Init => IInv
  BY IInvInit
<1>2. IInv /\ [Next]_vars => IInv'
  BY IInvStep
<1>3. QED
  BY <1>1, <1>2, PTL DEF Spec

\* The ship table keeps its shape through every tick and handler: references
\* name slots and planets, and a refit that runs out always has a ship type to
\* end with (updateRefitting sets shipType from the pending type unchecked).
THEOREM TypeCorrect == Spec => []TypeOK
<1>1. IInv => TypeOK
  BY DEF IInv
<1>2. QED
  BY <1>1, Invariance, PTL

-----------------------------------------------------------------------------
(* The two ends of the docking relation *)

LEMMA SameDocksAgree ==
  ASSUME NEW S, NEW T, SameDocks(S, T), Agree(S)
  PROVE  Agree(T)
BY DEF SameDocks, Agree

LEMMA UndockAgree ==
  ASSUME NEW S \in ShipTable, NEW s \in Slots, Agree(S)
  PROVE  Agree(Undock(S, s))
<1>1. CASE S[s].dockedAt = None
  BY <1>1 DEF Undock
<1>2. CASE S[s].dockedAt # None
  <2> DEFINE b == S[s].dockedAt
             T == [S EXCEPT ![s].dockedAt = None]
             n == IF T[b].dockedShips[s] = 0 THEN 0 ELSE T[b].dockedShips[s] - 1
  <2>1. b \in Slots
    BY <1>2 DEF ShipTable, Ship
  <2>2. T \in ShipTable
    BY SetDockedAt DEF ShipTable
  <2>3. Undock(S, s) = [T EXCEPT ![b] = [T[b] EXCEPT !.dockedShips[s] = n]]
    BY <1>2, <2>1, <2>2 DEF Undock, ShipTable
  <2>4. n = 0
    BY <2>1 DEF Agree, ShipTable, Ship
  <2>5. \A r \in Slots : Undock(S, s)[r].dockedAt = IF r = s THEN None ELSE S[r].dockedAt
    <3>1. \A r \in Slots : Undock(S, s)[r].dockedAt = T[r].dockedAt
      BY <2>1, <2>2, <2>3 DEF ShipTable, Ship
    <3>2. \A r \in Slots : T[r].dockedAt = IF r = s THEN None ELSE S[r].dockedAt
      BY DEF ShipTable, Ship
    <3>3. QED
      BY <3>1, <3>2
  <2>6. \A r, c \in Slots : Undock(S, s)[c].dockedShips[r] =
                              IF r = s /\ c = b THEN 0 ELSE S[c].dockedShips[r]
    <3>1. S[b] \in Ship /\ T[b] \in Ship /\ DOMAIN T = Slots
      BY <2>1, <2>2 DEF ShipTable
    <3>2. T[b].dockedShips = S[b].dockedShips
      BY <2>1 DEF ShipTable, Ship
    <3> HIDE DEF b, n
    <3>3. Undock(S, s)[b].dockedShips = [S[b].dockedShips EXCEPT ![s] = 0]
      BY <2>1, <2>3, <2>4, <3>1, <3>2 DEF Ship
    <3>4. \A r \in Slots : Undock(S, s)[b].dockedShips[r] = IF r = s THEN 0 ELSE S[b].dockedShips[r]
      BY <3>1, <3>3 DEF Ship
    <3>5. ASSUME NEW c \in Slots, c # b
          PROVE  Undock(S, s)[c].dockedShips = S[c].dockedShips
      <4>1. Undock(S, s)[c] = T[c]
        BY <2>3, <3>1, <3>5
      <4>2. T[c].dockedShips = S[c].dockedShips
        BY DEF ShipTable, Ship
      <4>3. QED
        BY <4>1, <4>2
    <3>6. QED
      BY <3>4, <3>5
  <2>7. \A c \in Slots : c # None
    BY DockingAssumption
  <2>8. QED
    BY <2>5, <2>6, <2>7 DEF Agree
<1>3. QED
  BY <1>1, <1>2

LEMMA DockAgree ==
  ASSUME NEW S \in ShipTable, NEW s \in Slots, NEW b \in Slots,
         Agree(S), S[s].dockedAt = None
  PROVE  Agree(Dock(S, s, b))
<1> DEFINE T == [S EXCEPT ![s].dockedAt = b, ![s].orbit = None]
<1>1. T \in ShipTable /\ T[b].dockedShips = S[b].dockedShips
  <2>1. [[S[s] EXCEPT !.dockedAt = b] EXCEPT !.orbit = None] \in Ship
    BY SetDockedAt, SetOrbit DEF ShipTable
  <2>2. T = [S EXCEPT ![s] = [[S[s] EXCEPT !.dockedAt = b] EXCEPT !.orbit = None]]
    BY DEF ShipTable
  <2>3. QED
    BY <2>1, <2>2 DEF ShipTable, Ship
<1>2. Dock(S, s, b) = [T EXCEPT ![b] = [T[b] EXCEPT !.dockedShips[s] = T[b].dockedShips[s] + 1]]
  BY <1>1 DEF Dock, ShipTable
<1>3. S[b].dockedShips[s] = 0
  BY DockingAssumption DEF Agree
<1>4. \A r \in Slots : Dock(S, s, b)[r].dockedAt = IF r = s THEN b ELSE S[r].dockedAt
  BY <1>1, <1>2 DEF ShipTable, Ship
<1>5. \A r, c \in Slots : Dock(S, s, b)[c].dockedShips[r] =
                            IF r = s /\ c = b THEN 1 ELSE S[c].dockedShips[r]
  <2>1. S[b] \in Ship /\ T[b] \in Ship /\ DOMAIN T = Slots
    BY <1>1 DEF ShipTable
  <2>2. Dock(S, s, b)[b].dockedShips = [S[b].dockedShips EXCEPT ![s] = 1]
    BY <1>1, <1>2, <1>3, <2>1 DEF Ship
  <2>3. \A r \in Slots : Dock(S, s, b)[b].dockedShips[r] = IF r = s THEN 1 ELSE S[b].dockedShips[r]
    BY <2>1, <2>2 DEF Ship
  <2>4. ASSUME NEW c \in Slots, c # b
        PROVE  Dock(S, s, b)[c].dockedShips = S[c].dockedShips
    <3>1. Dock(S, s, b)[c] = T[c]
      BY <1>2, <2>1, <2>4
    <3>2. T[c].dockedShips = S[c].dockedShips
      BY DEF ShipTable, Ship
    <3>3. QED
      BY <3>1, <3>2
  <2>5. QED
    BY <2>3, <2>4
<1>6. QED
  BY <1>4, <1>5, DockingAssumption DEF Agree

LEMMA UndockAllAgree ==
  ASSUME NEW S \in ShipTable, NEW X, Agree(S)
  PROVE  Agree(UndockAll(S, X))
<1>1. \A s \in Slots : UndockAll(S, X)[s].dockedAt = IF s \in X THEN None ELSE S[s].dockedAt
  BY DEF UndockAll, ShipTable, Ship
<1>2. \A s, b \in Slots : UndockAll(S, X)[b].dockedShips[s] =
        IF s \in X /\ S[s].dockedAt = b /\ S[b].dockedShips[s] > 0
        THEN S[b].dockedShips[s] - 1 ELSE S[b].dockedShips[s]
  BY DEF UndockAll, ShipTable, Ship
<1>3. QED
  BY <1>1, <1>2, DockingAssumption DEF Agree

LEMMA UpdateLockAgree ==
  ASSUME NEW S \in ShipTable, NEW hidden, NEW orbiting,
         NEW docking \in SUBSET MayDock(S, hidden), Agree(S)
  PROVE  Agree(UpdateLock(S, orbiting, docking, hidden))
<1> DEFINE T == UpdateLock(S, orbiting, docking, hidden)
<1>1. \A s \in Slots : T[s].dockedAt = IF s \in docking THEN S[s].lock.id ELSE S[s].dockedAt
  BY UpdateLockKeeps
<1>2. \A s, b \in Slots : T[b].dockedShips[s] =
        S[b].dockedShips[s] + IF s \in docking /\ S[s].lock.id = b THEN 1 ELSE 0
  BY UpdateLockKeeps
<1>3. \A s \in docking : S[s].dockedAt = None
  BY DEF MayDock
<1> HIDE DEF T
<1>4. QED
  BY <1>1, <1>2, <1>3, DockingAssumption DEF Agree, T

LEMMA CheckDeathsAgree ==
  ASSUME NEW S \in ShipTable, NEW killed \in SUBSET Slots, Agree(S)
  PROVE  /\ Agree(CheckDeaths(S, killed))
         /\ \A s \in Slots : CheckDeaths(S, killed)[s].dockedAt =
              IF s \in killed \/ S[s].dockedAt \in killed THEN None ELSE S[s].dockedAt
<1> DEFINE T == UndockAll(S, killed)
           U == CheckDeaths(S, killed)
           freed == {s \in Slots : /\ S[s].dockedAt \in killed
                                   /\ S[S[s].dockedAt].dockedShips[s] > 0}
<1>1. T \in ShipTable /\ Agree(T)
  BY UndockAllType, UndockAllAgree
<1>2. \A s \in Slots : T[s].dockedAt = IF s \in killed THEN None ELSE S[s].dockedAt
  BY DEF UndockAll, ShipTable, Ship
<1>3. \A s \in Slots : s \in freed <=> S[s].dockedAt \in killed
  BY DEF Agree
<1>5. \A s \in Slots : U[s] = IF s \in killed
                              THEN [Idle(T[s], "EXPLODING") EXCEPT !.dockedShips = Nobody]
                              ELSE IF s \in freed THEN [T[s] EXCEPT !.dockedAt = None] ELSE T[s]
  BY DEF CheckDeaths
<1>6. \A s \in Slots : /\ Idle(T[s], "EXPLODING") \in Ship
                       /\ Idle(T[s], "EXPLODING").dockedAt = T[s].dockedAt
  BY <1>1, IdleType, IdleKeeps DEF ShipTable
<1> HIDE DEF T, U, freed
<1>7. \A s \in Slots : U[s].dockedAt = IF s \in freed THEN None ELSE T[s].dockedAt
  <2> SUFFICES ASSUME NEW s \in Slots
               PROVE  U[s].dockedAt = IF s \in freed THEN None ELSE T[s].dockedAt
    OBVIOUS
  <2>1. CASE s \in killed
    BY <1>2, <1>5, <1>6, <2>1 DEF Ship
  <2>2. CASE s \notin killed
    BY <1>1, <1>5, <2>2 DEF ShipTable, Ship
  <2>3. QED
    BY <2>1, <2>2
<1>8. \A s, b \in Slots : U[b].dockedShips[s] = IF b \in killed THEN 0 ELSE T[b].dockedShips[s]
  <2> SUFFICES ASSUME NEW s \in Slots, NEW b \in Slots
               PROVE  U[b].dockedShips[s] = IF b \in killed THEN 0 ELSE T[b].dockedShips[s]
    OBVIOUS
  <2>1. CASE b \in killed
    <3>1. [Idle(T[b], "EXPLODING") EXCEPT !.dockedShips = Nobody].dockedShips = Nobody
      BY <1>6 DEF Ship
    <3>2. QED
      BY <1>5, <2>1, <3>1 DEF Nobody
  <2>2. CASE b \notin killed
    <3>1. T[b] \in Ship /\ [T[b] EXCEPT !.dockedAt = None].dockedShips = T[b].dockedShips
      BY <1>1 DEF ShipTable, Ship
    <3>2. U[b].dockedShips = T[b].dockedShips
      BY <1>5, <2>2, <3>1
    <3>3. QED
      BY <2>2, <3>2
  <2>3. QED
    BY <2>1, <2>2
<1>9. \A s \in Slots : U[s].dockedAt =
        IF s \in killed \/ S[s].dockedAt \in killed THEN None ELSE S[s].dockedAt
  BY <1>2, <1>3, <1>7
<1>10. Agree(U)
  BY <1>1, <1>2, <1>8, <1>9, DockingAssumption DEF Agree
<1>11. QED
  BY <1>9, <1>10 DEF U

LEMMA InputAgrees ==
  ASSUME IInv, NEW s \in Slots, Input(s), Agree(ships)
  PROVE  Agree(ships')
<1>1. ships \in ShipTable
  BY DEF IInv, TypeOK, ShipTable
<1> DEFINE left == Undock(ships, s)
<1>2. left \in ShipTable /\ Agree(left)
  BY <1>1, UndockType, UndockAgree
<1> HIDE DEF left
<1>3. CASE \/ ships' = [left EXCEPT ![s].lock = None, ![s].orbit = None]
           \/ ships' = [left EXCEPT ![s].orbit = None]
           \/ ships' = left
  <2>1. SameDocks(left, ships')
    BY <1>2, <1>3 DEF SameDocks, ShipTable, Ship
  <2>2. QED
    BY <1>2, <2>1, SameDocksAgree
<1>4. CASE /\ ships[s].dockedAt = None
           /\ \/ \E b \in Slots : ships[b].shipType = "SB" /\ ships' = Dock(ships, s, b)
              \/ \E p \in Planets : ships' = EnterOrbit(ships, s, p)
  <2>1. ASSUME NEW b \in Slots, ships' = Dock(ships, s, b) PROVE Agree(ships')
    BY <1>1, <1>4, <2>1, DockAgree
  <2>2. ASSUME NEW p \in Planets, ships' = EnterOrbit(ships, s, p) PROVE Agree(ships')
    <3>1. SameDocks(ships, ships')
      BY <1>1, <2>2 DEF EnterOrbit, SameDocks, ShipTable, Ship
    <3>2. QED
      BY <3>1, SameDocksAgree
  <2>3. QED
    BY <1>4, <2>1, <2>2
<1>5. ASSUME NEW l,
             ships' = [ships EXCEPT ![s].lock = l, ![s].orbit = IF l = None THEN @ ELSE None]
      PROVE  Agree(ships')
  <2>1. SameDocks(ships, ships')
    BY <1>1, <1>5 DEF SameDocks, ShipTable, Ship
  <2>2. QED
    BY <2>1, SameDocksAgree
<1>6. ASSUME NEW type, ships' = [ships EXCEPT ![s].refit = RefitTicks, ![s].refitTo = type]
      PROVE  Agree(ships')
  <2>1. SameDocks(ships, ships')
    BY <1>1, <1>6 DEF SameDocks, ShipTable, Ship
  <2>2. QED
    BY <2>1, SameDocksAgree
<1>7. QED
  BY InputSteps, <1>3, <1>4, <1>5, <1>6 DEF left

\* The end of a tick: the two ends still agree, and no living ship is docked
\* at one that is not alive.
LEMMA FinishTickAgrees ==
  ASSUME IInv, FinishTick, Agree(ships)
  PROVE  /\ Agree(ships')
         /\ \A s \in Slots : ships'[s].status = "ALIVE" /\ ships'[s].dockedAt # None
                               => ships'[ships'[s].dockedAt].status = "ALIVE"
<1>1. PICK orbiting, docking, hidden, pulled, killed, gone :
        Finished(orbiting, docking, hidden, pulled, killed, gone)
  BY FinishTickSteps
<1> DEFINE locked == UpdateLock(ships, orbiting, docking, hidden)
           docked == UpdateDocking(locked)
           steered == PullOut(docked, pulled)
           refitted == UpdateRefitting(steered)
           fought == CheckDeaths(refitted, killed)
<1>2. /\ ships' = UpdateExplosions(fought, gone)
      /\ ships \in ShipTable /\ locked \in ShipTable /\ docked \in ShipTable
      /\ steered \in ShipTable /\ refitted \in ShipTable /\ fought \in ShipTable
      /\ ships' \in ShipTable
  BY <1>1, StageTypes
<1>3. Agree(locked) /\ \A s \in Slots : locked[s].status = ships[s].status
  <2>1. Agree(locked)
    BY <1>1, <1>2, UpdateLockAgree DEF Finished
  <2>2. \A s \in Slots : locked[s].status = ships[s].status
    BY <1>2, UpdateLockKeeps
  <2>3. QED
    BY <2>1, <2>2
<1> HIDE DEF locked
<1>4. /\ Agree(docked) /\ \A s \in Slots : docked[s].status = ships[s].status
      /\ \A s \in Slots : docked[s].status = "ALIVE" /\ docked[s].dockedAt # None
                            => docked[docked[s].dockedAt].status = "ALIVE"
  <2> DEFINE X == {s \in Slots : /\ locked[s].dockedAt # None /\ Alive(locked, s)
                                 /\ ~Alive(locked, locked[s].dockedAt)}
  <2>1. Agree(docked)
    BY <1>2, <1>3, UndockAllAgree DEF UpdateDocking
  <2>2. \A s \in Slots : /\ docked[s].status = locked[s].status
                         /\ docked[s].dockedAt = IF s \in X THEN None ELSE locked[s].dockedAt
    BY <1>2, UndockAllKeeps DEF UpdateDocking
  <2>3. \A s \in Slots : locked[s].dockedAt \in Slots \cup {None}
    BY <1>2 DEF ShipTable, Ship
  <2>4. QED
    BY <1>3, <2>1, <2>2, <2>3 DEF Alive
<1> HIDE DEF docked
<1>5. \A s \in Slots : /\ refitted[s].status = docked[s].status
                       /\ refitted[s].dockedAt = docked[s].dockedAt
                       /\ refitted[s].dockedShips = docked[s].dockedShips
  <2>1. \A s \in Slots : /\ steered[s].status = docked[s].status
                         /\ steered[s].dockedAt = docked[s].dockedAt
                         /\ steered[s].dockedShips = docked[s].dockedShips
    BY <1>2 DEF PullOut, ShipTable, Ship
  <2> HIDE DEF steered
  <2>2. \A s \in Slots : /\ refitted[s].status = steered[s].status
                         /\ refitted[s].dockedAt = steered[s].dockedAt
                         /\ refitted[s].dockedShips = steered[s].dockedShips
    BY <1>2, UpdateRefittingKeeps
  <2>3. QED
    BY <2>1, <2>2
<1>6. Agree(refitted)
  BY <1>4, <1>5, SameDocksAgree DEF SameDocks
<1> HIDE DEF refitted
<1>7. killed \in SUBSET Slots
  BY <1>1 DEF Finished, WithStatus
<1>8. /\ Agree(fought)
      /\ \A s \in Slots : fought[s].dockedAt =
           IF s \in killed \/ refitted[s].dockedAt \in killed THEN None ELSE refitted[s].dockedAt
  BY <1>2, <1>6, <1>7, CheckDeathsAgree
<1>9. \A s \in Slots : fought[s].status = IF s \in killed THEN "EXPLODING" ELSE refitted[s].status
  <2> DEFINE T == UndockAll(refitted, killed)
  <2>1. T \in ShipTable /\ \A s \in Slots : T[s].status = refitted[s].status
    <3>1. T \in ShipTable
      BY <1>2, UndockAllType
    <3>2. \A s \in Slots : T[s].status = refitted[s].status
      BY <1>2, UndockAllKeeps
    <3>3. QED
      BY <3>1, <3>2
  <2>2. \A s \in Slots :
          \/ s \in killed /\ fought[s] = [Idle(T[s], "EXPLODING") EXCEPT !.dockedShips = Nobody]
          \/ s \notin killed /\ fought[s] = [T[s] EXCEPT !.dockedAt = None]
          \/ s \notin killed /\ fought[s] = T[s]
    BY DEF CheckDeaths
  <2>3. \A s \in Slots : /\ [T[s] EXCEPT !.dockedAt = None].status = T[s].status
                         /\ Idle(T[s], "EXPLODING").status = "EXPLODING"
                         /\ Idle(T[s], "EXPLODING") \in Ship
    <3> SUFFICES ASSUME NEW s \in Slots
                 PROVE  /\ [T[s] EXCEPT !.dockedAt = None].status = T[s].status
                        /\ Idle(T[s], "EXPLODING").status = "EXPLODING"
                        /\ Idle(T[s], "EXPLODING") \in Ship
      OBVIOUS
    <3> HIDE DEF T
    <3>1. T[s] \in Ship
      BY <2>1 DEF ShipTable
    <3>2. [T[s] EXCEPT !.dockedAt = None].status = T[s].status
      BY <3>1 DEF Ship
    <3>3. Idle(T[s], "EXPLODING").status = "EXPLODING"
      BY <3>1, IdleKeeps
    <3>4. Idle(T[s], "EXPLODING") \in Ship
      BY <3>1, IdleType
    <3>5. QED
      BY <3>2, <3>3, <3>4
  <2>4. \A s \in Slots : [Idle(T[s], "EXPLODING") EXCEPT !.dockedShips = Nobody].status = "EXPLODING"
    BY <2>3 DEF Ship
  <2> HIDE DEF T, fought
  <2>5. QED
    BY <2>1, <2>2, <2>3, <2>4
<1> HIDE DEF fought
<1>10. \A s \in Slots : /\ ships'[s].dockedAt = fought[s].dockedAt
                        /\ ships'[s].dockedShips = fought[s].dockedShips
                        /\ ships'[s].status = IF s \in gone THEN "DEAD" ELSE fought[s].status
  BY <1>2 DEF UpdateExplosions, ShipTable, Ship
<1>11. \A s \in gone : ships[s].status # "ALIVE"
  BY <1>1 DEF Finished, WithStatus
<1>12. Agree(ships')
  BY <1>8, <1>10, SameDocksAgree DEF SameDocks
<1>13. ASSUME NEW s \in Slots, ships'[s].status = "ALIVE", ships'[s].dockedAt # None
       PROVE  ships'[ships'[s].dockedAt].status = "ALIVE"
  <2> DEFINE b == docked[s].dockedAt
  <2>1. s \notin killed /\ b \notin killed /\ ships'[s].dockedAt = b /\ docked[s].status = "ALIVE"
    BY <1>5, <1>8, <1>9, <1>10, <1>13
  <2>2. b \in Slots
    BY <1>2, <1>13, <2>1 DEF ShipTable, Ship
  <2>3. docked[b].status = "ALIVE" /\ ships[b].status = "ALIVE"
    BY <1>4, <1>13, <2>1, <2>2
  <2>4. QED
    BY <1>5, <1>9, <1>10, <1>11, <2>1, <2>2, <2>3
<1>14. QED
  BY <1>12, <1>13

-----------------------------------------------------------------------------
(* Orbit and dock at once *)

LEMMA FinishTickOverlap ==
  ASSUME IInv, FinishTick, NEW s \in Slots,
         DockedAndOrbiting(ships', s), ~DockedAndOrbiting(ships, s)
  PROVE  ships[s].lock \in PlanetLocks
<1>1. PICK orbiting, docking, hidden, pulled, killed, gone :
        Finished(orbiting, docking, hidden, pulled, killed, gone)
  BY FinishTickSteps
<1> DEFINE locked == UpdateLock(ships, orbiting, docking, hidden)
           docked == UpdateDocking(locked)
           steered == PullOut(docked, pulled)
           refitted == UpdateRefitting(steered)
           fought == CheckDeaths(refitted, killed)
<1>2. /\ ships' = UpdateExplosions(fought, gone)
      /\ ships \in ShipTable /\ locked \in ShipTable /\ docked \in ShipTable
      /\ steered \in ShipTable /\ refitted \in ShipTable /\ fought \in ShipTable
  BY <1>1, StageTypes
<1>3. DockedAndOrbiting(fought, s)
  BY <1>2 DEF UpdateExplosions, DockedAndOrbiting, ShipTable, Ship
<1>4. DockedAndOrbiting(refitted, s)
  <2> DEFINE T == UndockAll(refitted, killed)
  <2>1. T[s] \in Ship
    BY <1>2, UndockAllType DEF ShipTable
  <2>2. DockedAndOrbiting(T, s) => DockedAndOrbiting(refitted, s)
    BY <1>2, UndockAllKeeps DEF DockedAndOrbiting
  <2> HIDE DEF T, refitted
  <2>3. \/ fought[s] = [Idle(T[s], "EXPLODING") EXCEPT !.dockedShips = Nobody]
        \/ fought[s] = [T[s] EXCEPT !.dockedAt = None]
        \/ fought[s] = T[s]
    BY DEF CheckDeaths, T
  <2>4. Idle(T[s], "EXPLODING") \in Ship /\ Idle(T[s], "EXPLODING").orbit = None
    BY <2>1, IdleType, IdleKeeps
  <2>5. [Idle(T[s], "EXPLODING") EXCEPT !.dockedShips = Nobody].orbit = None
    BY <2>4 DEF Ship
  <2>6. [T[s] EXCEPT !.dockedAt = None].dockedAt = None
    BY <2>1 DEF Ship
  <2> HIDE DEF fought
  <2>7. fought[s] = T[s]
    BY <1>3, <2>3, <2>5, <2>6 DEF DockedAndOrbiting
  <2>8. QED
    BY <1>3, <2>2, <2>7 DEF DockedAndOrbiting
<1>5. DockedAndOrbiting(steered, s)
  BY <1>2, <1>4, UpdateRefittingKeeps DEF DockedAndOrbiting
<1>6. DockedAndOrbiting(docked, s)
  BY <1>2, <1>5 DEF PullOut, DockedAndOrbiting, ShipTable, Ship
<1>7. DockedAndOrbiting(locked, s)
  <2> DEFINE X == {r \in Slots : /\ locked[r].dockedAt # None /\ Alive(locked, r)
                                 /\ ~Alive(locked, locked[r].dockedAt)}
  <2>1. docked = UndockAll(locked, X)
    BY DEF UpdateDocking
  <2> HIDE DEF X, locked, docked
  <2>2. /\ docked[s].orbit = locked[s].orbit
        /\ docked[s].dockedAt = IF s \in X THEN None ELSE locked[s].dockedAt
    BY <1>2, <2>1, UndockAllKeeps
  <2>3. docked[s].status = locked[s].status
    BY <1>2, <2>1, UndockAllKeeps
  <2>4. QED
    BY <1>6, <2>2, <2>3 DEF DockedAndOrbiting
<1>8. s \in orbiting
  <2>1. \A r \in docking : ships[r].orbit = None
    BY <1>1 DEF Finished, MayDock, Seeking
  <2>2. QED
    BY <1>2, <1>7, <2>1, UpdateLockKeeps DEF DockedAndOrbiting
<1>9. QED
  BY <1>1, <1>8 DEF Finished, MayOrbit

LEMMA InputOverlap ==
  ASSUME IInv, NEW s \in Slots, Input(s), NEW r \in Slots, DockedAndOrbiting(ships', r)
  PROVE  DockedAndOrbiting(ships, r)
<1>1. ships \in ShipTable
  BY DEF IInv, TypeOK, ShipTable
<1> DEFINE left == Undock(ships, s)
<1>2. left \in ShipTable
  BY <1>1, UndockType
<1>3. DockedAndOrbiting(left, r) => DockedAndOrbiting(ships, r)
  BY <1>1 DEF Undock, DockedAndOrbiting, ShipTable, Ship
<1> HIDE DEF left
<1>4. CASE \/ ships' = [left EXCEPT ![s].lock = None, ![s].orbit = None]
           \/ ships' = [left EXCEPT ![s].orbit = None]
           \/ ships' = left
  <2>1. DockedAndOrbiting(left, r)
    BY <1>2, <1>4 DEF DockedAndOrbiting, ShipTable, Ship
  <2>2. QED
    BY <1>3, <2>1
<1>5. ASSUME NEW b \in Slots, ships' = Dock(ships, s, b) PROVE DockedAndOrbiting(ships, r)
  BY <1>1, <1>5 DEF Dock, DockedAndOrbiting, ShipTable, Ship
<1>6. ASSUME NEW p \in Planets, ships[s].dockedAt = None, ships' = EnterOrbit(ships, s, p)
      PROVE  DockedAndOrbiting(ships, r)
  BY <1>1, <1>6 DEF EnterOrbit, DockedAndOrbiting, ShipTable, Ship
<1>7. ASSUME NEW l,
             ships' = [ships EXCEPT ![s].lock = l, ![s].orbit = IF l = None THEN @ ELSE None]
      PROVE  DockedAndOrbiting(ships, r)
  BY <1>1, <1>7 DEF DockedAndOrbiting, ShipTable, Ship
<1>8. ASSUME NEW type, ships' = [ships EXCEPT ![s].refit = RefitTicks, ![s].refitTo = type]
      PROVE  DockedAndOrbiting(ships, r)
  BY <1>1, <1>8 DEF DockedAndOrbiting, ShipTable, Ship
<1>9. QED
  BY InputSteps, <1>4, <1>5, <1>6, <1>7, <1>8 DEF left

LEMMA HandlerOverlap ==
  ASSUME IInv, Handler, NEW r \in Slots, DockedAndOrbiting(ships', r)
  PROVE  DockedAndOrbiting(ships, r)
<1>1. ships \in ShipTable
  BY DEF IInv, TypeOK, ShipTable
<1>2. \A t, type : NewShip(t, type).dockedAt = None
  BY DEF NewShip
<1>3. \A q \in Slots : \A status : Idle(ships[q], status).orbit = None
  BY <1>1, IdleKeeps DEF ShipTable
<1>4. ASSUME NEW s \in Slots, NEW t, NEW type, ships' = [ships EXCEPT ![s] = NewShip(t, type)]
      PROVE  DockedAndOrbiting(ships, r)
  BY <1>1, <1>2, <1>4 DEF DockedAndOrbiting, ShipTable
<1>5. ASSUME NEW s \in Slots, ships' = [ships EXCEPT ![s] = Idle(@, "EMPTY")]
      PROVE  DockedAndOrbiting(ships, r)
  BY <1>1, <1>3, <1>5 DEF DockedAndOrbiting, ShipTable
<1>6. ASSUME NEW players, ResetGame(players) PROVE FALSE
  <2>1. PICK t \in [Slots -> Teams] :
          ships' = [s \in Slots |->
            IF s < NumBots THEN NewShip(t[s], "Other")
            ELSE Idle(ships[s], IF s \in players THEN "DEAD" ELSE "EMPTY")]
    BY <1>6 DEF ResetGame
  <2>2. QED
    BY <1>2, <1>3, <2>1 DEF DockedAndOrbiting
<1>7. QED
  BY <1>4, <1>5, <1>6 DEF Handler, Join, Respawn, Leave

-----------------------------------------------------------------------------
(* Theorems *)

\* For any number of ships, bases and places: no command and no tick makes a
\* ship's dockedAt and its base's dockedShips disagree, in whatever order
\* tryOrbit, updateLock, undock, updateDocking and checkDeaths run.
THEOREM DockingAgrees == Spec => TicksKeepAgreement
<1>1. IInv /\ [Next]_vars =>
        [Agreement => Agreement' \/ (turn = NumSlots /\ turn' = NumSlots)]_vars
  <2> SUFFICES ASSUME IInv, Next, Agreement
               PROVE  Agreement' \/ (turn = NumSlots /\ turn' = NumSlots)
    BY DEF vars, Agreement
  <2>1. Agree(ships)
    BY DEF Agreement, Agree
  <2>2. CASE StartTick \/ NextSlot
    BY <2>2 DEF StartTick, NextSlot, Agreement
  <2>3. ASSUME NEW s \in Slots, Input(s) PROVE Agreement'
    BY <2>1, <2>3, InputAgrees DEF Agreement, Agree
  <2>4. CASE FinishTick
    BY <2>1, <2>4, FinishTickAgrees DEF Agreement, Agree
  <2>5. CASE Handler
    BY <2>5 DEF Handler, Join, Leave, Respawn, ResetGame
  <2>6. QED
    BY <2>2, <2>3, <2>4, <2>5 DEF Next, TickStep
<1>2. QED
  BY <1>1, Invariance, PTL DEF Spec, TicksKeepAgreement

\* While the two ends agree, a tick never leaves a living ship docked at one
\* that is not alive: updateDocking frees it, or checkDeaths does when the
\* base dies in this very tick.
THEOREM NoWreckDocking == Spec => NoShipDockedAtWreck
<1>1. IInv /\ [Next]_vars =>
        [turn # turn' /\ turn' = NumSlots /\ Agreement =>
           \A s \in Slots : ships'[s].status = "ALIVE" /\ ships'[s].dockedAt # None
                              => ships'[ships'[s].dockedAt].status = "ALIVE"]_vars
  <2> SUFFICES ASSUME IInv, Next, turn # turn', turn' = NumSlots, Agreement
               PROVE  \A s \in Slots : ships'[s].status = "ALIVE" /\ ships'[s].dockedAt # None
                                         => ships'[ships'[s].dockedAt].status = "ALIVE"
    BY DEF vars
  <2>1. ~StartTick /\ ~NextSlot /\ ~Handler
    BY DockingAssumption DEF StartTick, NextSlot, Handler, Join, Leave, Respawn, ResetGame,
                             IInv, TypeOK
  <2>2. \A s \in Slots : ~Input(s)
    BY DEF Input, SetDirection, SetSpeed, Fire, TryOrbit, SetLock, TryRefit, Commands
  <2>3. FinishTick
    BY <2>1, <2>2 DEF Next, TickStep
  <2>4. Agree(ships)
    BY DEF Agreement, Agree
  <2>5. QED
    BY <2>3, <2>4, FinishTickAgrees
<1>2. QED
  BY <1>1, Invariance, PTL DEF Spec, NoShipDockedAtWreck

\* Only updateLock, for a ship locked on a planet, starts an orbit without
\* giving up the dock; the ORBIT command and docking itself never do.
THEOREM OverlapOnlyByLock == Spec => OrbitWhileDockedOnlyByLock
<1>1. IInv /\ [Next]_vars =>
        [\A s \in Slots : DockedAndOrbiting(ships', s) /\ ~DockedAndOrbiting(ships, s)
           => ships[s].lock \in PlanetLocks]_vars
  <2> SUFFICES ASSUME IInv, Next, NEW s \in Slots,
                      DockedAndOrbiting(ships', s), ~DockedAndOrbiting(ships, s)
               PROVE  ships[s].lock \in PlanetLocks
    BY DEF vars
  <2>1. CASE StartTick \/ NextSlot
    BY <2>1 DEF StartTick, NextSlot
  <2>2. CASE \E r \in Slots : Input(r)
    BY <2>2, InputOverlap
  <2>3. CASE FinishTick
    BY <2>3, FinishTickOverlap
  <2>4. CASE Handler
    BY <2>4, HandlerOverlap
  <2>5. QED
    BY <2>1, <2>2, <2>3, <2>4 DEF Next, TickStep
<1>2. QED
  BY <1>1, Invariance, PTL DEF Spec, OrbitWhileDockedOnlyByLock

\* The three together: what commands and ticks owe the docks.
THEOREM DocksSurvive == Spec => DocksSurviveTicks
BY DockingAgrees, NoWreckDocking, OverlapOnlyByLock DEF DocksSurviveTicks
=============================================================================
