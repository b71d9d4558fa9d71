---------------------------- MODULE ConquestProofs ----------------------------
(***************************************************************************)
(* Proofs about Conquest for any number of slots, any finite galaxy, any   *)
(* table of ship types and any thresholds.                                 *)
(*                                                                         *)
(* What the model says of a ship, it says of each ship alone, so that the  *)
(* argument has two layers: what a handler or a loop of the tick makes of  *)
(* one ship (Good, Carries), and how many ships and planets a team has     *)
(* before and after (Held, Crew), which is all Match sees.                 *)
(***************************************************************************)
EXTENDS Conquest, FiniteSetTheorems, TLAPS

Within(ship) == ship.armies <= Capacity(ship.type, ship.kills)

Legal(ship, t) ==
  ship.bombing \/ ship.beaming # "no" =>
    /\ ship.status = "ALIVE" /\ ship.orbit # None
    /\ ~ (ship.bombing /\ ship.beaming # "no")
    /\ t

\* A ship that refits knows what it becomes, so that its type stays a type.
Good(ship, t) ==
  /\ ship \in Ship
  /\ ship.refit > 0 => ship.refitTo \in ShipTypes
  /\ ship.kills <= KillCap
  /\ Legal(ship, t)

IInv ==
  /\ TypeOK
  /\ \A s \in Slots : Good(ships[s], tmode)

\* The ship is of the same crew, and no fuller than it may be.
SameCrew(old, new) == new.team = old.team /\ (new.status = "EMPTY" <=> old.status = "EMPTY")
Carries(old, new) == Within(old) => Within(new)

LEMMA Constants ==
  /\ NumSlots \in Nat \ {0} /\ IsFiniteSet(Planets) /\ PlayTeams \subseteq Teams
  /\ StartTeam \in [Planets -> Teams] /\ StartArmies \in [Planets -> Nat]
  /\ Homeworld \in [PlayTeams -> Planets]
  /\ MaxArmies \in [ShipTypes -> Nat] /\ ArmiesPerKill \in [ShipTypes -> Nat]
  /\ BombMin \in Nat \ {0} /\ BeamMin \in Nat \ {0} /\ RefitTicks \in Nat \ {0}
  /\ SurrenderTicks \in Nat \ {0} /\ WinPauseTicks \in Nat \ {0}
  /\ ArmyCap \in Nat /\ KillCap \in Nat
  /\ None \notin Planets /\ None \notin ShipTypes
  /\ 0 \in Slots /\ 0 \in 0 .. RefitTicks /\ RefitTicks \in 0 .. RefitTicks
BY ConquestAssumption DEF PlayTeams, Teams, Slots

-----------------------------------------------------------------------------
(* One ship *)

LEMMA CapacityGrows ==
  ASSUME NEW type \in ShipTypes, NEW kills \in Nat
  PROVE  /\ Capacity(type, kills) \in Nat
         /\ Capacity(type, kills) <= Capacity(type, kills + 1)
<1> DEFINE per == ArmiesPerKill[type]
           most == MaxArmies[type]
<1>1. per \in Nat /\ most \in Nat
  BY Constants
<1>2. kills * per \in Nat /\ (kills + 1) * per = kills * per + per
  BY <1>1
<1>3. (kills + 1) * per \in Nat /\ kills * per <= (kills + 1) * per
  BY <1>1, <1>2
<1>4. /\ Capacity(type, kills) =
           IF per = 0 \/ kills * per > most THEN most ELSE kills * per
      /\ Capacity(type, kills + 1) =
           IF per = 0 \/ (kills + 1) * per > most THEN most ELSE (kills + 1) * per
  BY DEF Capacity
<1> HIDE DEF per, most
<1> QED BY <1>1, <1>2, <1>3, <1>4

LEMMA NewShipGood ==
  ASSUME NEW team \in PlayTeams, NEW type \in ShipTypes, NEW t \in BOOLEAN
  PROVE  /\ Good(NewShip(team, type), t) /\ Within(NewShip(team, type))
         /\ NewShip(team, type).status = "ALIVE" /\ NewShip(team, type).team = team
<1>1. NewShip(team, type) \in Ship
  BY Constants DEF NewShip, Ship
<1>2. Within(NewShip(team, type))
  BY CapacityGrows DEF NewShip, Within
<1> QED BY <1>1, <1>2, Constants DEF NewShip, Good, Legal

LEMMA GoneGood ==
  ASSUME NEW ship \in Ship, NEW status \in {"DEAD", "EMPTY"}, NEW t \in BOOLEAN
  PROVE  /\ Good(Gone(ship, status), t) /\ Within(Gone(ship, status))
         /\ Gone(ship, status).status = status /\ Gone(ship, status).team = ship.team
<1> DEFINE type == CHOOSE type \in ShipTypes : TRUE
<1>1. ship.team \in PlayTeams /\ ship.type \in ShipTypes
  BY DEF Ship
<1>2. type \in ShipTypes
  BY <1>1
<1>3. Gone(ship, status) = [NewShip(ship.team, type) EXCEPT !.status = status]
  BY DEF Gone
<1> HIDE DEF type
<1>4. Gone(ship, status) \in Ship
  <2>1. NewShip(ship.team, type) \in Ship
    BY <1>1, <1>2, NewShipGood DEF Good
  <2> QED BY <1>3, <2>1 DEF Ship
<1>5. Within(Gone(ship, status))
  BY <1>2, <1>3, CapacityGrows DEF NewShip, Within
<1> QED BY <1>3, <1>4, <1>5, Constants DEF NewShip, Good, Legal

\* Ending the work is always legal.
LEMMA StopGood ==
  ASSUME NEW ship, NEW t \in BOOLEAN, Good(ship, t), NEW u \in BOOLEAN
  PROVE  /\ Good(StopWork(ship), u) /\ Good([StopWork(ship) EXCEPT !.orbit = None], u)
         /\ Good([ship EXCEPT !.beaming = "no"], t) /\ Good([ship EXCEPT !.bombing = FALSE], t)
<1>1. ship \in Ship
  BY DEF Good
<1>2. StopWork(ship) \in Ship /\ [StopWork(ship) EXCEPT !.orbit = None] \in Ship
  BY <1>1 DEF StopWork, Ship
<1>3. [ship EXCEPT !.beaming = "no"] \in Ship /\ [ship EXCEPT !.bombing = FALSE] \in Ship
  BY <1>1 DEF Ship
<1>4. Good(StopWork(ship), u) /\ Good([StopWork(ship) EXCEPT !.orbit = None], u)
  BY <1>1, <1>2 DEF StopWork, Ship, Good, Legal
<1>5. Good([ship EXCEPT !.beaming = "no"], t)
  BY <1>1, <1>3 DEF Ship, Good, Legal
<1>6. Good([ship EXCEPT !.bombing = FALSE], t)
  BY <1>1, <1>3 DEF Ship, Good, Legal
<1> QED BY <1>4, <1>5, <1>6

\* SET_DIRECTION and the like: what keeps the load of a ship.
LEMMA SameLoad ==
  ASSUME NEW old, NEW new, new.armies = old.armies, new.type = old.type, new.kills = old.kills
  PROVE  Carries(old, new)
BY DEF Carries, Within

\* The refit of a ship that stays Good, and of one that may be too full then.
LEMMA RefittedGood ==
  ASSUME NEW ship, NEW t \in BOOLEAN, Good(ship, t)
  PROVE  /\ Good(Refitted(ship), t) /\ Refitted(ship).status = ship.status
         /\ Refitted(ship).team = ship.team /\ Refitted(ship).kills = ship.kills
         /\ Refitted(ship).armies = ship.armies
         /\ ship.refit # 1 => Refitted(ship).type = ship.type
         /\ ship.refit = 1 => Refitted(ship).refit = 0
<1>1. /\ ship \in Ship /\ ship.refit \in 0 .. RefitTicks /\ RefitTicks \in Nat
      /\ ship.refit > 0 => ship.refitTo \in ShipTypes
  BY Constants DEF Good, Ship
<1>2. CASE ship.refit = 0
  BY <1>2 DEF Refitted
<1>3. CASE ship.refit > 1
  <2>1. Refitted(ship) = [ship EXCEPT !.refit = @ - 1] /\ ship.refit - 1 \in 0 .. RefitTicks
    BY <1>1, <1>3 DEF Refitted
  <2>2. Refitted(ship) \in Ship
    BY <1>1, <2>1 DEF Ship
  <2> QED BY <1>1, <1>3, <2>1, <2>2 DEF Ship, Good, Legal
<1>4. CASE ship.refit = 1
  <2>1. Refitted(ship) = [ship EXCEPT !.refit = 0, !.type = ship.refitTo, !.refitTo = None]
    BY <1>1, <1>4 DEF Refitted
  <2>2. ship.refitTo \in ShipTypes /\ 0 \in 0 .. RefitTicks
    BY <1>1, <1>4
  <2>3. Refitted(ship) \in Ship
    <3>1. ASSUME NEW type \in ShipTypes
          PROVE  [ship EXCEPT !.refit = 0, !.type = type, !.refitTo = None] \in Ship
      BY <1>1, <2>2 DEF Ship
    <3> QED BY <2>1, <2>2, <3>1
  <2> QED BY <1>1, <1>4, <2>1, <2>3 DEF Ship, Good, Legal
<1> QED BY <1>1, <1>2, <1>3, <1>4

IsSurvivor(new, ship) ==
  \E earned \in {0, 1} :
    new = Survivor(ship, TRUE, earned) \/ new = Survivor(ship, FALSE, earned)

\* A survivor of the tick has a kill more at most, so that it is too full only
\* when its refit has completed.
LEMMA SurvivorGood ==
  ASSUME NEW ship, NEW t \in BOOLEAN, Good(ship, t), NEW new, IsSurvivor(new, ship)
  PROVE  /\ Good(new, t) /\ new.status = ship.status /\ new.team = ship.team
         /\ ship.refit # 1 => Carries(ship, new)
         /\ ship.refit = 1 => new.refit = 0
<1>0. PICK earned \in {0, 1}, left \in {ship, [StopWork(ship) EXCEPT !.orbit = None]} :
        new = [Refitted(left) EXCEPT !.kills = IF @ + earned > KillCap THEN KillCap ELSE @ + earned]
  BY DEF IsSurvivor, Survivor
<1> DEFINE moved == Refitted(left)
           kills == IF moved.kills + earned > KillCap THEN KillCap ELSE moved.kills + earned
<1>1. /\ Good(left, t) /\ left.status = ship.status /\ left.team = ship.team
      /\ left.kills = ship.kills /\ left.armies = ship.armies /\ left.type = ship.type
      /\ left.refit = ship.refit
  <2>1. ship \in Ship
    BY DEF Good
  <2>2. Good([StopWork(ship) EXCEPT !.orbit = None], t)
    BY StopGood
  <2> QED BY <1>0, <2>1, <2>2 DEF StopWork, Ship
<1>2. /\ Good(moved, t) /\ moved.status = ship.status /\ moved.team = ship.team
      /\ moved.kills = ship.kills /\ moved.armies = ship.armies
      /\ ship.refit # 1 => moved.type = ship.type
      /\ ship.refit = 1 => moved.refit = 0
  BY <1>1, RefittedGood
<1>3. new = [moved EXCEPT !.kills = kills]
  BY <1>0
<1> HIDE DEF moved
<1>4. /\ moved \in Ship /\ moved.kills \in Nat /\ moved.type \in ShipTypes
      /\ moved.armies \in Nat /\ moved.kills <= KillCap /\ KillCap \in Nat
  BY <1>2, Constants DEF Good, Ship
<1>5. kills \in Nat /\ kills <= KillCap /\ (kills = moved.kills \/ kills = moved.kills + 1)
  BY <1>4
<1> HIDE DEF kills
<1>6. new \in Ship
  BY <1>3, <1>4, <1>5 DEF Ship
<1>7. Good(new, t)
  BY <1>2, <1>3, <1>4, <1>5, <1>6 DEF Ship, Good, Legal
<1>8. ASSUME ship.refit # 1 PROVE Carries(ship, new)
  <2>1. new.type = ship.type /\ new.armies = ship.armies /\ new.kills = kills
    BY <1>2, <1>3, <1>4, <1>8 DEF Ship
  <2>2. Capacity(ship.type, ship.kills) <= Capacity(ship.type, kills)
        /\ Capacity(ship.type, ship.kills) \in Nat /\ Capacity(ship.type, kills) \in Nat
    <3>1. ship.type \in ShipTypes /\ ship.kills \in Nat /\ ship.kills + 1 \in Nat
      BY <1>2, <1>4, <1>8
    <3> QED BY <3>1, <1>2, <1>5, CapacityGrows
  <2>3. ship.armies \in Nat
    BY <1>2, <1>4
  <2> QED BY <2>1, <2>2, <2>3 DEF Carries, Within
<1>9. new.status = moved.status /\ new.team = moved.team /\ new.refit = moved.refit
  BY <1>3, <1>4 DEF Ship
<1> QED BY <1>2, <1>7, <1>8, <1>9

-----------------------------------------------------------------------------
(* The ships *)

\* Every ship stays as the rules ask, in its crew, and no fuller than it may be.
ShipsKept ==
  /\ ships' \in [Slots -> Ship]
  /\ \A s \in Slots : /\ Good(ships'[s], tmode)
                      /\ SameCrew(ships[s], ships'[s]) /\ Carries(ships[s], ships'[s])

LEMMA Typed ==
  ASSUME IInv
  PROVE  /\ ships \in [Slots -> Ship] /\ planets \in [Planets -> Planet] /\ tmode \in BOOLEAN
         /\ turn \in Slots
         /\ \A s \in Slots : ships[s] \in Ship /\ Good(ships[s], tmode)
BY DEF IInv, TypeOK

LEMMA SameShips == ASSUME IInv, UNCHANGED ships PROVE ShipsKept
BY Typed DEF ShipsKept, SameCrew, Carries

LEMMA OneShip ==
  ASSUME IInv, NEW s \in Slots, NEW ship, Good(ship, tmode),
         SameCrew(ships[s], ship), Carries(ships[s], ship), ships' = [ships EXCEPT ![s] = ship]
  PROVE  ShipsKept
<1>1. ship \in Ship
  BY DEF Good
<1>2. \A q \in Slots : ships'[q] = IF q = s THEN ship ELSE ships[q]
  BY Typed
<1>3. ships' \in [Slots -> Ship]
  BY <1>1, Typed
<1>4. \A q \in Slots : SameCrew(ships[q], ships[q]) /\ Carries(ships[q], ships[q])
  BY DEF SameCrew, Carries
<1> QED BY <1>2, <1>3, <1>4, Typed DEF ShipsKept

LEMMA InputKeeps ==
  ASSUME IInv, NEW s \in Slots, Input(s)
  PROVE  ShipsKept /\ UNCHANGED <<planets, clock, judgement>>
<1> DEFINE old == ships[s]
           Fine(new) == Good(new, tmode) /\ SameCrew(old, new) /\ Carries(old, new)
<1>1. old \in Ship /\ Good(old, tmode) /\ tmode \in BOOLEAN
  BY Typed
<1> DEFINE Alike(new) == /\ new.status = old.status /\ new.team = old.team /\ new.type = old.type
                         /\ new.armies = old.armies /\ new.kills = old.kills
<1>0. ASSUME NEW new, Good(new, tmode), Alike(new) PROVE Fine(new)
  <2>1. Carries(old, new)
    BY <1>0, SameLoad
  <2> QED BY <1>0, <2>1 DEF SameCrew
<1>2. ASSUME NEW new, Command(s, new), Fine(new)
      PROVE  ShipsKept /\ UNCHANGED <<planets, clock, judgement>>
  BY <1>2, OneShip DEF Command
<1>3. CASE \E p \in Planets : EnterOrbit(s, p)
  <2>1. PICK p \in Planets : EnterOrbit(s, p)
    BY <1>3
  <2> DEFINE new == [old EXCEPT !.orbit = p]
  <2>2. ships' = [ships EXCEPT ![s] = new] /\ UNCHANGED <<planets, clock, judgement>>
    BY <2>1 DEF EnterOrbit
  <2>3. new \in Ship /\ p # None
    BY <1>1, Constants DEF Ship
  <2>4. Good(new, tmode) /\ Alike(new)
    BY <1>1, <2>3 DEF Ship, Good, Legal
  <2>5. Fine(new)
    BY <1>0, <2>4
  <2> QED BY <2>2, <2>5, OneShip
<1>4. CASE BreakOrbit(s) \/ RaiseShields(s)
  <2> DEFINE new == [StopWork(old) EXCEPT !.orbit = None]
  <2>1. Fine(new)
    <3>1. Good(new, tmode)
      BY <1>1, StopGood
    <3>2. Alike(new)
      BY <1>1 DEF Ship, StopWork
    <3> QED BY <1>0, <3>1, <3>2
  <2>2. Fine(StopWork(old))
    <3>1. Good(StopWork(old), tmode)
      BY <1>1, StopGood
    <3>2. Alike(StopWork(old))
      BY <1>1 DEF Ship, StopWork
    <3> QED BY <1>0, <3>1, <3>2
  <2> HIDE DEF Fine
  <2>3. Command(s, new) \/ Command(s, StopWork(old))
    BY <1>4 DEF BreakOrbit, RaiseShields
  <2> HIDE DEF new
  <2> QED BY <1>2, <2>1, <2>2, <2>3
<1>5. CASE TryBomb(s)
  <2> DEFINE off == [old EXCEPT !.bombing = FALSE]
             on == [old EXCEPT !.bombing = TRUE, !.beaming = "no"]
  <2>1. Fine(off)
    <3>1. Good(off, tmode)
      BY <1>1, StopGood
    <3>2. Alike(off)
      BY <1>1 DEF Ship
    <3> QED BY <1>0, <3>1, <3>2
  <2>2. Alive(s) /\ InOrbit(s) /\ tmode => Fine(on)
    <3>1. on \in Ship
      BY <1>1 DEF Ship
    <3>2. Alive(s) /\ InOrbit(s) /\ tmode => Good(on, tmode)
      BY <1>1, <3>1 DEF Ship, Good, Legal, Alive, InOrbit
    <3>3. Alike(on)
      BY <1>1 DEF Ship
    <3> QED BY <1>0, <3>2, <3>3
  <2> HIDE DEF Fine, off, on
  <2>3. Command(s, off) \/ (Command(s, on) /\ Alive(s) /\ InOrbit(s) /\ tmode)
    BY <1>5 DEF TryBomb, Command, off, on
  <2> QED BY <1>2, <2>1, <2>2, <2>3
<1>6. CASE TryBeamUp(s) \/ TryBeamDown(s)
  <2> DEFINE off == [old EXCEPT !.beaming = "no"]
             On(way) == [old EXCEPT !.beaming = way, !.bombing = FALSE]
  <2>1. Fine(off)
    <3>1. Good(off, tmode)
      BY <1>1, StopGood
    <3>2. Alike(off)
      BY <1>1 DEF Ship
    <3> QED BY <1>0, <3>1, <3>2
  <2>2. ASSUME Alive(s), InOrbit(s), tmode, NEW way \in {"up", "down"} PROVE Fine(On(way))
    <3>1. On(way) \in Ship
      BY <1>1 DEF Ship
    <3>2. Good(On(way), tmode)
      BY <1>1, <2>2, <3>1 DEF Ship, Good, Legal, Alive, InOrbit
    <3>3. Alike(On(way))
      BY <1>1 DEF Ship
    <3> QED BY <1>0, <3>2, <3>3
  <2>3. \/ Command(s, off)
        \/ Alive(s) /\ InOrbit(s) /\ tmode /\ (Command(s, On("up")) \/ Command(s, On("down")))
    BY <1>6 DEF TryBeamUp, TryBeamDown, Command
  <2> HIDE DEF Fine, off, On
  <2> QED BY <1>2, <2>1, <2>2, <2>3
<1>7. CASE \E type \in ShipTypes : TryRefit(s, type)
  <2>1. PICK type \in ShipTypes : TryRefit(s, type)
    BY <1>7
  <2> DEFINE new == [old EXCEPT !.refit = RefitTicks, !.refitTo = type]
  <2>2. new \in Ship
    BY <1>1, Constants DEF Ship
  <2>3. Good(new, tmode) /\ Alike(new)
    BY <1>1, <2>2 DEF Ship, Good, Legal
  <2>5. Fine(new)
    BY <1>0, <2>3
  <2> HIDE DEF Fine, new
  <2>4. Command(s, new)
    BY <2>1 DEF TryRefit, new
  <2> QED BY <1>2, <2>4, <2>5
<1> QED BY <1>3, <1>4, <1>5, <1>6, <1>7 DEF Input

LEMMA RespawnKeeps ==
  ASSUME IInv, NEW s \in Slots, NEW type \in ShipTypes, Respawn(s, type)
  PROVE  ShipsKept /\ UNCHANGED <<planets, clock, judgement>>
<1> DEFINE new == NewShip(ships[s].team, type)
<1>1. ships[s] \in Ship /\ ships[s].team \in PlayTeams /\ tmode \in BOOLEAN
  BY Typed DEF Ship
<1>2. Good(new, tmode) /\ Within(new) /\ new.status = "ALIVE" /\ new.team = ships[s].team
  BY <1>1, NewShipGood
<1>3. ships' = [ships EXCEPT ![s] = new] /\ ships[s].status # "EMPTY"
      /\ UNCHANGED <<planets, clock, judgement>>
  BY DEF Respawn
<1> HIDE DEF new
<1> QED BY <1>2, <1>3, OneShip DEF SameCrew, Carries

-----------------------------------------------------------------------------
(* The loops of the tick *)

LEMMA AdvanceTyped ==
  ASSUME turn \in Slots, NEW next, Advance(next)
  PROVE  turn' \in Slots /\ phase' \in {phase, next}
BY Constants DEF Advance, Slots

\* A ship that bombs loses its work, or its planet some armies.
LEMMA BombingKeeps ==
  ASSUME IInv, UpdateBombing
  PROVE  /\ ShipsKept /\ planets' \in [Planets -> Planet]
         /\ \A p \in Planets : planets'[p].team = planets[p].team
         /\ phase = "bombing" /\ phase' \in {"bombing", "beaming"} /\ turn' \in Slots
         /\ UNCHANGED judgement
<1> DEFINE ship == ships[turn]
<1>1. /\ turn \in Slots /\ ship \in Ship /\ Good(ship, tmode) /\ tmode \in BOOLEAN
      /\ planets \in [Planets -> Planet]
  BY Typed
<1>2. phase = "bombing" /\ phase' \in {"bombing", "beaming"} /\ turn' \in Slots
      /\ UNCHANGED judgement
  BY <1>1, AdvanceTyped DEF UpdateBombing
<1>3. \/ UNCHANGED world
      \/ ships' = [ships EXCEPT ![turn].bombing = FALSE] /\ UNCHANGED planets
      \/ /\ MayBomb(turn) /\ UNCHANGED ships
         /\ \E left \in Bombed(Below(turn).armies) :
              planets' = [planets EXCEPT ![ship.orbit].armies = left]
  BY DEF UpdateBombing
<1>4. CASE UNCHANGED world
  BY <1>1, <1>2, <1>4, SameShips DEF world
<1>5. CASE ships' = [ships EXCEPT ![turn].bombing = FALSE] /\ UNCHANGED planets
  <2> DEFINE off == [ship EXCEPT !.bombing = FALSE]
  <2>1. Good(off, tmode)
    BY <1>1, StopGood
  <2>2. SameCrew(ship, off) /\ Carries(ship, off)
    BY <1>1, SameLoad DEF Ship, SameCrew, Carries, Within
  <2>3. ships' = [ships EXCEPT ![turn] = off]
    BY <1>5
  <2> HIDE DEF off
  <2>4. ShipsKept
    BY <1>1, <2>1, <2>2, <2>3, OneShip
  <2> QED BY <1>1, <1>2, <1>5, <2>4
<1>6. CASE /\ MayBomb(turn) /\ UNCHANGED ships
           /\ \E left \in Bombed(Below(turn).armies) :
                planets' = [planets EXCEPT ![ship.orbit].armies = left]
  <2>1. ship.orbit \in Planets
    BY <1>1, <1>6 DEF MayBomb, InOrbit, Ship
  <2>2. planets[ship.orbit].armies \in Nat
    BY <1>1, <2>1 DEF Planet
  <2>3. PICK left \in Bombed(Below(turn).armies) :
          planets' = [planets EXCEPT ![ship.orbit].armies = left]
    BY <1>6
  <2>4. left \in Nat
    BY <2>2, <2>3, Constants DEF Bombed, Below
  <2>5. /\ planets' \in [Planets -> Planet]
        /\ \A p \in Planets : planets'[p].team = planets[p].team
    BY <1>1, <2>1, <2>3, <2>4 DEF Planet
  <2> QED BY <1>2, <1>6, <2>5, SameShips
<1> QED BY <1>3, <1>4, <1>5, <1>6

\* A planet that is taken changes from its owner to the team of the ship.
TakesPlanet(s) ==
  /\ MayBeamDown(s) /\ InOrbit(s) /\ Alive(s) /\ tmode
  /\ Below(s).team # ships[s].team
  /\ planets' = [planets EXCEPT ![ships[s].orbit] = [team |-> ships[s].team, armies |-> 1]]

LEMMA BeamingKeeps ==
  ASSUME IInv, UpdateBeaming
  PROVE  /\ ShipsKept /\ planets' \in [Planets -> Planet]
         /\ (\A p \in Planets : planets'[p].team = planets[p].team) \/ TakesPlanet(turn)
         /\ phase = "beaming" /\ phase' \in {"beaming", "end"} /\ turn' \in Slots
         /\ UNCHANGED judgement
<1> DEFINE ship == ships[turn]
           here == planets[ship.orbit]
<1>1. /\ turn \in Slots /\ ship \in Ship /\ Good(ship, tmode) /\ tmode \in BOOLEAN
      /\ planets \in [Planets -> Planet]
  BY Typed
<1>2. phase = "beaming" /\ phase' \in {"beaming", "end"} /\ turn' \in Slots
      /\ UNCHANGED judgement
  BY <1>1, AdvanceTyped DEF UpdateBeaming
<1>3. \/ UNCHANGED world
      \/ StopBeaming(turn)
      \/ /\ Alive(turn) /\ InOrbit(turn) /\ tmode
         /\ (ship.beaming = "up" /\ MayBeamUp(turn) /\ BeamUp(turn))
            \/ (ship.beaming = "down" /\ MayBeamDown(turn) /\ BeamDown(turn))
  BY DEF UpdateBeaming
<1>4. CASE UNCHANGED world
  BY <1>1, <1>2, <1>4, SameShips DEF world
<1>5. CASE StopBeaming(turn)
  <2> DEFINE off == [ship EXCEPT !.beaming = "no"]
  <2>1. Good(off, tmode)
    BY <1>1, StopGood
  <2>2. SameCrew(ship, off) /\ Carries(ship, off)
    BY <1>1, SameLoad DEF Ship, SameCrew, Carries, Within
  <2>3. ships' = [ships EXCEPT ![turn] = off] /\ UNCHANGED planets
    BY <1>5 DEF StopBeaming
  <2> HIDE DEF off
  <2>4. ShipsKept
    BY <1>1, <2>1, <2>2, <2>3, OneShip
  <2> QED BY <1>1, <1>2, <2>3, <2>4
<1>6. ASSUME Alive(turn), InOrbit(turn), tmode,
             ship.beaming = "up", MayBeamUp(turn), BeamUp(turn)
      PROVE  ShipsKept /\ planets' \in [Planets -> Planet]
             /\ \A p \in Planets : planets'[p].team = planets[p].team
  <2> DEFINE new == [ship EXCEPT !.armies = @ + 1]
  <2>1. ships' = [ships EXCEPT ![turn] = new]
        /\ planets' = [planets EXCEPT ![ship.orbit].armies = @ - 1]
    BY <1>6 DEF BeamUp
  <2>2. ship.orbit \in Planets /\ ship.armies \in Nat /\ ship.type \in ShipTypes
        /\ ship.kills \in Nat
    BY <1>1, <1>6 DEF InOrbit, Ship
  <2>3. here \in Planet /\ here.armies - 1 \in Nat
    BY <1>1, <1>6, <2>2, Constants DEF MayBeamUp, Below, Planet
  <2>4. planets' \in [Planets -> Planet] /\ \A p \in Planets : planets'[p].team = planets[p].team
    BY <1>1, <2>1, <2>2, <2>3 DEF Planet
  <2>5. new \in Ship
    BY <1>1, <2>2 DEF Ship
  <2>6. Good(new, tmode) /\ SameCrew(ship, new)
    BY <1>1, <2>5 DEF Ship, Good, Legal, SameCrew
  <2>7. Within(new)
    <3>1. new.armies = ship.armies + 1 /\ new.type = ship.type /\ new.kills = ship.kills
      BY <1>1 DEF Ship
    <3>2. ship.armies < Capacity(ship.type, ship.kills) /\ Capacity(ship.type, ship.kills) \in Nat
      BY <1>6, <2>2, CapacityGrows DEF MayBeamUp
    <3> QED BY <2>2, <3>1, <3>2 DEF Within
  <2> HIDE DEF new
  <2>8. ShipsKept
    BY <1>1, <2>1, <2>6, <2>7, OneShip DEF Carries
  <2> QED BY <2>4, <2>8
<1>7. ASSUME Alive(turn), InOrbit(turn), tmode,
             ship.beaming = "down", MayBeamDown(turn), BeamDown(turn)
      PROVE  /\ ShipsKept /\ planets' \in [Planets -> Planet]
             /\ (\A p \in Planets : planets'[p].team = planets[p].team) \/ TakesPlanet(turn)
  <2> DEFINE way == IF ship.armies = 1 THEN "no" ELSE "down"
             new == [ship EXCEPT !.armies = @ - 1, !.beaming = way]
  <2>1. ships' = [ships EXCEPT ![turn] = new]
        /\ planets' = [planets EXCEPT ![ship.orbit] = Landed(here, ship.team)]
    BY <1>1, <1>7 DEF BeamDown
  <2>2. /\ ship.orbit \in Planets /\ ship.armies \in Nat /\ ship.armies > 0
        /\ ship.type \in ShipTypes /\ ship.kills \in Nat /\ ship.team \in Teams
        /\ ship.armies - 1 \in Nat /\ way \in {"no", "down"}
    BY <1>1, <1>7, Constants DEF InOrbit, MayBeamDown, Ship
  <2>3. here \in Planet /\ here.armies \in Nat
    BY <1>1, <2>2 DEF Planet
  <2>4. Landed(here, ship.team) \in Planet
    <3>1. here.armies + 1 \in Nat /\ (here.armies > 0 => here.armies - 1 \in Nat)
      BY <2>3
    <3> QED BY <2>2, <2>3, <3>1 DEF Landed, Planet
  <2>5. planets' \in [Planets -> Planet]
    BY <1>1, <2>1, <2>4
  <2>6. (\A p \in Planets : planets'[p].team = planets[p].team) \/ TakesPlanet(turn)
    <3>1. CASE Landed(here, ship.team).team = here.team
      BY <1>1, <2>1, <2>2, <3>1
    <3>2. CASE Landed(here, ship.team).team # here.team
      <4>1. here.team # ship.team /\ Landed(here, ship.team) = [team |-> ship.team, armies |-> 1]
        BY <2>3, <3>2 DEF Landed, Planet
      <4> QED BY <1>7, <2>1, <4>1 DEF TakesPlanet, Below
    <3> QED BY <3>1, <3>2
  <2> HIDE DEF way
  <2>7. new \in Ship
    BY <1>1, <2>2 DEF Ship
  <2>8. Good(new, tmode) /\ SameCrew(ship, new)
    <3>1. /\ new.status = ship.status /\ new.team = ship.team /\ new.refit = ship.refit
          /\ new.refitTo = ship.refitTo /\ new.kills = ship.kills /\ new.orbit = ship.orbit
          /\ new.bombing = ship.bombing
      BY <1>1 DEF Ship
    <3>2. Legal(new, tmode)
      BY <1>1, <1>7, <3>1 DEF Good, Legal
    <3> QED BY <1>1, <2>7, <3>1, <3>2 DEF Good, SameCrew
  <2>9. Carries(ship, new)
    <3>1. new.armies = ship.armies - 1 /\ new.type = ship.type /\ new.kills = ship.kills
      BY <1>1 DEF Ship
    <3>2. Capacity(ship.type, ship.kills) \in Nat
      BY <2>2, CapacityGrows
    <3> QED BY <2>2, <3>1, <3>2 DEF Carries, Within
  <2> HIDE DEF new
  <2>10. ShipsKept
    BY <1>1, <2>1, <2>8, <2>9, OneShip
  <2> QED BY <2>5, <2>6, <2>10
<1>8. CASE /\ Alive(turn) /\ InOrbit(turn) /\ tmode
           /\ (ship.beaming = "up" /\ MayBeamUp(turn) /\ BeamUp(turn))
              \/ (ship.beaming = "down" /\ MayBeamDown(turn) /\ BeamDown(turn))
  <2>1. CASE ship.beaming = "up" /\ MayBeamUp(turn) /\ BeamUp(turn)
    BY <1>2, <1>6, <1>8, <2>1
  <2>2. CASE ship.beaming = "down" /\ MayBeamDown(turn) /\ BeamDown(turn)
    BY <1>2, <1>7, <1>8, <2>2
  <2> QED BY <1>8, <2>1, <2>2
<1> QED BY <1>3, <1>4, <1>5, <1>8

-----------------------------------------------------------------------------
(* Planets and crews, as Match counts them *)

Of(t) == {p \in Planets : planets[p].team = t}
In(t) == {s \in Slots : ships[s].status # "EMPTY" /\ ships[s].team = t}

LEMMA SlotsFinite == IsFiniteSet(Slots) /\ Cardinality(Slots) = NumSlots
<1>1. NumSlots - 1 \in Int /\ 0 \in Int /\ ~ (0 > NumSlots - 1) /\ NumSlots - 1 - 0 + 1 = NumSlots
  BY Constants
<1> QED BY <1>1, FS_Interval DEF Slots

LEMMA Counted ==
  /\ \A S \in SUBSET Slots : IsFiniteSet(S) /\ Cardinality(S) \in 0 .. NumSlots
  /\ \A S \in SUBSET Planets : IsFiniteSet(S) /\ Cardinality(S) \in Nat
<1>1. ASSUME NEW S \in SUBSET Slots PROVE IsFiniteSet(S) /\ Cardinality(S) \in 0 .. NumSlots
  <2>1. IsFiniteSet(S) /\ Cardinality(S) <= NumSlots
    BY SlotsFinite, FS_Subset
  <2>2. Cardinality(S) \in Nat
    BY <2>1, FS_CardinalityType
  <2> QED BY <2>1, <2>2, Constants
<1>2. ASSUME NEW S \in SUBSET Planets PROVE IsFiniteSet(S) /\ Cardinality(S) \in Nat
  <2>1. IsFiniteSet(S)
    BY Constants, FS_Subset
  <2> QED BY <2>1, FS_CardinalityType
<1> QED BY <1>1, <1>2

LEMMA OneIn ==
  ASSUME NEW S, IsFiniteSet(S), NEW x, x \notin S
  PROVE  Cardinality(S \cup {x}) = Cardinality(S) + 1
BY FS_AddElement

LEMMA OneOut ==
  ASSUME NEW S, IsFiniteSet(S), NEW x \in S
  PROVE  Cardinality(S \ {x}) = Cardinality(S) - 1
BY FS_RemoveElement

LEMMA Counts ==
  /\ Held \in [Teams -> Nat] /\ Crew \in [Teams -> 0 .. NumSlots]
  /\ \A t \in Teams : /\ Held[t] = Cardinality(Of(t)) /\ IsFiniteSet(Of(t))
                      /\ Crew[t] = Cardinality(In(t)) /\ IsFiniteSet(In(t))
<1>1. \A t \in Teams : Of(t) \in SUBSET Planets /\ In(t) \in SUBSET Slots
  BY DEF Of, In
<1>2. Held = [t \in Teams |-> Cardinality(Of(t))] /\ Crew = [t \in Teams |-> Cardinality(In(t))]
  BY DEF Held, Crew, Of, In
<1> HIDE DEF Of, In
<1> QED BY <1>1, <1>2, Counted

-----------------------------------------------------------------------------
(* The end of the tick *)

LEMMA MatchTeams ==
  /\ M!Teams = Teams /\ M!PlayTeams = PlayTeams /\ M!FED = 0 /\ M!ROM = 1
  /\ M!ThirdSpace = Teams \ PlayTeams
BY DEF M!Teams, Teams, M!PlayTeams, PlayTeams, M!FED, M!ROM, M!ThirdSpace

\* findWinningTeam returns a team or -1: of some teams there is always one
\* that it prefers to the others.
LEMMA WinnerIsTeam ==
  ASSUME NEW losing \in Teams
  PROVE  M!FindWinningTeam(losing) \in Teams \cup {-1}
<1> DEFINE candidates == {t \in Teams : t # losing /\ Held[t] > 0}
           Best(t) == \A u \in candidates : Held[u] < Held[t] \/ (Held[u] = Held[t] /\ t <= u)
<1>1. M!FindWinningTeam(losing) =
        IF candidates = {} THEN -1 ELSE CHOOSE t \in candidates : Best(t)
  BY MatchTeams DEF M!FindWinningTeam
<1>2. /\ Held[0] \in Nat /\ Held[1] \in Nat /\ Held[2] \in Nat /\ Held[3] \in Nat
      /\ \A t \in candidates : t = 0 \/ t = 1 \/ t = 2 \/ t = 3
  BY Counts DEF Teams
<1>3. candidates \subseteq Teams
  OBVIOUS
<1> HIDE DEF candidates
<1>4. candidates # {} => \E t \in candidates : Best(t)
  BY <1>2
<1> QED BY <1>1, <1>3, <1>4

LEMMA JudgementTyped ==
  ASSUME IInv, M!CheckWinCondition
  PROVE  /\ surrenderTimers' \in [Teams -> 0 .. SurrenderTicks]
         /\ winPause' \in 0 .. WinPauseTicks /\ result' \in M!Results
<1>1. /\ surrenderTimers \in [Teams -> 0 .. SurrenderTicks] /\ winPause \in 0 .. WinPauseTicks
      /\ result \in M!Results /\ SurrenderTicks \in Nat \ {0} /\ WinPauseTicks \in Nat \ {0}
  BY Constants DEF IInv, TypeOK
<1>2. \A t \in Teams : M!NextTimer(t) \in 0 .. SurrenderTicks
  <2> SUFFICES ASSUME NEW t \in Teams PROVE M!NextTimer(t) \in 0 .. SurrenderTicks
    OBVIOUS
  <2>1. surrenderTimers[t] \in 0 .. SurrenderTicks
    BY <1>1
  <2>2. \/ M!NextTimer(t) \in {0, surrenderTimers[t], SurrenderTicks}
        \/ surrenderTimers[t] # 0 /\ M!NextTimer(t) = surrenderTimers[t] - 1
    BY DEF M!NextTimer
  <2> QED BY <1>1, <2>1, <2>2
<1>3. \/ UNCHANGED <<surrenderTimers, winPause, result>>
      \/ \E t \in M!Losers : M!TriggerWin(t)
      \/ /\ surrenderTimers' = [t \in Teams |-> M!NextTimer(t)]
         /\ UNCHANGED <<winPause, result>>
  BY MatchTeams DEF M!CheckWinCondition
<1>4. CASE \E t \in M!Losers : M!TriggerWin(t)
  <2>1. PICK t \in M!Losers : M!TriggerWin(t)
    BY <1>4
  <2>2. t \in Teams
    BY MatchTeams DEF M!Losers
  <2>3. /\ surrenderTimers' =
             [u \in Teams |-> IF u <= t THEN M!NextTimer(u) ELSE surrenderTimers[u]]
        /\ winPause' = WinPauseTicks
        /\ result'
             = [winner |-> M!FindWinningTeam(t), loser |-> t,
                type |-> IF Held[t] = 0 THEN "genocide" ELSE "timercide"]
    BY <2>1, MatchTeams DEF M!TriggerWin
  <2>4. result' \in M!Results
    BY <2>2, <2>3, MatchTeams, WinnerIsTeam DEF M!Results
  <2>5. surrenderTimers' \in [Teams -> 0 .. SurrenderTicks]
    BY <1>1, <1>2, <2>3
  <2> QED BY <1>1, <2>3, <2>4, <2>5
<1> QED BY <1>1, <1>2, <1>3, <1>4

\* Every ship at the end of the tick: it keeps the rules under the new T-mode,
\* and is too full only if its refit has just completed.
LEMMA FinishShips ==
  ASSUME IInv, FinishTick
  PROVE  /\ ships' \in [Slots -> Ship]
         /\ \A s \in Slots :
              /\ Good(ships'[s], tmode') /\ SameCrew(ships[s], ships'[s])
              /\ Carries(ships[s], ships'[s]) \/ (ships[s].refit = 1 /\ ships'[s].refit = 0)
<1> DEFINE After(s, killed, pulled, lucky) ==
             IF ~ Alive(s) THEN ships[s]
             ELSE IF s \in killed THEN Gone(ships[s], "DEAD")
             ELSE LET survivor == Survivor(ships[s], s \in pulled, IF s \in lucky THEN 1 ELSE 0)
                  IN  IF tmode /\ ~ M!EnoughPlayers THEN StopWork(survivor) ELSE survivor
<1>1. PICK killed \in SUBSET Slots :
        \E pulled \in SUBSET (Slots \ killed) : \E lucky \in SUBSET (Slots \ killed) :
          ships' = [s \in Slots |-> After(s, killed, pulled, lucky)]
  BY DEF FinishTick
<1>2. PICK pulled \in SUBSET (Slots \ killed), lucky \in SUBSET (Slots \ killed) :
        ships' = [s \in Slots |-> After(s, killed, pulled, lucky)]
  BY <1>1
<1>3. tmode' = M!EnoughPlayers /\ tmode' \in BOOLEAN /\ tmode \in BOOLEAN
  BY Typed DEF FinishTick, M!EnoughPlayers
<1>4. ASSUME NEW s \in Slots
      PROVE  /\ Good(ships'[s], tmode') /\ SameCrew(ships[s], ships'[s])
             /\ Carries(ships[s], ships'[s]) \/ (ships[s].refit = 1 /\ ships'[s].refit = 0)
  <2> DEFINE old == ships[s]
             new == ships'[s]
  <2>1. old \in Ship /\ Good(old, tmode)
    BY Typed
  <2>2. CASE ~ Alive(s)
    <3>1. new = old
      BY <1>2, <2>2
    <3>2. Good(new, tmode')
      BY <2>1, <2>2, <3>1 DEF Good, Legal, Alive
    <3> QED BY <3>1, <3>2 DEF SameCrew, Carries
  <2>3. CASE Alive(s) /\ s \in killed
    <3>1. new = Gone(old, "DEAD")
      BY <1>2, <2>3
    <3>2. Good(new, tmode') /\ Within(new) /\ new.status = "DEAD" /\ new.team = old.team
      BY <1>3, <2>1, <3>1, GoneGood
    <3>3. old.status = "ALIVE"
      BY <2>3 DEF Alive
    <3> QED BY <3>2, <3>3 DEF SameCrew, Carries
  <2>4. CASE Alive(s) /\ s \notin killed
    <3> DEFINE earned == IF s \in lucky THEN 1 ELSE 0
               survivor == Survivor(old, s \in pulled, earned)
    <3>1. new = IF tmode /\ ~ tmode' THEN StopWork(survivor) ELSE survivor
      BY <1>2, <1>3, <2>4
    <3>2. IsSurvivor(survivor, old)
      <4>1. earned \in {0, 1}
        OBVIOUS
      <4>2. CASE s \in pulled
        BY <4>1, <4>2 DEF Survivor, IsSurvivor
      <4>3. CASE s \notin pulled
        BY <4>1, <4>3 DEF Survivor, IsSurvivor
      <4> QED BY <4>2, <4>3
    <3>3. /\ Good(survivor, tmode) /\ survivor.status = old.status /\ survivor.team = old.team
          /\ old.refit # 1 => Carries(old, survivor)
          /\ old.refit = 1 => survivor.refit = 0
      <4> HIDE DEF survivor
      <4> QED BY <2>1, <1>3, <3>2, SurvivorGood
    <3> HIDE DEF survivor
    <3>4. CASE new = StopWork(survivor)
      <4>1. Good(new, tmode')
        BY <1>3, <3>3, <3>4, StopGood
      <4>2. /\ new.status = survivor.status /\ new.team = survivor.team
            /\ new.armies = survivor.armies /\ new.type = survivor.type
            /\ new.kills = survivor.kills /\ new.refit = survivor.refit
        BY <3>3, <3>4 DEF Good, Ship, StopWork
      <4>3. Carries(old, survivor) => Carries(old, new)
        BY <4>2 DEF Carries, Within
      <4> QED BY <3>3, <4>1, <4>2, <4>3, <2>1 DEF SameCrew, Good, Ship
    <3>5. CASE new = survivor /\ ~ (tmode /\ ~ tmode')
      <4>1. Legal(survivor, tmode')
        BY <3>3, <3>5 DEF Good, Legal
      <4> QED BY <3>3, <3>5, <4>1, <2>1 DEF Good, SameCrew
    <3> QED BY <3>1, <3>4, <3>5
  <2> QED BY <2>2, <2>3, <2>4
<1>5. \A s \in Slots : ships'[s] \in Ship
  BY <1>4 DEF Good
<1>6. ships' \in [Slots -> Ship]
  BY <1>2, <1>5
<1> QED BY <1>4, <1>6

LEMMA FinishRest ==
  ASSUME IInv, FinishTick
  PROVE  /\ phase = "end" /\ phase' = "idle" /\ turn' \in Slots /\ UNCHANGED planets
         /\ tmode' = M!EnoughPlayers /\ tmode' \in BOOLEAN /\ M!CheckWinCondition
         /\ surrenderTimers' \in [Teams -> 0 .. SurrenderTicks]
         /\ winPause' \in 0 .. WinPauseTicks /\ result' \in M!Results
<1>1. /\ phase = "end" /\ phase' = "idle" /\ turn' = 0 /\ UNCHANGED planets
      /\ tmode' = M!EnoughPlayers /\ M!CheckWinCondition
  BY DEF FinishTick
<1>2. M!EnoughPlayers \in BOOLEAN
  BY DEF M!EnoughPlayers
<1> QED BY <1>1, <1>2, Constants, JudgementTyped

-----------------------------------------------------------------------------
(* Coming, going and the new galaxy *)

LEMMA JoinKeeps ==
  ASSUME IInv, NEW s \in Slots, NEW t \in PlayTeams, NEW type \in ShipTypes, Join(s, t, type)
  PROVE  /\ ships' \in [Slots -> Ship]
         /\ \A q \in Slots : Good(ships'[q], tmode) /\ Carries(ships[q], ships'[q])
         /\ UNCHANGED <<planets, clock, judgement>>
<1> DEFINE new == NewShip(t, type)
<1>1. Good(new, tmode) /\ Within(new)
  BY Typed, NewShipGood
<1>2. ships' = [ships EXCEPT ![s] = new] /\ UNCHANGED <<planets, clock, judgement>>
  BY DEF Join
<1> HIDE DEF new
<1>3. new \in Ship
  BY <1>1 DEF Good
<1> QED BY <1>1, <1>2, <1>3, Typed DEF Carries

LEMMA LeaveKeeps ==
  ASSUME IInv, NEW s \in Slots, Leave(s)
  PROVE  /\ ships' \in [Slots -> Ship]
         /\ \A q \in Slots : Good(ships'[q], tmode) /\ Carries(ships[q], ships'[q])
         /\ UNCHANGED <<planets, clock, judgement>>
<1> DEFINE new == Gone(ships[s], "EMPTY")
<1>1. Good(new, tmode) /\ Within(new)
  BY Typed, GoneGood
<1>2. ships' = [ships EXCEPT ![s] = new] /\ UNCHANGED <<planets, clock, judgement>>
  BY DEF Leave
<1> HIDE DEF new
<1>3. new \in Ship
  BY <1>1 DEF Good
<1> QED BY <1>1, <1>2, <1>3, Typed DEF Carries

LEMMA ResetKeeps ==
  ASSUME IInv, ResetTick
  PROVE  /\ ships' \in [Slots -> Ship] /\ planets' = NewGalaxy /\ NewGalaxy \in [Planets -> Planet]
         /\ \A q \in Slots : Good(ships'[q], tmode') /\ Carries(ships[q], ships'[q])
         /\ phase = "idle" /\ winPause = 1 /\ winPause' = 0 /\ UNCHANGED clock
         /\ tmode' = FALSE /\ surrenderTimers' = [t \in Teams |-> 0] /\ result' = M!NoResult
<1>1. PICK t \in [Slots -> PlayTeams], type \in ShipTypes, bots \in SUBSET Slots, players \in SUBSET Slots :
        ships' = [s \in Slots |->
          IF s \in bots THEN NewShip(t[s], type)
          ELSE Gone(ships[s], IF s \in players THEN "DEAD" ELSE "EMPTY")]
  BY DEF ResetTick
<1>2. /\ planets' = NewGalaxy /\ phase = "idle" /\ winPause = 1 /\ winPause' = 0
      /\ UNCHANGED clock /\ tmode' = FALSE /\ surrenderTimers' = [u \in Teams |-> 0]
      /\ result' = M!NoResult
  BY DEF ResetTick
<1>3. NewGalaxy \in [Planets -> Planet]
  BY Constants DEF NewGalaxy, Planet
<1>4. ASSUME NEW s \in Slots PROVE Good(ships'[s], FALSE) /\ Within(ships'[s])
  <2>1. CASE s \in bots
    <3>1. ships'[s] = NewShip(t[s], type) /\ t[s] \in PlayTeams
      BY <1>1, <2>1
    <3> QED BY <3>1, NewShipGood
  <2>2. CASE s \notin bots
    <3>1. PICK status \in {"DEAD", "EMPTY"} : ships'[s] = Gone(ships[s], status)
      BY <1>1, <2>2
    <3>2. ships[s] \in Ship
      BY Typed
    <3> QED BY <3>1, <3>2, GoneGood
  <2> QED BY <2>1, <2>2
<1>5. \A s \in Slots : ships'[s] \in Ship
  BY <1>4 DEF Good
<1>6. ships' \in [Slots -> Ship]
  BY <1>1, <1>5
<1> QED BY <1>2, <1>3, <1>4, <1>6 DEF Carries

LEMMA GrowthKeeps ==
  ASSUME IInv, UpdatePlanets
  PROVE  /\ ShipsKept /\ planets' \in [Planets -> Planet]
         /\ \A p \in Planets : planets'[p].team = planets[p].team
         /\ phase = "inputs" /\ phase' = "bombing" /\ turn' \in Slots /\ UNCHANGED judgement
<1>1. /\ phase = "inputs" /\ phase' = "bombing" /\ turn' \in Slots
      /\ UNCHANGED <<ships, judgement>>
  BY Constants DEF UpdatePlanets
<1>2. PICK growth \in [Planets -> 0 .. ArmyCap] :
        planets' = [p \in Planets |-> [planets[p] EXCEPT !.armies = growth[p]]]
  BY DEF UpdatePlanets
<1>3. ASSUME NEW p \in Planets
      PROVE  /\ [planets[p] EXCEPT !.armies = growth[p]] \in Planet
             /\ [planets[p] EXCEPT !.armies = growth[p]].team = planets[p].team
  <2>1. planets[p] \in Planet /\ growth[p] \in Nat
    BY <1>2, Typed, Constants
  <2> QED BY <2>1 DEF Planet
<1> QED BY <1>1, <1>2, <1>3, SameShips

-----------------------------------------------------------------------------
(* The invariant and the rules of the ships *)

LEMMA InitInv == Init => IInv
<1> SUFFICES ASSUME Init PROVE IInv
  OBVIOUS
<1>1. PICK t \in [Slots -> PlayTeams], type \in ShipTypes :
        ships = [s \in Slots |-> NewShip(t[s], type)]
  BY DEF Init
<1>2. tmode = FALSE /\ \A s \in Slots : Good(ships[s], tmode)
  BY <1>1, NewShipGood DEF Init
<1>3. ships \in [Slots -> Ship]
  BY <1>1, <1>2 DEF Good
<1>4. planets \in [Planets -> Planet]
  BY Constants DEF Init, NewGalaxy, Planet
<1>5. /\ surrenderTimers \in [Teams -> 0 .. SurrenderTicks] /\ winPause \in 0 .. WinPauseTicks
      /\ phase = "idle" /\ turn \in Slots
  BY Constants DEF Init
<1>6. result \in M!Results
  BY DEF Init, M!NoResult, M!Results
<1> QED BY <1>2, <1>3, <1>4, <1>5, <1>6 DEF IInv, TypeOK

\* What a step with the judgement as it was has to keep.
LEMMA OpenStep ==
  ASSUME IInv, UNCHANGED judgement, ships' \in [Slots -> Ship],
         \A s \in Slots : Good(ships'[s], tmode), planets' \in [Planets -> Planet],
         phase' \in {"idle", "inputs", "bombing", "beaming", "end"}, turn' \in Slots
  PROVE  IInv'
BY DEF IInv, TypeOK, judgement

LEMMA KeptStep ==
  ASSUME IInv, UNCHANGED judgement, ShipsKept, planets' \in [Planets -> Planet],
         phase' \in {"idle", "inputs", "bombing", "beaming", "end"}, turn' \in Slots
  PROVE  IInv'
BY OpenStep DEF ShipsKept

\* No ship comes to carry more than it may but by a refit.
NoOverload ==
  \A s \in Slots : Carries(ships[s], ships'[s])
                   \/ (ships[s].refit = 1 /\ ships'[s].refit = 0 /\ phase = "end")

LEMMA NextKeeps ==
  ASSUME IInv, [Next]_vars
  PROVE  IInv' /\ NoOverload
<1>0. /\ turn \in Slots /\ planets \in [Planets -> Planet]
      /\ phase \in {"idle", "inputs", "bombing", "beaming", "end"}
      /\ 0 \in Slots
  BY Constants DEF IInv, TypeOK
<1>1. ASSUME NEW s \in Slots, NEW t \in PlayTeams, NEW type \in ShipTypes,
             Join(s, t, type) \/ Leave(s)
      PROVE  IInv' /\ NoOverload
  <2>1. /\ ships' \in [Slots -> Ship] /\ UNCHANGED <<planets, clock, judgement>>
        /\ \A q \in Slots : Good(ships'[q], tmode) /\ Carries(ships[q], ships'[q])
    BY <1>1, JoinKeeps, LeaveKeeps
  <2> QED BY <1>0, <2>1, OpenStep DEF NoOverload, clock
<1>2. ASSUME NEW s \in Slots, Input(s) \/ \E type \in ShipTypes : Respawn(s, type)
      PROVE  IInv' /\ NoOverload
  <2>1. ShipsKept /\ UNCHANGED <<planets, clock, judgement>>
    BY <1>2, InputKeeps, RespawnKeeps
  <2> QED BY <1>0, <2>1, KeptStep DEF NoOverload, ShipsKept, clock
<1>3. CASE StartTick \/ NextSlot
  <2>1. /\ UNCHANGED <<world, judgement>> /\ phase' \in {phase, "inputs"} /\ turn' \in Slots
    BY <1>0, <1>3, Constants DEF StartTick, NextSlot, Slots
  <2>2. ShipsKept /\ UNCHANGED planets
    BY <2>1, SameShips DEF world
  <2> QED BY <1>0, <2>1, <2>2, KeptStep DEF NoOverload, ShipsKept
<1>4. CASE UpdatePlanets \/ UpdateBombing \/ UpdateBeaming
  <2>1. /\ ShipsKept /\ planets' \in [Planets -> Planet] /\ turn' \in Slots
        /\ phase' \in {"bombing", "beaming", "end"} /\ UNCHANGED judgement
    BY <1>4, GrowthKeeps, BombingKeeps, BeamingKeeps
  <2> QED BY <2>1, KeptStep DEF NoOverload, ShipsKept
<1>5. CASE FinishTick
  <2>1. IInv'
    BY <1>0, <1>5, FinishShips, FinishRest DEF IInv, TypeOK
  <2>2. NoOverload
    BY <1>5, FinishShips, FinishRest DEF NoOverload
  <2> QED BY <2>1, <2>2
<1>6. CASE PauseTick
  <2>1. /\ UNCHANGED <<world, clock, tmode, surrenderTimers, result>>
        /\ winPause' = winPause - 1 /\ winPause > 1
    BY <1>6 DEF PauseTick
  <2>2. winPause' \in 0 .. WinPauseTicks
    BY <2>1, Constants DEF IInv, TypeOK
  <2>3. IInv'
    BY <2>1, <2>2 DEF IInv, TypeOK, world, clock
  <2>4. NoOverload
    BY <2>1 DEF NoOverload, Carries, world
  <2> QED BY <2>3, <2>4
<1>7. CASE ResetTick
  <2>1. /\ surrenderTimers' \in [Teams -> 0 .. SurrenderTicks] /\ winPause' \in 0 .. WinPauseTicks
        /\ tmode' \in BOOLEAN
    BY <1>7, ResetKeeps, Constants
  <2>2. result' \in M!Results
    BY <1>7, ResetKeeps DEF M!NoResult, M!Results
  <2>3. IInv'
    BY <1>0, <1>7, <2>1, <2>2, ResetKeeps DEF IInv, TypeOK, clock
  <2>4. NoOverload
    BY <1>7, ResetKeeps DEF NoOverload
  <2> QED BY <2>3, <2>4
<1>8. CASE UNCHANGED vars
  BY <1>8 DEF vars, world, clock, judgement, IInv, TypeOK, NoOverload, Carries
<1>9. CASE Handler
  <2>1. PICK s \in Slots : \/ \E t \in PlayTeams, type \in ShipTypes : Join(s, t, type)
                           \/ Leave(s)
                           \/ \E type \in ShipTypes : Respawn(s, type)
    BY <1>9 DEF Handler
  <2>2. \E t \in PlayTeams : \E type \in ShipTypes : TRUE
    BY <1>0, Typed DEF Ship
  <2> QED BY <2>1, <2>2, <1>1, <1>2
<1> QED BY <1>2, <1>3, <1>4, <1>5, <1>6, <1>7, <1>8, <1>9 DEF Next, Tick

LEMMA Invariance == Spec => []IInv
<1>1. Init => IInv
  BY InitInv
<1>2. IInv /\ [Next]_vars => IInv'
  BY NextKeeps
<1> QED BY <1>1, <1>2, PTL DEF Spec

\* Every reachable state of the war is well typed: armies are never negative,
\* neither on a planet that is bombed and landed on in one tick nor in a ship.
THEOREM TypeCorrect == Spec => []TypeOK
<1>1. IInv => TypeOK
  BY DEF IInv
<1> QED BY <1>1, Invariance, PTL

\* Ships bomb and beam only alive, in orbit and in T-mode, whatever handler ends
\* that, and carry more than their capacity only after a refit.
THEOREM ShipsWork == Spec => ShipsWorkByTheRules
<1>1. IInv => WorkIsLegal
  BY DEF IInv, Good, Legal, WorkIsLegal, Alive, InOrbit
<1>2. IInv /\ [Next]_vars =>
        [\A s \in Slots :
           CarriesWithinCapacity(ships, s) /\ ~ CarriesWithinCapacity(ships', s)
             => ships[s].refit = 1 /\ ships'[s].refit = 0 /\ phase = "end"]_vars
  <2>1. NoOverload => \A s \in Slots :
           CarriesWithinCapacity(ships, s) /\ ~ CarriesWithinCapacity(ships', s)
             => ships[s].refit = 1 /\ ships'[s].refit = 0 /\ phase = "end"
    BY DEF NoOverload, Carries, Within, CarriesWithinCapacity
  <2> QED BY <2>1, NextKeeps
<1> QED BY <1>1, <1>2, Invariance, PTL DEF Spec, ShipsWorkByTheRules, OverloadOnlyByRefit

-----------------------------------------------------------------------------
(* The war is a Match: each step is one of Match's, or changes nothing that *)
(* Match sees.                                                              *)

LEMMA HeldSame ==
  ASSUME \A p \in Planets : planets'[p].team = planets[p].team
  PROVE  Held' = Held
<1>1. \A t \in Teams : {p \in Planets : planets'[p].team = t} = {p \in Planets : planets[p].team = t}
  OBVIOUS
<1> QED BY <1>1 DEF Held

LEMMA CrewSame ==
  ASSUME \A s \in Slots : SameCrew(ships[s], ships'[s])
  PROVE  Crew' = Crew
<1>1. \A t \in Teams : {s \in Slots : ships'[s].status # "EMPTY" /\ ships'[s].team = t}
                         = {s \in Slots : ships[s].status # "EMPTY" /\ ships[s].team = t}
  BY DEF SameCrew
<1> QED BY <1>1 DEF Crew

\* What Match assumes is so here, and hence what is proved of Match applies.
LEMMA MatchFits == M!MatchAssumption
<1>1. StartHeld \in [Teams -> Nat]
  <2>1. \A t \in Teams : {p \in Planets : StartTeam[p] = t} \in SUBSET Planets
    OBVIOUS
  <2> QED BY <2>1, Counted DEF StartHeld
<1> QED BY <1>1, ConquestAssumption, GalaxyAssumption, MatchTeams DEF M!MatchAssumption

\* Commands, growth and bombs: nothing Match sees.
LEMMA StutterMaps ==
  ASSUME ShipsKept, \A p \in Planets : planets'[p].team = planets[p].team,
         (phase = "idle") <=> (phase' = "idle"), UNCHANGED judgement
  PROVE  UNCHANGED M!vars
<1>1. Held' = Held /\ Crew' = Crew
  BY HeldSame, CrewSame DEF ShipsKept
<1> QED BY <1>1 DEF M!vars, judgement

\* A ship that comes or goes changes the crew of its team by one.
LEMMA OneMore ==
  ASSUME IInv, NEW s \in Slots, NEW t \in PlayTeams, NEW type \in ShipTypes, Join(s, t, type)
  PROVE  Crew[t] < NumSlots /\ Crew' = [Crew EXCEPT ![t] = @ + 1]
<1>1. /\ ships[s].status = "EMPTY" /\ t \in Teams
      /\ ships' = [ships EXCEPT ![s] = NewShip(t, type)] /\ ships \in [Slots -> Ship]
      /\ NewShip(t, type).status = "ALIVE" /\ NewShip(t, type).team = t
  BY Typed, Constants DEF Join, NewShip
<1>2. s \notin In(t)
  BY <1>1 DEF In
<1>3. Crew[t] < NumSlots
  <2>1. In(t) \in SUBSET Slots /\ In(t) # Slots
    BY <1>2 DEF In
  <2>2. Cardinality(In(t)) <= NumSlots /\ Cardinality(In(t)) # NumSlots
    BY <2>1, SlotsFinite, FS_Subset
  <2>3. Cardinality(In(t)) \in Nat /\ NumSlots \in Nat
    BY <2>1, Counted, Constants
  <2> QED BY <1>1, <2>2, <2>3, Counts
<1>4. ASSUME NEW u \in Teams PROVE In(u)' = IF u = t THEN In(u) \cup {s} ELSE In(u)
  BY <1>1, <1>4 DEF In
<1>5. Crew' = [u \in Teams |-> Cardinality(In(u)')]
  BY DEF Crew, In
<1>6. ASSUME NEW u \in Teams PROVE Crew'[u] = IF u = t THEN Crew[u] + 1 ELSE Crew[u]
  <2>1. IsFiniteSet(In(u)) /\ Crew[u] = Cardinality(In(u))
    BY Counts
  <2>2. Cardinality(In(t) \cup {s}) = Crew[t] + 1
    BY <1>1, <1>2, Counts, OneIn
  <2> QED BY <1>4, <1>5, <2>1, <2>2
<1> QED BY <1>1, <1>3, <1>5, <1>6, Counts

LEMMA OneLess ==
  ASSUME IInv, NEW s \in Slots, Leave(s)
  PROVE  LET t == ships[s].team
         IN  t \in PlayTeams /\ Crew[t] > 0 /\ Crew' = [Crew EXCEPT ![t] = @ - 1]
<1> DEFINE t == ships[s].team
<1>1. /\ ships[s].status # "EMPTY" /\ t \in PlayTeams /\ t \in Teams
      /\ ships' = [ships EXCEPT ![s] = Gone(ships[s], "EMPTY")] /\ ships \in [Slots -> Ship]
      /\ Gone(ships[s], "EMPTY").status = "EMPTY"
  BY Typed, Constants, GoneGood DEF Leave, Ship
<1> HIDE DEF t
<1>2. s \in In(t)
  BY <1>1 DEF In, t
<1>3. ASSUME NEW u \in Teams PROVE In(u)' = IF u = t THEN In(u) \ {s} ELSE In(u)
  BY <1>1, <1>3 DEF In, t
<1>4. Crew' = [u \in Teams |-> Cardinality(In(u)')]
  BY DEF Crew, In
<1>5. Cardinality(In(t) \ {s}) = Crew[t] - 1 /\ Crew[t] > 0
  <2>1. IsFiniteSet(In(t)) /\ Crew[t] = Cardinality(In(t)) /\ Crew[t] \in Nat
    BY <1>1, Counts
  <2>2. Cardinality(In(t)) # 0
    BY <1>2, <2>1, FS_EmptySet
  <2> QED BY <1>2, <2>1, <2>2, OneOut
<1>6. ASSUME NEW u \in Teams PROVE Crew'[u] = IF u = t THEN Crew[u] - 1 ELSE Crew[u]
  BY <1>3, <1>4, <1>5, Counts
<1>7. Crew' = [Crew EXCEPT ![t] = @ - 1]
  BY <1>1, <1>4, <1>6, Counts
<1> QED BY <1>1, <1>5, <1>7 DEF t

\* A planet that is taken is one more for the ship's team and one less for
\* its owner.
LEMMA OneTaken ==
  ASSUME IInv, NEW s \in Slots, TakesPlanet(s)
  PROVE  LET t == ships[s].team
             from == Below(s).team
         IN  /\ t \in PlayTeams /\ from \in Teams /\ t # from
             /\ Crew[t] > 0 /\ Held[from] > 0
             /\ Held' = [Held EXCEPT ![t] = @ + 1, ![from] = @ - 1]
<1> DEFINE t == ships[s].team
           from == Below(s).team
           p == ships[s].orbit
<1>1. /\ t \in PlayTeams /\ t \in Teams /\ from \in Teams /\ t # from /\ p \in Planets
      /\ planets[p].team = from /\ planets \in [Planets -> Planet]
      /\ planets' = [planets EXCEPT ![p] = [team |-> t, armies |-> 1]]
      /\ ships[s].status = "ALIVE"
  BY Typed, Constants DEF TakesPlanet, InOrbit, Below, Ship, Planet, Alive
<1>2. s \in In(t)
  BY <1>1 DEF In
<1> HIDE DEF t, from, p
<1>3. Crew[t] > 0
  <2>1. IsFiniteSet(In(t)) /\ Crew[t] = Cardinality(In(t)) /\ Crew[t] \in Nat
    BY <1>1, Counts
  <2> QED BY <1>2, <2>1, FS_EmptySet
<1>4. p \in Of(from) /\ p \notin Of(t)
  BY <1>1 DEF Of
<1>5. ASSUME NEW u \in Teams
      PROVE  Of(u)' = IF u = t THEN Of(t) \cup {p} ELSE IF u = from THEN Of(from) \ {p} ELSE Of(u)
  <2>1. \A q \in Planets : planets'[q].team = IF q = p THEN t ELSE planets[q].team
    BY <1>1
  <2>2. Of(u)' = {q \in Planets : planets'[q].team = u}
    BY DEF Of
  <2>3. CASE u = t
    BY <1>1, <2>1, <2>2, <2>3 DEF Of
  <2>4. CASE u = from
    BY <1>1, <2>1, <2>2, <2>4 DEF Of
  <2>5. CASE u # t /\ u # from
    BY <1>1, <2>1, <2>2, <2>5 DEF Of
  <2> QED BY <1>1, <2>3, <2>4, <2>5
<1>6. Held' = [u \in Teams |-> Cardinality(Of(u)')]
  BY DEF Held, Of
<1>7. /\ Cardinality(Of(t) \cup {p}) = Held[t] + 1
      /\ Cardinality(Of(from) \ {p}) = Held[from] - 1 /\ Held[from] > 0
  <2>1. /\ IsFiniteSet(Of(t)) /\ Held[t] = Cardinality(Of(t))
        /\ IsFiniteSet(Of(from)) /\ Held[from] = Cardinality(Of(from)) /\ Held[from] \in Nat
    BY <1>1, Counts
  <2>2. Cardinality(Of(from)) # 0
    BY <1>4, <2>1, FS_EmptySet
  <2>3. Cardinality(Of(t) \cup {p}) = Held[t] + 1
    BY <1>4, <2>1, OneIn
  <2>4. Cardinality(Of(from) \ {p}) = Held[from] - 1
    BY <1>4, <2>1, OneOut
  <2> QED BY <2>1, <2>2, <2>3, <2>4
<1>8. ASSUME NEW u \in Teams
      PROVE  Held'[u] = IF u = t THEN Held[u] + 1 ELSE IF u = from THEN Held[u] - 1 ELSE Held[u]
  BY <1>1, <1>5, <1>6, <1>7, Counts
<1>9. Held' = [Held EXCEPT ![t] = @ + 1, ![from] = @ - 1]
  BY <1>1, <1>6, <1>8, Counts
<1> QED BY <1>1, <1>3, <1>7, <1>9 DEF t, from

\* Nobody plays for the third space.
LEMMA CrewOfPlayers == ASSUME IInv PROVE Crew \in M!Crews
<1>1. ASSUME NEW t \in Teams \ PlayTeams PROVE Crew[t] = 0
  <2>1. \A s \in Slots : ships[s].team \in PlayTeams
    BY Typed DEF Ship
  <2>2. In(t) = {}
    BY <2>1 DEF In
  <2> QED BY <2>2, Counts, FS_EmptySet
<1> QED BY <1>1, Counts, MatchTeams DEF M!Crews

LEMMA InitMaps == ASSUME Init PROVE M!Init
<1>1. IInv /\ phase = "idle"
  BY InitInv DEF Init
<1>2. PICK t \in [Slots -> PlayTeams], type \in ShipTypes :
        ships = [s \in Slots |-> NewShip(t[s], type)]
  BY DEF Init
<1>3. Held = StartHeld
  <2>1. \A p \in Planets : planets[p].team = StartTeam[p]
    BY DEF Init, NewGalaxy
  <2>2. \A u \in Teams : {p \in Planets : planets[p].team = u} = {p \in Planets : StartTeam[p] = u}
    BY <2>1
  <2> QED BY <2>2 DEF Held, StartHeld
<1>4. Crew \in M!Crews
  BY <1>1, CrewOfPlayers
<1> QED BY <1>1, <1>3, <1>4, MatchTeams DEF Init, M!Init, M!NoResult

\* The end of the tick is Match's judgement of the galaxy.
LEMMA FinishMaps == ASSUME IInv, FinishTick PROVE M!Judge
<1>1. Held' = Held /\ Crew' = Crew
  BY FinishShips, FinishRest, HeldSame, CrewSame
<1> QED BY <1>1, FinishRest DEF M!Judge

LEMMA ResetMaps == ASSUME IInv, ResetTick PROVE M!ResetTick
<1>1. Held' = StartHeld
  <2>1. \A p \in Planets : planets'[p].team = StartTeam[p]
    BY ResetKeeps DEF NewGalaxy
  <2>2. \A u \in Teams : {p \in Planets : planets'[p].team = u} = {p \in Planets : StartTeam[p] = u}
    BY <2>1
  <2> QED BY <2>2 DEF Held, StartHeld
<1>2. IInv'
  BY NextKeeps DEF Next, Tick
<1>3. Crew' \in M!Crews
  <2>1. IInv => Crew \in M!Crews
    BY CrewOfPlayers
  <2>2. (IInv => Crew \in M!Crews)'
    BY CrewOfPlayers, PTL
  <2> QED BY <1>2, <2>2, MatchTeams DEF M!Crews
<1> QED BY <1>1, <1>3, ResetKeeps, MatchTeams DEF M!ResetTick, clock, M!NoResult

LEMMA BeamingMaps ==
  ASSUME IInv, UpdateBeaming
  PROVE  UNCHANGED M!vars \/ \E t \in PlayTeams, from \in Teams : M!Capture(t, from)
<1>1. CASE \A p \in Planets : planets'[p].team = planets[p].team
  BY <1>1, BeamingKeeps, StutterMaps
<1>2. CASE TakesPlanet(turn)
  <2>1. turn \in Slots
    BY Typed
  <2>2. PICK t \in PlayTeams, from \in Teams :
          /\ t # from /\ Crew[t] > 0 /\ Held[from] > 0
          /\ Held' = [Held EXCEPT ![t] = @ + 1, ![from] = @ - 1]
    BY <1>2, <2>1, OneTaken
  <2>3. Crew' = Crew
    BY BeamingKeeps, CrewSame DEF ShipsKept
  <2>4. tmode /\ phase = "beaming" /\ phase' # "idle" /\ UNCHANGED judgement
    BY <1>2, BeamingKeeps DEF TakesPlanet
  <2>5. M!Capture(t, from)
    BY <2>2, <2>3, <2>4 DEF M!Capture, M!judgement, judgement
  <2> QED BY <2>5
<1> QED BY <1>1, <1>2, BeamingKeeps

LEMMA NextMaps ==
  ASSUME IInv, [Next]_vars
  PROVE  [M!Next]_M!vars
<1>1. ASSUME NEW s \in Slots, NEW t \in PlayTeams, NEW type \in ShipTypes, Join(s, t, type)
      PROVE  M!Join(t)
  <2>1. Held' = Held /\ phase = "idle" /\ phase' = phase /\ UNCHANGED judgement
    BY <1>1, HeldSame DEF Join, clock
  <2> QED BY <1>1, <2>1, OneMore DEF M!Join, M!judgement, judgement
<1>2. ASSUME NEW s \in Slots, Leave(s)
      PROVE  \E t \in PlayTeams : M!Leave(t)
  <2>1. Held' = Held /\ phase = "idle" /\ phase' = phase /\ UNCHANGED judgement
    BY <1>2, HeldSame DEF Leave, clock
  <2>2. PICK t \in PlayTeams : Crew[t] > 0 /\ Crew' = [Crew EXCEPT ![t] = @ - 1]
    BY <1>2, OneLess
  <2> QED BY <2>1, <2>2 DEF M!Leave, M!judgement, judgement
<1>3. ASSUME NEW s \in Slots, Input(s) \/ \E type \in ShipTypes : Respawn(s, type)
      PROVE  UNCHANGED M!vars
  <2>1. ShipsKept /\ UNCHANGED <<planets, clock, judgement>>
    BY <1>3, InputKeeps, RespawnKeeps
  <2> QED BY <2>1, StutterMaps DEF clock
<1>4. CASE StartTick
  <2>1. /\ UNCHANGED <<world, judgement>> /\ phase = "idle" /\ phase' = "inputs" /\ winPause = 0
    BY <1>4 DEF StartTick
  <2>2. Held' = Held /\ Crew' = Crew
    BY <2>1, SameShips, HeldSame, CrewSame DEF world, ShipsKept
  <2>3. M!StartTick
    BY <2>1, <2>2 DEF M!StartTick, M!judgement, judgement
  <2> QED BY <2>3 DEF M!Next, M!Tick
<1>5. CASE NextSlot
  BY <1>5, SameShips, StutterMaps DEF NextSlot, world
<1>6. CASE UpdatePlanets \/ UpdateBombing
  BY <1>6, GrowthKeeps, BombingKeeps, StutterMaps
<1>7. CASE UpdateBeaming
  BY <1>7, BeamingMaps, MatchTeams DEF M!Next
<1>8. CASE FinishTick
  BY <1>8, FinishMaps DEF M!Next, M!Tick
<1>9. CASE PauseTick
  <2>1. /\ UNCHANGED <<world, clock, tmode, surrenderTimers, result>>
        /\ phase = "idle" /\ winPause > 1 /\ winPause' = winPause - 1
    BY <1>9 DEF PauseTick
  <2>2. Held' = Held /\ Crew' = Crew
    BY <2>1, SameShips, HeldSame, CrewSame DEF world, ShipsKept
  <2>3. M!PauseTick
    BY <2>1, <2>2 DEF M!PauseTick, clock
  <2> QED BY <2>3 DEF M!Next, M!Tick
<1>10. CASE ResetTick
  BY <1>10, ResetMaps DEF M!Next, M!Tick
<1>11. CASE UNCHANGED vars
  BY <1>11, SameShips, StutterMaps DEF vars, world, clock
<1>12. CASE Handler
  BY <1>1, <1>2, <1>3, <1>12, MatchTeams DEF Handler, M!Next
<1> QED BY <1>3, <1>4, <1>5, <1>6, <1>7, <1>8, <1>9, <1>10, <1>11, <1>12 DEF Next, Tick

\* The war implements Match for any galaxy: planets change hands only inside a
\* tick and under the rules of Match, and nothing else that moves armies, ships
\* or players can decide a match, stop a timer or end a pause.
THEOREM Refinement == Spec => ImplementsMatch
<1>1. Init => M!Init
  BY InitMaps
<1>2. IInv /\ [Next]_vars => [M!Next]_M!vars
  BY NextMaps
<1> QED BY <1>1, <1>2, Invariance, PTL DEF Spec, M!Spec, ImplementsMatch
=============================================================================
