----------------------------- MODULE PilotProofs -----------------------------
(***************************************************************************)
(* Proofs about those who fly: the ship that obeys and the bot that tells  *)
(* it what to do (Flight), the brain that chooses the bot's missions       *)
(* (BotBrain), and the page through which a human flies (GameClient).  The *)
(* three specifications share no variable and are proved one by one.       *)
(***************************************************************************)
EXTENDS Flight, BotBrain, GameClient, FiniteSetTheorems, TLAPS

-----------------------------------------------------------------------------
(* Flight, for every type of ship that HelmAssumption admits, whoever      *)
(* flies it and whatever it is told.                                       *)
(*                                                                         *)
(* The systems exclude one another because every operator of Helm keeps    *)
(* four rules about one ship (Exclusive), and no shot comes from the cloak *)
(* because the ticks a ship has been visible and the ticks it still waits  *)
(* add up to at least UNCLOAK_TICKS (Surfacing): each tick takes one from  *)
(* the second and adds one to the first.                                   *)

Fields == {"alive", "shields", "repair", "cloaked", "uncloak", "orbit", "bombing", "beaming",
           "tractor", "pressor", "desired", "fast", "burnout", "jammed", "fuel"}

\* A record with the fields of a ship, and the types of those that the rules are about.
Shaped(S) ==
  /\ S = [f \in Fields |-> S[f]]
  /\ S.alive \in BOOLEAN /\ S.shields \in BOOLEAN /\ S.repair \in BOOLEAN
  /\ S.cloaked \in BOOLEAN /\ S.bombing \in BOOLEAN /\ S.tractor \in BOOLEAN
  /\ S.pressor \in BOOLEAN
  /\ S.uncloak \in 0 .. UncloakTicks

\* The rules of SystemsExclude that are about one state of one ship.
Exclusive(S) ==
  /\ ~ (S.tractor /\ S.pressor)
  /\ S.cloaked => ~ S.tractor /\ ~ S.pressor
  /\ S.repair => S.desired = 0
  /\ Works(S) => /\ ~ S.shields /\ S.orbit # "none"
                 /\ ~ (S.bombing /\ S.beaming # 0)

\* d: for how many ticks the ship has been visible
Surfacing(S, d) == S.alive /\ ~ S.cloaked => d + S.uncloak >= UncloakTicks

Good(S) == Shaped(S) /\ Exclusive(S)

IInv == /\ Good(ship)
        /\ dark \in 0 .. UncloakTicks
        /\ Surfacing(ship, dark)

\* T is as hidden as S and lives or not as S does
SameCloak(S, T) == T.alive = S.alive /\ T.cloaked = S.cloaked /\ T.uncloak = S.uncloak

LEMMA Ticks == UncloakTicks \in Nat \ {0} /\ UncloakTicks \in 0 .. UncloakTicks
BY HelmAssumption

\* The ship reappears, by command or for want of fuel.
LEMMA ReappearsGood ==
  ASSUME NEW S, Good(S)
  PROVE  LET T == [S EXCEPT !.cloaked = FALSE, !.uncloak = UncloakTicks]
         IN  Good(T) /\ T.alive = S.alive /\ ~ T.cloaked /\ T.uncloak = UncloakTicks
<1> DEFINE T == [S EXCEPT !.cloaked = FALSE, !.uncloak = UncloakTicks]
<1>1. Shaped(T) /\ T.alive = S.alive /\ ~ T.cloaked /\ T.uncloak = UncloakTicks
  BY Ticks DEF Good, Shaped, Fields
<1>2. Exclusive(T)
  BY DEF Good, Shaped, Fields, Exclusive, Works
<1> QED BY <1>1, <1>2 DEF Good

-----------------------------------------------------------------------------
(* Commands *)

LEMMA BreakOrbitGood ==
  ASSUME NEW S, Good(S)
  PROVE  Good(BreakOrbit(S)) /\ SameCloak(S, BreakOrbit(S))
BY DEF Good, Shaped, Fields, Exclusive, BreakOrbit, SameCloak, Works

LEMMA SetSpeedGood ==
  ASSUME NEW S, Good(S), NEW w, NEW speed
  PROVE  Good(SetSpeed(S, w, speed)) /\ SameCloak(S, SetSpeed(S, w, speed))
<1> DEFINE T == [S EXCEPT !.desired = Capped(speed, w.warp), !.repair = FALSE]
<1>1. Good(T) /\ SameCloak(S, T)
  BY DEF Good, Shaped, Fields, Exclusive, SameCloak, Works
<1> HIDE DEF T
<1>2. Good(BreakOrbit(T)) /\ SameCloak(T, BreakOrbit(T))
  BY <1>1, BreakOrbitGood
<1>3. SetSpeed(S, w, speed) = IF T.desired > OrbitMaxWarp THEN BreakOrbit(T) ELSE T
  BY DEF SetSpeed, T
<1> QED BY <1>1, <1>2, <1>3 DEF SameCloak

LEMMA SystemsToggledGood ==
  ASSUME NEW S, Good(S), NEW mode, NEW w, NEW way \in {1, 2}
  PROVE  /\ Good(ToggleShield(S, mode)) /\ SameCloak(S, ToggleShield(S, mode))
         /\ Good(ToggleRepair(S)) /\ SameCloak(S, ToggleRepair(S))
         /\ Good(TryOrbit(S, w)) /\ SameCloak(S, TryOrbit(S, w))
         /\ Good(TryBomb(S, w)) /\ SameCloak(S, TryBomb(S, w))
         /\ Good(TryBeam(S, w, way)) /\ SameCloak(S, TryBeam(S, w, way))
<1>1. Good(ToggleShield(S, mode)) /\ SameCloak(S, ToggleShield(S, mode))
  BY DEF Good, Shaped, Fields, Exclusive, SameCloak, Works, ToggleShield
<1>2. Good(ToggleRepair(S)) /\ SameCloak(S, ToggleRepair(S))
  BY DEF Good, Shaped, Fields, Exclusive, SameCloak, Works, ToggleRepair
<1>3. Good(TryOrbit(S, w)) /\ SameCloak(S, TryOrbit(S, w))
  BY DEF Good, Shaped, Fields, Exclusive, SameCloak, Works, TryOrbit
<1>4. Good(TryBomb(S, w)) /\ SameCloak(S, TryBomb(S, w))
  BY DEF Good, Shaped, Fields, Exclusive, SameCloak, Works, TryBomb
<1>5. Good(TryBeam(S, w, way)) /\ SameCloak(S, TryBeam(S, w, way))
  <2> DEFINE Ended == [S EXCEPT !.beaming = 0]
             Begun == [S EXCEPT !.shields = FALSE, !.bombing = FALSE, !.beaming = way]
  <2>1. \/ TryBeam(S, w, way) \in {S, Ended}
        \/ S.orbit # "none" /\ TryBeam(S, w, way) = Begun
    BY DEF TryBeam
  <2>2. Good(Ended) /\ SameCloak(S, Ended) /\ SameCloak(S, S)
    BY DEF Good, Shaped, Fields, Exclusive, SameCloak, Works
  <2>3. S.orbit # "none" => Good(Begun) /\ SameCloak(S, Begun)
    BY DEF Good, Shaped, Fields, Exclusive, SameCloak, Works
  <2> HIDE DEF Ended, Begun
  <2> QED BY <2>1, <2>2, <2>3
<1> QED BY <1>1, <1>2, <1>3, <1>4, <1>5

LEMMA BeamsToggledGood ==
  ASSUME NEW S, Good(S), NEW w \in World
  PROVE  /\ Good(ToggleTractor(S, w)) /\ SameCloak(S, ToggleTractor(S, w))
         /\ Good(TogglePressor(S, w)) /\ SameCloak(S, TogglePressor(S, w))
<1>1. w.target \in BOOLEAN
  BY DEF World
<1>2. Good(ToggleTractor(S, w)) /\ SameCloak(S, ToggleTractor(S, w))
  BY <1>1 DEF Good, Shaped, Fields, Exclusive, SameCloak, Works, ToggleTractor
<1>3. Good(TogglePressor(S, w)) /\ SameCloak(S, TogglePressor(S, w))
  BY <1>1 DEF Good, Shaped, Fields, Exclusive, SameCloak, Works, TogglePressor
<1> QED BY <1>2, <1>3

\* The command for the cloak is the only one that shows or hides a ship.
LEMMA CloakToggledGood ==
  ASSUME NEW S, Good(S), NEW mode, NEW d \in 0 .. UncloakTicks, Surfacing(S, d)
  PROVE  LET T == ToggleCloak(S, mode)
         IN  Good(T) /\ Surfacing(T, d) /\ T.alive = S.alive
<1> DEFINE T == ToggleCloak(S, mode)
           Visible == [S EXCEPT !.cloaked = FALSE, !.uncloak = UncloakTicks]
           Hidden == [S EXCEPT !.cloaked = TRUE, !.tractor = FALSE, !.pressor = FALSE]
<1>1. T = S \/ T = Visible \/ T = Hidden
  BY DEF ToggleCloak
<1>2. Good(Visible) /\ Visible.alive = S.alive /\ Surfacing(Visible, d)
  <2>1. Good(Visible) /\ Visible.alive = S.alive /\ Visible.uncloak = UncloakTicks
    BY ReappearsGood
  <2>2. d + UncloakTicks >= UncloakTicks
    BY Ticks
  <2> HIDE DEF Visible
  <2> QED BY <2>1, <2>2 DEF Surfacing
<1>3. Good(Hidden) /\ Hidden.alive = S.alive /\ Surfacing(Hidden, d)
  BY DEF Good, Shaped, Fields, Exclusive, Surfacing, Works
<1> HIDE DEF Visible, Hidden
<1> QED BY <1>1, <1>2, <1>3

LEMMA ObeyGood ==
  ASSUME NEW S, Good(S), NEW c, NEW w \in World, NEW d \in 0 .. UncloakTicks, Surfacing(S, d)
  PROVE  LET T == Obey(S, c, w)
         IN  Good(T) /\ Surfacing(T, d) /\ T.alive = S.alive
<1> DEFINE T == Obey(S, c, w)
<1>1. ASSUME NEW U, Good(U), SameCloak(S, U)
      PROVE  Good(U) /\ Surfacing(U, d) /\ U.alive = S.alive
  BY <1>1 DEF SameCloak, Surfacing
<1>2. Good(S) /\ SameCloak(S, S)
  BY DEF SameCloak
<1>3. CASE c.cmd = "CLOAK_TOGGLE"
  <2>1. T = ToggleCloak(S, c.value)
    BY <1>3 DEF Obey
  <2> QED BY <2>1, CloakToggledGood
<1>4. CASE c.cmd # "CLOAK_TOGGLE"
  <2>1. Good(T) /\ SameCloak(S, T)
    <3>1. T \in {S, BreakOrbit(S), SetSpeed(S, w, c.value), ToggleShield(S, c.value),
                 ToggleRepair(S), TryOrbit(S, w), TryBomb(S, w), TryBeam(S, w, 1),
                 TryBeam(S, w, 2), ToggleTractor(S, w), TogglePressor(S, w)}
      BY <1>4 DEF Obey
    <3> QED BY <3>1, <1>2, BreakOrbitGood, SetSpeedGood, SystemsToggledGood, BeamsToggledGood
  <2> QED BY <2>1, <1>1
<1> QED BY <1>3, <1>4

-----------------------------------------------------------------------------
(* The steps of a tick *)

LEMMA MovedGood ==
  ASSUME NEW S, Good(S), NEW w, NEW T \in Moved(S, w)
  PROVE  Good(T) /\ SameCloak(S, T)
BY DEF Good, Shaped, Fields, Exclusive, SameCloak, Works, Moved, Accelerated

LEMMA WorkedGood ==
  ASSUME NEW S, Good(S), NEW w, NEW T \in Worked(S, w)
  PROVE  Good(T) /\ SameCloak(S, T)
<1>1. ASSUME NEW U, Good(U)
      PROVE  LET V == [U EXCEPT !.bombing = FALSE, !.beaming = 0]
             IN  Good(V) /\ SameCloak(U, V)
  BY <1>1 DEF Good, Shaped, Fields, Exclusive, SameCloak, Works
<1>2. Good(BreakOrbit(S)) /\ SameCloak(S, BreakOrbit(S))
  BY BreakOrbitGood
<1>3. PICK U \in {S, BreakOrbit(S)} : T \in {U, [U EXCEPT !.bombing = FALSE, !.beaming = 0]}
  BY DEF Worked
<1>4. Good(U) /\ SameCloak(S, U)
  BY <1>2, <1>3 DEF SameCloak
<1> QED BY <1>1, <1>3, <1>4 DEF SameCloak

LEMMA SpentGood ==
  ASSUME NEW S, Good(S), NEW T \in Spent(S)
  PROVE  Good(T) /\ SameCloak(S, T)
BY DEF Good, Shaped, Fields, Exclusive, SameCloak, Works, Spent

\* A tick that ends hidden, or one nearer to the end of the wait, or with the tank
\* empty and the whole wait ahead.
LEMMA CloakingGood ==
  ASSUME NEW S, Good(S), NEW T \in Cloaking(S)
  PROVE  /\ Good(T) /\ T.alive = S.alive
         /\ S.cloaked /\ ~ T.cloaked => T.uncloak = UncloakTicks
         /\ ~ S.cloaked => ~ T.cloaked /\ T.uncloak = IF S.uncloak > 0 THEN S.uncloak - 1 ELSE 0
<1> DEFINE C == [S EXCEPT !.uncloak = IF @ > 0 THEN @ - 1 ELSE @]
<1>1. Good(C) /\ C.alive = S.alive /\ C.cloaked = S.cloaked
        /\ C.uncloak = IF S.uncloak > 0 THEN S.uncloak - 1 ELSE 0
  BY Ticks DEF Good, Shaped, Fields, Exclusive, Works
<1> HIDE DEF C
<1>2. T \in IF ~ C.cloaked THEN {C}
            ELSE {IF U.fuel = 0 THEN [U EXCEPT !.cloaked = FALSE, !.uncloak = UncloakTicks] ELSE U :
                    U \in Spent(C)}
  BY DEF Cloaking, C
<1>3. CASE ~ C.cloaked
  BY <1>1, <1>2, <1>3
<1>4. CASE C.cloaked
  <2>1. PICK U \in Spent(C) :
          T = IF U.fuel = 0 THEN [U EXCEPT !.cloaked = FALSE, !.uncloak = UncloakTicks] ELSE U
    BY <1>2, <1>4
  <2>2. Good(U) /\ SameCloak(C, U)
    BY <1>1, <2>1, SpentGood
  <2>3. LET V == [U EXCEPT !.cloaked = FALSE, !.uncloak = UncloakTicks]
        IN  Good(V) /\ V.alive = U.alive /\ V.uncloak = UncloakTicks
    BY <2>2, ReappearsGood
  <2> QED BY <1>1, <1>4, <2>1, <2>2, <2>3 DEF SameCloak
<1> QED BY <1>3, <1>4

LEMMA BeamedGood ==
  ASSUME NEW S, Good(S), NEW T \in Beamed(S)
  PROVE  Good(T) /\ SameCloak(S, T)
<1> DEFINE Off(U) == [U EXCEPT !.tractor = FALSE, !.pressor = FALSE]
           Own == IF ~ (S.tractor \/ S.pressor) THEN {S}
                  ELSE {Off(S)} \cup {IF U.fuel = 0 THEN Off(U) ELSE U : U \in Spent(S)}
<1>1. ASSUME NEW U, Good(U), SameCloak(S, U)
      PROVE  Good(Off(U)) /\ SameCloak(S, Off(U))
  BY <1>1 DEF Good, Shaped, Fields, Exclusive, SameCloak, Works
<1>2. \A U \in Spent(S) : Good(U) /\ SameCloak(S, U)
  BY SpentGood
<1>3. Good(S) /\ SameCloak(S, S)
  BY DEF SameCloak
<1> HIDE DEF Off
<1>4. \A U \in Own : Good(U) /\ SameCloak(S, U)
  BY <1>1, <1>2, <1>3
<1>5. T \in Own \cup {BreakOrbit(U) : U \in Own}
  BY DEF Beamed, Off
<1> HIDE DEF Own
<1>6. PICK U \in Own : T = U \/ T = BreakOrbit(U)
  BY <1>5
<1> QED BY <1>4, <1>6, BreakOrbitGood DEF SameCloak

LEMMA SystemsGood ==
  ASSUME NEW S, Good(S), NEW T \in Systems(S)
  PROVE  Good(T) /\ SameCloak(S, T)
<1>1. PICK H \in Heated(S) : \E U \in WeaponsHeated(H) : T \in Fuelled(U)
  BY DEF Systems
<1>2. PICK U \in WeaponsHeated(H) : T \in Fuelled(U)
  BY <1>1
<1>3. Good(H) /\ SameCloak(S, H)
  <2>1. S.repair => Capped(S.desired, 1) = 0
    BY DEF Good, Exclusive, Capped
  <2>2. PICK b \in BOOLEAN : \/ H = [S EXCEPT !.desired = Capped(@, 1), !.burnout = b]
                             \/ H = [S EXCEPT !.burnout = b]
    BY <1>1 DEF Heated
  <2>3. Shaped(H) /\ SameCloak(S, H)
    BY <2>2 DEF Good, Shaped, Fields, SameCloak
  <2>4. Exclusive(H)
    BY <2>1, <2>2 DEF Good, Shaped, Fields, Exclusive, Works
  <2> QED BY <2>3, <2>4 DEF Good
<1>4. Good(U) /\ SameCloak(S, U)
  BY <1>2, <1>3 DEF Good, Shaped, Fields, Exclusive, SameCloak, Works, WeaponsHeated
<1>5. Good(T) /\ SameCloak(S, T)
  <2>1. PICK f \in 0 .. MaxFuel : T = [U EXCEPT !.fuel = f, !.shields = @ /\ f > 0]
    BY <1>2 DEF Fuelled
  <2>2. PICK b \in BOOLEAN : b <=> (U.shields /\ f > 0)
    OBVIOUS
  <2>3. T = [U EXCEPT !.fuel = f, !.shields = b]
    BY <2>1, <2>2
  <2> QED BY <1>4, <2>2, <2>3 DEF Good, Shaped, Fields, Exclusive, SameCloak, Works
<1> QED BY <1>5

-----------------------------------------------------------------------------
(* The other fields *)

\* The types of the fields that no rule of Exclusive needs.
Measured(S) ==
  /\ DOMAIN S = Fields
  /\ S.orbit \in {"none", "own", "enemy"} /\ S.beaming \in 0 .. 2
  /\ S.desired \in 0 .. MaxWarp /\ S.fuel \in 0 .. MaxFuel
  /\ S.fast \in BOOLEAN /\ S.burnout \in BOOLEAN /\ S.jammed \in BOOLEAN

LEMMA ShapedIsShip ==
  ASSUME NEW S, Shaped(S), Measured(S)
  PROVE  S \in Ship
<1>1. S = [alive |-> S.alive, shields |-> S.shields, repair |-> S.repair, cloaked |-> S.cloaked,
           uncloak |-> S.uncloak, orbit |-> S.orbit, bombing |-> S.bombing,
           beaming |-> S.beaming, tractor |-> S.tractor, pressor |-> S.pressor,
           desired |-> S.desired, fast |-> S.fast, burnout |-> S.burnout,
           jammed |-> S.jammed, fuel |-> S.fuel]
  BY DEF Shaped, Fields
<1> QED BY <1>1 DEF Shaped, Measured, Ship

LEMMA Limits ==
  /\ MaxWarp \in Nat /\ 0 \in 0 .. MaxWarp /\ MaxFuel \in 0 .. MaxFuel
  /\ \A w \in World : w.warp \in {1, MaxWarp} /\ w.warp \in 1 .. MaxWarp
                      /\ w.planet \in {"none", "own", "enemy"}
BY HelmAssumption DEF World

LEMMA CappedMeasured ==
  ASSUME NEW w \in World, NEW speed \in Nat
  PROVE  Capped(speed, w.warp) \in 0 .. MaxWarp
BY Limits DEF Capped

LEMMA BreakOrbitMeasured ==
  ASSUME NEW S, Measured(S)
  PROVE  Measured(BreakOrbit(S))
BY DEF Measured, Fields, BreakOrbit

LEMMA SetSpeedMeasured ==
  ASSUME NEW S, Measured(S), NEW w \in World, NEW speed \in Nat
  PROVE  Measured(SetSpeed(S, w, speed))
<1> DEFINE T == [S EXCEPT !.desired = Capped(speed, w.warp), !.repair = FALSE]
<1>1. Measured(T)
  <2>1. PICK k \in 0 .. MaxWarp : k = Capped(speed, w.warp)
    BY CappedMeasured
  <2>2. T = [S EXCEPT !.desired = k, !.repair = FALSE]
    BY <2>1
  <2> QED BY <2>2 DEF Measured, Fields
<1> HIDE DEF T
<1>2. SetSpeed(S, w, speed) = IF T.desired > OrbitMaxWarp THEN BreakOrbit(T) ELSE T
  BY DEF SetSpeed, T
<1> QED BY <1>1, <1>2, BreakOrbitMeasured

LEMMA TogglesMeasured ==
  ASSUME NEW S, Measured(S), NEW mode, NEW w \in World, NEW way \in {1, 2}
  PROVE  /\ Measured(ToggleShield(S, mode)) /\ Measured(ToggleRepair(S))
         /\ Measured(TryOrbit(S, w)) /\ Measured(TryBomb(S, w)) /\ Measured(TryBeam(S, w, way))
         /\ Measured(ToggleCloak(S, mode))
         /\ Measured(ToggleTractor(S, w)) /\ Measured(TogglePressor(S, w))
<1>1. Measured(ToggleShield(S, mode))
  BY DEF Measured, Fields, ToggleShield
<1>2. Measured(ToggleRepair(S))
  BY Limits DEF Measured, Fields, ToggleRepair
<1>3. Measured(TryOrbit(S, w))
  BY Limits DEF Measured, Fields, TryOrbit
<1>4. Measured(TryBomb(S, w))
  BY DEF Measured, Fields, TryBomb
<1>5. Measured(TryBeam(S, w, way))
  BY DEF Measured, Fields, TryBeam
<1>6. Measured(ToggleCloak(S, mode))
  BY DEF Measured, Fields, ToggleCloak
<1>7. Measured(ToggleTractor(S, w))
  BY DEF Measured, Fields, ToggleTractor
<1>8. Measured(TogglePressor(S, w))
  BY DEF Measured, Fields, TogglePressor
<1> QED BY <1>1, <1>2, <1>3, <1>4, <1>5, <1>6, <1>7, <1>8

LEMMA ObeyMeasured ==
  ASSUME NEW S, Measured(S), NEW c, c.value \in Nat, NEW w \in World
  PROVE  Measured(Obey(S, c, w))
<1>1. Obey(S, c, w) \in
        {S, BreakOrbit(S), SetSpeed(S, w, c.value), ToggleShield(S, c.value),
         ToggleRepair(S), TryOrbit(S, w), TryBomb(S, w), TryBeam(S, w, 1),
         TryBeam(S, w, 2), ToggleCloak(S, c.value), ToggleTractor(S, w), TogglePressor(S, w)}
  BY DEF Obey
<1> QED BY <1>1, BreakOrbitMeasured, SetSpeedMeasured, TogglesMeasured

LEMMA TickMeasured ==
  ASSUME NEW S, Measured(S), NEW w \in World, NEW T,
         \/ T \in Moved(S, w) \/ T \in Worked(S, w) \/ T \in Cloaking(S)
         \/ T \in Beamed(S) \/ T \in Systems(S)
  PROVE  Measured(T)
<1>1. ASSUME NEW U \in Spent(S) PROVE Measured(U)
  <2>1. PICK f : /\ f = S.fuel \/ (f = S.fuel - 1 /\ f >= 0)
                 /\ U = [S EXCEPT !.fuel = f]
    BY <1>1 DEF Spent
  <2> QED BY <2>1, HelmAssumption DEF Measured, Fields
<1>2. CASE T \in Moved(S, w)
  <2>1. PICK b \in BOOLEAN : T = S \/ T = [S EXCEPT !.fast = b]
    <3>1. T = S \/ \E f \in {S.fast, Capped(S.desired, w.warp) > OrbitMaxWarp} : T = [S EXCEPT !.fast = f]
      BY <1>2 DEF Moved, Accelerated
    <3>2. S.fast \in BOOLEAN /\ (Capped(S.desired, w.warp) > OrbitMaxWarp) \in BOOLEAN
      BY DEF Measured
    <3> QED BY <3>1, <3>2
  <2> QED BY <2>1 DEF Measured, Fields
<1>3. CASE T \in Worked(S, w)
  <2>1. PICK U \in {S, BreakOrbit(S)} : T \in {U, [U EXCEPT !.bombing = FALSE, !.beaming = 0]}
    BY <1>3 DEF Worked
  <2>2. Measured(U)
    BY <2>1, BreakOrbitMeasured
  <2>3. Measured([U EXCEPT !.bombing = FALSE, !.beaming = 0])
    BY <2>2 DEF Measured, Fields
  <2> QED BY <2>1, <2>2, <2>3
<1>4. CASE T \in Cloaking(S)
  <2> DEFINE C == [S EXCEPT !.uncloak = IF @ > 0 THEN @ - 1 ELSE @]
  <2>1. Measured(C)
    BY DEF Measured, Fields
  <2> HIDE DEF C
  <2>2. T \in IF ~ C.cloaked THEN {C}
              ELSE {IF U.fuel = 0 THEN [U EXCEPT !.cloaked = FALSE, !.uncloak = UncloakTicks] ELSE U :
                      U \in Spent(C)}
    BY <1>4 DEF Cloaking, C
  <2>3. ASSUME NEW U \in Spent(C) PROVE Measured(U)
    <3>1. PICK f : /\ f = C.fuel \/ (f = C.fuel - 1 /\ f >= 0)
                   /\ U = [C EXCEPT !.fuel = f]
      BY <2>3 DEF Spent
    <3> QED BY <2>1, <3>1, HelmAssumption DEF Measured, Fields
  <2>4. T = C \/ \E U \in Spent(C) :
                   T = U \/ T = [U EXCEPT !.cloaked = FALSE, !.uncloak = UncloakTicks]
    BY <2>2
  <2>5. ASSUME NEW U, Measured(U)
        PROVE  Measured([U EXCEPT !.cloaked = FALSE, !.uncloak = UncloakTicks])
    BY <2>5 DEF Measured, Fields
  <2> QED BY <2>1, <2>3, <2>4, <2>5
<1>5. CASE T \in Beamed(S)
  <2> DEFINE Off(U) == [U EXCEPT !.tractor = FALSE, !.pressor = FALSE]
             Own == IF ~ (S.tractor \/ S.pressor) THEN {S}
                    ELSE {Off(S)} \cup {IF U.fuel = 0 THEN Off(U) ELSE U : U \in Spent(S)}
  <2>1. ASSUME NEW U, Measured(U) PROVE Measured(Off(U))
    BY <2>1 DEF Measured, Fields
  <2> HIDE DEF Off
  <2>2. \A U \in Own : Measured(U)
    BY <1>1, <2>1
  <2>3. T \in Own \cup {BreakOrbit(U) : U \in Own}
    BY <1>5 DEF Beamed, Off
  <2> HIDE DEF Own
  <2> QED BY <2>2, <2>3, BreakOrbitMeasured
<1>6. CASE T \in Systems(S)
  <2>1. PICK H \in Heated(S) : \E U \in WeaponsHeated(H) : T \in Fuelled(U)
    BY <1>6 DEF Systems
  <2>2. PICK U \in WeaponsHeated(H) : T \in Fuelled(U)
    BY <2>1
  <2>3. Measured(H)
    <3>1. PICK k \in 0 .. MaxWarp : k = Capped(S.desired, 1)
      BY HelmAssumption DEF Measured, Capped
    <3>2. PICK b \in BOOLEAN : \/ H = [S EXCEPT !.desired = k, !.burnout = b]
                               \/ H = [S EXCEPT !.burnout = b]
      BY <2>1, <3>1 DEF Heated
    <3>3. Measured([S EXCEPT !.burnout = b])
      BY DEF Measured, Fields
    <3>4. Measured([S EXCEPT !.desired = k, !.burnout = b])
      BY DEF Measured, Fields
    <3> QED BY <3>2, <3>3, <3>4
  <2>4. Measured(U)
    BY <2>2, <2>3 DEF Measured, Fields, WeaponsHeated
  <2>5. PICK f \in 0 .. MaxFuel : T = [U EXCEPT !.fuel = f, !.shields = @ /\ f > 0]
    BY <2>2 DEF Fuelled
  <2> QED BY <2>4, <2>5 DEF Measured, Fields
<1> QED BY <1>2, <1>3, <1>4, <1>5, <1>6

-----------------------------------------------------------------------------
(* What a mission commands *)

Words == {"SET_DIRECTION", "SET_SPEED", "SHIELD_TOGGLE", "CLOAK_TOGGLE", "REPAIR_TOGGLE", "ORBIT",
          "BOMB", "BEAM_UP", "BEAM_DOWN", "TRACTOR", "PRESSOR", "FIRE_PHASER", "FIRE_TORP",
          "DETONATE", "DETONATE_SELF"}
Told == [cmd : Words, value : Nat]
Telling == Seq(Told)

LEMMA CmdTold == \A c \in Words, x \in Nat : Cmd(c, x) \in Told
BY DEF Cmd, Told

LEMMA Lists ==
  /\ << >> \in Telling
  /\ \A a \in Told : << a >> \in Telling
  /\ \A a, b \in Told : << a, b >> \in Telling
  /\ \A p, q \in Telling : p \o q \in Telling
  /\ \A c : \A q \in Telling : If(c, q) \in Telling
BY DEF Telling, If

LEMMA MovesTelling ==
  ASSUME NEW v
  PROVE  /\ \A s \in Nat : Speed(s) \in Told /\ << Speed(s) >> \in Telling
         /\ \A s \in Nat : Dash(s) \in Telling /\ MoveTo(v, s) \in Telling
                           /\ MoveToAvoiding(v, s) \in Telling
         /\ \A d : MoveToOrbit(v, d) \in Telling /\ ToOrbit(d, Dash) \in Telling
         /\ RaiseShields(v) \in Telling /\ LowerShields(v) \in Telling
         /\ MindShields(v) \in Telling
         /\ \A l : CloakFor(v, l) \in Telling
<1>1. Steer \in Told /\ \A s \in Nat : Speed(s) \in Told
  BY CmdTold DEF Steer, Speed, Words
<1>2. \A s \in Nat : Dash(s) \in Telling
  BY <1>1, Lists DEF Dash
<1>3. \A s \in Nat : MoveTo(v, s) \in Telling
  <2> SUFFICES ASSUME NEW s \in Nat PROVE MoveTo(v, s) \in Telling
    OBVIOUS
  <2>1. PICK k \in Nat : MoveTo(v, s) = << Steer, Speed(k) >>
    BY DEF MoveTo
  <2> QED BY <2>1, <1>1, Lists
<1>4. << Speed(OrbitMaxSpeed), Cmd("ORBIT", 0) >> \in Telling
  BY <1>1, CmdTold, Lists DEF OrbitMaxSpeed, Words
<1>5. \A d : MoveToOrbit(v, d) \in Telling /\ ToOrbit(d, Dash) \in Telling
  BY <1>2, <1>3, <1>4 DEF MoveToOrbit, ToOrbit
<1>6. \A x \in 0 .. 2 : << Shield(x) >> \in Telling
  BY CmdTold, Lists DEF Shield, Words
<1>7. RaiseShields(v) \in Telling /\ LowerShields(v) \in Telling
  BY <1>6, Lists DEF RaiseShields, LowerShields
<1>8. MindShields(v) \in Telling
  BY <1>7 DEF MindShields
<1>9. \A l : CloakFor(v, l) \in Telling
  BY CmdTold, Lists DEF CloakFor, Words
<1> QED BY <1>1, <1>2, <1>3, <1>5, <1>7, <1>8, <1>9, Lists DEF MoveToAvoiding

LEMMA MissionsTelling ==
  ASSUME NEW v
  PROVE  /\ Patrol(v) \in Telling /\ Bomb(v) \in Telling
         /\ v.pace \in Nat => Escort(v) \in Telling
         /\ Defend(v) \in Telling /\ Ogg(v) \in Telling /\ Resupply(v) \in Telling
<1> USE Lists, MovesTelling
<1>1. Patrol(v) \in Telling
  BY DEF Patrol
<1>2. Bomb(v) \in Telling
  BY CmdTold DEF Bomb, Words
<1>3. ASSUME v.pace \in Nat PROVE Escort(v) \in Telling
  <2> DEFINE Move == IF v.dist > 3000 THEN Dash(8)
                     ELSE IF v.dist >= 2000 THEN Dash(v.pace) ELSE << Speed(2) >>
  <2>a. 8 \in Nat /\ 2 \in Nat
    OBVIOUS
  <2>b. Dash(8) \in Telling /\ Dash(v.pace) \in Telling
    BY <1>3, <2>a, MovesTelling
  <2>1. Move \in Telling
    <3>1. << Speed(2) >> \in Telling
      BY <2>a, MovesTelling
    <3> QED BY <2>b, <3>1
  <2>2. Escort(v) = IF ~ v.alive THEN << >> ELSE RaiseShields(v) \o Move
    BY DEF Escort
  <2> HIDE DEF Move
  <2> QED BY <2>1, <2>2
<1>4. Defend(v) \in Telling
  <2> DEFINE Near == << Speed(3) >> \o If(~ v.orbiting, ToOrbit(v.dist, Dash))
             Move == IF v.dist > 2700 THEN MoveTo(v, 6) ELSE Near
  <2>1. Near \in Telling
    <3>1. << Speed(3) >> \in Telling /\ If(~ v.orbiting, ToOrbit(v.dist, Dash)) \in Telling
      OBVIOUS
    <3> QED BY <3>1
  <2>2. Defend(v) = IF v.owner # "own" \/ ~ v.threatened THEN << >> ELSE RaiseShields(v) \o Move
    BY DEF Defend
  <2> HIDE DEF Near
  <2>3. Move \in Telling
    <3>1. MoveTo(v, 6) \in Telling
      BY MovesTelling
    <3> QED BY <2>1, <3>1
  <2> HIDE DEF Move
  <2> QED BY <2>2, <2>3
<1>5. Ogg(v) \in Telling
  <2> DEFINE Shots == << Cmd("FIRE_PHASER", 0), Cmd("FIRE_TORP", 0) >>
             Pull == If(~ v.tractoring, << Cmd("TRACTOR", 0) >>)
             Move == IF v.dist < 500 THEN << Cmd("DETONATE_SELF", 0) >>
                     ELSE IF v.dist > 3000 THEN CloakFor(v, VETERAN) \o Dash(9)
                     ELSE Dash(9) \o Shots \o Pull
  <2>1. \A c \in {"DETONATE_SELF", "FIRE_PHASER", "FIRE_TORP", "TRACTOR"} : Cmd(c, 0) \in Told
    BY CmdTold DEF Words
  <2>2. Shots \in Telling /\ Pull \in Telling /\ Dash(9) \in Telling
    BY <2>1
  <2>3. CloakFor(v, VETERAN) \o Dash(9) \in Telling
    OBVIOUS
  <2>4. Dash(9) \o Shots \o Pull \in Telling
    <3> HIDE DEF Shots, Pull
    <3>1. Dash(9) \o Shots \in Telling
      BY <2>2
    <3> QED BY <2>2, <3>1
  <2>5. << Cmd("DETONATE_SELF", 0) >> \in Telling
    BY <2>1
  <2>6. Move \in Telling
    BY <2>3, <2>4, <2>5
  <2>7. Ogg(v) = IF ~ v.alive THEN << >> ELSE RaiseShields(v) \o Move
    BY DEF Ogg
  <2> HIDE DEF Move
  <2> QED BY <2>6, <2>7
<1>6. Resupply(v) \in Telling
  <2>1. << Cmd("REPAIR_TOGGLE", 1) >> \in Telling
    BY CmdTold DEF Words
  <2>2. Refuel(v) \in Telling /\ Flee(v) \in Telling
    BY DEF Refuel, Flee
  <2> QED BY <2>1, <2>2 DEF Resupply
<1> QED BY <1>1, <1>2, <1>3, <1>4, <1>5, <1>6

LEMMA ResultFields ==
  ASSUME NEW r, NEW cmds, NEW ph, NEW p, r = TakeResult(cmds, ph, p)
  PROVE  r.cmds = cmds /\ r.phase = ph
BY DEF TakeResult

LEMMA TakeTelling ==
  ASSUME NEW v, NEW step, NEW chosen
  PROVE  Take(v, step, chosen).cmds \in Telling
<1> USE Lists, MovesTelling
<1>1. \A b \in {"BEAM_UP", "BEAM_DOWN"} : Cmd(b, 0) \in Told
  BY CmdTold DEF Words
<1>2. \A before \in Telling : \A pickup : Approach(v, before, pickup).cmds \in Telling
  <2> SUFFICES ASSUME NEW before \in Telling, NEW pickup
               PROVE  Approach(v, before, pickup).cmds \in Telling
    OBVIOUS
  <2>1. << IF v.beaming # 2 THEN Cmd("BEAM_DOWN", 0) ELSE Speed(0) >> \in Telling
    BY <1>1
  <2> QED BY <2>1 DEF Approach, TakeResult
<1>3. \A pickup : Transit(v, pickup).cmds \in Telling
  BY <1>2 DEF Transit, TakeResult
<1>4. Pickup(v, chosen).cmds \in Telling
  <2>1. << IF v.beaming # 1 THEN Cmd("BEAM_UP", 0) ELSE Speed(0) >> \in Telling
    BY <1>1
  <2> QED BY <2>1, <1>3 DEF Pickup, TakeResult
<1> QED BY <1>2, <1>3, <1>4 DEF Take, TakeResult

LEMMA CombatTelling ==
  ASSUME NEW v
  PROVE  Combat(v) \in Telling
<1> USE Lists, MovesTelling
<1>1. \A c \in {"FIRE_PHASER", "FIRE_TORP", "TRACTOR", "PRESSOR", "DETONATE", "SET_DIRECTION"} :
        Cmd(c, 0) \in Told /\ << Cmd(c, 0) >> \in Telling
  BY CmdTold DEF Words
<1>2. CombatShields(v) \in Telling
  BY DEF CombatShields
<1>3. CombatMovement(v) \in Telling
  BY <1>1 DEF CombatMovement, Steer
<1>4. CombatWeapons(v) \in Telling
  BY <1>1 DEF CombatWeapons
<1>5. CombatBeams(v) \in Telling
  BY <1>1 DEF CombatBeams
<1> QED BY <1>1, <1>2, <1>3, <1>4, <1>5 DEF Combat

LEMMA OrdersTelling ==
  ASSUME NEW S, NEW difficulty, NEW alert, NEW t,
         NEW q \in Orders(t, View(S, difficulty, alert), S)
  PROVE  q \in Telling
<1> DEFINE v == View(S, difficulty, alert)
<1>1. v.pace = 2 /\ \A d : AtDistance(v, d).pace = 2
  BY DEF View, AtDistance
<1> HIDE DEF v
<1>a. \A u : Bomb(u) \in Telling
  BY MissionsTelling
<1>b. \A u : u.pace \in Nat => Escort(u) \in Telling
  BY MissionsTelling
<1>c. \A u : Defend(u) \in Telling
  BY MissionsTelling
<1>d. \A u : Ogg(u) \in Telling
  BY MissionsTelling
<1>e. \A u : Resupply(u) \in Telling
  BY MissionsTelling
<1>2. \A x \in Bombings(v, S) : x \in Telling
  BY <1>a DEF Bombings
<1>3. \A x \in Takings(v, S) : x \in Telling
  <2>1. \A u, p : TakeFrom(u, p) \in Telling
    BY TakeTelling DEF TakeFrom
  <2> QED BY <2>1 DEF Takings
<1>4. \A x \in Escortings(v) : x \in Telling
  <2> SUFFICES ASSUME NEW x \in Escortings(v) PROVE x \in Telling
    OBVIOUS
  <2>1. PICK d \in {1000, 2500, 9000} : x = Escort(AtDistance(v, d))
    BY DEF Escortings
  <2> DEFINE u == AtDistance(v, d)
  <2>2. x = Escort(u) /\ u.pace \in Nat
    BY <2>1, <1>1
  <2> HIDE DEF u
  <2> QED BY <2>2, <1>b
<1>5. \A x \in Defendings(v, S) : x \in Telling
  BY <1>c DEF Defendings
<1>6. \A x \in Oggings(v) : x \in Telling
  BY <1>d DEF Oggings
<1>7. \A x \in Resupplies(v, S) : x \in Telling
  BY <1>e DEF Resupplies
<1>8. \A x \in Fights(v) : x \in Telling
  BY CombatTelling DEF Fights
<1>9. Patrol(v) \in Telling
  BY MissionsTelling
<1>10. q \in Orders(t, v, S)
  BY DEF v
<1> QED BY <1>2, <1>3, <1>4, <1>5, <1>6, <1>7, <1>8, <1>9, <1>10 DEF Orders

-----------------------------------------------------------------------------
(* The theorem *)

LEMMA NewShipGood ==
  Good(NewShip) /\ Surfacing(NewShip, UncloakTicks) /\ UncloakTicks \in 0 .. UncloakTicks
BY Ticks DEF Good, Shaped, Fields, Exclusive, Surfacing, Works, NewShip

LEMMA EndTickKeeps ==
  ASSUME IInv, EndTick
  PROVE  IInv'
<1>1. PICK w \in World : \E x \in Moved(ship, w) : \E y \in Worked(x, w) :
        \E z \in Cloaking(y) : \E v \in Beamed(z) : ship' \in Systems(v)
  BY DEF EndTick
<1>2. PICK a, b, c, e : /\ a \in Moved(ship, w) /\ b \in Worked(a, w)
                        /\ c \in Cloaking(b) /\ e \in Beamed(c) /\ ship' \in Systems(e)
  BY <1>1
<1>3. Good(a) /\ SameCloak(ship, a)
  BY <1>2, MovedGood DEF IInv
<1>4. Good(b) /\ SameCloak(a, b)
  BY <1>2, <1>3, WorkedGood
<1>5. /\ Good(c) /\ c.alive = b.alive
      /\ b.cloaked /\ ~ c.cloaked => c.uncloak = UncloakTicks
      /\ ~ b.cloaked => ~ c.cloaked /\ c.uncloak = IF b.uncloak > 0 THEN b.uncloak - 1 ELSE 0
  BY <1>2, <1>4, CloakingGood
<1>6. Good(e) /\ SameCloak(c, e)
  BY <1>2, <1>5, BeamedGood
<1>7. Good(ship') /\ SameCloak(e, ship')
  BY <1>2, <1>6, SystemsGood
<1>8. dark' = IF ship.cloaked THEN 0 ELSE IF dark < UncloakTicks THEN dark + 1 ELSE dark
  BY DEF EndTick
<1>9. dark \in 0 .. UncloakTicks /\ dark' \in 0 .. UncloakTicks
  BY <1>8, Ticks DEF IInv
<1>10. Surfacing(ship', dark')
  <2>1. CASE ship.cloaked
    BY <2>1, <1>3, <1>4, <1>5, <1>6, <1>7, <1>9, Ticks DEF SameCloak, Surfacing
  <2>2. CASE ~ ship.cloaked
    <3>1. ship.alive => dark + ship.uncloak >= UncloakTicks
      BY <2>2 DEF IInv, Surfacing
    <3>2. ship'.alive = ship.alive /\ ship.uncloak \in 0 .. UncloakTicks
      BY <1>3, <1>4, <1>5, <1>6, <1>7 DEF SameCloak, IInv, Good, Shaped
    <3>3. ship'.uncloak = IF ship.uncloak > 0 THEN ship.uncloak - 1 ELSE 0
      BY <2>2, <1>3, <1>4, <1>5, <1>6, <1>7 DEF SameCloak
    <3> QED BY <2>2, <3>1, <3>2, <3>3, <1>8, <1>9, Ticks DEF Surfacing
  <2>3. ship.cloaked \in BOOLEAN
    BY DEF IInv, Good, Shaped
  <2> QED BY <2>1, <2>2, <2>3
<1> QED BY <1>7, <1>9, <1>10 DEF IInv

LEMMA Inductive ==
  ASSUME IInv, [FlightNext]_flightVars
  PROVE  IInv'
<1>1. CASE PilotThinks
  BY <1>1 DEF PilotThinks, IInv
<1>2. CASE Process
  <2>1. \E c : \E w \in World : ship' = Obey(ship, c, w)
    BY <1>2 DEF Process
  <2>2. dark' = dark
    BY <1>2 DEF Process
  <2>. PICK c : \E w \in World : ship' = Obey(ship, c, w)
    BY <2>1
  <2>. PICK w \in World : ship' = Obey(ship, c, w)
    OBVIOUS
  <2>3. Good(Obey(ship, c, w)) /\ Surfacing(Obey(ship, c, w), dark)
    BY ObeyGood DEF IInv
  <2> QED BY <2>1, <2>2, <2>3 DEF IInv
<1>3. CASE EndTick
  BY <1>3, EndTickKeeps
<1>4. CASE Die
  <2>1. ship' = Wreck(ship) /\ dark' = dark
    BY <1>4 DEF Die
  <2>2. Good(BreakOrbit(ship))
    BY BreakOrbitGood DEF IInv
  <2>3. Good(Wreck(ship)) /\ ~ Wreck(ship).alive
    BY <2>2 DEF Good, Shaped, Fields, Exclusive, Works, Wreck
  <2> QED BY <2>1, <2>3 DEF IInv, Surfacing
<1>5. CASE Respawn \/ Reset
  <2>1. ship' = NewShip /\ dark' = UncloakTicks
    BY <1>5 DEF Respawn, Reset
  <2> QED BY <2>1, NewShipGood DEF IInv
<1>6. CASE UNCHANGED flightVars
  BY <1>6 DEF flightVars, IInv
<1> QED BY <1>1, <1>2, <1>3, <1>4, <1>5, <1>6 DEF FlightNext

LEMMA IInvImplies == IInv => SystemsExclude
BY Ticks DEF IInv, Good, Shaped, Fields, Exclusive, Surfacing, SystemsExclude, OneBeam, NoBeamFromTheDark,
   RepairAtRest, WorkInTheOpen, NoShotFromTheDark, MayFire

\* Whatever a human presses or a bot commands, in whatever order, and whatever the
\* ticks do to fuel and heat: a ship never pulls and pushes at once, does not beam or
\* shoot from the cloak or within UNCLOAK_TICKS of it, repairs with engines stopped,
\* and works unshielded, in orbit and at one job.
THEOREM SystemsExcludeEachOther == FlightSpec => []SystemsExclude
<1>1. FlightInit => IInv
  BY NewShipGood DEF FlightInit, IInv
<1>2. IInv /\ [FlightNext]_flightVars => IInv'
  BY Inductive
<1> QED BY <1>1, <1>2, IInvImplies, PTL DEF FlightSpec
-----------------------------------------------------------------------------
(* Types *)

FlightTyped ==
  /\ IInv /\ Measured(ship)
  /\ pilot \in {"human", "bot"} /\ stage \in {"think", "inputs"}
  /\ told \in Telling /\ working \in BOOLEAN

LEMMA CommandsTelling ==
  /\ \A c \in Commands : Received(c).value \in Nat
  /\ \A q \in Telling : q # << >> => Head(q).value \in Nat /\ Tail(q) \in Telling
<1>1. ASSUME NEW c \in Commands PROVE Received(c).value \in Nat
  <2>1. \E w, x : x \in Nat /\ c = Cmd(w, x)
    <3>1. \A x \in 0 .. MaxWarp : x \in Nat
      BY Limits
    <3> QED BY <3>1 DEF Commands
  <2> PICK w, x : x \in Nat /\ c = Cmd(w, x)
    BY <2>1
  <2>2. Received(c) = [cmd |-> w, value |-> x % 65536]
    BY DEF Received, Cmd
  <2> QED BY <2>2
<1>2. ASSUME NEW q \in Telling, q # << >>
      PROVE  Head(q).value \in Nat /\ Tail(q) \in Telling
  <2>1. Head(q) \in Told /\ Tail(q) \in Telling
    BY <1>2 DEF Telling
  <2> QED BY <2>1 DEF Told
<1> QED BY <1>1, <1>2

LEMMA TypedInductive ==
  ASSUME FlightTyped, [FlightNext]_flightVars
  PROVE  FlightTyped'
<1>1. IInv'
  BY Inductive DEF FlightTyped
<1>2. CASE PilotThinks
  <2>1. told' \in Telling
    <3>1. CASE pilot = "bot"
      BY <1>2, <3>1, OrdersTelling DEF PilotThinks
    <3>2. CASE pilot # "bot"
      BY <1>2, <3>2 DEF PilotThinks, FlightTyped
    <3> QED BY <3>1, <3>2
  <2>2. working' \in BOOLEAN
    BY <1>2 DEF PilotThinks, FlightTyped
  <2> QED BY <1>1, <1>2, <2>1, <2>2 DEF PilotThinks, FlightTyped
<1>3. CASE Process
  <2>1. PICK w \in World :
          \/ /\ pilot = "human" /\ UNCHANGED told
             /\ \E c \in Commands : ship' = Obey(ship, Received(c), w)
          \/ /\ pilot = "bot" /\ told # << >>
             /\ ship' = Obey(ship, Head(told), w) /\ told' = Tail(told)
    BY <1>3 DEF Process
  <2>2. Measured(ship') /\ told' \in Telling
    BY <2>1, CommandsTelling, ObeyMeasured DEF FlightTyped
  <2> QED BY <1>1, <1>3, <2>2 DEF Process, FlightTyped
<1>4. CASE EndTick
  <2>1. PICK w \in World : \E x \in Moved(ship, w) : \E y \in Worked(x, w) :
          \E z \in Cloaking(y) : \E u \in Beamed(z) : ship' \in Systems(u)
    BY <1>4 DEF EndTick
  <2>2. PICK x, y, z, u : /\ x \in Moved(ship, w) /\ y \in Worked(x, w)
                          /\ z \in Cloaking(y) /\ u \in Beamed(z) /\ ship' \in Systems(u)
    BY <2>1
  <2>3. Measured(x)
    BY <2>2, TickMeasured DEF FlightTyped
  <2>4. Measured(y)
    BY <2>2, <2>3, TickMeasured
  <2>5. Measured(z)
    BY <2>2, <2>4, TickMeasured
  <2>6. Measured(u)
    BY <2>2, <2>5, TickMeasured
  <2>7. Measured(ship')
    BY <2>2, <2>6, TickMeasured
  <2> QED BY <1>1, <1>4, <2>7 DEF EndTick, FlightTyped
<1>5. CASE Die
  <2>1. Measured(Wreck(ship))
    <3>1. Measured(BreakOrbit(ship))
      BY BreakOrbitMeasured DEF FlightTyped
    <3> QED BY <3>1, Limits DEF Measured, Fields, Wreck
  <2> QED BY <1>1, <1>5, <2>1 DEF Die, FlightTyped
<1>6. CASE Respawn \/ Reset
  <2>1. Measured(NewShip)
    BY Limits DEF Measured, Fields, NewShip
  <2> QED BY <1>1, <1>6, <2>1, Lists DEF Respawn, Reset, FlightTyped
<1>7. CASE UNCHANGED flightVars
  BY <1>1, <1>7 DEF flightVars, FlightTyped
<1> QED BY <1>2, <1>3, <1>4, <1>5, <1>6, <1>7 DEF FlightNext

LEMMA FlightStartsTyped == FlightInit => FlightTyped
<1>1. Measured(NewShip)
  BY Limits DEF Measured, Fields, NewShip
<1> QED BY <1>1, NewShipGood, Lists DEF FlightInit, IInv, FlightTyped

\* What the commands, the ticks, a death and a reset leave is a ship, and what a bot
\* is told to do are commands with values that can be sent.
THEOREM FlightTypeCorrect == FlightSpec => []FlightTypeOK
<1>1. FlightTyped => FlightTypeOK
  <2> SUFFICES ASSUME FlightTyped PROVE FlightTypeOK
    OBVIOUS
  <2>1. ship \in Ship
    BY ShapedIsShip DEF FlightTyped, IInv, Good
  <2>2. \A i \in DOMAIN told : told[i].value \in Nat
    <3>1. \A i \in DOMAIN told : told[i] \in Told
      BY DEF FlightTyped, Telling
    <3> QED BY <3>1 DEF Told
  <2> QED BY <2>1, <2>2 DEF FlightTyped, IInv, FlightTypeOK
<1>2. FlightTyped /\ [FlightNext]_flightVars => FlightTyped'
  BY TypedInductive
<1> QED BY <1>1, <1>2, FlightStartsTyped, PTL DEF FlightSpec

-----------------------------------------------------------------------------
(* The work of a bot, which its mission commands again in every tick.      *)
(*                                                                         *)
(* When a bot that is at work thinks, its flags come to it as they are,    *)
(* and so it either commands to move off, with no command to orbit         *)
(* behind, or nothing that ends the work (Minds).                          *)

\* The bits of the flags that say where the ship is and what it does there.
LEMMA WireKeeps ==
  ASSUME NEW S, Shaped(S), Measured(S), NEW alert \in Alerts
  PROVE  LET p == PackShip(S, alert, MaxFuel)
         IN  /\ HasBit(p.flags, 32) <=> S.orbit # "none"
             /\ HasBit(p.flags, 64) <=> S.bombing
             /\ (p.flags2 \div 2) % 4 = S.beaming
<1> DEFINE p == PackShip(S, alert, MaxFuel)
<1>1. PICK low \in 0 .. 31, o \in 0 .. 1, b \in 0 .. 1, t \in 0 .. 1 :
        /\ p.flags = low + 32 * o + 64 * b + 128 * t
        /\ o = 1 <=> S.orbit # "none"
        /\ b = 1 <=> S.bombing
  <2>1. \A c \in BOOLEAN : \E x \in 0 .. 1 : (x = 1 <=> c) /\ \A n \in Nat : Bit(c, n) = n * x
    <3> SUFFICES ASSUME NEW c \in BOOLEAN
                 PROVE  \E x \in 0 .. 1 : (x = 1 <=> c) /\ \A n \in Nat : Bit(c, n) = n * x
      OBVIOUS
    <3>1. CASE c
      <4>1. c /\ \A n \in Nat : Bit(c, n) = n * 1
        BY <3>1 DEF Bit
      <4> WITNESS 1 \in 0 .. 1
      <4> QED BY <4>1
    <3>2. CASE ~ c
      <4>1. (0 = 1 <=> c) /\ \A n \in Nat : Bit(c, n) = n * 0
        BY <3>2 DEF Bit
      <4> QED BY <4>1
    <3> QED BY <3>1, <3>2
  <2>2. PICK i \in BOOLEAN : i <=> S.orbit # "none"
    OBVIOUS
  <2>3. PICK x1 \in 0 .. 1 : Bit(S.shields, 1) = 1 * x1
    BY <2>1 DEF Shaped
  <2>4. PICK x2 \in 0 .. 1 : Bit(S.repair, 2) = 2 * x2
    BY <2>1 DEF Shaped
  <2>5. PICK x3 \in 0 .. 1 : Bit(S.cloaked, 4) = 4 * x3
    BY <2>1 DEF Shaped
  <2>6. PICK o \in 0 .. 1 : Bit(i, 32) = 32 * o /\ (o = 1 <=> i)
    BY <2>1
  <2>7. PICK b \in 0 .. 1 : Bit(S.bombing, 64) = 64 * b /\ (b = 1 <=> S.bombing)
    BY <2>1 DEF Shaped
  <2>8. PICK t \in 0 .. 1 : Bit(S.tractor, 128) = 128 * t
    BY <2>1 DEF Shaped
  <2>9. p.flags = Bit(S.shields, 1) + Bit(S.repair, 2) + Bit(S.cloaked, 4) + 8 * (alert % 4)
                  + Bit(i, 32) + Bit(S.bombing, 64) + Bit(S.tractor, 128)
    BY <2>2 DEF PackShip, PackFlags, Bit
  <2>10. alert \in 0 .. 2 /\ alert % 4 = alert
    BY DEF Alerts
  <2> DEFINE low == x1 + 2 * x2 + 4 * x3 + 8 * alert
  <2>11. low \in 0 .. 31 /\ p.flags = low + 32 * o + 64 * b + 128 * t
    BY <2>3, <2>4, <2>5, <2>6, <2>7, <2>8, <2>9, <2>10
  <2> HIDE DEF low, p
  <2> QED BY <2>2, <2>6, <2>7, <2>11
<1>2. p.flags \div 32 = o + 2 * b + 4 * t /\ p.flags \div 64 = b + 2 * t
  BY <1>1
<1>3. (HasBit(p.flags, 32) <=> o = 1) /\ (HasBit(p.flags, 64) <=> b = 1)
  BY <1>2 DEF HasBit
<1>4. (p.flags2 \div 2) % 4 = S.beaming
  <2>1. PICK x \in 0 .. 1 : p.flags2 = x + 2 * (S.beaming % 4)
    BY DEF PackShip, PackFlags2, Bit, Shaped
  <2> HIDE DEF p
  <2>2. S.beaming \in 0 .. 2
    BY DEF Measured
  <2> QED BY <2>1, <2>2
<1> QED BY <1>1, <1>3, <1>4

\* Commands that move the ship off for good, and commands that keep it at work: nothing
\* but SET_SPEED 0, or the beaming up of a ship that does not beam up yet.
Sails(q) ==
  /\ \A i \in DOMAIN q : q[i].cmd # "ORBIT"
  /\ \E i \in DOMAIN q : q[i].cmd = "SET_DIRECTION"
Minds(S, q) ==
  \/ Sails(q)
  \/ /\ S.orbit = "none"
     /\ \A i \in DOMAIN q : q[i].cmd # "ORBIT"
  \/ /\ Works(S)
     /\ \/ \A i \in DOMAIN q : q[i] = Speed(0)
        \/ q = << Cmd("BEAM_UP", 0) >> /\ S.beaming # 1

Straight(q) == q \in Telling /\ \A i \in DOMAIN q : q[i].cmd # "ORBIT"

LEMMA SailsAfter ==
  /\ \A p, q : Straight(p) /\ Straight(q) => Straight(p \o q)
  /\ \A p, q : Straight(p) /\ Straight(q) /\ Sails(q) => Sails(p \o q)
<1>1. ASSUME NEW p, NEW q, Straight(p), Straight(q)
      PROVE  Straight(p \o q) /\ (Sails(q) => Sails(p \o q))
  <2>1. p \in Seq(Told) /\ q \in Seq(Told)
    BY <1>1 DEF Straight, Telling
  <2>2. /\ p \o q \in Seq(Told) /\ Len(p \o q) = Len(p) + Len(q)
        /\ Len(p) \in Nat /\ Len(q) \in Nat
        /\ DOMAIN p = 1 .. Len(p) /\ DOMAIN q = 1 .. Len(q)
        /\ DOMAIN (p \o q) = 1 .. Len(p) + Len(q)
    BY <2>1
  <2>3. \A i \in 1 .. Len(p) + Len(q) : (p \o q)[i] = IF i <= Len(p) THEN p[i] ELSE q[i - Len(p)]
    BY <2>1
  <2>4. ASSUME NEW i \in DOMAIN (p \o q) PROVE (p \o q)[i].cmd # "ORBIT"
    <3>1. CASE i <= Len(p)
      BY <1>1, <2>2, <2>3, <3>1 DEF Straight
    <3>2. CASE ~ (i <= Len(p))
      <4>1. i - Len(p) \in DOMAIN q
        BY <2>2, <3>2
      <4> QED BY <1>1, <2>2, <2>3, <3>2, <4>1 DEF Straight
    <3> QED BY <3>1, <3>2
  <2>5. ASSUME NEW j \in DOMAIN q, q[j].cmd = "SET_DIRECTION"
        PROVE  \E i \in DOMAIN (p \o q) : (p \o q)[i].cmd = "SET_DIRECTION"
    <3>1. Len(p) + j \in DOMAIN (p \o q) /\ ~ (Len(p) + j <= Len(p)) /\ (Len(p) + j) - Len(p) = j
      BY <2>2
    <3>2. (p \o q)[Len(p) + j] = q[j]
      BY <2>2, <2>3, <3>1
    <3> QED BY <2>5, <3>1, <3>2
  <2> QED BY <2>2, <2>4, <2>5 DEF Straight, Sails, Telling
<1> QED BY <1>1

\* What a move begins with, and a move to a planet out of reach.
LEMMA MovesSail ==
  ASSUME NEW v
  PROVE  /\ Straight(RaiseShields(v)) /\ Straight(MindShields(v)) /\ Straight(<< >>)
         /\ \A l : Straight(CloakFor(v, l))
         /\ \A s \in Nat : Straight(MoveTo(v, s)) /\ Sails(MoveTo(v, s))
         /\ \A d : ~ (d <= OrbitReach) => Straight(MoveToOrbit(v, d)) /\ Sails(MoveToOrbit(v, d))
<1>1. Straight(<< >>)
  BY Lists DEF Straight
<1>2. \A x : << Shield(x) >>[1].cmd # "ORBIT" /\ << Cmd("CLOAK_TOGGLE", 1) >>[1].cmd # "ORBIT"
  BY DEF Shield, Cmd
<1>3. \A c : DOMAIN << c >> = {1}
  OBVIOUS
<1>4. \A c : \A x \in 0 .. 2 : Straight(If(c, << Shield(x) >>))
  <2>1. \A x \in 0 .. 2 : Straight(<< Shield(x) >>)
    <3>1. \A x \in 0 .. 2 : << Shield(x) >> \in Telling
      BY CmdTold, Lists DEF Shield, Words
    <3> QED BY <1>2, <1>3, <3>1 DEF Straight
  <2> QED BY <1>1, <2>1 DEF If
<1>5. Straight(RaiseShields(v)) /\ Straight(LowerShields(v))
  BY <1>4 DEF RaiseShields, LowerShields
<1>6. Straight(MindShields(v))
  BY <1>5 DEF MindShields
<1>7. \A l : Straight(CloakFor(v, l))
  <2>1. Straight(<< Cmd("CLOAK_TOGGLE", 1) >>)
    <3>1. << Cmd("CLOAK_TOGGLE", 1) >> \in Telling
      BY CmdTold, Lists DEF Words
    <3> QED BY <1>2, <1>3, <3>1 DEF Straight
  <2> QED BY <1>1, <2>1 DEF CloakFor, If
<1>8. ASSUME NEW s \in Nat PROVE Straight(MoveTo(v, s)) /\ Sails(MoveTo(v, s))
  <2>1. PICK k : MoveTo(v, s) = << Steer, Speed(k) >>
    BY DEF MoveTo
  <2>2. MoveTo(v, s) \in Telling
    BY MovesTelling
  <2>3. Steer.cmd = "SET_DIRECTION" /\ Speed(k).cmd = "SET_SPEED"
    BY DEF Steer, Speed, Cmd
  <2> DEFINE a == Steer
             b == Speed(k)
  <2>4. a.cmd = "SET_DIRECTION" /\ b.cmd = "SET_SPEED" /\ MoveTo(v, s) = << a, b >>
    BY <2>1, <2>3
  <2> HIDE DEF a, b
  <2>5. DOMAIN << a, b >> = {1, 2} /\ << a, b >>[1] = a /\ << a, b >>[2] = b
    OBVIOUS
  <2> QED BY <2>2, <2>4, <2>5 DEF Straight, Sails
<1>9. ASSUME NEW d, ~ (d <= OrbitReach) PROVE Straight(MoveToOrbit(v, d)) /\ Sails(MoveToOrbit(v, d))
  <2>1. \E s \in Nat : MoveToOrbit(v, d) = MoveTo(v, s)
    <3>1. MoveToOrbit(v, d) = MoveTo(v, IF d > 4500 THEN 6 ELSE 3)
      BY <1>9 DEF MoveToOrbit, ToOrbit
    <3> QED BY <3>1
  <2> QED BY <1>8, <2>1
<1> QED BY <1>1, <1>5, <1>6, <1>7, <1>8, <1>9

\* The parts of a view that the work of the bot goes by; the rest of it is there.
Views(S, v) ==
  /\ {"dist", "pickupDist", "armies", "stock", "full", "foe", "rich", "kept", "orbiting",
      "bombing", "beaming", "owner", "garrison"} \subseteq DOMAIN v
  /\ v.orbiting <=> S.orbit # "none"
  /\ v.bombing <=> S.bombing
  /\ v.beaming = S.beaming
  /\ v.owner = "enemy" /\ v.garrison = 9

LEMMA ViewKeeps ==
  ASSUME NEW S, Shaped(S), Measured(S), NEW alert \in Alerts, NEW difficulty
  PROVE  Views(S, View(S, difficulty, alert))
<1> DEFINE p == PackShip(S, alert, MaxFuel)
           v == View(S, difficulty, alert)
<1>1. /\ UnpackShip(p).orbiting = HasBit(p.flags, 32)
      /\ UnpackShip(p).bombing = HasBit(p.flags, 64)
      /\ UnpackShip(p).beaming = (p.flags2 \div 2) % 4
  BY DEF UnpackShip, UnpackFlags, UnpackFlags2
<1>2. /\ v.orbiting = UnpackShip(p).orbiting /\ v.bombing = UnpackShip(p).bombing
      /\ v.beaming = UnpackShip(p).beaming /\ v.owner = "enemy" /\ v.garrison = 9
      /\ {"dist", "pickupDist", "armies", "stock", "full", "foe", "rich", "kept", "orbiting",
          "bombing", "beaming", "owner", "garrison"} \subseteq DOMAIN v
  BY DEF View
<1> QED BY <1>1, <1>2, WireKeeps DEF Views

\* A ship is at the planet it bombs, or at one it loads at, but not at both.
LEMMA Planets4Work ==
  ASSUME NEW S, Measured(S), S.orbit # "none"
  PROVE  /\ \A d \in ToPlanet(S, "enemy") : d \in {800, 4000, 20000} /\ (d <= OrbitReach => S.orbit = "enemy")
         /\ \A e \in ToPlanet(S, "own") : e \in {800, 4000, 20000} /\ (e <= OrbitReach => S.orbit = "own")
         /\ S.orbit = "own" => \A d \in ToPlanet(S, "enemy") : d > CloakDist
BY DEF Measured, ToPlanet, OrbitReach, CloakDist

LEMMA SpeedZero ==
  ASSUME NEW S, Works(S)
  PROVE  Minds(S, << Speed(0) >>) /\ Minds(S, << >>)
<1>1. DOMAIN << Speed(0) >> = {1} /\ << Speed(0) >>[1] = Speed(0)
  OBVIOUS
<1>2. \A i \in DOMAIN << Speed(0) >> : << Speed(0) >>[i] = Speed(0)
  BY <1>1
<1>3. \A i \in DOMAIN << >> : << >>[i] = Speed(0)
  OBVIOUS
<1> QED BY <1>2, <1>3 DEF Minds

LEMMA BombMinds ==
  ASSUME NEW S, Measured(S), Exclusive(S), S.bombing, NEW v, Views(S, v),
         NEW q \in Bombings(v, S)
  PROVE  Minds(S, q)
<1>1. Works(S) /\ S.orbit # "none"
  BY DEF Exclusive, Works
<1>2. PICK d \in ToPlanet(S, "enemy") : q = Bomb(AtDistance(v, d))
  BY DEF Bombings
<1> DEFINE u == AtDistance(v, d)
<1>3. /\ u.dist = d /\ u.owner = "enemy" /\ u.garrison = 9
      /\ u.orbiting = v.orbiting /\ u.bombing = v.bombing
  BY DEF Views, AtDistance
<1>4. u.orbiting /\ u.bombing
  BY <1>1, <1>3 DEF Views
<1> HIDE DEF u
<1>5. CASE d <= OrbitReach
  <2>1. Bomb(u) = << Speed(0) >>
    BY <1>3, <1>4, <1>5 DEF Bomb
  <2> QED BY <1>1, <1>2, <2>1, SpeedZero DEF u
<1>6. CASE ~ (d <= OrbitReach)
  <2>1. Bomb(u) = RaiseShields(u) \o CloakFor(u, VETERAN) \o MoveToOrbit(u, u.dist)
    BY <1>3, <1>6 DEF Bomb
  <2>2. Straight(RaiseShields(u) \o CloakFor(u, VETERAN))
    BY MovesSail, SailsAfter
  <2>3. Straight(MoveToOrbit(u, u.dist)) /\ Sails(MoveToOrbit(u, u.dist))
    BY <1>3, <1>6, MovesSail
  <2>4. Sails(Bomb(u))
    BY <2>1, <2>2, <2>3, SailsAfter
  <2> QED BY <1>2, <2>4 DEF Minds, u
<1> QED BY <1>5, <1>6

LEMMA CarrierSees ==
  ASSUME NEW S, NEW v, Views(S, v), NEW d, NEW e, NEW a, NEW b, NEW f, NEW r, NEW n,
         NEW u, u = Carrier(v, d, e, a, b, f, r, n)
  PROVE  /\ u.dist = d /\ u.pickupDist = e /\ u.armies = a /\ u.rich = r /\ u.kept = r
         /\ u.owner = "enemy" /\ u.beaming = S.beaming
         /\ u.orbiting <=> S.orbit # "none"
<1>1. PICK c : u = [v EXCEPT !.dist = d, !.pickupDist = e, !.armies = a, !.stock = b, !.full = c,
                            !.foe = f, !.rich = r, !.kept = r, !.manned = n]
  BY DEF Carrier
<1> QED BY <1>1 DEF Views

\* What executeTake commands a ship that beams, near a planet to load at or near the goal.
LEMMA TakeFromMinds ==
  ASSUME NEW S, Works(S), NEW u, u.owner = "enemy", u.orbiting, u.rich <=> u.kept,
         u.beaming = S.beaming, u.pickupDist <= OrbitReach => u.dist > CloakDist,
         NEW step, \/ step = "pickup" /\ S.beaming \in {1, 2}
                   \/ step = "approach" /\ S.beaming = 2
  PROVE  Minds(S, TakeFrom(u, step))
<1> DEFINE q == TakeFrom(u, step)
<1>1. Straight(RaiseShields(u)) /\ Straight(MindShields(u)) /\ Straight(CloakFor(u, COMPETENT))
  BY MovesSail
<1>2. \A s \in Nat : Straight(MoveTo(u, s)) /\ Sails(MoveTo(u, s))
  BY MovesSail
<1>3. CASE step = "pickup"
  <2> DEFINE P == Pickup(u, TRUE)
  <2>1. Take(u, step, TRUE) = P
    BY <1>3 DEF Take
  <2>2. q = P.cmds
    BY <2>1 DEF TakeFrom
  <2>3. ~ u.rich => \/ P = TakeResult(MindShields(u) \o MoveTo(u, 6), "pickup", FALSE)
                    \/ P = TakeResult(<< >>, "pickup", FALSE)
    BY DEF Pickup, If
  <2>4. u.rich /\ ~ (u.pickupDist <= OrbitReach) => P = TakeResult(MindShields(u) \o MoveToOrbit(u, u.pickupDist), "pickup", TRUE)
    BY DEF Pickup
  <2>5. u.rich /\ u.pickupDist <= OrbitReach =>
          \/ P = Transit(u, TRUE)
          \/ P = TakeResult(<< IF u.beaming # 1 THEN Cmd("BEAM_UP", 0) ELSE Speed(0) >>, "pickup", TRUE)
          \/ P = TakeResult(<< Speed(0) >>, "pickup", FALSE)
    BY DEF Pickup
  <2>6. u.dist > CloakDist =>
          Transit(u, TRUE) = TakeResult(RaiseShields(u) \o MoveTo(u, 8), "transit", TRUE)
    BY DEF Transit, MoveToAvoiding
  <2> HIDE DEF P
  <2>7. CASE ~ u.rich
    <3>1. Sails(MindShields(u) \o MoveTo(u, 6))
      BY <1>1, <1>2, SailsAfter
    <3>2. CASE P = TakeResult(MindShields(u) \o MoveTo(u, 6), "pickup", FALSE)
      <4>1. P.cmds = MindShields(u) \o MoveTo(u, 6)
        BY <3>2, ResultFields
      <4> QED BY <2>2, <3>1, <4>1 DEF Minds
    <3>3. CASE P = TakeResult(<< >>, "pickup", FALSE)
      <4>1. P.cmds = << >>
        BY <3>3, ResultFields
      <4> QED BY <2>2, <4>1, SpeedZero
    <3> QED BY <2>3, <2>7, <3>2, <3>3
  <2>8. CASE u.rich /\ ~ (u.pickupDist <= OrbitReach)
    <3>1. Sails(MindShields(u) \o MoveToOrbit(u, u.pickupDist))
      BY <1>1, <2>8, MovesSail, SailsAfter
    <3>2. P = TakeResult(MindShields(u) \o MoveToOrbit(u, u.pickupDist), "pickup", TRUE)
      BY <2>4, <2>8
    <3>3. P.cmds = MindShields(u) \o MoveToOrbit(u, u.pickupDist)
      BY <3>2, ResultFields
    <3> QED BY <2>2, <3>1, <3>3 DEF Minds
  <2>9. CASE u.rich /\ u.pickupDist <= OrbitReach
    <3>1. CASE P = Transit(u, TRUE)
      <4>1. Sails(RaiseShields(u) \o MoveTo(u, 8))
        BY <1>1, <1>2, SailsAfter
      <4>2. P = TakeResult(RaiseShields(u) \o MoveTo(u, 8), "transit", TRUE)
        BY <2>6, <2>9, <3>1
      <4>3. P.cmds = RaiseShields(u) \o MoveTo(u, 8)
        BY <4>2, ResultFields
      <4> QED BY <2>2, <4>1, <4>3 DEF Minds
    <3>2. CASE P = TakeResult(<< IF u.beaming # 1 THEN Cmd("BEAM_UP", 0) ELSE Speed(0) >>, "pickup", TRUE)
      <4>1. q = << IF S.beaming # 1 THEN Cmd("BEAM_UP", 0) ELSE Speed(0) >>
        BY <2>2, <3>2, ResultFields
      <4>2. CASE S.beaming # 1
        BY <4>1, <4>2 DEF Minds
      <4>3. CASE S.beaming = 1
        BY <4>1, <4>3, SpeedZero
      <4> QED BY <4>2, <4>3
    <3>3. CASE P = TakeResult(<< Speed(0) >>, "pickup", FALSE)
      <4>1. P.cmds = << Speed(0) >>
        BY <3>3, ResultFields
      <4> QED BY <2>2, <4>1, SpeedZero
    <3> QED BY <2>5, <2>9, <3>1, <3>2, <3>3
  <2> QED BY <2>7, <2>8, <2>9
<1>4. CASE step # "pickup"
  <2> DEFINE P == Approach(u, << >>, TRUE)
  <2>1. S.beaming = 2 /\ step = "approach"
    BY <1>4
  <2>2. Take(u, step, TRUE) = P
    BY <2>1 DEF Take
  <2>3. q = P.cmds
    BY <2>2 DEF TakeFrom
  <2>4. u.dist <= OrbitReach =>
          \/ P = TakeResult(<< >>, "approach", TRUE)
          \/ P = TakeResult(<< >> \o << Speed(0) >>, "approach", TRUE)
    BY <2>1 DEF Approach
  <2>5. ~ (u.dist <= OrbitReach) =>
          P = TakeResult(<< >> \o CloakFor(u, COMPETENT) \o MoveToOrbit(u, u.dist), "approach", TRUE)
    BY DEF Approach
  <2> HIDE DEF P
  <2>6. CASE u.dist <= OrbitReach
    <3>1. << >> \o << Speed(0) >> = << Speed(0) >>
      OBVIOUS
    <3>2. CASE P = TakeResult(<< >>, "approach", TRUE)
      <4>1. P.cmds = << >>
        BY <3>2, ResultFields
      <4> QED BY <2>3, <4>1, SpeedZero
    <3>3. CASE P = TakeResult(<< >> \o << Speed(0) >>, "approach", TRUE)
      <4>1. P.cmds = << >> \o << Speed(0) >>
        BY <3>3, ResultFields
      <4> QED BY <2>3, <3>1, <4>1, SpeedZero
    <3> QED BY <2>4, <2>6, <3>2, <3>3
  <2>7. CASE ~ (u.dist <= OrbitReach)
    <3>1. Straight(<< >> \o CloakFor(u, COMPETENT))
      BY MovesSail, SailsAfter
    <3>2. Sails(<< >> \o CloakFor(u, COMPETENT) \o MoveToOrbit(u, u.dist))
      BY <2>7, <3>1, MovesSail, SailsAfter
    <3>3. P = TakeResult(<< >> \o CloakFor(u, COMPETENT) \o MoveToOrbit(u, u.dist), "approach", TRUE)
      BY <2>5, <2>7
    <3>4. P.cmds = << >> \o CloakFor(u, COMPETENT) \o MoveToOrbit(u, u.dist)
      BY <3>3, ResultFields
    <3> QED BY <2>3, <3>2, <3>4 DEF Minds
  <2> QED BY <2>6, <2>7
<1> QED BY <1>3, <1>4

LEMMA TakeMinds ==
  ASSUME NEW S, Measured(S), Exclusive(S), S.beaming # 0, NEW v, Views(S, v),
         NEW q \in Takings(v, S)
  PROVE  Minds(S, q)
<1>1. Works(S) /\ S.orbit # "none"
  BY DEF Exclusive, Works
<1>2. PICK u \in Carriers(v, S), step \in PhasesOf(S) : q = TakeFrom(u, step)
  BY DEF Takings
<1>3. PICK d \in ToPlanet(S, "enemy"), e \in ToPlanet(S, "own"), a \in {0, 1}, b \in BOOLEAN,
           f \in {2000, 20000}, r \in BOOLEAN, n \in BOOLEAN : u = Carrier(v, d, e, a, b, f, r, n)
  BY <1>2 DEF Carriers
<1>4. /\ u.dist = d /\ u.pickupDist = e /\ u.rich = r /\ u.kept = r
      /\ u.owner = "enemy" /\ u.beaming = S.beaming /\ u.orbiting
  BY <1>1, <1>3, CarrierSees
<1>5. u.pickupDist <= OrbitReach => u.dist > CloakDist
  BY <1>1, <1>3, <1>4, Planets4Work
<1>6. \/ step = "pickup" /\ S.beaming \in {1, 2}
      \/ step = "approach" /\ S.beaming = 2
  BY <1>2 DEF PhasesOf, TakePhases, Measured
<1> QED BY <1>1, <1>2, <1>4, <1>5, <1>6, TakeFromMinds

LEMMA MindsWays ==
  ASSUME NEW S, NEW q
  PROVE  /\ Sails(q) => Minds(S, q)
         /\ S.orbit = "none" /\ (\A i \in DOMAIN q : q[i].cmd # "ORBIT") => Minds(S, q)
         /\ Works(S) /\ (\A i \in DOMAIN q : q[i] = Speed(0)) => Minds(S, q)
BY DEF Minds

\* Each command obeyed leaves a ship that has moved off, or one that is still at work.
LEMMA ObeyMinds ==
  ASSUME NEW S, Shaped(S), Measured(S), NEW w \in World,
         NEW q \in Telling, q # << >>, Minds(S, q)
  PROVE  Minds(Obey(S, Head(q), w), Tail(q))
<1> DEFINE c == Head(q)
           T == Obey(S, c, w)
           rest == Tail(q)
<1>1. /\ DOMAIN q = 1 .. Len(q) /\ Len(q) \in Nat \ {0} /\ c = q[1] /\ 1 \in DOMAIN q
      /\ DOMAIN rest = 1 .. Len(q) - 1
      /\ \A i \in DOMAIN rest : i + 1 \in DOMAIN q /\ rest[i] = q[i + 1]
  BY DEF Telling
<1>2. c.cmd # "ORBIT" /\ S.orbit = "none" => T.orbit = "none"
  <2> SUFFICES ASSUME c.cmd # "ORBIT", S.orbit = "none"
               PROVE  T.orbit = "none"
    OBVIOUS
  <2>1. BreakOrbit(S).orbit = "none" /\ SetSpeed(S, w, c.value).orbit = "none"
    BY DEF BreakOrbit, SetSpeed, Measured, Fields
  <2>2. /\ ToggleShield(S, c.value).orbit = "none" /\ ToggleRepair(S).orbit = "none"
        /\ TryBomb(S, w).orbit = "none"
        /\ TryBeam(S, w, 1).orbit = "none" /\ TryBeam(S, w, 2).orbit = "none"
    BY DEF ToggleShield, ToggleRepair, TryBomb, TryBeam, Measured, Fields
  <2>3. /\ ToggleCloak(S, c.value).orbit = "none"
        /\ ToggleTractor(S, w).orbit = "none" /\ TogglePressor(S, w).orbit = "none"
    BY DEF ToggleCloak, ToggleTractor, TogglePressor, Measured, Fields
  <2>4. T \in {S, BreakOrbit(S), SetSpeed(S, w, c.value), ToggleShield(S, c.value),
               ToggleRepair(S), TryBomb(S, w), TryBeam(S, w, 1), TryBeam(S, w, 2),
               ToggleCloak(S, c.value), ToggleTractor(S, w), TogglePressor(S, w)}
    BY DEF Obey
  <2> QED BY <2>1, <2>2, <2>3, <2>4
<1>3. c.cmd = "SET_DIRECTION" => T.orbit = "none"
  BY DEF Obey, BreakOrbit, Measured, Fields
<1> SUFFICES Minds(T, rest)
  OBVIOUS
<1> HIDE DEF c, T, rest
<1>4. ASSUME \A i \in DOMAIN q : q[i].cmd # "ORBIT", T.orbit = "none"
      PROVE  Minds(T, rest)
  <2>1. \A i \in DOMAIN rest : rest[i].cmd # "ORBIT"
    BY <1>1, <1>4
  <2> QED BY <1>4, <2>1, MindsWays
<1>5. CASE Sails(q)
  <2>1. CASE c.cmd = "SET_DIRECTION"
    BY <1>3, <1>4, <1>5, <2>1 DEF Sails
  <2>2. CASE c.cmd # "SET_DIRECTION"
    <3>1. PICK i \in DOMAIN q : q[i].cmd = "SET_DIRECTION"
      BY <1>5 DEF Sails
    <3>2. i - 1 \in DOMAIN rest /\ (i - 1) + 1 = i
      BY <1>1, <2>2, <3>1
    <3>3. rest[i - 1].cmd = "SET_DIRECTION"
      BY <1>1, <3>1, <3>2
    <3>4. \A j \in DOMAIN rest : rest[j].cmd # "ORBIT"
      BY <1>1, <1>5 DEF Sails
    <3>5. Sails(rest)
      BY <3>2, <3>3, <3>4 DEF Sails
    <3> QED BY <3>5, MindsWays
  <2> QED BY <2>1, <2>2
<1>6. CASE S.orbit = "none" /\ \A i \in DOMAIN q : q[i].cmd # "ORBIT"
  <2>1. c.cmd # "ORBIT"
    BY <1>1, <1>6
  <2> QED BY <1>2, <1>4, <1>6, <2>1
<1>7. CASE Works(S) /\ \A i \in DOMAIN q : q[i] = Speed(0)
  <2>1. c.cmd = "SET_SPEED" /\ c.value = 0
    BY <1>1, <1>7 DEF Speed, Cmd
  <2>2. Capped(0, w.warp) = 0 /\ ~ (0 > OrbitMaxWarp)
    BY Limits, HelmAssumption DEF Capped
  <2>3. T = [S EXCEPT !.desired = 0, !.repair = FALSE]
    <3>1. T = SetSpeed(S, w, 0)
      BY <2>1 DEF Obey, T
    <3> DEFINE U == [S EXCEPT !.desired = 0, !.repair = FALSE]
    <3>2. U.desired = 0
      BY DEF Measured, Fields
    <3>3. SetSpeed(S, w, 0) = IF U.desired > OrbitMaxWarp THEN BreakOrbit(U) ELSE U
      BY <2>2 DEF SetSpeed
    <3> HIDE DEF U
    <3>4. T = U
      BY <2>2, <3>1, <3>2, <3>3
    <3> QED BY <3>4 DEF U
  <2>4. Works(T)
    BY <1>7, <2>3 DEF Works
  <2>5. \A i \in DOMAIN rest : rest[i] = Speed(0)
    BY <1>1, <1>7
  <2> QED BY <2>4, <2>5, MindsWays
<1>8. CASE Works(S) /\ q = << Cmd("BEAM_UP", 0) >> /\ S.beaming # 1
  <2>1. c.cmd = "BEAM_UP" /\ rest = << >>
    BY <1>8 DEF Cmd, c, rest
  <2>2. T = S \/ T = [S EXCEPT !.shields = FALSE, !.bombing = FALSE, !.beaming = 1]
    BY <1>8, <2>1 DEF Obey, TryBeam, T
  <2>3. Works(T)
    <3>1. CASE T = S
      BY <1>8, <3>1
    <3>2. CASE T = [S EXCEPT !.shields = FALSE, !.bombing = FALSE, !.beaming = 1]
      <4>1. T.beaming = 1
        BY <3>2 DEF Measured, Fields
      <4> QED BY <4>1 DEF Works
    <3> QED BY <2>2, <3>1, <3>2
  <2> QED BY <2>1, <2>3, SpeedZero
<1> QED BY <1>5, <1>6, <1>7, <1>8 DEF Minds

\* A bot at work is never told what would end the work and leave it in orbit.
WorkInv ==
  /\ FlightTyped
  /\ stage = "think" => ~ working
  /\ working => pilot = "bot" /\ Minds(ship, told)

LEMMA WorkInductive ==
  ASSUME WorkInv, [FlightNext]_flightVars
  PROVE  WorkInv'
<1>1. FlightTyped'
  BY TypedInductive DEF WorkInv
<1>2. ASSUME PilotThinks, working'
      PROVE  pilot' = "bot" /\ Minds(ship', told')
  <2>1. pilot = "bot"
    BY <1>2 DEF PilotThinks, WorkInv
  <2>2. PICK t \in Missions \cup {"COMBAT"}, difficulty \in {NEWBIE, VETERAN}, alert \in Alerts :
          /\ told' \in Orders(t, View(ship, difficulty, alert), ship)
          /\ working' = ((t = "BOMB" /\ ship.bombing) \/ (t = "TAKE" /\ ship.beaming # 0))
    BY <1>2, <2>1 DEF PilotThinks
  <2> DEFINE v == View(ship, difficulty, alert)
  <2>3. Shaped(ship) /\ Exclusive(ship) /\ Measured(ship) /\ Views(ship, v)
    BY ViewKeeps DEF WorkInv, FlightTyped, IInv, Good
  <2> HIDE DEF v
  <2>4. CASE t = "BOMB" /\ ship.bombing
    <3>1. told' \in Bombings(v, ship)
      BY <2>2, <2>4 DEF Orders, v
    <3>2. Minds(ship, told')
      BY <2>3, <2>4, <3>1, BombMinds
    <3> QED BY <1>2, <2>1, <3>2 DEF PilotThinks
  <2>5. CASE t = "TAKE" /\ ship.beaming # 0
    <3>1. told' \in Takings(v, ship)
      BY <2>2, <2>5 DEF Orders, v
    <3>2. Minds(ship, told')
      BY <2>3, <2>5, <3>1, TakeMinds
    <3> QED BY <1>2, <2>1, <3>2 DEF PilotThinks
  <2> QED BY <1>2, <2>2, <2>4, <2>5
<1>3. CASE PilotThinks
  BY <1>1, <1>2, <1>3 DEF PilotThinks, WorkInv
<1>4. CASE Process
  <2>1. UNCHANGED <<pilot, stage, working>>
    BY <1>4 DEF Process
  <2>2. ASSUME working PROVE Minds(ship', told')
    <3>1. pilot = "bot" /\ Minds(ship, told) /\ told \in Telling /\ Shaped(ship) /\ Measured(ship)
      BY <2>2 DEF WorkInv, FlightTyped, IInv, Good
    <3>2. PICK w \in World : ship' = Obey(ship, Head(told), w) /\ told' = Tail(told) /\ told # << >>
      BY <1>4, <3>1 DEF Process
    <3> QED BY <3>1, <3>2, ObeyMinds
  <2> QED BY <1>1, <2>1, <2>2 DEF WorkInv
<1>5. CASE EndTick \/ Reset
  BY <1>1, <1>5 DEF EndTick, Reset, WorkInv
<1>6. CASE Die \/ Respawn
  BY <1>1, <1>6 DEF Die, Respawn, WorkInv
<1>7. CASE UNCHANGED flightVars
  BY <1>1, <1>7 DEF flightVars, WorkInv
<1> QED BY <1>3, <1>4, <1>5, <1>6, <1>7 DEF FlightNext

\* A bot that was at work when it thought, and has had all its commands obeyed, is at
\* work still, or out of orbit: it repeats its mission without undoing it.
THEOREM BotsKeepWorking == FlightSpec => []BotKeepsWorking
<1>1. WorkInv => BotKeepsWorking
  <2> SUFFICES ASSUME WorkInv, told = << >>, working, ship.orbit # "none"
               PROVE  Works(ship)
    BY DEF BotKeepsWorking
  <2>1. Minds(ship, << >>)
    BY DEF WorkInv
  <2>2. ~ Sails(<< >>)
    BY DEF Sails
  <2> QED BY <2>1, <2>2 DEF Minds
<1>2. WorkInv /\ [FlightNext]_flightVars => WorkInv'
  BY WorkInductive
<1>3. FlightInit => WorkInv
  BY FlightStartsTyped DEF FlightInit, WorkInv
<1> QED BY <1>1, <1>2, <1>3, PTL DEF FlightSpec

-----------------------------------------------------------------------------
(* The page of a human, with any keys, macros and bounds.                  *)

Chats == {"none", "team", "all", "personal"}
KeyResults == [entry : Entry, inputs : Nat, chat : Chats]

LEMMA Edits ==
  ASSUME NEW E \in Entry
  PROVE  /\ \A m \in {"IDLE", "DEST_PROMPT", "TYPING", "MACRO_WAIT"} :
              /\ In(E, m) \in Entry /\ In(E, m).typing = m
              /\ In(E, m).pending <=> E.pending
              /\ [In(E, m) EXCEPT !.pending = TRUE] \in Entry
              /\ [In(E, m) EXCEPT !.pending = TRUE].typing = m
         /\ Forgotten(E) \in Entry /\ ~ Forgotten(E).pending
         /\ \A d \in Chats :
              /\ SelectDestination(E, d) \in Entry
              /\ SelectDestination(E, d).pending <=> E.pending
         /\ AppendChar(E) \in Entry /\ AppendChar(E).typing = E.typing
         /\ AppendChar(E).pending <=> E.pending
         /\ \A T \in DeleteChar(E) : T \in Entry /\ T.typing = E.typing /\ (T.pending <=> E.pending)
BY DEF Chats, Entry, In, Idle, Forgotten, SelectDestination, AppendChar, DeleteChar

LEMMA MacrosKnown == \A k \in DOMAIN Macros : Macros[k] \in {"T", "A", "ask"}
<1>1. \A k \in DOMAIN DefaultMacros : DefaultMacros[k] \in {"T", "A"}
  BY DEF DefaultMacros
<1> QED BY <1>1, ChatAssumption DEF Macros

LEMMA KeyDownResults ==
  ASSUME NEW E \in Entry, NEW k, NEW on \in BOOLEAN, NEW scr,
         NEW d \in KeyDown(E, k, on, scr)
  PROVE  /\ d \in KeyResults
         /\ d.entry.pending =>
              \/ E.pending /\ (E.typing = "DEST_PROMPT" => d.entry.typing = "DEST_PROMPT")
              \/ d.entry.typing = "DEST_PROMPT"
<1> DEFINE Fine(F) ==
      /\ F \in Entry
      /\ F.pending => \/ E.pending /\ (E.typing = "DEST_PROMPT" => F.typing = "DEST_PROMPT")
                      \/ F.typing = "DEST_PROMPT"
<1>1. \A F, n, c : Fine(F) /\ n \in Nat /\ c \in Chats /\ d = Done(F, n, c) =>
        /\ d \in KeyResults /\ Fine(d.entry)
  BY DEF Done, KeyResults
<1>2. /\ E.typing \in {"IDLE", "DEST_PROMPT", "TYPING", "MACRO_WAIT"}
      /\ E.pending \in BOOLEAN /\ E.dest \in Chats
  BY DEF Entry, Chats
<1>3. Fine(E) /\ Fine(Forgotten(E))
  BY Edits
<1>4. ~ E.pending => \A c \in Chats : Fine(SelectDestination(E, c))
  BY <1>2, Edits
<1>5. ASSUME E.typing # "DEST_PROMPT"
      PROVE  /\ Fine(Idle(E)) /\ Fine(In(E, "DEST_PROMPT")) /\ Fine(In(E, "MACRO_WAIT"))
             /\ Fine([In(E, "DEST_PROMPT") EXCEPT !.pending = TRUE])
  BY <1>5, Edits DEF Idle
<1>6. Fine(AppendChar(E)) /\ \A T \in DeleteChar(E) : Fine(T)
  <2>1. ASSUME NEW T \in Entry, T.typing = E.typing, T.pending <=> E.pending
        PROVE  Fine(T)
    BY <2>1
  <2>2. Fine(AppendChar(E))
    BY <2>1, Edits
  <2>3. ASSUME NEW T \in DeleteChar(E) PROVE Fine(T)
    <3>1. T \in Entry /\ T.typing = E.typing /\ (T.pending <=> E.pending)
      BY <2>3, Edits
    <3> HIDE DEF Fine
    <3> QED BY <2>1, <3>1
  <2> QED BY <2>2, <2>3
<1>7. 0 \in Nat /\ {"none", "team", "all"} \subseteq Chats
  BY DEF Chats
<1> HIDE DEF Fine
<1>8. CASE E.typing = "DEST_PROMPT"
  <2>1. d \in DestKey(E, k, scr)
    BY <1>8 DEF KeyDown
  <2>2. DestOf(k, scr) \in Chats
    BY DEF DestOf, Chats
  <2>3. \/ d = Done(Forgotten(E), 0, "none") \/ d = Done(E, 0, "none")
        \/ d = Done(Forgotten(E), 0, DestOf(k, scr))
        \/ ~ E.pending /\ d = Done(SelectDestination(E, DestOf(k, scr)), 0, "none")
    BY <2>1, <1>2 DEF DestKey, Only
  <2> QED BY <2>2, <2>3, <1>1, <1>3, <1>4, <1>7 DEF Fine
<1>9. CASE E.typing = "MACRO_WAIT"
  <2>1. d \in MacroKey(E, k, scr)
    BY <1>9 DEF KeyDown
  <2>2. \/ \E c \in {"none", "team", "all"} : d = Done(Idle(E), 0, c)
        \/ d = Done([In(E, "DEST_PROMPT") EXCEPT !.pending = TRUE], 0, "none")
    BY <2>1, MacrosKnown DEF MacroKey, Only
  <2> QED BY <2>2, <1>1, <1>5, <1>7, <1>9 DEF Fine
<1>10. CASE E.typing = "TYPING"
  <2>1. d \in TypingKey(E, k)
    BY <1>10 DEF KeyDown
  <2>2. Finished(E) \in Chats
    BY <1>2, <1>7 DEF Finished
  <2>3. \/ d = Done(Forgotten(E), 0, "none") \/ d = Done(Forgotten(E), 0, Finished(E))
        \/ \E T \in DeleteChar(E) : d = Done(T, 0, "none")
        \/ d = Done(AppendChar(E), 0, "none")
    BY <2>1 DEF TypingKey, Only
  <2> QED BY <2>2, <2>3, <1>1, <1>3, <1>6, <1>7 DEF Fine
<1>11. CASE E.typing = "IDLE"
  <2>1. \/ d = Done(In(E, "DEST_PROMPT"), 0, "none") \/ d = Done(In(E, "MACRO_WAIT"), 0, "none")
        \/ d = Done(E, 0, "none") \/ \E n \in InputsOf(k, scr) : d = Done(E, n, "none")
    BY <1>11 DEF KeyDown, Only
  <2>2. \A n \in InputsOf(k, scr) : n \in Nat
    <3>1. \A n \in InputsOf(k, scr) : n \in {0, 1, 2}
      BY DEF InputsOf, NearestShipKey, LockKey, StarbaseKey, OwnShipKey, SlowerKey
    <3> QED BY <3>1
  <2> QED BY <2>1, <2>2, <1>1, <1>3, <1>5, <1>7, <1>11 DEF Fine
<1> QED BY <1>2, <1>8, <1>9, <1>10, <1>11

-----------------------------------------------------------------------------
(* The page and its slot.                                                  *)
(*                                                                         *)
(* A ship is started anew while it lives only on a hasty request because   *)
(* of two facts about what is on its way: as long as the ship lives, the   *)
(* page believes it or will, once it has heard all that is on its way      *)
(* down (Believes), and a request made without haste finds the ship dead   *)
(* until it is handled (DeadWhenAsked).                                    *)

Tags == {"new", "held", "old"}
UpMsgs == {"input", "held"} \cup Asked
DownMsgs == {"joined", "present", "absent", "reset"} \cup Replies
HeldMsgs == {"input", "held"}

ClientTypes ==
  /\ life \in {"none", "alive", "exploding", "dead"}
  /\ fresh \in BOOLEAN /\ paused \in BOOLEAN
  /\ queue \in Seq(Tags) /\ Len(queue) <= QueueMax
  /\ conn \in {"off", "connecting", "awaiting", "joined", "closed"}
  /\ up \in Seq(UpMsgs) /\ held \in Seq(HeldMsgs) /\ down \in Seq(DownMsgs)
  /\ phase \in {"waiting", "playing", "dead"}
  /\ joined \in BOOLEAN /\ grace \in BOOLEAN /\ left \in BOOLEAN
  /\ screen \in {"none", "present", "absent"}
  /\ entry \in Entry
  /\ conn = "joined" <=> life # "none"

\* What tells the page that the ship lives, and what tells it that it does not
Welcomes == {"ok", "joined"}
Obituaries == {"absent", "reset"}
Quiet(q, k) == \A j \in 1 .. Len(q) : j > k => q[j] \notin Obituaries
Believes(ph, q) ==
  \/ \E i \in 1 .. Len(q) : q[i] \in Welcomes /\ Quiet(q, i)
  \/ ph # "dead" /\ Quiet(q, 0)
Believing == life = "alive" => Believes(phase, down)

FirstAsked(q) ==
  \A i \in 1 .. Len(q) : q[i] = "respawn" => \A j \in 1 .. Len(q) : j < i => q[j] \notin Asked
NoneAsked(q) == \A i \in 1 .. Len(q) : q[i] # "respawn"
DeadWhenAsked ==
  /\ FirstAsked(up)
  /\ life \notin {"exploding", "dead"} => NoneAsked(up)

ClientInv == ClientTypes /\ LeftoversAreHarmless /\ Believing /\ DeadWhenAsked

LEMMA QueuesKept ==
  ASSUME NEW S, NEW q \in Seq(S)
  PROVE  /\ \A x \in S : Append(q, x) \in Seq(S)
         /\ q # << >> => Head(q) \in S /\ Tail(q) \in Seq(S) /\ Len(q) > 0 /\ Head(q) = q[1]
         /\ ToSet(q) \subseteq S
         /\ \A x : x \in ToSet(q) <=> \E i \in 1 .. Len(q) : q[i] = x
BY DEF ToSet

LEMMA ClientTypesShown == ClientTypes => ClientTypeOK
<1> SUFFICES ASSUME ClientTypes PROVE ClientTypeOK
  OBVIOUS
<1>1. ToSet(up) \subseteq UpMsgs /\ ToSet(held) \subseteq HeldMsgs /\ ToSet(down) \subseteq DownMsgs
  BY QueuesKept DEF ClientTypes
<1>2. ToSet(up) \cup ToSet(held) \subseteq {"input", "held"} \cup Asked
  BY <1>1 DEF UpMsgs, HeldMsgs
<1>3. queue \in Seq({"new", "held", "old"})
  BY DEF ClientTypes, Tags
<1> QED BY <1>1, <1>2, <1>3 DEF ClientTypes, ClientTypeOK, DownMsgs

LEMMA EmitKept ==
  ASSUME ClientTypes, NEW msgs \in Seq({"input"} \cup Asked), Emit(msgs),
         \/ msgs \in Seq({"input"})
         \/ conn \in {"awaiting", "joined"}
  PROVE  /\ up' \in Seq(UpMsgs) /\ held' \in Seq(HeldMsgs)
         /\ conn \in {"awaiting", "joined"} => up' = up \o msgs
         /\ conn \notin {"awaiting", "joined"} => up' = up
<1>1. CASE conn \in {"awaiting", "joined"}
  <2>1. up' = up \o msgs /\ held' = held
    BY <1>1 DEF Emit
  <2>2. msgs \in Seq(UpMsgs)
    BY DEF UpMsgs
  <2> QED BY <1>1, <2>1, <2>2 DEF ClientTypes
<1>2. CASE conn \notin {"awaiting", "joined"}
  <2> DEFINE put == [i \in DOMAIN msgs |-> IF msgs[i] = "input" THEN "held" ELSE msgs[i]]
  <2>1. held' = held \o put /\ up' = up
    BY <1>2 DEF Emit
  <2>2. put \in Seq(HeldMsgs)
    BY <1>2 DEF HeldMsgs
  <2> QED BY <1>2, <2>1, <2>2 DEF ClientTypes
<1> QED BY <1>1, <1>2

LEMMA PressKept ==
  ASSUME ClientTypes, NEW k, Press(k)
  PROVE  /\ ClientTypes'
         /\ \E msgs \in Seq({"input"}) : Emit(msgs)
         /\ entry'.pending => \/ entry.pending /\ (left' <=> left)
                                 /\ (entry.typing = "DEST_PROMPT" => entry'.typing = "DEST_PROMPT")
                              \/ entry'.typing = "DEST_PROMPT"
<1>1. PICK d \in KeyDown(entry, k, joined, screen) :
        /\ entry' = d.entry /\ left' = (left /\ d.entry.pending)
        /\ Emit([i \in 1 .. d.inputs |-> "input"])
  BY DEF Press
<1>2. /\ d \in KeyResults
      /\ d.entry.pending =>
           \/ entry.pending /\ (entry.typing = "DEST_PROMPT" => d.entry.typing = "DEST_PROMPT")
           \/ d.entry.typing = "DEST_PROMPT"
  BY KeyDownResults DEF ClientTypes
<1>3. d.entry \in Entry /\ d.inputs \in Nat
  BY <1>2 DEF KeyResults
<1>4. d.entry.pending \in BOOLEAN
  BY <1>3 DEF Entry
<1> DEFINE msgs == [i \in 1 .. d.inputs |-> "input"]
<1>5. msgs \in Seq({"input"})
  BY <1>3
<1> HIDE DEF msgs
<1>6. Emit(msgs)
  BY <1>1 DEF msgs
<1>7. msgs \in Seq({"input"} \cup Asked)
  BY <1>5
<1>8. up' \in Seq(UpMsgs) /\ held' \in Seq(HeldMsgs)
  BY <1>5, <1>6, <1>7, EmitKept
<1>9. left' \in BOOLEAN
  BY <1>1
<1>10. ClientTypes'
  BY <1>1, <1>3, <1>8, <1>9 DEF Press, ClientTypes, server
<1>11. d.entry.pending => (left' <=> left)
  BY <1>1 DEF ClientTypes
<1> QED BY <1>1, <1>2, <1>5, <1>6, <1>10, <1>11

LEMMA PageKept ==
  ASSUME ClientTypes, Mount \/ Leave \/ Click \/ AskRespawn \/ GraceEnds \/ Deliver
  PROVE  ClientTypes'
<1>1. CASE Mount
  BY <1>1 DEF Mount, ClientTypes, server, page
<1>2. CASE Leave
  <2>1. ResetChat(entry) \in Entry
    BY Edits DEF ClientTypes, ResetChat, Idle
  <2>2. entry.pending \in BOOLEAN
    BY DEF ClientTypes, Entry
  <2>3. << >> \in Seq(UpMsgs) /\ << >> \in Seq(HeldMsgs) /\ << >> \in Seq(DownMsgs)
    OBVIOUS
  <2>4. /\ up' \in Seq(UpMsgs) /\ held' \in Seq(HeldMsgs) /\ down' \in Seq(DownMsgs)
        /\ entry' \in Entry /\ left' \in BOOLEAN
    BY <1>2, <2>1, <2>2, <2>3 DEF Leave, Gone
  <2> QED BY <1>2, <2>4 DEF Leave, Gone, ClientTypes
<1>3. CASE Click
  <2>1. up' \in Seq(UpMsgs) /\ held' \in Seq(HeldMsgs)
    <3>1. << "input" >> \in Seq({"input"} \cup Asked) /\ << "input" >> \in Seq({"input"})
      OBVIOUS
    <3> QED BY <1>3, <3>1, EmitKept DEF Click
  <2> QED BY <1>3, <2>1 DEF Click, ClientTypes, server, page
<1>4. CASE AskRespawn
  <2>1. up' \in Seq(UpMsgs) /\ held' \in Seq(HeldMsgs)
    <3> DEFINE m == IF Hasty THEN "hasty" ELSE "respawn"
    <3>1. << m >> \in Seq({"input"} \cup Asked)
      BY DEF Asked
    <3> QED BY <1>4, <3>1, EmitKept DEF AskRespawn
  <2> QED BY <1>4, <2>1 DEF AskRespawn, ClientTypes, server, page
<1>5. CASE GraceEnds
  <2>1. grace' \in BOOLEAN /\ UNCHANGED <<server, wire, phase, joined, screen, entry, left>>
    BY <1>5 DEF GraceEnds
  <2> QED BY <2>1 DEF ClientTypes, server, wire
<1>6. CASE Deliver
  <2>1. Head(down) \in DownMsgs /\ down' \in Seq(DownMsgs)
    BY <1>6, QueuesKept DEF Deliver, ClientTypes
  <2>2. /\ screen' \in {"none", "present", "absent"} /\ joined' \in BOOLEAN
        /\ phase' \in {"waiting", "playing", "dead"}
    BY <1>6 DEF Deliver, ClientTypes, Shown, Answered
  <2>3. grace' \in BOOLEAN
    BY <1>6 DEF Deliver, ClientTypes, Answered
  <2> QED BY <1>6, <2>1, <2>2, <2>3 DEF Deliver, ClientTypes, server
<1> QED BY <1>1, <1>2, <1>3, <1>4, <1>5, <1>6

LEMMA SlotKept ==
  ASSUME ClientTypes, \/ Open \/ Lose \/ Close \/ Join \/ HandleInput \/ HandleRespawn
                      \/ Tick \/ PauseTick \/ EndPause
  PROVE  ClientTypes'
<1>1. Older(queue) \in Seq(Tags) /\ Len(Older(queue)) <= QueueMax
  BY DEF ClientTypes, Older, Tags
<1>2. ASSUME NEW m \in DownMsgs PROVE Append(down, m) \in Seq(DownMsgs)
  BY QueuesKept DEF ClientTypes
<1>3. "joined" \in DownMsgs /\ "ok" \in DownMsgs /\ "refused" \in DownMsgs /\ "reset" \in DownMsgs
      /\ "present" \in DownMsgs /\ "absent" \in DownMsgs
  BY DEF DownMsgs, Replies
<1>4. CASE Open
  <2>1. held \in Seq(UpMsgs) /\ << >> \in Seq(HeldMsgs)
    BY DEF ClientTypes, HeldMsgs, UpMsgs
  <2> QED BY <1>4, <2>1 DEF Open, ClientTypes, server, page
<1>5. CASE Lose \/ Close
  <2>1. << >> \in Seq(UpMsgs) /\ << >> \in Seq(DownMsgs)
    OBVIOUS
  <2>2. up' \in Seq(UpMsgs) /\ down' \in Seq(DownMsgs)
    BY <1>5, <2>1 DEF Lose, Close, Gone
  <2> QED BY <1>5, <2>2 DEF Lose, Close, Gone, ClientTypes, page
<1>6. CASE Join
  BY <1>6, <1>1, <1>2, <1>3 DEF Join, NewLife, Say, ClientTypes, page
<1>7. CASE HandleInput
  <2>1. up' \in Seq(UpMsgs)
    BY <1>7, QueuesKept DEF HandleInput, ClientTypes
  <2>2. ASSUME NEW t \in Tags
        PROVE  Enqueue(queue, t) \in Seq(Tags) /\ Len(Enqueue(queue, t)) <= QueueMax
    BY ClientAssumption DEF ClientTypes, Enqueue
  <2>3. queue' \in Seq(Tags) /\ Len(queue') <= QueueMax
    <3>1. (IF Head(up) = "held" THEN "held" ELSE "new") \in Tags
      BY DEF Tags
    <3> QED BY <1>7, <2>2, <3>1 DEF HandleInput, ClientTypes
  <2> QED BY <1>7, <2>1, <2>3 DEF HandleInput, ClientTypes, page
<1>8. CASE HandleRespawn
  <2>1. up' \in Seq(UpMsgs)
    BY <1>8, QueuesKept DEF HandleRespawn, ClientTypes
  <2>2. down' \in Seq(DownMsgs)
    BY <1>2, <1>3, <1>8 DEF HandleRespawn, Say
  <2>3. /\ life' \in {"none", "alive", "exploding", "dead"} /\ fresh' \in BOOLEAN
        /\ conn' = conn /\ (conn = "joined" <=> life' # "none")
    BY <1>8 DEF HandleRespawn, NewLife, ClientTypes
  <2>4. queue' \in Seq(Tags) /\ Len(queue') <= QueueMax
    BY <1>1, <1>8 DEF HandleRespawn, NewLife, ClientTypes
  <2>5. UNCHANGED <<paused, held, page>>
    BY <1>8 DEF HandleRespawn
  <2> QED BY <2>1, <2>2, <2>3, <2>4, <2>5 DEF ClientTypes, page
<1>9. ASSUME NEW ship0, Broadcast(ship0, down) PROVE down' \in Seq(DownMsgs)
  <2>1. << "present" >> \in Seq(DownMsgs) /\ << "absent" >> \in Seq(DownMsgs)
    BY <1>3
  <2> QED BY <1>9, <2>1 DEF Broadcast, ClientTypes
<1>10. CASE Tick
  <2>1. down' \in Seq(DownMsgs)
    BY <1>9, <1>10 DEF Tick
  <2>2. queue' \in Seq(Tags) /\ Len(queue') <= QueueMax
    BY <1>10, ClientAssumption DEF Tick, Drained, ClientTypes
  <2>3. life' \in {"none", "alive", "exploding", "dead"} /\ (life' = "none" <=> life = "none")
    BY <1>10 DEF Tick, ClientTypes
  <2> QED BY <1>10, <2>1, <2>2, <2>3 DEF Tick, ClientTypes, page
<1>11. CASE PauseTick
  <2>1. down' \in Seq(DownMsgs)
    BY <1>9, <1>11 DEF PauseTick
  <2> QED BY <1>11, <2>1 DEF PauseTick, ClientTypes, server, page
<1>12. CASE EndPause
  <2>1. down' \in Seq(DownMsgs)
    BY <1>2, <1>3, <1>12 DEF EndPause, Say, ClientTypes
  <2> QED BY <1>12, <2>1 DEF EndPause, ClientTypes, page
<1> QED BY <1>4, <1>5, <1>6, <1>7, <1>8, <1>10, <1>11, <1>12

LEMMA LeftoversKept ==
  ASSUME ClientTypes, LeftoversAreHarmless, [ClientNext]_clientVars
  PROVE  LeftoversAreHarmless'
<1>1. StaleInputsGoAtOnce'
  <2> SUFFICES ASSUME "old" \in ToSet(queue'), life' = "alive" PROVE fresh'
    BY DEF StaleInputsGoAtOnce
  <2>1. CASE UNCHANGED server
    BY <2>1 DEF server, LeftoversAreHarmless, StaleInputsGoAtOnce
  <2>2. CASE Leave \/ Lose \/ Close
    BY <2>2 DEF Leave, Lose, Close, Gone
  <2>3. CASE Join \/ HandleRespawn
    BY <2>3 DEF Join, HandleRespawn, NewLife, LeftoversAreHarmless, StaleInputsGoAtOnce
  <2>4. CASE HandleInput
    <3>1. life' = life /\ fresh' = fresh
      BY <2>4 DEF HandleInput
    <3>2. ASSUME NEW t \in {"new", "held"}, queue' = Enqueue(queue, t)
          PROVE  "old" \in ToSet(queue)
      <4>1. queue' \in Seq(Tags) /\ queue \in Seq(Tags)
        BY <3>2 DEF Enqueue, ClientTypes, Tags
      <4>2. PICK i \in 1 .. Len(queue') : queue'[i] = "old"
        BY <4>1, QueuesKept
      <4>3. queue' = queue \/ queue' = Append(queue, t)
        BY <3>2 DEF Enqueue
      <4>4. i \in 1 .. Len(queue) /\ queue[i] = "old"
        BY <4>1, <4>2, <4>3
      <4> QED BY <4>1, <4>4, QueuesKept
    <3>3. \/ queue' = queue \/ queue' = Enqueue(queue, "held") \/ queue' = Enqueue(queue, "new")
      BY <2>4 DEF HandleInput
    <3>4. "old" \in ToSet(queue)
      BY <3>2, <3>3
    <3> QED BY <3>1, <3>4 DEF LeftoversAreHarmless, StaleInputsGoAtOnce
  <2>5. CASE Tick
    <3>1. life = "alive"
      BY <2>5 DEF Tick, ClientTypes
    <3>2. queue' = << >>
      BY <2>5, <3>1 DEF Tick, Drained
    <3> QED BY <3>2 DEF ToSet
  <2>6. CASE EndPause
    BY <2>6 DEF EndPause, ClientTypes
  <2>7. \/ UNCHANGED server \/ Leave \/ Lose \/ Close \/ Join \/ HandleRespawn \/ HandleInput
        \/ Tick \/ EndPause
    BY DEF ClientNext, clientVars, Mount, Click, AskRespawn, GraceEnds, Deliver, Press, Open, PauseTick
  <2> QED BY <2>1, <2>2, <2>3, <2>4, <2>5, <2>6, <2>7
<1>2. PendingIsPrompted'
  <2>1. CASE \E k \in Keys : Press(k)
    BY <2>1, PressKept DEF LeftoversAreHarmless, PendingIsPrompted, ClientTypes
  <2>2. CASE Leave
    BY <2>2 DEF Leave, ResetChat, Idle, In, PendingIsPrompted, ClientTypes, Entry
  <2>3. CASE UNCHANGED <<entry, left>>
    BY <2>3 DEF LeftoversAreHarmless, PendingIsPrompted
  <2>4. (\E k \in Keys : Press(k)) \/ Leave \/ UNCHANGED <<entry, left>>
    BY DEF ClientNext, clientVars, page, Mount, Click, AskRespawn, GraceEnds, Deliver, Open, Lose,
           Close, Join, HandleInput, HandleRespawn, Tick, PauseTick, EndPause
  <2> QED BY <2>1, <2>2, <2>3, <2>4
<1> QED BY <1>1, <1>2 DEF LeftoversAreHarmless

LEMMA BelievesAtRest == \A ph, q : ph # "dead" /\ Quiet(q, 0) => Believes(ph, q)
BY DEF Believes

\* A message that tells of no death changes no belief, and a welcome makes one.
LEMMA BelievesMore ==
  ASSUME NEW ph, NEW q \in Seq(DownMsgs), NEW m \in DownMsgs \ Obituaries,
         Believes(ph, q) \/ m \in Welcomes
  PROVE  Believes(ph, Append(q, m))
<1> DEFINE r == Append(q, m)
<1>1. /\ r \in Seq(DownMsgs) /\ Len(r) = Len(q) + 1 /\ r[Len(r)] = m /\ Len(q) \in Nat
      /\ \A j \in 1 .. Len(q) : r[j] = q[j]
  OBVIOUS
<1> HIDE DEF r
<1>2. \A k \in Nat : Quiet(q, k) => Quiet(r, k)
  BY <1>1 DEF Quiet
<1>3. CASE m \in Welcomes
  BY <1>1, <1>3 DEF Believes, Quiet
<1>4. ASSUME NEW i \in 1 .. Len(q), q[i] \in Welcomes, Quiet(q, i)
      PROVE  Believes(ph, r)
  BY <1>1, <1>2, <1>4 DEF Believes
<1>5. ASSUME ph # "dead", Quiet(q, 0)
      PROVE  Believes(ph, r)
  <2>1. Quiet(r, 0)
    BY <1>2, <1>5
  <2> QED BY <1>5, <2>1, BelievesAtRest
<1> QED BY <1>3, <1>4, <1>5 DEF Believes, r

\* What has been heard is believed.
LEMMA BelievesHeard ==
  ASSUME NEW ph, NEW after, NEW q \in Seq(DownMsgs), q # << >>, Believes(ph, q),
         Head(q) \in Welcomes => after # "dead",
         Head(q) \notin Obituaries => (ph # "dead" => after # "dead")
  PROVE  Believes(after, Tail(q))
<1> DEFINE r == Tail(q)
<1>1. /\ Len(r) = Len(q) - 1 /\ Len(q) \in Nat /\ Len(q) > 0 /\ Head(q) = q[1]
      /\ \A j \in 1 .. Len(r) : r[j] = q[j + 1]
  OBVIOUS
<1> HIDE DEF r
<1>2. \A k \in 1 .. Len(q) : Quiet(q, k) => Quiet(r, k - 1)
  BY <1>1 DEF Quiet
<1>3. Quiet(q, 0) => Quiet(r, 0) /\ Head(q) \notin Obituaries
  BY <1>1 DEF Quiet
<1>4. ASSUME NEW i \in 1 .. Len(q), q[i] \in Welcomes, Quiet(q, i)
      PROVE  Believes(after, r)
  <2>1. CASE i = 1
    <3>1. after # "dead" /\ Quiet(r, 0)
      BY <1>1, <1>2, <1>4, <2>1
    <3> QED BY <3>1 DEF Believes
  <2>2. CASE i # 1
    <3>1. i - 1 \in 1 .. Len(r) /\ r[i - 1] = q[i] /\ Quiet(r, i - 1)
      BY <1>1, <1>2, <1>4, <2>2
    <3> QED BY <3>1, <1>4 DEF Believes
  <2> QED BY <2>1, <2>2
<1>5. ASSUME ph # "dead", Quiet(q, 0)
      PROVE  Believes(after, r)
  <2>1. after # "dead" /\ Quiet(r, 0)
    BY <1>3, <1>5
  <2> QED BY <2>1, BelievesAtRest
<1> QED BY <1>4, <1>5 DEF Believes, r

LEMMA BelievingKept ==
  ASSUME ClientTypes, Believing, [ClientNext]_clientVars
  PROVE  Believing'
<1> SUFFICES ASSUME life' = "alive" PROVE Believes(phase', down')
  BY DEF Believing
<1>1. CASE UNCHANGED <<life, phase, down>>
  BY <1>1 DEF Believing
<1>2. CASE Leave \/ Lose \/ Close
  BY <1>2 DEF Leave, Lose, Close, Gone
<1>3. CASE Join
  <2>1. down' = Append(down, "joined") /\ phase' = phase
    BY <1>3 DEF Join, Say, page
  <2>2. "joined" \in DownMsgs \ Obituaries /\ "joined" \in Welcomes
    BY DEF DownMsgs, Obituaries, Welcomes
  <2> QED BY <2>1, <2>2, BelievesMore DEF ClientTypes
<1>4. CASE HandleRespawn
  <2>1. "ok" \in DownMsgs \ Obituaries /\ "ok" \in Welcomes /\ "refused" \in DownMsgs \ Obituaries
    BY DEF DownMsgs, Replies, Obituaries, Welcomes
  <2>2. \/ down' = Append(down, "ok") /\ phase' = phase
        \/ down' = Append(down, "refused") /\ phase' = phase /\ life = "alive"
    BY <1>4 DEF HandleRespawn, Say, page
  <2>3. life = "alive" => Believes(phase, down)
    BY DEF Believing
  <2>4. down \in Seq(DownMsgs)
    BY DEF ClientTypes
  <2>5. CASE down' = Append(down, "ok") /\ phase' = phase
    BY <2>1, <2>4, <2>5, BelievesMore
  <2>6. CASE down' = Append(down, "refused") /\ phase' = phase /\ life = "alive"
    BY <2>1, <2>3, <2>4, <2>6, BelievesMore
  <2> QED BY <2>2, <2>5, <2>6
<1>5. CASE Tick \/ PauseTick
  <2>1. life = "alive" /\ phase' = phase /\ Broadcast("alive", down)
    BY <1>5 DEF Tick, PauseTick, page, server, ClientTypes
  <2>2. \/ down' = down
        \/ down = << >> /\ down' = << "present" >>
    <3>1. IsSent("alive")
      BY DEF IsSent
    <3> QED BY <2>1, <3>1 DEF Broadcast
  <2>3. "present" \in DownMsgs \ Obituaries /\ << "present" >> = Append(<< >>, "present")
    BY DEF DownMsgs, Obituaries
  <2>4. Believes(phase, down)
    BY <2>1 DEF Believing
  <2>5. CASE down = << >> /\ down' = << "present" >>
    <3>1. << >> \in Seq(DownMsgs) /\ Believes(phase, << >>)
      BY <2>4, <2>5
    <3>2. Believes(phase, Append(<< >>, "present"))
      BY <2>3, <3>1, BelievesMore
    <3> QED BY <2>1, <2>3, <2>5, <3>2
  <2> QED BY <2>1, <2>2, <2>4, <2>5
<1>6. CASE EndPause
  BY <1>6 DEF EndPause, ClientTypes
<1>7. CASE Deliver
  <2>1. down # << >> /\ down' = Tail(down) /\ life = "alive"
    BY <1>7 DEF Deliver, server
  <2>2. Head(down) \in DownMsgs
    BY <2>1, QueuesKept DEF ClientTypes
  <2>3. Head(down) \in Welcomes => phase' # "dead"
    BY <1>7 DEF Deliver, Welcomes, Answered, Replies
  <2>4. Head(down) \notin Obituaries => (phase # "dead" => phase' # "dead")
    BY <1>7, <2>2 DEF Deliver, Obituaries, Shown, Answered, Replies
  <2> QED BY <2>1, <2>3, <2>4, BelievesHeard DEF ClientTypes, Believing
<1>8. \/ UNCHANGED <<life, phase, down>> \/ Leave \/ Lose \/ Close \/ Join \/ HandleRespawn
      \/ Tick \/ PauseTick \/ EndPause \/ Deliver
  BY DEF ClientNext, clientVars, server, wire, page, Mount, Click, AskRespawn, GraceEnds, Press, Open,
         HandleInput
<1> QED BY <1>1, <1>2, <1>3, <1>4, <1>5, <1>6, <1>7, <1>8

\* Whoever asks without haste has heard of the death of the ship, and the ship is dead.
LEMMA DeadWhenAskedKept ==
  ASSUME ClientInv, [ClientNext]_clientVars
  PROVE  DeadWhenAsked'
<1> USE DEF ClientInv
<1>1. ASSUME NEW msgs \in Seq(UpMsgs), NoneAsked(msgs), up' = up \o msgs
      PROVE  FirstAsked(up') /\ (NoneAsked(up) => NoneAsked(up'))
  <2>1. /\ up' \in Seq(UpMsgs) /\ Len(up') = Len(up) + Len(msgs)
        /\ \A i \in 1 .. Len(up) : up'[i] = up[i]
        /\ \A i \in 1 .. Len(msgs) : up'[Len(up) + i] = msgs[i]
        /\ Len(up) \in Nat /\ Len(msgs) \in Nat
    BY <1>1 DEF ClientTypes
  <2>2. \A i \in 1 .. Len(up') : up'[i] = "respawn" => i \in 1 .. Len(up) /\ up[i] = "respawn"
    <3> SUFFICES ASSUME NEW i \in 1 .. Len(up'), up'[i] = "respawn", i \notin 1 .. Len(up) PROVE FALSE
      BY <2>1
    <3>1. i - Len(up) \in 1 .. Len(msgs) /\ i = Len(up) + (i - Len(up))
      BY <2>1
    <3> QED BY <3>1, <2>1, <1>1 DEF NoneAsked
  <2>3. NoneAsked(up) => NoneAsked(up')
    BY <2>2 DEF NoneAsked
  <2>4. FirstAsked(up')
    <3> SUFFICES ASSUME NEW i \in 1 .. Len(up'), up'[i] = "respawn",
                        NEW j \in 1 .. Len(up'), j < i
                 PROVE  up'[j] \notin Asked
      BY DEF FirstAsked
    <3>1. i \in 1 .. Len(up) /\ up[i] = "respawn" /\ j \in 1 .. Len(up)
      BY <2>1, <2>2
    <3>2. up[j] \notin Asked
      BY <3>1 DEF DeadWhenAsked, FirstAsked
    <3> QED BY <2>1, <3>1, <3>2
  <2> QED BY <2>3, <2>4
<1>2. CASE UNCHANGED <<up, life>>
  BY <1>2 DEF DeadWhenAsked
<1>3. CASE Leave \/ Lose \/ Close
  <2>1. up' = << >> /\ Len(<< >>) = 0
    BY <1>3 DEF Leave, Lose, Close, Gone
  <2> QED BY <2>1 DEF DeadWhenAsked, FirstAsked, NoneAsked
<1>4. CASE Open
  <2>1. NoneAsked(held)
    BY DEF ClientTypes, HeldMsgs, NoneAsked
  <2>2. up' = held
    BY <1>4 DEF Open
  <2> QED BY <2>1, <2>2 DEF DeadWhenAsked, FirstAsked, NoneAsked
<1>5. CASE Click \/ \E k \in Keys : Press(k)
  <2>1. PICK msgs \in Seq({"input"}) : Emit(msgs)
    <3>1. << "input" >> \in Seq({"input"})
      OBVIOUS
    <3> QED BY <1>5, <3>1, PressKept DEF Click
  <2>2. msgs \in Seq({"input"} \cup Asked) /\ msgs \in Seq(UpMsgs) /\ NoneAsked(msgs)
    BY DEF UpMsgs, NoneAsked
  <2>3. up' = up \/ up' = up \o msgs
    BY <2>1, <2>2, EmitKept
  <2>4. life' = life
    BY <1>5 DEF Click, Press, server
  <2> QED BY <1>1, <2>2, <2>3, <2>4 DEF DeadWhenAsked
<1>6. CASE AskRespawn
  <2>1. life' = life /\ conn \in {"awaiting", "joined"} /\ phase = "dead"
    BY <1>6 DEF AskRespawn, server
  <2>2. CASE Hasty
    <3>1. << "hasty" >> \in Seq({"input"} \cup Asked) /\ << "hasty" >> \in Seq(UpMsgs)
          /\ NoneAsked(<< "hasty" >>) /\ Emit(<< "hasty" >>)
      BY <1>6, <2>2 DEF AskRespawn, Asked, UpMsgs, NoneAsked
    <3>2. up' = up \o << "hasty" >>
      BY <2>1, <3>1, EmitKept
    <3> QED BY <1>1, <2>1, <3>1, <3>2 DEF DeadWhenAsked
  <2>3. CASE ~ Hasty
    <3>1. up' = up \o << "respawn" >>
      <4>1. << "respawn" >> \in Seq({"input"} \cup Asked) /\ Emit(<< "respawn" >>)
        BY <1>6, <2>3 DEF AskRespawn, Asked
      <4> QED BY <2>1, <4>1, EmitKept
    <3>2. conn = "joined" /\ \A i \in 1 .. Len(up) : up[i] \notin Asked
      BY <2>3, QueuesKept DEF Hasty, ClientTypes
    <3>3. \A i \in 1 .. Len(down) : down[i] \notin Welcomes
      BY <2>3, QueuesKept DEF Hasty, ClientTypes, Replies, Welcomes
    <3>4. life \in {"exploding", "dead"}
      BY <2>1, <3>2, <3>3 DEF Believing, Believes, ClientTypes
    <3>5. /\ Len(up') = Len(up) + 1 /\ Len(up) \in Nat
          /\ \A i \in 1 .. Len(up) : up'[i] = up[i]
      BY <3>1 DEF ClientTypes
    <3>6. FirstAsked(up')
      BY <3>2, <3>5 DEF FirstAsked
    <3> QED BY <2>1, <3>4, <3>6 DEF DeadWhenAsked
  <2> QED BY <2>2, <2>3
<1>7. ASSUME up # << >>, up' = Tail(up)
      PROVE  /\ FirstAsked(up') /\ (NoneAsked(up) => NoneAsked(up'))
             /\ Head(up) \in Asked => NoneAsked(up')
  <2>1. /\ Len(up') = Len(up) - 1 /\ Len(up) \in Nat /\ Len(up) > 0 /\ Head(up) = up[1]
        /\ \A i \in 1 .. Len(up') : up'[i] = up[i + 1]
    BY <1>7 DEF ClientTypes
  <2>2. FirstAsked(up)
    BY DEF DeadWhenAsked
  <2>3. FirstAsked(up')
    BY <2>1, <2>2 DEF FirstAsked
  <2>4. NoneAsked(up) => NoneAsked(up')
    BY <2>1 DEF NoneAsked
  <2>5. Head(up) \in Asked => NoneAsked(up')
    BY <2>1, <2>2 DEF FirstAsked, NoneAsked
  <2> QED BY <2>3, <2>4, <2>5
<1>8. CASE HandleInput
  BY <1>7, <1>8 DEF HandleInput, DeadWhenAsked
<1>9. CASE HandleRespawn
  BY <1>7, <1>9 DEF HandleRespawn, DeadWhenAsked
<1>10. CASE Join
  <2>1. up' = up /\ NoneAsked(up)
    BY <1>10 DEF Join, DeadWhenAsked, ClientTypes
  <2> QED BY <2>1 DEF DeadWhenAsked, NoneAsked, FirstAsked
<1>11. CASE Tick \/ EndPause
  <2>1. up' = up /\ (life \in {"exploding", "dead"} => life' \in {"exploding", "dead"})
    BY <1>11 DEF Tick, EndPause
  <2> QED BY <2>1 DEF DeadWhenAsked
<1>12. \/ UNCHANGED <<up, life>> \/ Leave \/ Lose \/ Close \/ Open \/ Click
       \/ (\E k \in Keys : Press(k)) \/ AskRespawn \/ HandleInput \/ HandleRespawn \/ Join \/ Tick \/ EndPause
  BY DEF ClientNext, clientVars, server, wire, page, Mount, GraceEnds, Deliver, PauseTick
<1> QED BY <1>2, <1>3, <1>4, <1>5, <1>6, <1>8, <1>9, <1>10, <1>11, <1>12

LEMMA ClientStarts == ClientInit => ClientInv
<1> SUFFICES ASSUME ClientInit PROVE ClientInv
  OBVIOUS
<1>1. /\ << >> \in Seq(Tags) /\ << >> \in Seq(UpMsgs) /\ << >> \in Seq(HeldMsgs)
      /\ << >> \in Seq(DownMsgs) /\ Len(<< >>) = 0 /\ 0 <= QueueMax
  BY ClientAssumption
<1>2. NewEntry \in Entry /\ ~ NewEntry.pending
  BY DEF NewEntry, Entry
<1>3. ClientTypes
  BY <1>1, <1>2 DEF ClientInit, ClientTypes
<1>4. LeftoversAreHarmless
  BY <1>2 DEF ClientInit, LeftoversAreHarmless, StaleInputsGoAtOnce, PendingIsPrompted
<1>5. Believing
  BY DEF ClientInit, Believing
<1>6. DeadWhenAsked
  BY <1>1 DEF ClientInit, DeadWhenAsked, FirstAsked, NoneAsked
<1> QED BY <1>3, <1>4, <1>5, <1>6 DEF ClientInv

LEMMA ClientInductive == ClientInv /\ [ClientNext]_clientVars => ClientInv'
<1> SUFFICES ASSUME ClientInv, [ClientNext]_clientVars PROVE ClientInv'
  OBVIOUS
<1>1. ClientTypes'
  <2>1. CASE UNCHANGED clientVars
    BY <2>1 DEF clientVars, server, wire, page, ClientInv, ClientTypes
  <2>2. CASE \E k \in Keys : Press(k)
    BY <2>2, PressKept DEF ClientInv
  <2>3. CASE Mount \/ Leave \/ Click \/ AskRespawn \/ GraceEnds \/ Deliver
    BY <2>3, PageKept DEF ClientInv
  <2>4. CASE \/ Open \/ Lose \/ Close \/ Join \/ HandleInput \/ HandleRespawn
             \/ Tick \/ PauseTick \/ EndPause
    BY <2>4, SlotKept DEF ClientInv
  <2> QED BY <2>1, <2>2, <2>3, <2>4 DEF ClientNext
<1> QED BY <1>1, LeftoversKept, BelievingKept, DeadWhenAskedKept DEF ClientInv

\* With any keys, macros and bounds of the queues: what is on its way between the page
\* and the server, and what both remember, has the type of the code's, and the slot is
\* occupied exactly while the connection has joined.
THEOREM ClientTypeCorrect == ClientSpec => []ClientTypeOK
<1>1. ClientInv => ClientTypeOK
  BY ClientTypesShown DEF ClientInv
<1> QED BY <1>1, ClientStarts, ClientInductive, PTL DEF ClientSpec

\* An input of a former life is obeyed in the first tick of the next one or never, and
\* the text of a macro waits only while its destination is asked for or after the page
\* has been left.
THEOREM LeftoversHarmless == ClientSpec => []LeftoversAreHarmless
<1>1. ClientInv => LeftoversAreHarmless
  BY DEF ClientInv
<1> QED BY <1>1, ClientStarts, ClientInductive, PTL DEF ClientSpec

\* The server, which does not ask whether the ship is dead, starts a living ship anew only
\* for a request that did not wait for an answer on its way.
THEOREM NoRestartWithoutHaste == ClientSpec => RestartOnlyInHaste
<1>1. ASSUME ClientInv, life = "alive", HandleRespawn PROVE Head(up) = "hasty"
  <2>1. up # << >> /\ Head(up) \in Asked
    BY <1>1 DEF HandleRespawn
  <2>2. Head(up) = up[1] /\ 1 \in 1 .. Len(up)
    BY <1>1, <2>1 DEF ClientInv, ClientTypes
  <2>3. NoneAsked(up)
    BY <1>1 DEF ClientInv, DeadWhenAsked
  <2> QED BY <2>1, <2>2, <2>3 DEF NoneAsked, Asked
<1>2. ClientInv /\ [ClientNext]_clientVars =>
        [life = "alive" /\ HandleRespawn /\ Last(down') = "ok" => Head(up) = "hasty"]_clientVars
  BY <1>1
<1> QED BY <1>2, ClientStarts, ClientInductive, PTL DEF ClientSpec, RestartOnlyInHaste

-----------------------------------------------------------------------------
(* The brain of a bot, for any planets, difficulty and intervals.          *)
(*                                                                         *)
(* A bot keeps acting because what it has chosen in the present world has  *)
(* something to command (Acts), but for a BOMB on a stale report; that     *)
(* type is then the failed one, and what takes its place does act.         *)

\* A list that has something at the end, or before it, is not empty.
LEMMA NotEmpty ==
  \A p, q \in Telling : p # << >> \/ q # << >> => p \o q # << >>
<1> SUFFICES ASSUME NEW p \in Telling, NEW q \in Telling, p # << >> \/ q # << >>
             PROVE  p \o q # << >>
  OBVIOUS
<1>1. Len(p) \in Nat /\ Len(q) \in Nat /\ Len(p \o q) = Len(p) + Len(q)
  BY DEF Telling
<1>2. Len(p) # 0 \/ Len(q) # 0
  BY DEF Telling
<1> QED BY <1>1, <1>2

LEMMA MovesNotEmpty ==
  ASSUME NEW v
  PROVE  /\ \A s : MoveTo(v, s) # << >> /\ MoveToAvoiding(v, s) # << >> /\ Dash(s) # << >>
         /\ \A d : MoveToOrbit(v, d) # << >>
<1>1. \A a, b : << a, b >> # << >>
  OBVIOUS
<1>2. \A s : MoveTo(v, s) # << >> /\ MoveToAvoiding(v, s) # << >> /\ Dash(s) # << >>
  BY <1>1 DEF MoveTo, MoveToAvoiding, Dash
<1> QED BY <1>1, <1>2 DEF MoveToOrbit, ToOrbit

\* What has its object has a command.
LEMMA MissionsAct ==
  ASSUME NEW v
  PROVE  /\ Patrol(v) # << >>
         /\ v.owner = "enemy" /\ ~ (v.garrison <= 4) => Bomb(v) # << >>
         /\ v.alive /\ v.pace \in Nat => Escort(v) # << >>
         /\ v.owner = "own" /\ v.threatened => Defend(v) # << >>
         /\ v.alive => Ogg(v) # << >>
<1> USE Lists, MovesTelling, MovesNotEmpty, NotEmpty
<1>1. Patrol(v) # << >>
  BY DEF Patrol
<1>2. ASSUME v.owner = "enemy", ~ (v.garrison <= 4) PROVE Bomb(v) # << >>
  <2>1. RaiseShields(v) \o CloakFor(v, VETERAN) \o MoveToOrbit(v, v.dist) # << >>
    <3>1. RaiseShields(v) \o CloakFor(v, VETERAN) \in Telling
      OBVIOUS
    <3> QED BY <3>1
  <2> QED BY <1>2, <2>1 DEF Bomb
<1>3. ASSUME v.alive, v.pace \in Nat PROVE Escort(v) # << >>
  <2> DEFINE Move == IF v.dist > 3000 THEN Dash(8)
                     ELSE IF v.dist >= 2000 THEN Dash(v.pace) ELSE << Speed(2) >>
  <2>1. Move \in Telling /\ Move # << >>
    <3>1. 8 \in Nat /\ 2 \in Nat
      OBVIOUS
    <3>2. /\ Dash(8) \in Telling /\ Dash(v.pace) \in Telling
          /\ Dash(8) # << >> /\ Dash(v.pace) # << >>
      BY <1>3, <3>1, MovesTelling, MovesNotEmpty
    <3>3. << Speed(2) >> \in Telling /\ << Speed(2) >> # << >>
      BY <3>1, MovesTelling
    <3> QED BY <3>2, <3>3
  <2>2. Escort(v) = RaiseShields(v) \o Move
    BY <1>3 DEF Escort
  <2> HIDE DEF Move
  <2> QED BY <2>1, <2>2
<1>4. ASSUME v.owner = "own", v.threatened PROVE Defend(v) # << >>
  <2> DEFINE Near == << Speed(3) >> \o If(~ v.orbiting, ToOrbit(v.dist, Dash))
             Move == IF v.dist > 2700 THEN MoveTo(v, 6) ELSE Near
  <2>1. Near \in Telling /\ Near # << >>
    <3>1. << Speed(3) >> \in Telling /\ If(~ v.orbiting, ToOrbit(v.dist, Dash)) \in Telling
      OBVIOUS
    <3>2. << Speed(3) >> # << >>
      OBVIOUS
    <3> QED BY <3>1, <3>2
  <2>2. Defend(v) = RaiseShields(v) \o Move
    BY <1>4 DEF Defend
  <2> HIDE DEF Near
  <2>3. Move \in Telling /\ Move # << >>
    <3>1. MoveTo(v, 6) \in Telling /\ MoveTo(v, 6) # << >>
      BY MovesTelling, MovesNotEmpty
    <3> QED BY <2>1, <3>1
  <2> HIDE DEF Move
  <2> QED BY <2>2, <2>3
<1>5. ASSUME v.alive PROVE Ogg(v) # << >>
  <2> DEFINE Shots == << Cmd("FIRE_PHASER", 0), Cmd("FIRE_TORP", 0) >>
             Pull == If(~ v.tractoring, << Cmd("TRACTOR", 0) >>)
             Move == IF v.dist < 500 THEN << Cmd("DETONATE_SELF", 0) >>
                     ELSE IF v.dist > 3000 THEN CloakFor(v, VETERAN) \o Dash(9)
                     ELSE Dash(9) \o Shots \o Pull
  <2>1. \A c \in {"DETONATE_SELF", "FIRE_PHASER", "FIRE_TORP", "TRACTOR"} : Cmd(c, 0) \in Told
    BY CmdTold DEF Words
  <2>2. Shots \in Telling /\ Pull \in Telling /\ Dash(9) \in Telling /\ Dash(9) # << >>
    BY <2>1
  <2>3. CloakFor(v, VETERAN) \o Dash(9) \in Telling /\ CloakFor(v, VETERAN) \o Dash(9) # << >>
    BY <2>2
  <2>4. Dash(9) \o Shots \o Pull \in Telling /\ Dash(9) \o Shots \o Pull # << >>
    <3> HIDE DEF Shots, Pull
    <3>1. Dash(9) \o Shots \in Telling /\ Dash(9) \o Shots # << >>
      BY <2>2
    <3> QED BY <2>2, <3>1
  <2>5. << Cmd("DETONATE_SELF", 0) >> \in Telling /\ << Cmd("DETONATE_SELF", 0) >> # << >>
    BY <2>1
  <2>6. Move \in Telling /\ Move # << >>
    BY <2>3, <2>4, <2>5
  <2>7. Ogg(v) = RaiseShields(v) \o Move
    BY <1>5 DEF Ogg
  <2> HIDE DEF Move
  <2> QED BY <2>6, <2>7
<1> QED BY <1>1, <1>2, <1>3, <1>4, <1>5

LEMMA ResupplyActs ==
  ASSUME NEW v, v.hull \in Nat, v.fuel \in Nat, v.hull > 50 \/ v.fuel < 30,
         NearestFuelPlanet(v) < Nowhere
  PROVE  Resupply(v) # << >>
<1> USE Lists, MovesTelling, MovesNotEmpty, NotEmpty
<1> DEFINE Depot == NearestFuelPlanet(v)
           Repair == << Cmd("REPAIR_TOGGLE", 1) >>
           There == IF v.fuel < 30 \/ v.hull <= 15 THEN Refuel(v)
                    ELSE IF NearestRepairPlanet(v) < SafeDist
                         THEN MoveToOrbit(v, NearestRepairPlanet(v))
                    ELSE If(~ v.repair, Repair) \o << Speed(0) >>
           Away == If(v.repair, Repair) \o RaiseShields(v)
<1>1. Repair \in Telling
  BY CmdTold DEF Words
<1> HIDE DEF Repair
<1>2. Flee(v) \in Telling /\ Flee(v) # << >>
  <2>1. /\ MoveTo(v, 6) \in Telling /\ MoveTo(v, 6) # << >>
        /\ << Speed(6) >> \in Telling /\ << Speed(6) >> # << >>
    BY MovesTelling, MovesNotEmpty
  <2> QED BY <2>1 DEF Flee
<1>3. Refuel(v) \in Telling /\ Refuel(v) # << >>
  <2>1. Refuel(v) = MoveToOrbit(v, Depot)
    BY DEF Refuel, If
  <2>2. \A d : MoveToOrbit(v, d) \in Telling /\ MoveToOrbit(v, d) # << >>
    BY MovesTelling, MovesNotEmpty
  <2> HIDE DEF Depot
  <2> QED BY <2>1, <2>2
<1>4. There \in Telling /\ There # << >>
  <2>1. /\ MoveToOrbit(v, NearestRepairPlanet(v)) \in Telling
        /\ MoveToOrbit(v, NearestRepairPlanet(v)) # << >>
    OBVIOUS
  <2>2. If(~ v.repair, Repair) \in Telling /\ << Speed(0) >> \in Telling /\ << Speed(0) >> # << >>
    BY <1>1
  <2>3. /\ If(~ v.repair, Repair) \o << Speed(0) >> \in Telling
        /\ If(~ v.repair, Repair) \o << Speed(0) >> # << >>
    BY <2>2
  <2> QED BY <1>3, <2>1, <2>3
<1>5. Away \in Telling
  BY <1>1
<1>6. Resupply(v) = IF v.foe < SafeDist THEN Away \o Flee(v) ELSE LowerShields(v) \o There
  BY DEF Resupply, Repair
<1> HIDE DEF Away, There
<1>7. Away \o Flee(v) # << >> /\ LowerShields(v) \o There # << >>
  BY <1>2, <1>4, <1>5
<1> QED BY <1>6, <1>7

LEMMA TakePhased ==
  ASSUME NEW v, NEW step \in TakePhases, NEW chosen
  PROVE  Take(v, step, chosen).phase \in TakePhases
<1>1. \A before, p : Approach(v, before, p).phase = "approach"
  BY DEF Approach, TakeResult
<1>2. \A p : Transit(v, p).phase \in {"transit", "approach"}
  BY <1>1 DEF Transit, TakeResult
<1>3. Pickup(v, chosen).phase \in TakePhases
  BY <1>2 DEF Pickup, TakeResult, TakePhases
<1> QED BY <1>1, <1>2, <1>3 DEF Take, TakeResult, TakePhases

\* A TAKE acts until the planet is taken, at its pickup as long as a planet of ours is known
\* to have armies, afterwards as long as it has armies aboard; and it leaves the pickup loaded.
LEMMA TakeActs ==
  ASSUME NEW v, NEW step \in TakePhases, v.owner # "own", v.armies \in {0, 1},
         v.full => v.armies = 1
  PROVE  /\ (IF step = "pickup" THEN v.manned ELSE v.armies = 1) => Take(v, step, TRUE).cmds # << >>
         /\ step = "pickup" /\ Take(v, step, TRUE).phase # "pickup" => v.armies = 1
<1>0. ASSUME NEW cmds, NEW ph, NEW p, Pickup(v, TRUE) = TakeResult(cmds, ph, p)
      PROVE  Pickup(v, TRUE).cmds = cmds /\ Pickup(v, TRUE).phase = ph
  <2> DEFINE r == Pickup(v, TRUE)
  <2>1. r = TakeResult(cmds, ph, p)
    BY <1>0
  <2> HIDE DEF r
  <2>2. r.cmds = cmds /\ r.phase = ph
    BY <2>1, ResultFields
  <2> QED BY <2>2 DEF r
<1> USE Lists, MovesTelling, MovesNotEmpty, NotEmpty
<1>1. \A b \in {"BEAM_UP", "BEAM_DOWN"} : Cmd(b, 0) \in Told
  BY CmdTold DEF Words
<1>2. ASSUME NEW before \in Telling, NEW p, v.armies = 1
      PROVE  Approach(v, before, p).cmds # << >>
  <2> DEFINE drop == << IF v.beaming # 2 THEN Cmd("BEAM_DOWN", 0) ELSE Speed(0) >>
  <2>1. drop \in Telling /\ drop # << >>
    BY <1>1
  <2> HIDE DEF drop
  <2>2. before \o drop # << >>
    BY <2>1
  <2>3. before \o CloakFor(v, COMPETENT) \o MoveToOrbit(v, v.dist) # << >>
    <3>1. before \o CloakFor(v, COMPETENT) \in Telling
      OBVIOUS
    <3> QED BY <3>1
  <2> QED BY <1>2, <2>2, <2>3 DEF Approach, TakeResult, drop
<1>3. ASSUME NEW p, v.armies = 1 PROVE Transit(v, p).cmds # << >>
  <2>1. RaiseShields(v) \o MoveToAvoiding(v, 8) # << >>
    OBVIOUS
  <2>2. Approach(v, RaiseShields(v), p).cmds # << >>
    BY <1>2, <1>3
  <2> QED BY <2>1, <2>2 DEF Transit, TakeResult
<1>4. \/ (v.manned => Pickup(v, TRUE).cmds # << >>) /\ Pickup(v, TRUE).phase = "pickup"
      \/ v.armies = 1 /\ Pickup(v, TRUE) = Transit(v, TRUE)
  <2>1. v.manned => If(v.manned, MindShields(v) \o MoveTo(v, 6)) # << >>
    <3>1. MindShields(v) \o MoveTo(v, 6) # << >>
      OBVIOUS
    <3> QED BY <3>1 DEF If
  <2>2. MindShields(v) \o MoveToOrbit(v, v.pickupDist) # << >>
    OBVIOUS
  <2>3. \A c : << c >> # << >>
    OBVIOUS
  <2>4. ASSUME NEW cmds, v.manned => cmds # << >>, NEW p, Pickup(v, TRUE) = TakeResult(cmds, "pickup", p)
        PROVE  (v.manned => Pickup(v, TRUE).cmds # << >>) /\ Pickup(v, TRUE).phase = "pickup"
    BY <2>4, <1>0
  <2>5. \/ Pickup(v, TRUE) = TakeResult(If(v.manned, MindShields(v) \o MoveTo(v, 6)), "pickup", FALSE)
        \/ Pickup(v, TRUE) = TakeResult(MindShields(v) \o MoveToOrbit(v, v.pickupDist), "pickup", TRUE)
        \/ (v.full \/ v.armies > 0) /\ Pickup(v, TRUE) = Transit(v, TRUE)
        \/ \E c : Pickup(v, TRUE) = TakeResult(<< c >>, "pickup", TRUE)
        \/ \E c : Pickup(v, TRUE) = TakeResult(<< c >>, "pickup", FALSE)
    BY DEF Pickup
  <2>6. v.full \/ v.armies > 0 => v.armies = 1
    OBVIOUS
  <2> QED BY <2>1, <2>2, <2>3, <2>4, <2>5, <2>6
<1>5. (v.manned => Pickup(v, TRUE).cmds # << >>) /\ (Pickup(v, TRUE).phase # "pickup" => v.armies = 1)
  BY <1>3, <1>4
<1>6. v.armies = 1 => Approach(v, << >>, TRUE).cmds # << >>
  BY <1>2
<1> QED BY <1>3, <1>5, <1>6 DEF Take, TakePhases

\* What the mission is about is there: the mate is alive, the foe threatens a planet of
\* ours, there is a planet to resupply at, the planet is still to be taken, by a hold that
\* is loaded or that there are armies to load for, or has armies left to bomb.
Acts(m, step) ==
  CASE m.type = "ESCORT" -> world.mate = "friend"
    [] m.type = "OGG" -> world.foe
    [] m.type = "DEFEND" -> world.foe /\ world.manned
    [] m.type = "RESUPPLY" -> NeedsResupply /\ world.manned
    [] m.type = "TAKE" -> /\ Seen(m.target).owner # "own"
                          /\ IF step = "pickup" THEN world.manned ELSE world.armies = 1
    [] m.type = "BOMB" -> Enemy(m.target) /\ Seen(m.target).armies > 4
    [] OTHER -> TRUE

Few(S, n) == IsFiniteSet(S) /\ Cardinality(S) \in 0 .. n

LEMMA OneMore ==
  ASSUME NEW S, NEW n \in Nat, NEW k \in Nat, k = n + 1, Few(S, n), NEW x
  PROVE  Few(S \cup {x}, k)
<1>1. CASE x \in S
  <2>1. S \cup {x} = S
    BY <1>1
  <2> QED BY <2>1 DEF Few
<1>2. CASE x \notin S
  BY <1>2, FS_AddElement DEF Few
<1> QED BY <1>1, <1>2

LEMMA NearestOne ==
  ASSUME NEW p, p.dist \in Nat
  PROVE  Nearest({p}) = p.dist
<1>1. (CHOOSE q \in {p} : \A r \in {p} : q.dist <= r.dist) = p
  OBVIOUS
<1> QED BY <1>1 DEF Nearest

\* The bot, its mate, its foe and the planets are told apart.
LEMMA Targets4 ==
  /\ Home # Mate /\ Home # Foe /\ Mate # Foe
  /\ \A g \in Goals : g # Mate /\ g # Home /\ g # Foe /\ g # Nobody
<1> DEFINE Three(a, b, c) == {a, b, c}
<1>1. ASSUME NEW a, NEW b, NEW c PROVE Cardinality(Three(a, b, c)) \in 0 .. 3
  <2> DEFINE One == {} \cup {a}
             Two == One \cup {b}
             All == Two \cup {c}
  <2>1. Few({}, 0)
    BY FS_EmptySet DEF Few
  <2>2. Few(One, 1)
    <3>1. 0 \in Nat /\ 1 \in Nat /\ 1 = 0 + 1
      OBVIOUS
    <3> QED BY <2>1, <3>1, OneMore
  <2> HIDE DEF One
  <2>3. Few(Two, 2)
    <3>1. 2 \in Nat /\ 1 \in Nat /\ 2 = 1 + 1
      OBVIOUS
    <3> QED BY <2>2, <3>1, OneMore
  <2> HIDE DEF Two
  <2>4. Few(All, 3)
    <3>1. 3 \in Nat /\ 2 \in Nat /\ 3 = 2 + 1
      OBVIOUS
    <3> QED BY <2>3, <3>1, OneMore
  <2>5. Cardinality(All) \in 0 .. 3
    BY <2>4 DEF Few
  <2>6. All = {a, b, c}
    BY DEF One, Two
  <2> QED BY <2>5, <2>6
<1>2. Cardinality({Nobody, Home, Mate, Foe}) = 4 /\ {Nobody, Home, Mate, Foe} \cap Goals = {}
  BY BrainAssumption
<1>3. /\ Home = Mate \/ Mate = Foe => {Nobody, Home, Mate, Foe} = Three(Nobody, Home, Foe)
      /\ Home = Foe => {Nobody, Home, Mate, Foe} = Three(Nobody, Home, Mate)
  OBVIOUS
<1> HIDE DEF Three
<1> QED BY <1>1, <1>2, <1>3

\* The parts of the type that the proofs ask for.
LEMMA Grounds ==
  ASSUME BrainTypeOK
  PROVE  /\ world.foe \in BOOLEAN /\ world.armies \in {0, 1}
         /\ world.shape.hull \in {0, 90} /\ world.shape.fuel \in {10, 25, 100}
         /\ world.manned \in BOOLEAN
         /\ world.mate \in {"none", "friend", "wreck"}
         /\ \A g \in Goals : /\ Seen(g).owner \in {"own", "enemy", "nobody"}
                             /\ Seen(g).armies \in {0, 2, 5, 9}
<1>1. world.shape \in Shapes /\ \A g \in Goals : world.planets[g] \in Reports
  BY DEF BrainTypeOK, Surroundings
<1>2. world.shape.hull \in {0, 90} /\ world.shape.fuel \in {10, 25, 100}
  BY <1>1 DEF Shapes, Shape
<1>3. ASSUME NEW k \in Reports
      PROVE  SeenPlanet(k).owner \in {"own", "enemy", "nobody"} /\ SeenPlanet(k).armies \in {0, 2, 5, 9}
  BY <1>3 DEF Reports, Knowledge, SeenPlanet
<1> QED BY <1>1, <1>2, <1>3 DEF BrainTypeOK, Surroundings, Seen

\* What a thought sees of the object of its mission.
LEMMA SightOf ==
  ASSUME BrainTypeOK, NEW m \in AllMissions, NEW s \in Settings, NEW t \in SitesOf(m),
         NEW v, v = Sight(m, s, t)
  PROVE  /\ v.hull = world.shape.hull /\ v.fuel = world.shape.fuel /\ v.armies = world.armies
         /\ v.pace = 0 /\ (v.threatened <=> world.foe)
         /\ m.type = "TAKE" => (v.full => v.armies = 1)
         /\ m.type \in {"BOMB", "TAKE"} => /\ m.target \in Goals
                                           /\ v.owner = Seen(m.target).owner
                                           /\ v.garrison = Seen(m.target).armies
         /\ v.manned = world.manned
         /\ world.manned /\ m.type = "DEFEND" => v.owner = "own"
         /\ m.type = "ESCORT" => (v.alive <=> world.mate = "friend")
         /\ m.type = "OGG" => (v.alive <=> world.foe)
         /\ world.manned => NearestFuelPlanet(v) < Nowhere
<1> DEFINE r == [dist |-> 20000, fuel |-> TRUE, repair |-> TRUE]
<1>1. v.manned = world.manned /\ v.ours = Depots(s) /\ (world.manned => s.ours)
  BY DEF Sight, Settings
<1>2. ASSUME world.manned PROVE NearestFuelPlanet(v) < Nowhere
  <2>1. {p \in v.ours : p.fuel} = {r}
    <3>1. v.ours = {r}
      BY <1>1, <1>2 DEF Depots
    <3> QED BY <3>1
  <2>2. r.dist = 20000
    OBVIOUS
  <2> HIDE DEF r
  <2>3. NearestFuelPlanet(v) = Nearest({r})
    BY <2>1 DEF NearestFuelPlanet
  <2>4. Nearest({r}) = r.dist
    BY <2>2, NearestOne
  <2> QED BY <2>2, <2>3, <2>4 DEF Nowhere
<1>3. m.type = "TAKE" => (v.full => v.armies = 1)
  <2>1. m.type = "TAKE" => (Full(t) => world.armies > 0)
    BY DEF SitesOf
  <2>2. v.full = Full(t) /\ v.armies = world.armies
    BY DEF Sight
  <2> QED BY <2>1, <2>2, Grounds
<1>4. m.type \in {"BOMB", "TAKE"} => m.target \in Goals
  BY DEF AllMissions, Mission
<1>5. /\ m.type = "DEFEND" => m.target = Home
      /\ m.type = "ESCORT" => m.target = Mate
      /\ m.type = "OGG" => m.target = Foe
  BY DEF AllMissions, Mission
<1>6. /\ v.hull = world.shape.hull /\ v.fuel = world.shape.fuel /\ v.armies = world.armies
      /\ v.pace = 0 /\ (v.threatened <=> world.foe)
  BY DEF Sight
<1>7. /\ m.target \in Goals => v.owner = Seen(m.target).owner /\ v.garrison = Seen(m.target).armies
      /\ world.manned /\ m.target \notin Goals => v.owner = "own"
  <2>1. v.owner = OwnerOf(m.target, s) /\ v.garrison = IF m.target \in Goals THEN Seen(m.target).armies ELSE 5
    BY DEF Sight
  <2> QED BY <1>1, <2>1 DEF OwnerOf
<1>8. /\ m.target = Mate => (v.alive <=> world.mate = "friend")
      /\ m.target # Mate => (v.alive <=> world.foe)
  <2>1. v.alive = Alive(m.target)
    BY DEF Sight
  <2> QED BY <2>1 DEF Alive
<1> QED BY <1>1, <1>2, <1>3, <1>4, <1>5, <1>6, <1>7, <1>8, Targets4

LEMMA ExecuteActs ==
  ASSUME BrainTypeOK, NEW m \in AllMissions, NEW s \in Settings, NEW t \in SitesOf(m),
         NEW step \in TakePhases, Acts(m, step)
  PROVE  Execute(m, s, t, step).cmds # << >>
<1> DEFINE v == Sight(m, s, t)
<1>1. m.type \in Missions
  BY DEF AllMissions, Mission, Missions
<1>2. ASSUME NEW c PROVE TakeResult(c, step, TRUE).cmds = c
  BY DEF TakeResult
<1>3. CASE m.type = "TAKE"
  <2>1. Seen(m.target).owner # "own" /\ IF step = "pickup" THEN world.manned ELSE world.armies = 1
    BY <1>3 DEF Acts
  <2>2. /\ v.owner # "own" /\ v.armies = world.armies /\ v.armies \in {0, 1} /\ (v.full => v.armies = 1)
        /\ v.manned = world.manned
    BY <1>3, <2>1, SightOf, Grounds
  <2>3. Execute(m, s, t, step).cmds = Take(v, step, TRUE).cmds
    BY <1>3 DEF Execute
  <2> HIDE DEF v
  <2>4. Take(v, step, TRUE).cmds # << >>
    BY <2>1, <2>2, TakeActs
  <2> QED BY <2>3, <2>4
<1>4. CASE m.type = "BOMB"
  <2>1. Enemy(m.target) /\ Seen(m.target).armies > 4
    BY <1>4 DEF Acts
  <2>2. Bomb(v) # << >>
    BY <1>4, <2>1, SightOf, Grounds, MissionsAct DEF Enemy
  <2> QED BY <1>2, <1>4, <2>2 DEF Execute
<1>5. CASE m.type = "ESCORT"
  <2>1. Escort(v) # << >>
    BY <1>5, SightOf, MissionsAct DEF Acts
  <2> QED BY <1>2, <1>5, <2>1 DEF Execute
<1>6. CASE m.type = "DEFEND"
  <2>1. Defend(v) # << >>
    BY <1>6, SightOf, MissionsAct DEF Acts
  <2> QED BY <1>2, <1>6, <2>1 DEF Execute
<1>7. CASE m.type = "OGG"
  <2>1. Ogg(v) # << >>
    BY <1>7, SightOf, MissionsAct DEF Acts
  <2> QED BY <1>2, <1>7, <2>1 DEF Execute
<1>8. CASE m.type = "RESUPPLY"
  <2>1. NeedsResupply /\ world.manned
    BY <1>8 DEF Acts
  <2>2. v.hull = world.shape.hull /\ v.fuel = world.shape.fuel /\ NearestFuelPlanet(v) < Nowhere
    BY <2>1, SightOf
  <2>3. Execute(m, s, t, step).cmds = Resupply(v)
    BY <1>2, <1>8 DEF Execute
  <2> HIDE DEF v
  <2>4. v.hull \in Nat /\ v.fuel \in Nat /\ (v.hull > 50 \/ v.fuel < 30)
    BY <2>1, <2>2, Grounds DEF NeedsResupply
  <2> QED BY <2>2, <2>3, <2>4, ResupplyActs
<1>9. CASE m.type = "PATROL"
  BY <1>2, <1>9, MissionsAct DEF Execute
<1> QED BY <1>1, <1>3, <1>4, <1>5, <1>6, <1>7, <1>8, <1>9 DEF Missions

\* A TAKE moves on in its phases, every other mission leaves them alone.
LEMMA ExecutePhased ==
  ASSUME NEW m, NEW s, NEW t, NEW step \in TakePhases
  PROVE  Execute(m, s, t, step).phase \in TakePhases
<1>1. CASE m.type = "TAKE"
  BY <1>1, TakePhased DEF Execute
<1>2. CASE m.type # "TAKE"
  <2>1. \E c : Execute(m, s, t, step) = TakeResult(c, step, TRUE)
    BY <1>2 DEF Execute
  <2> QED BY <2>1, ResultFields
<1> QED BY <1>1, <1>2

\* A BOMB may come to nothing, on a stale report; whatever else is a candidate acts.
Does(m, step) == Acts(m, step) \/ m.type = "BOMB"

LEMMA CandidatesKnown == \A s : Candidates(s) \subseteq AllMissions
<1> SUFFICES ASSUME NEW s, NEW c \in Candidates(s) PROVE c \in AllMissions
  OBVIOUS
<1>1. ASSUME NEW g \in Goals PROVE Mission("BOMB", g) \in AllMissions /\ Mission("TAKE", g) \in AllMissions
  BY <1>1 DEF AllMissions
<1>2. BombCandidates \subseteq AllMissions
  BY <1>1 DEF BombCandidates
<1>3. TakeCandidates(s) \subseteq AllMissions
  BY <1>1 DEF TakeCandidates, Takeable
<1>4. EscortCandidates \cup OggCandidates \cup DefendCandidates(s) \subseteq AllMissions
  BY DEF EscortCandidates, OggCandidates, DefendCandidates, AllMissions
<1>5. {Mission("RESUPPLY", Nobody), Mission("PATROL", Nobody)} \subseteq AllMissions
  BY DEF AllMissions
<1> QED BY <1>2, <1>3, <1>4, <1>5 DEF Candidates

LEMMA CandidatesAct ==
  ASSUME BrainTypeOK, world.mate # "wreck", world.manned, NEW s, NEW c \in Candidates(s), NEW step,
         c.type = "RESUPPLY" => NeedsResupply, c.type = "TAKE" => step = "pickup"
  PROVE  Does(c, step)
<1>1. CASE c \in BombCandidates
  BY <1>1 DEF BombCandidates, Mission, Does
<1>2. CASE c \in TakeCandidates(s)
  <2>1. PICK g \in Goals : c = Mission("TAKE", g) /\ Enemy(g)
    BY <1>2 DEF TakeCandidates, Takeable
  <2>2. c.type = "TAKE" /\ c.target = g /\ Seen(g).owner = "enemy"
    BY <2>1 DEF Mission, Enemy
  <2> QED BY <2>2 DEF Does, Acts
<1>3. CASE c \in EscortCandidates
  <2>1. c = Mission("ESCORT", Mate) /\ world.mate # "none"
    BY <1>3 DEF EscortCandidates
  <2> QED BY <2>1, Grounds DEF Mission, Does, Acts
<1>4. CASE c \in OggCandidates \cup DefendCandidates(s)
  BY <1>4 DEF OggCandidates, DefendCandidates, Mission, Does, Acts
<1>5. CASE c \in {Mission("RESUPPLY", Nobody), Mission("PATROL", Nobody)}
  BY <1>5 DEF Mission, Does, Acts
<1> QED BY <1>1, <1>2, <1>3, <1>4, <1>5 DEF Candidates

\* A thought, in its parts: the mission it begins with and its phase of a TAKE, and
\* what becomes of the mission.
Chosen(s, m, step) ==
  /\ m \in IF ShouldAssess(s) THEN Assessed(s) ELSE {mission}
  /\ step = IF m # mission /\ m.type = "TAKE" THEN "pickup" ELSE take
Fought(s, m, step) ==
  NextCombat(m, s).phase # "NONE" /\ Act(m, step, NextCombat(m, s), ShouldAssess(s))
Executed(s, m, step, t) ==
  /\ NextCombat(m, s).phase = "NONE"
  /\ Execute(m, s, t, step).cmds # << >>
  /\ Act(m, Execute(m, s, t, step).phase, NextCombat(m, s), ShouldAssess(s))
GaveUp(s, m, step, t) ==
  /\ Execute(m, s, t, step).cmds = << >>
  /\ Complete(m, Execute(m, s, t, step).phase, NextCombat(m, s), s, ShouldAssess(s))

LEMMA ThoughtParts ==
  ASSUME Think
  PROVE  \E s \in Settings : \E m, step :
           /\ Chosen(s, m, step)
           /\ \/ Fought(s, m, step)
              \/ \E t \in SitesOf(m) : Executed(s, m, step, t) \/ GaveUp(s, m, step, t)
           /\ UNCHANGED world
BY DEF Think, Chosen, Fought, Executed, GaveUp

LEMMA ChosenKnown ==
  ASSUME BrainTypeOK, NEW s, NEW m, NEW step, Chosen(s, m, step)
  PROVE  /\ m \in AllMissions /\ step \in TakePhases
         /\ m = mission => step = take
         /\ m # mission => /\ m \in Candidates(s)
                           /\ m.type # failed.type
                           /\ m.type = "RESUPPLY" => NeedsResupply
                           /\ m.type = "TAKE" => step = "pickup"
<1>1. m # mission => /\ m \in Candidates(s) /\ m.type # failed.type
                     /\ m.type = "RESUPPLY" => NeedsResupply
  BY DEF Chosen, Assessed, First
<1>2. m \in AllMissions
  BY <1>1, CandidatesKnown DEF BrainTypeOK
<1>3. step \in TakePhases
  BY DEF Chosen, BrainTypeOK, TakePhases
<1> QED BY <1>1, <1>2, <1>3 DEF Chosen

LEMMA FallbackKnown ==
  ASSUME NEW s, NEW type, NEW n \in Fallback(s, type)
  PROVE  /\ n \in AllMissions /\ n \in Candidates(s) /\ n.type # type
         /\ n.type = "RESUPPLY" => NeedsResupply
<1>1. n \in Candidates(s) /\ n.type # type /\ (n.type = "RESUPPLY" => NeedsResupply \/ n = Mission("none", Nobody))
  BY DEF Fallback, First
<1>2. Mission("none", Nobody).type = "none"
  BY DEF Mission
<1> QED BY <1>1, <1>2, CandidatesKnown

CombatStates == [phase: CombatPhases, quiet: 0 .. ExitTicks - 1]

LEMMA CombatTyped ==
  ASSUME BrainTypeOK, NEW s, NEW m
  PROVE  NextCombat(m, s) \in CombatStates
<1>1. ExitTicks \in Nat /\ ExitTicks > 1
  BY BrainAssumption
<1>2. combat.quiet \in 0 .. ExitTicks - 1
  BY DEF BrainTypeOK
<1>3. \A ph \in CombatPhases : \A q \in 0 .. ExitTicks - 1 : [phase |-> ph, quiet |-> q] \in CombatStates
  BY DEF CombatStates
<1>4. {0, 1} \subseteq 0 .. ExitTicks - 1
  BY <1>1
<1>5. combat.quiet + 1 < ExitTicks => combat.quiet + 1 \in 0 .. ExitTicks - 1
  BY <1>1, <1>2
<1>6. {"NONE", "ENGAGED", "DISENGAGING"} = CombatPhases
  BY DEF CombatPhases
<1> QED BY <1>3, <1>4, <1>5, <1>6 DEF NextCombat

Failures == [type: Missions \cup {"none"}, left: 0 .. 3 * AssessTicks - 1]

LEMMA Intervals ==
  /\ AssessTicks \in Nat /\ AssessTicks > 0
  /\ 1 \in 1 .. AssessTicks
  /\ \A i \in 1 .. AssessTicks : i < AssessTicks => i + 1 \in 1 .. AssessTicks
  /\ NoFailure \in Failures
  /\ \A type \in Missions : Failure(type) \in Failures /\ Failure(type).type = type
  /\ \A f \in Failures : ~ (f.left <= 1) => [f EXCEPT !.left = @ - 1] \in Failures
<1>1. AssessTicks \in Nat /\ AssessTicks > 0
  BY BrainAssumption
<1>2. NoFailure \in Failures
  BY <1>1 DEF Failures, NoFailure
<1>3. \A type \in Missions : Failure(type) \in Failures /\ Failure(type).type = type
  BY <1>1 DEF Failures, Failure
<1>4. \A f \in Failures : ~ (f.left <= 1) => [f EXCEPT !.left = @ - 1] \in Failures
  BY <1>1 DEF Failures
<1> QED BY <1>1, <1>2, <1>3, <1>4

\* What a thought leaves behind has its type, whatever comes of the mission.
LEMMA ActTyped ==
  ASSUME BrainTypeOK, UNCHANGED world, NEW m \in AllMissions, NEW step \in TakePhases,
         NEW cb \in CombatStates, NEW assessed \in BOOLEAN, Act(m, step, cb, assessed)
  PROVE  BrainTypeOK'
<1>1. urgent' \in BOOLEAN
  BY DEF Act
<1>2. since' \in 1 .. AssessTicks
  BY Intervals DEF Act, BrainTypeOK
<1>3. failed' \in Failures
  BY Intervals DEF Act, BrainTypeOK, Failures
<1>4. ended' \in 0 .. EndedMax
  BY DEF Act, EndedMax
<1>5. mission' = m /\ take' = step /\ combat' = cb /\ world' = world
  BY DEF Act
<1> QED BY <1>1, <1>2, <1>3, <1>4, <1>5 DEF BrainTypeOK, CombatStates, Failures

LEMMA CompleteTyped ==
  ASSUME BrainTypeOK, UNCHANGED world, NEW m \in AllMissions, NEW step \in TakePhases,
         NEW cb \in CombatStates, NEW s, NEW assessed \in BOOLEAN, Complete(m, step, cb, s, assessed)
  PROVE  BrainTypeOK'
<1>1. urgent' \in BOOLEAN
  BY DEF Complete
<1>2. since' \in 1 .. AssessTicks
  BY Intervals DEF Complete
<1>3. failed' \in Failures
  <2>1. m.type \in Missions
    BY DEF AllMissions, Mission, Missions
  <2> QED BY <2>1, Intervals DEF Complete
<1>4. ended' \in 0 .. EndedMax
  BY DEF Complete, BrainTypeOK, EndedMax
<1>5. mission' \in AllMissions /\ take' \in TakePhases
  BY FallbackKnown DEF Complete, TakePhases
<1>6. combat' = cb /\ world' = world
  BY DEF Complete
<1> QED BY <1>1, <1>2, <1>3, <1>4, <1>5, <1>6 DEF BrainTypeOK, CombatStates, Failures

LEMMA ThinkTyped ==
  ASSUME BrainTypeOK, Think
  PROVE  BrainTypeOK'
<1>1. PICK s \in Settings : \E m, step :
           /\ Chosen(s, m, step)
           /\ \/ Fought(s, m, step)
              \/ \E t \in SitesOf(m) : Executed(s, m, step, t) \/ GaveUp(s, m, step, t)
           /\ UNCHANGED world
  BY ThoughtParts
<1>2. PICK m, step :
           /\ Chosen(s, m, step)
           /\ \/ Fought(s, m, step)
              \/ \E t \in SitesOf(m) : Executed(s, m, step, t) \/ GaveUp(s, m, step, t)
           /\ UNCHANGED world
  BY <1>1
<1>3. m \in AllMissions /\ step \in TakePhases /\ NextCombat(m, s) \in CombatStates
  BY <1>2, ChosenKnown, CombatTyped
<1>4. ShouldAssess(s) \in BOOLEAN
  BY DEF ShouldAssess, BrainTypeOK
<1>5. CASE Fought(s, m, step)
  BY <1>2, <1>3, <1>4, <1>5, ActTyped DEF Fought
<1>6. ASSUME NEW t \in SitesOf(m), Executed(s, m, step, t) PROVE BrainTypeOK'
  <2>1. Execute(m, s, t, step).phase \in TakePhases
    BY <1>3, ExecutePhased
  <2> QED BY <1>2, <1>3, <1>4, <1>6, <2>1, ActTyped DEF Executed
<1>7. ASSUME NEW t \in SitesOf(m), GaveUp(s, m, step, t) PROVE BrainTypeOK'
  <2>1. Execute(m, s, t, step).phase \in TakePhases
    BY <1>3, ExecutePhased
  <2> QED BY <1>2, <1>3, <1>4, <1>7, <2>1, CompleteTyped DEF GaveUp
<1> QED BY <1>2, <1>5, <1>6, <1>7

\* The world changes under the bot's feet, but remains one that it can be in.
LEMMA DriftTyped ==
  ASSUME BrainTypeOK, Drift
  PROVE  BrainTypeOK' /\ ended' = 0 /\ UNCHANGED brain /\ world' # world
<1>1. /\ world = [planets |-> world.planets, manned |-> world.manned, mate |-> world.mate, foe |-> world.foe,
                  armies |-> world.armies, shape |-> world.shape]
      /\ world.planets \in [Goals -> Reports] /\ world.mate \in {"none", "friend", "wreck"}
      /\ world.manned \in BOOLEAN /\ world.foe \in BOOLEAN /\ world.armies \in {0, 1} /\ world.shape \in Shapes
  BY DEF BrainTypeOK, Surroundings
<1>2. ended' = 0 /\ UNCHANGED brain
  BY DEF Drift, StoresChange, MateMoves, FoeMoves, OwnShip, PlanetNews
<1>3. world' \in Surroundings /\ world' # world
  <2>1. CASE MateMoves
    <3>1. PICK x \in {"none", "friend", "wreck"} : x # world.mate /\ world' = [world EXCEPT !.mate = x]
      BY <2>1 DEF MateMoves
    <3>2. world' \in Surroundings
      BY <1>1, <3>1 DEF Surroundings
    <3> QED BY <1>1, <3>1, <3>2
  <2>2. CASE FoeMoves
    <3>1. PICK x \in BOOLEAN : x = ~ world.foe
      BY <1>1
    <3>2. world' = [world EXCEPT !.foe = x]
      BY <2>2, <3>1 DEF FoeMoves
    <3>3. world' \in Surroundings
      BY <1>1, <3>2 DEF Surroundings
    <3>4. world'.foe = x /\ x # world.foe
      BY <1>1, <3>1, <3>2
    <3> QED BY <3>3, <3>4
  <2>3. CASE OwnShip
    <3>1. CASE world' = [world EXCEPT !.armies = 1 - @]
      <4>1. 1 - world.armies \in {0, 1} /\ 1 - world.armies # world.armies
        BY <1>1
      <4>2. world'.armies = 1 - world.armies
        BY <1>1, <3>1
      <4>3. world' \in Surroundings
        BY <1>1, <3>1, <4>1 DEF Surroundings
      <4> QED BY <4>1, <4>2, <4>3
    <3>2. ASSUME NEW h \in Shapes \ {world.shape}, world' = [world EXCEPT !.shape = h]
          PROVE  world' \in Surroundings /\ world' # world
      <4>1. world' \in Surroundings
        BY <1>1, <3>2 DEF Surroundings
      <4>2. world'.shape = h /\ h # world.shape
        BY <1>1, <3>2
      <4> QED BY <4>1, <4>2
    <3> QED BY <2>3, <3>1, <3>2 DEF OwnShip
  <2>4. ASSUME NEW g \in Goals, PlanetNews(g) PROVE world' \in Surroundings /\ world' # world
    <3>1. PICK r \in Reports \ {world.planets[g]} :
            world' = [world EXCEPT !.planets[g] = r, !.manned = @ \/ r.team = "own"]
      BY <2>4 DEF PlanetNews
    <3>0. PICK x \in BOOLEAN : x = (world.manned \/ r.team = "own")
      OBVIOUS
    <3> DEFINE p == [world.planets EXCEPT ![g] = r]
    <3>2. p \in [Goals -> Reports] /\ p[g] # world.planets[g]
      BY <1>1, <3>1
    <3>3. world' = [world EXCEPT !.planets = p, !.manned = x]
      BY <3>0, <3>1
    <3> HIDE DEF p
    <3>4. [world EXCEPT !.planets = p, !.manned = x] \in Surroundings
      BY <1>1, <3>2 DEF Surroundings
    <3>5. world'.planets = p
      BY <1>1, <3>3
    <3> QED BY <3>2, <3>3, <3>4, <3>5
  <2>5. CASE StoresChange
    <3>1. PICK x \in BOOLEAN : x = ~ world.manned
      BY <1>1
    <3>2. world' = [world EXCEPT !.manned = x]
      BY <2>5, <3>1 DEF StoresChange
    <3>3. world' \in Surroundings
      BY <1>1, <3>2 DEF Surroundings
    <3>4. world'.manned = x /\ x # world.manned
      BY <1>1, <3>1, <3>2
    <3> QED BY <3>3, <3>4
  <2> QED BY <2>1, <2>2, <2>3, <2>4, <2>5 DEF Drift
<1>4. /\ mission' = mission /\ take' = take /\ combat' = combat
      /\ urgent' = urgent /\ since' = since /\ failed' = failed
  BY <1>2 DEF brain
<1>5. BrainTypeOK'
  BY <1>2, <1>3, <1>4 DEF BrainTypeOK, EndedMax
<1> QED BY <1>2, <1>3, <1>5

Keeping ==
  world.mate # "wreck" /\ world.manned =>
    /\ ended \in 0 .. 2
    /\ ended = 1 => Does(mission, take)
    /\ ended = 2 => failed.type = "BOMB" /\ Acts(mission, take)

BrainInv == BrainTypeOK /\ Keeping

\* A mission that acts ends the row; one that has come to nothing makes way for what acts, or for
\* a BOMB if it was none itself.
LEMMA ThinkKeeps ==
  ASSUME BrainInv, Think
  PROVE  Keeping'
<1> SUFFICES ASSUME world'.mate # "wreck", world'.manned
             PROVE  /\ ended' \in 0 .. 2
                    /\ ended' = 1 => Does(mission, take)'
                    /\ ended' = 2 => failed'.type = "BOMB" /\ Acts(mission, take)'
  BY DEF Keeping
<1>1. PICK s \in Settings : \E m, step :
           /\ Chosen(s, m, step)
           /\ \/ Fought(s, m, step)
              \/ \E t \in SitesOf(m) : Executed(s, m, step, t) \/ GaveUp(s, m, step, t)
           /\ UNCHANGED world
  BY ThoughtParts
<1>2. PICK m, step :
           /\ Chosen(s, m, step)
           /\ \/ Fought(s, m, step)
              \/ \E t \in SitesOf(m) : Executed(s, m, step, t) \/ GaveUp(s, m, step, t)
           /\ UNCHANGED world
  BY <1>1
<1>3. ASSUME ended' = 0
      PROVE  /\ ended' \in 0 .. 2
             /\ ended' = 1 => Does(mission, take)'
             /\ ended' = 2 => failed'.type = "BOMB" /\ Acts(mission, take)'
  BY <1>3
<1>4. Fought(s, m, step) => ended' = 0
  BY DEF Fought, Act
<1>5. \A t \in SitesOf(m) : Executed(s, m, step, t) => ended' = 0
  BY DEF Executed, Act
<1>6. ASSUME NEW t \in SitesOf(m), GaveUp(s, m, step, t)
      PROVE  /\ ended' \in 0 .. 2
             /\ ended' = 1 => Does(mission, take)'
             /\ ended' = 2 => failed'.type = "BOMB" /\ Acts(mission, take)'
  <2>1. BrainTypeOK /\ world' = world /\ world.mate # "wreck" /\ world.manned /\ Chosen(s, m, step)
    BY <1>2 DEF BrainInv
  <2>2. m \in AllMissions /\ step \in TakePhases
    BY <2>1, ChosenKnown
  <2>3. ~ Acts(m, step)
    BY <1>6, <2>1, <2>2, ExecuteActs DEF GaveUp
  <2>4. ended > 0 => m.type = "BOMB" /\ ended = 1
    <3>1. CASE m = mission
      BY <2>1, <2>3, <3>1, ChosenKnown DEF BrainInv, Keeping, Does, BrainTypeOK
    <3>2. CASE m # mission
      <4>1. m.type = "BOMB"
        BY <2>1, <2>3, <3>2, ChosenKnown, CandidatesAct DEF Does
      <4> QED BY <2>1, <3>2, <4>1, ChosenKnown DEF BrainInv, Keeping, BrainTypeOK
    <3> QED BY <3>1, <3>2
  <2>5. ended' = ended + 1 /\ failed' = Failure(m.type)
    BY <1>6, <2>1, <2>4 DEF GaveUp, Complete, EndedMax, BrainInv, Keeping
  <2>6. PICK n \in Fallback(s, m.type) :
          mission' = n /\ take' = IF n.type = "TAKE" THEN "pickup" ELSE Execute(m, s, t, step).phase
    BY <1>6 DEF GaveUp, Complete
  <2>7. n.type # m.type /\ Does(n, take')
    <3>1. n \in Candidates(s) /\ n.type # m.type /\ (n.type = "RESUPPLY" => NeedsResupply)
      BY FallbackKnown
    <3>2. n.type = "TAKE" => take' = "pickup"
      BY <2>6
    <3> QED BY <2>1, <3>1, <3>2, CandidatesAct
  <2>8. Does(mission, take)' /\ (m.type = "BOMB" => Acts(mission, take)')
    <3>1. Does(n, take') = Does(mission, take)' /\ Acts(n, take') = Acts(mission, take)'
      BY <2>1, <2>6 DEF Does, Acts, NeedsResupply, Enemy, Seen
    <3> QED BY <2>7, <3>1 DEF Does
  <2>9. m.type = "BOMB" => failed'.type = "BOMB"
    BY <2>5, Intervals DEF Missions
  <2> QED BY <2>1, <2>4, <2>5, <2>8, <2>9 DEF BrainInv, BrainTypeOK
<1> QED BY <1>2, <1>3, <1>4, <1>5, <1>6

LEMMA BrainStarts == BrainInit => BrainInv
<1> SUFFICES ASSUME BrainInit PROVE BrainInv
  OBVIOUS
<1>1. mission \in AllMissions
  BY DEF BrainInit, AllMissions
<1>2. combat \in [phase: CombatPhases, quiet: 0 .. ExitTicks - 1]
  BY BrainAssumption DEF BrainInit, CombatPhases
<1>3. since \in 1 .. AssessTicks /\ failed \in [type: Missions \cup {"none"}, left: 0 .. 3 * AssessTicks - 1]
  BY Intervals DEF BrainInit, Failures
<1>4. /\ world \in Surroundings /\ take \in TakePhases /\ urgent \in BOOLEAN
      /\ ended = 0
  BY DEF BrainInit, TakePhases
<1>5. BrainTypeOK
  BY <1>1, <1>2, <1>3, <1>4 DEF BrainTypeOK, EndedMax
<1> QED BY <1>4, <1>5 DEF BrainInv, Keeping

LEMMA BrainInductive ==
  BrainInv /\ [BrainNext]_brainVars => BrainInv'
<1> SUFFICES ASSUME BrainInv, [BrainNext]_brainVars PROVE BrainInv'
  OBVIOUS
<1>1. CASE Think
  BY <1>1, ThinkTyped, ThinkKeeps DEF BrainInv
<1>2. CASE Drift
  BY <1>2, DriftTyped DEF BrainInv, Keeping
<1>3. CASE HearOrder \/ Alarm
  <2>1. /\ world' = world /\ mission' = mission /\ take' = take /\ combat' = combat
        /\ since' = since /\ failed' = failed /\ ended' = ended
    BY <1>3 DEF HearOrder, Alarm
  <2>2. urgent' \in BOOLEAN
    BY <1>3 DEF HearOrder, Alarm, BrainInv, BrainTypeOK
  <2>3. BrainTypeOK'
    BY <2>1, <2>2 DEF BrainInv, BrainTypeOK
  <2>4. Keeping'
    BY <2>1 DEF BrainInv, Keeping, Does, Acts, NeedsResupply, Enemy, Seen
  <2> QED BY <2>3, <2>4 DEF BrainInv
<1>4. CASE UNCHANGED brainVars
  <2>1. /\ world' = world /\ mission' = mission /\ take' = take /\ combat' = combat
        /\ urgent' = urgent /\ since' = since /\ failed' = failed /\ ended' = ended
    BY <1>4 DEF brainVars, brain
  <2>2. BrainTypeOK'
    BY <2>1 DEF BrainInv, BrainTypeOK
  <2>3. Keeping'
    BY <2>1 DEF BrainInv, Keeping, Does, Acts, NeedsResupply, Enemy, Seen
  <2> QED BY <2>2, <2>3 DEF BrainInv
<1> QED BY <1>1, <1>2, <1>3, <1>4 DEF BrainNext

\* Whatever a bot sees, hears and chooses, its missions have the targets, its fights and
\* its failures the length that the code gives them.
THEOREM BrainTypeCorrect == BrainSpec => []BrainTypeOK
<1>1. BrainInv => BrainTypeOK
  BY DEF BrainInv
<1> QED BY <1>1, BrainStarts, BrainInductive, PTL DEF BrainSpec

\* For any planets, any difficulty and any intervals: as long as a planet of ours is known
\* to have armies and the mate is no wreck, never do three missions in a row come to nothing
\* in a world that stands still, outside of fights.
THEOREM MissionsHold == BrainSpec => []MissionsTakeHold
<1>1. BrainInv => MissionsTakeHold
  BY DEF BrainInv, Keeping, MissionsTakeHold
<1> QED BY <1>1, BrainStarts, BrainInductive, PTL DEF BrainSpec

\* A thought of a bot that is committed keeps the mission: it is not assessed, not given
\* up for a fight, and has a command until the planet is taken.
LEMMA CommittedThinks ==
  ASSUME BrainTypeOK, Think, mission.type = "TAKE", world.armies > 0, world.shape.hull <= 80,
         Seen(mission.target).owner # "own", world.manned \/ take # "pickup"
  PROVE  mission' = mission
<1>1. PICK s \in Settings : \E m, step :
           /\ Chosen(s, m, step)
           /\ \/ Fought(s, m, step)
              \/ \E t \in SitesOf(m) : Executed(s, m, step, t) \/ GaveUp(s, m, step, t)
           /\ UNCHANGED world
  BY ThoughtParts
<1>2. PICK m, step :
           /\ Chosen(s, m, step)
           /\ \/ Fought(s, m, step)
              \/ \E t \in SitesOf(m) : Executed(s, m, step, t) \/ GaveUp(s, m, step, t)
  BY <1>1
<1>3. m = mission /\ step = take /\ step \in TakePhases /\ m \in AllMissions
  <2>1. ~ ShouldAssess(s)
    BY DEF ShouldAssess, Committed, Carries
  <2> QED BY <1>2, <2>1, ChosenKnown DEF Chosen
<1>4. Fought(s, m, step) => mission' = mission
  BY <1>3 DEF Fought, Act
<1>5. \A t \in SitesOf(m) : Executed(s, m, step, t) => mission' = mission
  BY <1>3 DEF Executed, Act
<1>6. ASSUME NEW t \in SitesOf(m), GaveUp(s, m, step, t) PROVE FALSE
  <2>1. Acts(m, step)
    BY <1>3, Grounds DEF Acts
  <2> QED BY <1>3, <1>6, <2>1, ExecuteActs DEF GaveUp
<1> QED BY <1>2, <1>4, <1>5, <1>6

\* A thought that leaves the pickup behind has armies aboard: a new TAKE begins with the
\* pickup, and executeTake goes on only when it has loaded.
LEMMA LoadedThinks ==
  ASSUME BrainTypeOK, Think, mission'.type = "TAKE", take' # "pickup",
         take = "pickup" \/ mission' # mission
  PROVE  world.armies > 0
<1>1. PICK s \in Settings : \E m, step :
           /\ Chosen(s, m, step)
           /\ \/ Fought(s, m, step)
              \/ \E t \in SitesOf(m) : Executed(s, m, step, t) \/ GaveUp(s, m, step, t)
           /\ UNCHANGED world
  BY ThoughtParts
<1>2. PICK m, step :
           /\ Chosen(s, m, step)
           /\ \/ Fought(s, m, step)
              \/ \E t \in SitesOf(m) : Executed(s, m, step, t) \/ GaveUp(s, m, step, t)
  BY <1>1
<1>3. /\ step \in TakePhases /\ m \in AllMissions
      /\ m = mission => step = take
      /\ m # mission /\ m.type = "TAKE" => step = "pickup"
  BY <1>2, ChosenKnown
<1>4. ASSUME Fought(s, m, step) PROVE FALSE
  BY <1>3, <1>4 DEF Fought, Act
<1>5. ASSUME NEW t \in SitesOf(m), Executed(s, m, step, t) PROVE world.armies > 0
  <2> DEFINE v == Sight(m, s, t)
  <2>1. m.type = "TAKE" /\ mission' = m /\ step = "pickup"
    BY <1>3, <1>5 DEF Executed, Act
  <2>2. /\ Execute(m, s, t, step) = Take(v, step, TRUE)
        /\ Take(v, step, TRUE).cmds # << >> /\ Take(v, step, TRUE).phase # "pickup"
    BY <1>5, <2>1 DEF Executed, Act, Execute
  <2>3. v.armies = world.armies /\ v.armies \in {0, 1} /\ (v.full => v.armies = 1)
    BY <1>3, <2>1, SightOf, Grounds
  <2> HIDE DEF v
  <2>4. v.owner # "own"
    BY <2>2, ResultFields DEF Take
  <2>5. v.armies = 1
    BY <1>3, <2>1, <2>2, <2>3, <2>4, TakeActs
  <2> QED BY <2>3, <2>5
<1>6. ASSUME NEW t \in SitesOf(m), GaveUp(s, m, step, t) PROVE FALSE
  BY <1>6 DEF GaveUp, Complete
<1> QED BY <1>2, <1>4, <1>5, <1>6

\* For any planets, difficulty and intervals: a bot that carries armies keeps to its TAKE,
\* unless it is still at its pickup and no planet of ours is known to have armies, and none sets out for the planet with an empty hold.
THEOREM ArmiesArrive == BrainSpec => CarriersDeliver
<1>1. ASSUME BrainInv, [BrainNext]_brainVars,
             mission.type = "TAKE", world.armies > 0, world.shape.hull <= 80,
             Seen(mission.target).owner # "own", world.manned \/ take # "pickup"
      PROVE  mission' = mission
  <2>1. CASE Think
    BY <1>1, <2>1, CommittedThinks DEF BrainInv
  <2>2. CASE ~ Think
    BY <1>1, <2>2, DriftTyped DEF BrainInv, BrainNext, HearOrder, Alarm, brainVars, brain
  <2> QED BY <2>1, <2>2
<1>2. ASSUME BrainInv, [BrainNext]_brainVars, mission'.type = "TAKE", take' # "pickup",
             take = "pickup" \/ mission' # mission
      PROVE  world.armies > 0
  <2>1. CASE Think
    BY <1>2, <2>1, LoadedThinks DEF BrainInv
  <2>2. CASE ~ Think
    BY <1>2, <2>2, DriftTyped DEF BrainInv, BrainNext, HearOrder, Alarm, brainVars, brain
  <2> QED BY <2>1, <2>2
<1>3. BrainInv /\ [BrainNext]_brainVars =>
        [ /\ mission.type = "TAKE" /\ world.armies > 0 /\ world.shape.hull <= 80
          /\ Seen(mission.target).owner # "own"
          /\ world.manned \/ take # "pickup"
          /\ world' = world
          => mission' = mission ]_brainVars
  BY <1>1
<1>4. BrainInv /\ [BrainNext]_brainVars =>
        [ /\ mission'.type = "TAKE" /\ take' # "pickup"
          /\ take = "pickup" \/ mission' # mission
          => world.armies > 0 ]_brainVars
  BY <1>2
<1>5. BrainSpec => ArmiesAreCommitted
  BY <1>3, BrainStarts, BrainInductive, PTL DEF BrainSpec, ArmiesAreCommitted
<1>6. BrainSpec => FliesLoaded
  BY <1>4, BrainStarts, BrainInductive, PTL DEF BrainSpec, FliesLoaded
<1> QED BY <1>5, <1>6 DEF CarriersDeliver
=============================================================================
