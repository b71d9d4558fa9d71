---------------------------- MODULE CombatProofs ----------------------------
(***************************************************************************)
(* Proofs about Combat for any number of slots and torpedoes, any lives    *)
(* and delays.                                                             *)
(*                                                                         *)
(* The inductive invariant is what the checked invariants say of the       *)
(* entries of the pools, with one fact about the slots: who is not there   *)
(* has no ship alive or exploding.  That the pools suffice is no part of   *)
(* it: it follows from the limits by counting.  The chain of explosions    *)
(* is explained as far as the pass has come (PassExplained).               *)
(***************************************************************************)
EXTENDS Combat, FiniteSetTheorems, WellFoundedInduction, TLAPS

SeatedFly == \A s \in Slots : ships[s].taken \/ ships[s].status = "DEAD"

WithinLimits ==
  \A s \in Slots : /\ Cardinality(Entries(torps, s)) <= MaxTorps
                   /\ Cardinality(Entries(plasmas, s)) <= 1

IInv == TypeOK /\ SeatedFly /\ TorpsHaveFirer /\ WithinLimits

\* The types of the two pools, and their sizes.
LEMMA PoolSizes ==
  /\ TorpPool \subseteq Nat /\ IsFiniteSet(TorpPool)
  /\ Cardinality(TorpPool) = NumSlots * MaxTorps
  /\ PlasmaPool \subseteq Nat /\ IsFiniteSet(PlasmaPool)
  /\ Cardinality(PlasmaPool) = NumSlots
<1>1. NumSlots \in Nat /\ MaxTorps \in Nat /\ NumSlots > 0 /\ MaxTorps > 0
  BY CombatAssumption
<1>2. NumSlots * MaxTorps \in Nat
  BY <1>1
<1>3. /\ IsFiniteSet(1 .. NumSlots * MaxTorps)
      /\ Cardinality(1 .. NumSlots * MaxTorps) = NumSlots * MaxTorps
  <2> DEFINE n == NumSlots * MaxTorps
  <2>1. n \in Nat
    BY <1>2
  <2> HIDE DEF n
  <2>2. IsFiniteSet(1 .. n) /\ Cardinality(1 .. n) = n
    BY <2>1, FS_Interval
  <2> QED BY <2>2 DEF n
<1>4. IsFiniteSet(0 .. NumSlots - 1) /\ Cardinality(0 .. NumSlots - 1) = NumSlots
  BY <1>1, FS_Interval
<1>5. TorpPool \subseteq Nat
  BY <1>2 DEF TorpPool
<1>6. PlasmaPool \subseteq Nat
  BY <1>1 DEF PlasmaPool, Slots
<1> QED BY <1>3, <1>4, <1>5, <1>6 DEF TorpPool, PlasmaPool, Slots

\* A pool with a free entry has a first one; allocateTorp and allocatePlasma
\* return it.
LEMMA FirstFreeIsFree ==
  ASSUME NEW pool, DOMAIN pool \subseteq Nat, NEW f \in DOMAIN pool, pool[f] = Free
  PROVE  FirstFree(pool) \in DOMAIN pool /\ pool[FirstFree(pool)] = Free
<1> DEFINE B == {i \in DOMAIN pool : pool[i] = Free}
<1>1. IsWellFoundedOn(OpToRel(<, Nat), Nat)
  BY NatLessThanWellFounded
<1>2. B # {} /\ B \subseteq Nat
  OBVIOUS
<1>3. PICK m \in B : \A j \in B : ~ (<<j, m>> \in OpToRel(<, Nat))
  BY <1>1, <1>2, WFMin
<1>4. ASSUME NEW j \in B, j < m PROVE <<j, m>> \in OpToRel(<, Nat)
  <2>1. <<j, m>> \in Nat \X Nat
    BY <1>2
  <2> QED BY <2>1, <1>4 DEF OpToRel
<1>5. ASSUME NEW j \in B PROVE m <= j
  <2>1. ~ (j < m)
    BY <1>3, <1>4
  <2>2. j \in Nat /\ m \in Nat
    BY <1>2
  <2> HIDE DEF B
  <2> QED BY <2>1, <2>2
<1> QED BY <1>5 DEF FirstFree

\* The entries of a slot are finitely many.
LEMMA EntriesFinite ==
  ASSUME TypeOK, NEW s
  PROVE  /\ Entries(torps, s) \subseteq TorpPool /\ IsFiniteSet(Entries(torps, s))
         /\ Cardinality(Entries(torps, s)) \in Nat
         /\ Entries(plasmas, s) \subseteq PlasmaPool /\ IsFiniteSet(Entries(plasmas, s))
         /\ Cardinality(Entries(plasmas, s)) \in Nat
<1>1. Entries(torps, s) \subseteq TorpPool /\ Entries(plasmas, s) \subseteq PlasmaPool
  BY DEF TypeOK, Entries
<1> QED BY <1>1, PoolSizes, FS_Subset, FS_CardinalityType

-----------------------------------------------------------------------------
(* What steps do to the pools *)

\* Entries that are gone or fly on as they were, as far as the invariant says.
TorpsShrink ==
  /\ torps' \in [TorpPool -> Torp \cup {Free}]
  /\ \A i \in TorpPool : torps'[i] # Free =>
       /\ torps[i] # Free
       /\ torps'[i].owner = torps[i].owner /\ torps'[i].team = torps[i].team
       /\ torps'[i].old = torps[i].old

PlasmasShrink ==
  /\ plasmas' \in [PlasmaPool -> Plasma \cup {Free}]
  /\ \A i \in PlasmaPool : plasmas'[i] # Free =>
       plasmas[i] # Free /\ plasmas'[i].owner = plasmas[i].owner

\* Steps that leave every occupant and team where they are.
SeatsKept ==
  /\ ships' \in [Slots -> Ship]
  /\ \A s \in Slots :
       /\ ships'[s].taken = ships[s].taken /\ ships'[s].team = ships[s].team
       /\ ships'[s].status = "EXPLODING" <=> ships'[s].explodeTicks > 0
       /\ ships'[s].status # "DEAD" => ships[s].status # "DEAD"

TickTypeOK ==
  /\ winPause' \in 0 .. WinPauseTicks
  /\ stage' \in {"idle", "inputs", "torpedoes", "plasmas", "systems", "deaths", "end"}
  /\ turn' \in Slots

LEMMA SmallerIsWithin ==
  ASSUME IInv, TorpsShrink, PlasmasShrink
  PROVE  WithinLimits'
<1> SUFFICES ASSUME NEW s \in Slots
             PROVE  /\ Cardinality(Entries(torps', s)) <= MaxTorps
                    /\ Cardinality(Entries(plasmas', s)) <= 1
  BY DEF WithinLimits
<1>1. Entries(torps', s) \subseteq Entries(torps, s)
  BY DEF TorpsShrink, Entries, IInv, TypeOK
<1>2. Entries(plasmas', s) \subseteq Entries(plasmas, s)
  BY DEF PlasmasShrink, Entries, IInv, TypeOK
<1>3. /\ Cardinality(Entries(torps', s)) <= Cardinality(Entries(torps, s))
      /\ Cardinality(Entries(torps', s)) \in Nat
      /\ Cardinality(Entries(plasmas', s)) <= Cardinality(Entries(plasmas, s))
      /\ Cardinality(Entries(plasmas', s)) \in Nat
  BY <1>1, <1>2, EntriesFinite, FS_Subset, FS_CardinalityType DEF IInv
<1>4. Cardinality(Entries(torps, s)) \in Nat /\ Cardinality(Entries(plasmas, s)) \in Nat
  BY EntriesFinite DEF IInv
<1> QED BY <1>3, <1>4, CombatAssumption DEF IInv, WithinLimits

\* A step that only takes from the pools and leaves the seats as they are
\* keeps the invariant.
LEMMA ShrinkKeeps ==
  ASSUME IInv, TorpsShrink, PlasmasShrink, SeatsKept, TickTypeOK
  PROVE  IInv'
<1>1. TypeOK'
  BY DEF TypeOK, TorpsShrink, PlasmasShrink, SeatsKept, TickTypeOK
<1>2. SeatedFly'
  BY DEF IInv, SeatedFly, SeatsKept
<1>3. TorpsHaveFirer'
  <2> SUFFICES ASSUME NEW i \in TorpPool, torps'[i] # Free
               PROVE  /\ ships'[torps'[i].owner].taken
                      /\ ships'[torps'[i].owner].team = torps'[i].team
                      /\ ~ torps'[i].old
    BY DEF TorpsHaveFirer
  <2>1. /\ torps[i] # Free /\ torps'[i].owner = torps[i].owner
        /\ torps'[i].team = torps[i].team /\ torps'[i].old = torps[i].old
    BY DEF TorpsShrink
  <2>2. torps[i].owner \in Slots
    BY <2>1 DEF IInv, TypeOK, Torp
  <2> QED BY <2>1, <2>2 DEF IInv, TorpsHaveFirer, SeatsKept
<1> QED BY <1>1, <1>2, <1>3, SmallerIsWithin DEF IInv

LEMMA UnchangedShrinks ==
  ASSUME TypeOK
  PROVE  /\ UNCHANGED torps => TorpsShrink
         /\ UNCHANGED plasmas => PlasmasShrink
         /\ UNCHANGED ships => SeatsKept
         /\ UNCHANGED winPause /\ UNCHANGED tick => TickTypeOK
BY DEF TypeOK, TorpsShrink, PlasmasShrink, SeatsKept, TickTypeOK, tick

LEMMA WithoutShrinks ==
  ASSUME TypeOK, NEW gone
  PROVE  /\ torps' = Without(torps, gone) => TorpsShrink
         /\ plasmas' = Without(plasmas, gone) => PlasmasShrink
         /\ torps' = Without(Moved(torps), gone) => TorpsShrink
         /\ plasmas' = Without(Moved(plasmas), gone) => PlasmasShrink
<1>1. torps \in [TorpPool -> Torp \cup {Free}] /\ plasmas \in [PlasmaPool -> Plasma \cup {Free}]
  BY DEF TypeOK
<1>2. ASSUME torps' = Without(torps, gone) PROVE TorpsShrink
  BY <1>1, <1>2 DEF Without, TorpsShrink
<1>3. ASSUME plasmas' = Without(plasmas, gone) PROVE PlasmasShrink
  BY <1>1, <1>3 DEF Without, PlasmasShrink
<1>4. ASSUME NEW i \in TorpPool, torps[i] # Free, torps[i].ticksRemaining # 1
      PROVE  [torps[i] EXCEPT !.ticksRemaining = @ - 1] \in Torp
  BY <1>1, <1>4, CombatAssumption DEF Torp
<1>5. ASSUME NEW i \in PlasmaPool, plasmas[i] # Free, plasmas[i].ticksRemaining # 1
      PROVE  [plasmas[i] EXCEPT !.ticksRemaining = @ - 1] \in Plasma
  BY <1>1, <1>5, CombatAssumption DEF Plasma
<1>6. ASSUME torps' = Without(Moved(torps), gone) PROVE TorpsShrink
  <2>1. torps' = [i \in TorpPool |->
                    IF i \in gone \/ torps[i] = Free \/ torps[i].ticksRemaining = 1 THEN Free
                    ELSE [torps[i] EXCEPT !.ticksRemaining = @ - 1]]
    BY <1>1, <1>6 DEF Without, Moved
  <2>2. torps' \in [TorpPool -> Torp \cup {Free}]
    BY <2>1, <1>4
  <2>3. ASSUME NEW i \in TorpPool, torps'[i] # Free
        PROVE  /\ torps[i] # Free
               /\ torps'[i].owner = torps[i].owner /\ torps'[i].team = torps[i].team
               /\ torps'[i].old = torps[i].old
    <3>1. torps[i] # Free /\ torps'[i] = [torps[i] EXCEPT !.ticksRemaining = @ - 1]
      BY <2>1, <2>3
    <3>2. torps[i] \in Torp
      BY <1>1, <3>1
    <3> QED BY <3>1, <3>2 DEF Torp
  <2> QED BY <2>2, <2>3 DEF TorpsShrink
<1>7. ASSUME plasmas' = Without(Moved(plasmas), gone) PROVE PlasmasShrink
  <2>1. plasmas' = [i \in PlasmaPool |->
                    IF i \in gone \/ plasmas[i] = Free \/ plasmas[i].ticksRemaining = 1 THEN Free
                    ELSE [plasmas[i] EXCEPT !.ticksRemaining = @ - 1]]
    BY <1>1, <1>7 DEF Without, Moved
  <2>2. plasmas' \in [PlasmaPool -> Plasma \cup {Free}]
    BY <2>1, <1>5
  <2>3. ASSUME NEW i \in PlasmaPool, plasmas'[i] # Free
        PROVE  plasmas[i] # Free /\ plasmas'[i].owner = plasmas[i].owner
    <3>1. plasmas[i] # Free /\ plasmas'[i] = [plasmas[i] EXCEPT !.ticksRemaining = @ - 1]
      BY <2>1, <2>3
    <3>2. plasmas[i] \in Plasma
      BY <1>1, <3>1
    <3> QED BY <3>1, <3>2 DEF Plasma
  <2> QED BY <2>2, <2>3 DEF PlasmasShrink
<1> QED BY <1>2, <1>3, <1>6, <1>7

-----------------------------------------------------------------------------
(* Handlers *)

LEMMA InitializedForm ==
  ASSUME NEW t \in Teams
  PROVE  /\ Initialized(t) \in Ship /\ Initialized(t).taken
         /\ Initialized(t).status = "ALIVE" /\ Initialized(t).explodeTicks = 0
<1>1. -1 \in -1 .. RespawnDelay /\ 0 \in 0 .. ExplosionTicks
  BY CombatAssumption
<1> QED BY <1>1 DEF Initialized, Ship

LEMMA ClearedForm ==
  ASSUME NEW ship \in Ship
  PROVE  /\ Cleared(ship) \in Ship /\ Cleared(ship).status = "DEAD"
         /\ Cleared(ship).explodeTicks = 0
<1>1. -1 \in -1 .. RespawnDelay /\ 0 \in 0 .. ExplosionTicks
  BY CombatAssumption
<1> QED BY <1>1 DEF Cleared, Ship

LEMMA InitInv == Init => IInv
<1> SUFFICES ASSUME Init PROVE IInv
  OBVIOUS
<1>1. PICK t \in Teams : ships = [s \in Slots |-> Cleared(Initialized(t))]
  BY DEF Init
<1>2. Cleared(Initialized(t)) \in Ship /\ Cleared(Initialized(t)).status = "DEAD"
      /\ Cleared(Initialized(t)).explodeTicks = 0
  BY InitializedForm, ClearedForm
<1>3. -1 \in -1 .. RespawnDelay /\ 0 \in 0 .. ExplosionTicks /\ 0 \in 0 .. WinPauseTicks /\ 0 \in Slots
  BY CombatAssumption DEF Slots
<1>4. TypeOK
  <2>1. ships \in [Slots -> Ship] /\ \A s \in Slots : ships[s].status = "DEAD" /\ ships[s].explodeTicks = 0
    BY <1>1, <1>2, <1>3 DEF Ship
  <2> QED BY <1>3, <2>1 DEF TypeOK, Init, NoTorps, NoPlasmas
<1>5. SeatedFly
  BY <1>1, <1>2 DEF SeatedFly
<1>6. TorpsHaveFirer
  BY DEF TorpsHaveFirer, Init, NoTorps
<1>7. \A s \in Slots : Entries(torps, s) = {} /\ Entries(plasmas, s) = {}
  BY DEF Init, NoTorps, NoPlasmas, Entries
<1>8. WithinLimits
  BY <1>7, FS_EmptySet, CombatAssumption DEF WithinLimits
<1> QED BY <1>4, <1>5, <1>6, <1>8 DEF IInv

\* A new life in a slot that has nothing in flight.
LEMMA InitShipKeeps ==
  ASSUME IInv, NEW s \in Slots, NEW t \in Teams, Entries(torps, s) = {}, InitShip(s, t)
  PROVE  IInv'
<1>1. UNCHANGED <<plasmas, winPause, tick>> /\ ships' = [ships EXCEPT ![s] = Initialized(t)]
  BY DEF InitShip
<1>2. ships \in [Slots -> Ship] /\ torps \in [TorpPool -> Torp \cup {Free}]
  BY DEF IInv, TypeOK
<1>3. UNCHANGED torps
  BY <1>2 DEF InitShip
<1>4. Initialized(t) \in Ship /\ Initialized(t).status = "ALIVE"
      /\ Initialized(t).explodeTicks = 0 /\ Initialized(t).taken
  BY InitializedForm
<1>5. TypeOK'
  BY <1>1, <1>2, <1>3, <1>4 DEF IInv, TypeOK, tick
<1>6. SeatedFly'
  BY <1>1, <1>2, <1>4 DEF IInv, SeatedFly
<1>7. TorpsHaveFirer'
  <2>1. ASSUME NEW i \in TorpPool, torps[i] # Free PROVE torps[i].owner # s /\ torps[i].owner \in Slots
    BY <1>2, <2>1 DEF Entries, Torp
  <2>2. \A k \in Slots : k # s => ships'[k] = ships[k]
    BY <1>1, <1>2
  <2> QED BY <1>3, <2>1, <2>2 DEF IInv, TorpsHaveFirer
<1>8. WithinLimits'
  BY <1>1, <1>3 DEF IInv, WithinLimits
<1> QED BY <1>5, <1>6, <1>7, <1>8 DEF IInv

LEMMA HandlerKeeps ==
  ASSUME IInv, NEW s \in Slots, Handler(s)
  PROVE  IInv'
<1>1. ships \in [Slots -> Ship] /\ torps \in [TorpPool -> Torp \cup {Free}]
  BY DEF IInv, TypeOK
<1>2. CASE \E t \in Teams : Join(s, t)
  <2>1. Entries(torps, s) = {}
    BY <1>1, <1>2 DEF Join, IInv, TorpsHaveFirer, Entries
  <2> QED BY <1>2, <2>1, InitShipKeeps DEF Join
<1>3. CASE Respawn(s)
  <2>1. ships[s].team \in Teams
    BY <1>1 DEF Ship
  <2> QED BY <1>3, <2>1, InitShipKeeps DEF Respawn, MayRespawn
<1>4. CASE Leave(s)
  <2>1. /\ ships' = [ships EXCEPT ![s] = Cleared(ships[s])]
        /\ torps' = Without(torps, Entries(torps, s))
        /\ UNCHANGED <<plasmas, winPause, tick>>
    BY <1>4 DEF Leave
  <2>2. ships[s].team \in Teams /\ ships[s] \in Ship
    BY <1>1 DEF Ship
  <2>3. Cleared(ships[s]) \in Ship /\ Cleared(ships[s]).status = "DEAD"
        /\ Cleared(ships[s]).explodeTicks = 0
    BY <2>2, ClearedForm
  <2>4. TorpsShrink /\ PlasmasShrink
    BY <2>1, UnchangedShrinks, WithoutShrinks DEF IInv
  <2>5. TypeOK'
    BY <1>1, <2>1, <2>3, <2>4 DEF IInv, TypeOK, TorpsShrink, tick
  <2>6. SeatedFly'
    BY <1>1, <2>1, <2>3 DEF IInv, SeatedFly
  <2>7. TorpsHaveFirer'
    <3> SUFFICES ASSUME NEW i \in TorpPool, torps'[i] # Free
                 PROVE  /\ ships'[torps'[i].owner].taken
                        /\ ships'[torps'[i].owner].team = torps'[i].team
                        /\ ~ torps'[i].old
      BY DEF TorpsHaveFirer
    <3>1. torps'[i] = torps[i] /\ torps[i] # Free /\ i \notin Entries(torps, s)
      BY <1>1, <2>1 DEF Without
    <3>2. torps[i].owner # s /\ torps[i].owner \in Slots
      BY <1>1, <3>1 DEF Entries, Torp
    <3>3. ships'[torps[i].owner] = ships[torps[i].owner]
      BY <1>1, <2>1, <3>2
    <3> QED BY <3>1, <3>3 DEF IInv, TorpsHaveFirer
  <2> QED BY <2>4, <2>5, <2>6, <2>7, SmallerIsWithin DEF IInv
<1> QED BY <1>2, <1>3, <1>4 DEF Handler

-----------------------------------------------------------------------------
(* Commands *)

LEMMA FireTorpKeeps ==
  ASSUME IInv, NEW s \in Slots, FireTorp(s)
  PROVE  IInv'
<1> DEFINE f == FirstFree(torps)
<1>1. /\ ships \in [Slots -> Ship] /\ torps \in [TorpPool -> Torp \cup {Free}]
      /\ UNCHANGED <<ships, plasmas, winPause, tick>>
  BY DEF IInv, TypeOK, FireTorp
<1>2. f \in TorpPool /\ torps[f] = Free
  <2>1. PICK i \in TorpPool : torps[i] = Free
    BY DEF FireTorp
  <2> QED BY <1>1, <2>1, FirstFreeIsFree, PoolSizes
<1>3. PICK life \in 1 .. TorpLife :
        torps' = [torps EXCEPT ![f] = [owner |-> s, team |-> ships[s].team,
                                       ticksRemaining |-> life, old |-> FALSE]]
  BY DEF FireTorp
<1> DEFINE new == [owner |-> s, team |-> ships[s].team, ticksRemaining |-> life, old |-> FALSE]
<1>4. new \in Torp /\ new # Free
  <2>1. ships[s].team \in Teams
    BY <1>1 DEF Ship
  <2>2. new \in Torp
    BY <2>1 DEF Torp
  <2> QED BY <2>2, CombatAssumption
<1> HIDE DEF f
<1>5. TypeOK'
  BY <1>1, <1>2, <1>3, <1>4 DEF IInv, TypeOK, tick
<1>6. SeatedFly'
  BY <1>1 DEF IInv, SeatedFly
<1>7. TorpsHaveFirer'
  <2>1. ships[s].taken
    BY DEF IInv, SeatedFly, FireTorp, Commands, Alive
  <2>2. \A i \in TorpPool : torps'[i] = IF i = f THEN new ELSE torps[i]
    BY <1>1, <1>2, <1>3
  <2> QED BY <1>1, <2>1, <2>2 DEF IInv, TorpsHaveFirer
<1>8. WithinLimits'
  <2> SUFFICES ASSUME NEW k \in Slots PROVE Cardinality(Entries(torps', k)) <= MaxTorps
    BY <1>1 DEF IInv, WithinLimits
  <2>1. CASE k # s
    <3>1. Entries(torps', k) = Entries(torps, k)
      BY <1>1, <1>2, <1>3, <2>1 DEF Entries
    <3> QED BY <3>1 DEF IInv, WithinLimits
  <2>2. CASE k = s
    <3>1. Entries(torps', s) = Entries(torps, s) \cup {f}
      BY <1>1, <1>2, <1>3, <1>4 DEF Entries
    <3>2. f \notin Entries(torps, s)
      BY <1>2 DEF Entries
    <3>3. Cardinality(Entries(torps', s)) = Cardinality(Entries(torps, s)) + 1
      BY <3>1, <3>2, EntriesFinite, FS_AddElement DEF IInv
    <3>4. Cardinality(Entries(torps, s)) \in Nat /\ Cardinality(Entries(torps, s)) < MaxTorps
      BY EntriesFinite DEF IInv, FireTorp
    <3> QED BY <2>2, <3>3, <3>4, CombatAssumption
  <2> QED BY <2>1, <2>2
<1> QED BY <1>5, <1>6, <1>7, <1>8 DEF IInv

LEMMA FirePlasmaKeeps ==
  ASSUME IInv, NEW s \in Slots, FirePlasma(s)
  PROVE  IInv'
<1> DEFINE f == FirstFree(plasmas)
           new == [owner |-> s, team |-> ships[s].team, ticksRemaining |-> PlasmaLife]
<1>1. /\ ships \in [Slots -> Ship] /\ plasmas \in [PlasmaPool -> Plasma \cup {Free}]
      /\ UNCHANGED <<ships, torps, winPause, tick>>
  BY DEF IInv, TypeOK, FirePlasma
<1>2. f \in PlasmaPool /\ plasmas[f] = Free
  <2>1. PICK i \in PlasmaPool : plasmas[i] = Free
    BY DEF FirePlasma
  <2> QED BY <1>1, <2>1, FirstFreeIsFree, PoolSizes
<1>3. plasmas' = [plasmas EXCEPT ![f] = new]
  BY DEF FirePlasma
<1>4. new \in Plasma /\ new # Free
  <2>1. ships[s].team \in Teams
    BY <1>1 DEF Ship
  <2> QED BY <2>1, CombatAssumption DEF Plasma
<1> HIDE DEF f
<1>5. TypeOK'
  BY <1>1, <1>2, <1>3, <1>4 DEF IInv, TypeOK, tick
<1>6. SeatedFly' /\ TorpsHaveFirer'
  BY <1>1 DEF IInv, SeatedFly, TorpsHaveFirer
<1>7. WithinLimits'
  <2> SUFFICES ASSUME NEW k \in Slots PROVE Cardinality(Entries(plasmas', k)) <= 1
    BY <1>1 DEF IInv, WithinLimits
  <2>1. CASE k # s
    <3>1. Entries(plasmas', k) = Entries(plasmas, k)
      BY <1>1, <1>2, <1>3, <2>1 DEF Entries
    <3> QED BY <3>1 DEF IInv, WithinLimits
  <2>2. CASE k = s
    <3>1. Entries(plasmas, s) = {}
      BY DEF FirePlasma
    <3>2. Entries(plasmas', s) = {f}
      BY <1>1, <1>2, <1>3, <1>4, <3>1 DEF Entries
    <3> QED BY <2>2, <3>2, FS_Singleton
  <2> QED BY <2>1, <2>2
<1> QED BY <1>5, <1>6, <1>7 DEF IInv

\* Damage moves nobody from his seat.
LEMMA StrikeKeepsSeats ==
  ASSUME TypeOK, NEW reach, Strike(reach)
  PROVE  SeatsKept
<1>1. PICK fatal : ships' = [v \in Slots |-> [ships[v] EXCEPT !.doomed = @ \/ v \in fatal]]
  BY DEF Strike
<1>2. ships \in [Slots -> Ship] /\ \A s \in Slots : ships[s].status = "EXPLODING" <=> ships[s].explodeTicks > 0
  BY DEF TypeOK
<1>3. ASSUME NEW v \in Slots
      PROVE  /\ ships'[v] \in Ship /\ ships'[v].taken = ships[v].taken
             /\ ships'[v].team = ships[v].team /\ ships'[v].status = ships[v].status
             /\ ships'[v].explodeTicks = ships[v].explodeTicks
  <2>1. PICK b \in BOOLEAN : b <=> (ships[v].doomed \/ v \in fatal)
    OBVIOUS
  <2>2. ships'[v] = [ships[v] EXCEPT !.doomed = b]
    BY <1>1, <2>1
  <2> QED BY <1>2, <2>2 DEF Ship
<1> QED BY <1>1, <1>2, <1>3 DEF SeatsKept

LEMMA CommandKeeps ==
  ASSUME IInv, NEW s \in Slots, Command(s)
  PROVE  IInv'
<1>1. CASE FireTorp(s)
  BY <1>1, FireTorpKeeps
<1>2. CASE FirePlasma(s)
  BY <1>2, FirePlasmaKeeps
<1>3. CASE FirePhaser(s)
  <2>1. SeatsKept /\ PlasmasShrink /\ TorpsShrink /\ TickTypeOK
    BY <1>3, StrikeKeepsSeats, WithoutShrinks, UnchangedShrinks DEF FirePhaser, IInv
  <2> QED BY <2>1, ShrinkKeeps
<1>4. CASE Detonate(s)
  <2>1. SeatsKept /\ PlasmasShrink /\ TorpsShrink /\ TickTypeOK
    BY <1>4, StrikeKeepsSeats, WithoutShrinks, UnchangedShrinks DEF Detonate, IInv
  <2> QED BY <2>1, ShrinkKeeps
<1>5. CASE DetonateSelf(s)
  <2>1. SeatsKept /\ PlasmasShrink /\ TorpsShrink /\ TickTypeOK
    BY <1>5, WithoutShrinks, UnchangedShrinks DEF DetonateSelf, IInv
  <2> QED BY <2>1, ShrinkKeeps
<1> QED BY <1>1, <1>2, <1>3, <1>4, <1>5 DEF Command

-----------------------------------------------------------------------------
(* The tick *)

LEMMA BurntForm ==
  ASSUME NEW ship \in Ship, ship.status = "EXPLODING" <=> ship.explodeTicks > 0
  PROVE  /\ Aged(ship) \in Ship /\ Aged(Burnt(ship)) \in Ship
         /\ \A new \in {Aged(ship), Aged(Burnt(ship))} :
              /\ new.taken = ship.taken /\ new.team = ship.team
              /\ new.status = "EXPLODING" <=> new.explodeTicks > 0
              /\ new.status # "DEAD" => ship.status # "DEAD"
<1>1. ASSUME NEW old \in Ship
      PROVE  /\ Aged(old) \in Ship /\ Aged(old).taken = old.taken /\ Aged(old).team = old.team
             /\ Aged(old).status = old.status /\ Aged(old).explodeTicks = old.explodeTicks
  <2>1. CASE old.sinceDeath \in 0 .. RespawnDelay - 1
    <3>1. old.sinceDeath + 1 \in -1 .. RespawnDelay
      BY <2>1, CombatAssumption
    <3> QED BY <2>1, <3>1 DEF Aged, Ship
  <2>2. CASE old.sinceDeath \notin 0 .. RespawnDelay - 1
    BY <2>2 DEF Aged
  <2> QED BY <2>1, <2>2
<1>2. /\ Burnt(ship) \in Ship /\ Burnt(ship).taken = ship.taken /\ Burnt(ship).team = ship.team
      /\ Burnt(ship).status = "EXPLODING" <=> Burnt(ship).explodeTicks > 0
      /\ Burnt(ship).status # "DEAD" => ship.status # "DEAD"
  <2>1. CASE ship.status # "EXPLODING"
    BY <2>1 DEF Burnt
  <2>2. CASE ship.status = "EXPLODING" /\ ship.explodeTicks = 1
    <3>1. 0 \in -1 .. RespawnDelay /\ 0 \in 0 .. ExplosionTicks
      BY CombatAssumption
    <3>2. Burnt(ship) = [ship EXCEPT !.status = "DEAD", !.explodeTicks = 0, !.sinceDeath = 0]
      BY <2>2 DEF Burnt
    <3>3. Burnt(ship) \in Ship
      BY <3>1, <3>2 DEF Ship
    <3>4. /\ Burnt(ship).taken = ship.taken /\ Burnt(ship).team = ship.team
          /\ Burnt(ship).status = "DEAD" /\ Burnt(ship).explodeTicks = 0
      BY <3>2 DEF Ship
    <3> QED BY <3>3, <3>4
  <2>3. CASE ship.status = "EXPLODING" /\ ship.explodeTicks # 1
    <3>1. ship.explodeTicks \in 0 .. ExplosionTicks /\ ship.explodeTicks > 0
      BY <2>3 DEF Ship
    <3>2. ship.explodeTicks - 1 \in 0 .. ExplosionTicks /\ ship.explodeTicks - 1 > 0
      BY <2>3, <3>1, CombatAssumption
    <3>3. Burnt(ship) = [ship EXCEPT !.explodeTicks = ship.explodeTicks - 1]
      BY <2>3 DEF Burnt
    <3> QED BY <2>3, <3>2, <3>3 DEF Ship
  <2> QED BY <2>1, <2>2, <2>3
<1> QED BY <1>1, <1>2

LEMMA DeathsKeepSeats ==
  ASSUME TypeOK, NEW s \in Slots, Dies(s) \/ Survives(s)
  PROVE  SeatsKept
<1>1. ships \in [Slots -> Ship] /\ \A v \in Slots : ships[v].status = "EXPLODING" <=> ships[v].explodeTicks > 0
  BY DEF TypeOK
<1>2. CASE Survives(s)
  BY <1>2, UnchangedShrinks DEF Survives
<1>3. CASE Dies(s)
  <2>1. PICK fatal \in SUBSET {v \in Slots : Alive(v) /\ v # s} :
          ships' = [v \in Slots |-> IF v = s THEN Exploded(ships[s])
                                    ELSE [ships[v] EXCEPT !.doomed = @ \/ v \in fatal]]
    BY <1>3 DEF Dies
  <2>2. ships[s] \in Ship /\ ships[s].status = "ALIVE"
        /\ ExplosionTicks \in 0 .. ExplosionTicks /\ ExplosionTicks > 0
    BY <1>1, <1>3, CombatAssumption DEF Dies, Alive
  <2>3. /\ Exploded(ships[s]) \in Ship /\ Exploded(ships[s]).status = "EXPLODING"
        /\ Exploded(ships[s]).explodeTicks = ExplosionTicks
        /\ Exploded(ships[s]).taken = ships[s].taken /\ Exploded(ships[s]).team = ships[s].team
    BY <2>2 DEF Exploded, Ship
  <2>4. ASSUME NEW v \in Slots, v # s
        PROVE  /\ ships'[v] \in Ship /\ ships'[v].taken = ships[v].taken
               /\ ships'[v].team = ships[v].team /\ ships'[v].status = ships[v].status
               /\ ships'[v].explodeTicks = ships[v].explodeTicks
    <3>1. PICK b \in BOOLEAN : b <=> (ships[v].doomed \/ v \in fatal)
      OBVIOUS
    <3>2. ships'[v] = [ships[v] EXCEPT !.doomed = b]
      BY <2>1, <2>4, <3>1
    <3> QED BY <1>1, <3>2 DEF Ship
  <2>5. ships'[s] = Exploded(ships[s])
    BY <2>1
  <2>6. ASSUME NEW v \in Slots
        PROVE  /\ ships'[v] \in Ship
               /\ ships'[v].taken = ships[v].taken /\ ships'[v].team = ships[v].team
               /\ ships'[v].status = "EXPLODING" <=> ships'[v].explodeTicks > 0
               /\ ships'[v].status # "DEAD" => ships[v].status # "DEAD"
    BY <1>1, <2>2, <2>3, <2>4, <2>5
  <2>7. ships' \in [Slots -> Ship]
    BY <2>1, <2>6
  <2> QED BY <2>6, <2>7 DEF SeatsKept
<1> QED BY <1>2, <1>3

LEMMA NextTurnType ==
  ASSUME turn \in Slots, NEW last, NEW then, NextTurn(last, then)
  PROVE  turn' \in Slots /\ stage' \in {last, then}
BY CombatAssumption DEF NextTurn, Slots

LEMMA TickKeeps ==
  ASSUME IInv, Tick
  PROVE  IInv'
<1>1. TypeOK /\ 0 \in Slots /\ turn \in Slots
  BY CombatAssumption DEF IInv, TypeOK, Slots
<1>2. CASE StartTick
  <2>1. TickTypeOK /\ SeatsKept /\ TorpsShrink /\ PlasmasShrink
    BY <1>1, <1>2, UnchangedShrinks DEF StartTick, TickTypeOK, TypeOK
  <2> QED BY <2>1, ShrinkKeeps
<1>3. CASE EndInputs
  <2>1. turn' \in Slots /\ stage' \in {"inputs", "torpedoes"}
    BY <1>1, <1>3, NextTurnType DEF EndInputs
  <2>2. TickTypeOK /\ SeatsKept /\ TorpsShrink /\ PlasmasShrink
    BY <1>1, <1>3, <2>1, UnchangedShrinks DEF EndInputs, TickTypeOK, TypeOK
  <2> QED BY <2>2, ShrinkKeeps
<1>4. CASE UpdateTorpedoes
  <2>1. TorpsShrink /\ PlasmasShrink
    BY <1>1, <1>4, WithoutShrinks DEF UpdateTorpedoes
  <2>2. SeatsKept
    BY <1>1, <1>4, StrikeKeepsSeats DEF UpdateTorpedoes
  <2>3. TickTypeOK
    BY <1>1, <1>4 DEF UpdateTorpedoes, TickTypeOK, TypeOK
  <2> QED BY <2>1, <2>2, <2>3, ShrinkKeeps
<1>5. CASE UpdatePlasmas
  <2>1. PlasmasShrink
    BY <1>1, <1>5, WithoutShrinks DEF UpdatePlasmas
  <2>2. SeatsKept
    BY <1>1, <1>5, StrikeKeepsSeats DEF UpdatePlasmas
  <2>3. TickTypeOK /\ TorpsShrink
    BY <1>1, <1>5, UnchangedShrinks DEF UpdatePlasmas, TickTypeOK, TypeOK
  <2> QED BY <2>1, <2>2, <2>3, ShrinkKeeps
<1>6. CASE UpdateSystems
  <2>1. PICK doomed : ships' = [s \in Slots |-> [ships[s] EXCEPT !.doomed = s \in doomed]]
    BY <1>6 DEF UpdateSystems
  <2>2. ships \in [Slots -> Ship] /\ \A s \in Slots : ships[s].status = "EXPLODING" <=> ships[s].explodeTicks > 0
    BY <1>1 DEF TypeOK
  <2>3. ASSUME NEW s \in Slots
        PROVE  /\ ships'[s] \in Ship /\ ships'[s].taken = ships[s].taken
               /\ ships'[s].team = ships[s].team /\ ships'[s].status = ships[s].status
               /\ ships'[s].explodeTicks = ships[s].explodeTicks
    <3>1. PICK b \in BOOLEAN : b <=> s \in doomed
      OBVIOUS
    <3>2. ships'[s] = [ships[s] EXCEPT !.doomed = b]
      BY <2>1, <3>1
    <3> QED BY <2>2, <3>2 DEF Ship
  <2>4. SeatsKept
    BY <2>1, <2>2, <2>3 DEF SeatsKept
  <2>5. TickTypeOK /\ TorpsShrink /\ PlasmasShrink
    BY <1>1, <1>6, UnchangedShrinks DEF UpdateSystems, TickTypeOK, TypeOK
  <2> QED BY <2>4, <2>5, ShrinkKeeps
<1>7. CASE CheckDeaths
  <2>1. SeatsKept
    BY <1>1, <1>7, DeathsKeepSeats DEF CheckDeaths
  <2>2. turn' \in Slots /\ stage' \in {"deaths", "end"}
    BY <1>1, <1>7, NextTurnType DEF CheckDeaths
  <2>3. TickTypeOK /\ TorpsShrink /\ PlasmasShrink
    BY <1>1, <1>7, <2>2, UnchangedShrinks DEF CheckDeaths, TickTypeOK, TypeOK
  <2> QED BY <2>1, <2>3, ShrinkKeeps
<1>8. CASE FinishTick
  <2>1. ships' = [s \in Slots |-> Aged(Burnt(ships[s]))]
    BY <1>8 DEF FinishTick
  <2>2. SeatsKept
    BY <1>1, <2>1, BurntForm DEF SeatsKept, TypeOK
  <2>3. TickTypeOK /\ TorpsShrink /\ PlasmasShrink
    BY <1>1, <1>8, UnchangedShrinks, CombatAssumption DEF FinishTick, TickTypeOK, TypeOK
  <2> QED BY <2>2, <2>3, ShrinkKeeps
<1>9. CASE PauseTick
  <2>1. ships' = [s \in Slots |-> Aged(ships[s])]
    BY <1>9 DEF PauseTick
  <2>2. SeatsKept
    BY <1>1, <2>1, BurntForm DEF SeatsKept, TypeOK
  <2>3. TickTypeOK /\ TorpsShrink /\ PlasmasShrink
    BY <1>1, <1>9, UnchangedShrinks, CombatAssumption DEF PauseTick, TickTypeOK, TypeOK, tick
  <2> QED BY <2>2, <2>3, ShrinkKeeps
<1>10. CASE ResetTick
  <2>1. PICK seats \in [Slots -> UNION {Reseated(ships[s]) : s \in Slots}] :
          ships' = seats /\ \A s \in Slots : seats[s] \in Reseated(ships[s])
    BY <1>10 DEF ResetTick
  <2>2. \A s \in Slots : ships[s] \in Ship
    BY <1>1 DEF TypeOK
  <2>3. ASSUME NEW s \in Slots
        PROVE  /\ ships'[s] \in Ship /\ ships'[s].explodeTicks = 0
               /\ ships'[s].status # "EXPLODING"
               /\ ships'[s].taken \/ ships'[s].status = "DEAD"
    <3>1. ships'[s] \in Reseated(ships[s])
      BY <2>1
    <3>2. ships[s] \in Ship
      BY <2>2
    <3>3. CASE \E b \in BOOLEAN : ships'[s] = [Cleared(ships[s]) EXCEPT !.taken = b]
      <4>1. PICK b \in BOOLEAN : ships'[s] = [Cleared(ships[s]) EXCEPT !.taken = b]
        BY <3>3
      <4>2. /\ Cleared(ships[s]) \in Ship /\ Cleared(ships[s]).explodeTicks = 0
            /\ Cleared(ships[s]).status = "DEAD"
        BY <3>2, ClearedForm
      <4> QED BY <4>1, <4>2 DEF Ship
    <3>4. CASE \E t \in Teams : ships'[s] = Initialized(t)
      BY <3>4, InitializedForm
    <3> QED BY <3>1, <3>3, <3>4 DEF Reseated
  <2>4. torps' = NoTorps /\ plasmas' = NoPlasmas /\ winPause' = 0 /\ UNCHANGED tick
    BY <1>10 DEF ResetTick
  <2>5. TypeOK'
    <3>1. ships' \in [Slots -> Ship]
      BY <2>1, <2>3
    <3>2. \A s \in Slots : ships'[s].status = "EXPLODING" <=> ships'[s].explodeTicks > 0
      BY <2>3
    <3>3. 0 \in 0 .. WinPauseTicks
      BY CombatAssumption
    <3> QED BY <1>1, <2>4, <3>1, <3>2, <3>3 DEF TypeOK, NoTorps, NoPlasmas, tick
  <2>6. SeatedFly'
    BY <2>3 DEF SeatedFly
  <2>7. TorpsShrink /\ PlasmasShrink /\ TorpsHaveFirer'
    BY <2>4 DEF TorpsShrink, PlasmasShrink, TorpsHaveFirer, NoTorps, NoPlasmas
  <2> QED BY <2>5, <2>6, <2>7, SmallerIsWithin DEF IInv
<1> QED BY <1>2, <1>3, <1>4, <1>5, <1>6, <1>7, <1>8, <1>9, <1>10 DEF Tick

LEMMA StepInv == IInv /\ [Next]_vars => IInv'
<1> SUFFICES ASSUME IInv, [Next]_vars PROVE IInv'
  OBVIOUS
<1>1. CASE UNCHANGED vars
  <2>1. SeatsKept /\ TorpsShrink /\ PlasmasShrink /\ TickTypeOK
    BY <1>1, UnchangedShrinks DEF vars, IInv
  <2> QED BY <2>1, ShrinkKeeps
<1>2. CASE Next
  BY <1>2, HandlerKeeps, CommandKeeps, TickKeeps DEF Next
<1> QED BY <1>1, <1>2

THEOREM Invariance == Spec => []IInv
BY InitInv, StepInv, PTL DEF Spec

-----------------------------------------------------------------------------
(* The pools suffice *)

\* The pool of plasmas has an entry for each slot: if all are in use and
\* nobody has two, everybody has one.
LEMMA PlasmasSuffice ==
  ASSUME IInv, NEW s \in Slots, Entries(plasmas, s) = {}
  PROVE  \E i \in PlasmaPool : plasmas[i] = Free
<1> SUFFICES ASSUME \A i \in PlasmaPool : plasmas[i] # Free PROVE FALSE
  OBVIOUS
<1>1. plasmas \in [PlasmaPool -> Plasma \cup {Free}]
  BY DEF IInv, TypeOK
<1> DEFINE owner == [i \in PlasmaPool |-> plasmas[i].owner]
           others == Slots \ {s}
<1>2. \A i \in PlasmaPool : plasmas[i].owner \in others
  BY <1>1 DEF Entries, Plasma
<1>3. owner \in [PlasmaPool -> others]
  BY <1>2
<1>4. IsFiniteSet(Slots) /\ Cardinality(Slots) = NumSlots /\ NumSlots \in Nat
  BY PoolSizes, CombatAssumption DEF PlasmaPool
<1>5. IsFiniteSet(others) /\ Cardinality(others) = NumSlots - 1
  BY <1>4, FS_RemoveElement
<1>6. PICK i, j \in PlasmaPool : i # j /\ owner[i] = owner[j]
  <2>1. Cardinality(PlasmaPool) = NumSlots /\ IsFiniteSet(PlasmaPool)
    BY <1>4 DEF PlasmaPool
  <2> HIDE DEF owner, others
  <2>2. Cardinality(others) < Cardinality(PlasmaPool)
    BY <1>4, <1>5, <2>1
  <2> QED BY <1>3, <1>5, <2>1, <2>2, FS_PigeonHole
<1> DEFINE k == plasmas[i].owner
           E == Entries(plasmas, k)
<1>7. k \in Slots /\ i \in E /\ j \in E /\ i # j
  BY <1>1, <1>2, <1>6 DEF Entries
<1> HIDE DEF k, E
<1>8. Cardinality(E) \in Nat /\ Cardinality(E) <= 1 /\ IsFiniteSet(E)
  BY <1>7, EntriesFinite DEF E, IInv, WithinLimits
<1>9. Cardinality(E) # 0
  BY <1>7, <1>8, FS_EmptySet
<1>10. \E x : E = {x}
  BY <1>8, <1>9, FS_Singleton
<1> QED BY <1>7, <1>10

\* Who has few enough torpedoes can count them below the limit.
LEMMA Numbering ==
  ASSUME TypeOK, NEW k, NEW n \in Nat, Cardinality(Entries(torps, k)) <= n
  PROVE  \E f \in [Entries(torps, k) -> 1 .. n] :
           \A i, j \in Entries(torps, k) : f[i] = f[j] => i = j
<1> DEFINE E == Entries(torps, k)
           c == Cardinality(E)
<1>1. IsFiniteSet(E) /\ c \in Nat /\ c <= n
  BY EntriesFinite
<1> HIDE DEF E
<1>2. IsFiniteSet(1 .. c) /\ Cardinality(1 .. c) = c
  BY <1>1, FS_Interval
<1>3. ExistsBijection(E, 1 .. c)
  BY <1>1, <1>2, FS_SameCardinalityBij
<1>4. PICK f : f \in Bijection(E, 1 .. c)
  BY <1>3 DEF ExistsBijection
<1>5. f \in [E -> 1 .. c] /\ \A i, j \in E : f[i] = f[j] => i = j
  BY <1>4 DEF Bijection, Injection, IsInjective
<1>6. 1 .. c \subseteq 1 .. n
  BY <1>1
<1>7. f \in [E -> 1 .. n]
  BY <1>5, <1>6
<1> QED BY <1>5, <1>7 DEF E

\* The pool of torpedoes has MaxTorps entries for each slot: if all are in
\* use and nobody has more than MaxTorps, nobody has less.  Owner and number
\* give each torpedo in flight a place of its own among NumSlots * MaxTorps,
\* and a slot with less leaves its last place empty.
LEMMA TorpsSuffice ==
  ASSUME IInv, NEW s \in Slots, Cardinality(Entries(torps, s)) < MaxTorps
  PROVE  \E i \in TorpPool : torps[i] = Free
<1> SUFFICES ASSUME \A i \in TorpPool : torps[i] # Free PROVE FALSE
  OBVIOUS
<1>1. /\ torps \in [TorpPool -> Torp \cup {Free}] /\ TypeOK
      /\ NumSlots \in Nat /\ MaxTorps \in Nat /\ MaxTorps > 0
  BY CombatAssumption DEF IInv, TypeOK
<1> DEFINE Limit(k) == IF k = s THEN MaxTorps - 1 ELSE MaxTorps
           Good(k, f) == /\ f \in [Entries(torps, k) -> 1 .. Limit(k)]
                         /\ \A i, j \in Entries(torps, k) : f[i] = f[j] => i = j
           number == [k \in Slots |-> CHOOSE f : Good(k, f)]
           place == [i \in TorpPool |-> <<torps[i].owner, number[torps[i].owner][i]>>]
           places == (Slots \X (1 .. MaxTorps)) \ {<<s, MaxTorps>>}
<1>2. ASSUME NEW k \in Slots PROVE Good(k, number[k])
  <2>1. Limit(k) \in Nat /\ Cardinality(Entries(torps, k)) <= Limit(k)
    <3>1. Cardinality(Entries(torps, k)) \in Nat /\ Cardinality(Entries(torps, k)) <= MaxTorps
      BY EntriesFinite, <1>1 DEF IInv, WithinLimits
    <3>2. Cardinality(Entries(torps, s)) \in Nat
      BY EntriesFinite, <1>1
    <3> QED BY <1>1, <3>1, <3>2
  <2> HIDE DEF Limit
  <2>2. \E f \in [Entries(torps, k) -> 1 .. Limit(k)] :
          \A i, j \in Entries(torps, k) : f[i] = f[j] => i = j
    BY <1>1, <2>1, Numbering
  <2>3. \E f : Good(k, f)
    BY <2>2
  <2> HIDE DEF Good
  <2> QED BY <2>3
<1>3. ASSUME NEW i \in TorpPool
      PROVE  /\ torps[i].owner \in Slots /\ i \in Entries(torps, torps[i].owner)
             /\ number[torps[i].owner][i] \in 1 .. Limit(torps[i].owner)
  <2>1. torps[i].owner \in Slots /\ i \in Entries(torps, torps[i].owner)
    BY <1>1 DEF Entries, Torp
  <2>2. Good(torps[i].owner, number[torps[i].owner])
    BY <1>2, <2>1
  <2> HIDE DEF number, Limit
  <2> QED BY <2>1, <2>2
<1>4. place \in [TorpPool -> places]
  <2> SUFFICES ASSUME NEW i \in TorpPool PROVE place[i] \in places
    OBVIOUS
  <2> HIDE DEF number
  <2> QED BY <1>1, <1>3
<1>5. IsFiniteSet(places) /\ Cardinality(places) = NumSlots * MaxTorps - 1
  <2>1. IsFiniteSet(Slots) /\ Cardinality(Slots) = NumSlots
    BY PoolSizes DEF PlasmaPool
  <2>2. IsFiniteSet(1 .. MaxTorps) /\ Cardinality(1 .. MaxTorps) = MaxTorps
    BY <1>1, FS_Interval
  <2>3. IsFiniteSet(Slots \X (1 .. MaxTorps))
        /\ Cardinality(Slots \X (1 .. MaxTorps)) = NumSlots * MaxTorps
    BY <2>1, <2>2, FS_Product
  <2>4. <<s, MaxTorps>> \in Slots \X (1 .. MaxTorps)
    BY <1>1
  <2> DEFINE all == Slots \X (1 .. MaxTorps)
             last == <<s, MaxTorps>>
  <2>5. places = all \ {last}
    OBVIOUS
  <2>6. IsFiniteSet(all) /\ Cardinality(all) = NumSlots * MaxTorps /\ last \in all
    BY <2>3, <2>4
  <2> HIDE DEF places, all, last
  <2>7. /\ IsFiniteSet(all \ {last})
        /\ Cardinality(all \ {last}) = Cardinality(all) - 1
    BY <2>6, FS_RemoveElement
  <2> QED BY <2>5, <2>6, <2>7
<1>6. Cardinality(places) < Cardinality(TorpPool) /\ IsFiniteSet(TorpPool)
  <2>1. NumSlots * MaxTorps \in Nat
    BY <1>1
  <2> QED BY <1>5, <2>1, PoolSizes
<1>7. PICK i, j \in TorpPool : i # j /\ place[i] = place[j]
  <2> HIDE DEF place, places
  <2> QED BY <1>4, <1>5, <1>6, FS_PigeonHole
<1>8. torps[i].owner = torps[j].owner
      /\ number[torps[i].owner][i] = number[torps[i].owner][j]
  <2> HIDE DEF number
  <2> QED BY <1>7
<1>9. Good(torps[i].owner, number[torps[i].owner])
  BY <1>2, <1>3
<1> QED
  <2> HIDE DEF number, Limit
  <2> QED BY <1>3, <1>7, <1>8, <1>9

-----------------------------------------------------------------------------
(* The chain of explosions *)

\* Behind the turn of checkDeaths a ship is doomed only by one further on that
\* exploded since: the pass so far, and when it is over all of it.  A pass
\* begins with the first slot.
Explained(s) ==
  Alive(s) /\ ships[s].doomed =>
    \E k \in Slots : k > s /\ ships[k].explodeTicks = ExplosionTicks

PassExplained ==
  /\ stage \in {"inputs", "deaths"} \/ turn = 0
  /\ stage = "deaths" => \A s \in Slots : s < turn => Explained(s)
  /\ stage = "end" => \A s \in Slots : Explained(s)

\* Outside the pass nothing is claimed of the ships.
LEMMA OutsideThePass ==
  ASSUME PassExplained, stage' \notin {"deaths", "end"},
         turn' = 0 \/ stage' = "inputs" \/ (turn' = turn /\ stage # "inputs" /\ stage # "deaths")
  PROVE  PassExplained'
BY DEF PassExplained

\* One iteration: whoever explodes in it explains all before it.
LEMMA IterationExplains ==
  ASSUME IInv, PassExplained, CheckDeaths
  PROVE  PassExplained'
<1>1. /\ ships \in [Slots -> Ship] /\ turn \in Slots /\ Slots \subseteq Nat
      /\ \A s \in Slots : ships[s].status = "EXPLODING" <=> ships[s].explodeTicks > 0
      /\ NumSlots \in Nat /\ NumSlots > 0 /\ ExplosionTicks \in Nat /\ ExplosionTicks > 0
  BY CombatAssumption DEF IInv, TypeOK, Slots
<1>2. ASSUME NEW s \in Slots, s <= turn
      PROVE  Explained(s)'
  <2> SUFFICES ASSUME ships'[s].status = "ALIVE", ships'[s].doomed
               PROVE  \E k \in Slots : k > s /\ ships'[k].explodeTicks = ExplosionTicks
    BY DEF Explained, Alive
  <2>1. CASE Survives(turn)
    <3>1. UNCHANGED ships /\ s # turn
      BY <2>1 DEF Survives, Alive
    <3>2. s < turn
      BY <1>1, <1>2, <3>1
    <3> QED BY <3>1, <3>2 DEF PassExplained, Explained, Alive, CheckDeaths
  <2>2. CASE Dies(turn)
    <3>1. ships'[turn] = Exploded(ships[turn])
      BY <1>1, <2>2 DEF Dies
    <3>2. ships'[turn].status = "EXPLODING" /\ ships'[turn].explodeTicks = ExplosionTicks
      BY <1>1, <3>1 DEF Exploded, Ship
    <3>3. s < turn
      BY <1>1, <1>2, <3>2
    <3> QED BY <1>1, <3>2, <3>3
  <2> QED BY <2>1, <2>2 DEF CheckDeaths
<1>3. CASE turn < NumSlots - 1
  <2>1. turn' = turn + 1 /\ stage' = "deaths"
    BY <1>3 DEF CheckDeaths, NextTurn
  <2>2. \A s \in Slots : s < turn' => s <= turn
    BY <1>1, <2>1
  <2> QED BY <1>2, <2>1, <2>2 DEF PassExplained
<1>4. CASE ~ (turn < NumSlots - 1)
  <2>1. stage' = "end" /\ turn' = 0
    BY <1>4 DEF CheckDeaths, NextTurn
  <2>2. \A s \in Slots : s <= turn
    BY <1>1, <1>4 DEF Slots
  <2> QED BY <1>2, <2>1, <2>2 DEF PassExplained
<1> QED BY <1>3, <1>4

LEMMA StepExplains == IInv /\ PassExplained /\ [Next]_vars => PassExplained'
<1> SUFFICES ASSUME IInv, PassExplained, [Next]_vars PROVE PassExplained'
  OBVIOUS
<1>1. CASE UNCHANGED vars
  <2>1. ships' = ships /\ stage' = stage /\ turn' = turn
    BY <1>1 DEF vars, tick
  <2>2. ASSUME NEW s \in Slots, Explained(s) PROVE Explained(s)'
    BY <2>1, <2>2 DEF Explained, Alive
  <2> QED BY <2>1, <2>2 DEF PassExplained
<1>2. ASSUME NEW s \in Slots, Handler(s) PROVE PassExplained'
  <2>1. stage = "idle" /\ stage' = stage /\ turn' = turn
    BY <1>2 DEF Handler, Join, Leave, Respawn, InitShip, tick
  <2> QED BY <2>1, OutsideThePass
<1>3. ASSUME NEW s \in Slots, Command(s) PROVE PassExplained'
  <2>1. stage = "inputs" /\ stage' = stage
    BY <1>3 DEF Command, Commands, FireTorp, FirePlasma, FirePhaser, Detonate, DetonateSelf, tick
  <2> QED BY <2>1, OutsideThePass
<1>4. CASE StartTick \/ EndInputs \/ UpdateTorpedoes \/ UpdatePlasmas \/ FinishTick
  <2>1. /\ stage' \notin {"deaths", "end"}
        /\ turn' = 0 \/ stage' = "inputs" \/ (turn' = turn /\ stage # "inputs" /\ stage # "deaths")
    BY <1>4 DEF StartTick, EndInputs, NextTurn, UpdateTorpedoes, UpdatePlasmas, FinishTick
  <2> QED BY <2>1, OutsideThePass
<1>5. CASE PauseTick \/ ResetTick
  <2>1. stage = "idle" /\ stage' = stage /\ turn' = turn
    BY <1>5 DEF PauseTick, ResetTick, tick
  <2> QED BY <2>1, OutsideThePass
<1>6. CASE UpdateSystems
  <2>1. stage' = "deaths" /\ turn' = 0
    BY <1>6 DEF UpdateSystems, PassExplained
  <2>2. \A s \in Slots : ~ (s < turn')
    BY <2>1, CombatAssumption DEF Slots
  <2> QED BY <2>1, <2>2 DEF PassExplained
<1>7. CASE CheckDeaths
  BY <1>7, IterationExplains
<1> QED BY <1>1, <1>2, <1>3, <1>4, <1>5, <1>6, <1>7 DEF Next, Tick

-----------------------------------------------------------------------------
(* The results *)

\* Every reachable state of Combat is well typed, and a ship explodes exactly
\* as long as its explosion has ticks left.
THEOREM TypeCorrect == Spec => []TypeOK
<1>1. IInv => TypeOK
  BY DEF IInv
<1> QED BY <1>1, Invariance, PTL

\* Through leaves, joins, respawns and resets no torpedo is left to another
\* occupant, another team or another life.
THEOREM FirerRight == Spec => []TorpsHaveFirer
<1>1. IInv => TorpsHaveFirer
  BY DEF IInv
<1> QED BY <1>1, Invariance, PTL

\* The limits hold, and with MAX_TORPS = MAX_PLAYERS * MAX_TORPS_PER_PLAYER
\* and MAX_PLASMAS = MAX_PLAYERS the pools never run out before them.
THEOREM LimitsHold == Spec => []ArmsWithinLimits
<1>1. IInv => ArmsWithinLimits
  BY PlasmasSuffice, TorpsSuffice DEF IInv, WithinLimits, ArmsWithinLimits
<1> QED BY <1>1, Invariance, PTL

\* A doomed ship outlives a tick only behind a later explosion of that tick.
THEOREM ChainEnds == Spec => ChainEndsNextTick
<1> DEFINE Chain == stage = "end" =>
                      \A s \in Slots : Alive(s) /\ ships[s].doomed =>
                        \E k \in Slots : k > s /\ ships[k].explodeTicks = ExplosionTicks
<1>1. Init => PassExplained
  BY DEF Init, PassExplained
<1>2. PassExplained => Chain
  BY DEF PassExplained, Explained
<1> HIDE DEF Chain
<1>3. Spec => [][Chain]_vars
  BY <1>1, <1>2, StepExplains, Invariance, PTL DEF Spec
<1> QED BY <1>3 DEF Chain, ChainEndsNextTick
=============================================================================
