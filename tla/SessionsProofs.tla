--------------------------- MODULE SessionsProofs ---------------------------
(***************************************************************************)
(* Proofs about Sessions for every number of users, sockets and slots and  *)
(* every bot configuration.                                                *)
(*                                                                         *)
(* The bot manager's methods are chains of SpawnBot and RemoveBot.  The    *)
(* first part proves once that such a chain is Safe: it yields a           *)
(* population again, it never puts a userId in a slot and it leaves no     *)
(* bot-marked ship without a brain, and that it is Tidy: it grounds no bot *)
(* and takes no ship from a user.  The second part uses that in the        *)
(* inductive invariant, and the last in the two action properties: who is  *)
(* left grounded by onTick, and who comes to share a slot.                 *)
(***************************************************************************)
EXTENDS Sessions, FiniteSetTheorems, WellFoundedInduction, TLAPS

-----------------------------------------------------------------------------
(* The lowest slot of a set of slots exists *)

\* A nonempty set of naturals below a bound has a least element; FindEmptySlot
\* scans the slots upwards and relies on it.
LEMMA LeastElement ==
  ASSUME NEW n \in Nat, NEW S \in SUBSET (0 .. n), S # {}
  PROVE  \E x \in S : \A y \in S : x <= y
<1> DEFINE T == {0 .. k : k \in S}
<1>1. IsWellFoundedOn(StrictSubsetOrdering(0 .. n), FiniteSubsetsOf(0 .. n))
  BY FS_StrictSubsetOrderingWellFounded
<1>2. T # {} /\ T \subseteq FiniteSubsetsOf(0 .. n)
  <2>1. ASSUME NEW k \in S PROVE 0 .. k \in FiniteSubsetsOf(0 .. n)
    <3>1. k \in Int /\ 0 .. k \subseteq 0 .. n
      OBVIOUS
    <3>2. IsFiniteSet(0 .. k)
      BY <3>1, FS_Interval
    <3> QED BY <3>1, <3>2 DEF FiniteSubsetsOf
  <2>2. T # {}
    OBVIOUS
  <2> QED BY <2>1, <2>2
<1> HIDE DEF T
<1>3. PICK X \in T : \A Y \in T : <<Y, X>> \notin StrictSubsetOrdering(0 .. n)
  BY <1>1, <1>2, WFMin
<1>4. PICK x \in S : X = 0 .. x
  BY <1>3 DEF T
<1>5. ASSUME NEW y \in S, y < x PROVE FALSE
  <2>1. /\ 0 .. y \in SUBSET (0 .. n) /\ 0 .. x \in SUBSET (0 .. n)
        /\ 0 .. y \subseteq 0 .. x /\ x \in 0 .. x /\ x \notin 0 .. y
    BY <1>5
  <2>2. <<0 .. y, 0 .. x>> \in StrictSubsetOrdering(0 .. n)
    BY <2>1 DEF StrictSubsetOrdering
  <2>3. 0 .. y \in T
    BY DEF T
  <2> QED BY <2>2, <2>3, <1>3, <1>4
<1>6. QED
  BY <1>5

\* findEmptySlot returns -1 or the number of an empty slot.
LEMMA FindEmptySlotFinds ==
  ASSUME NEW tab \in [Slots -> ShipRecord]
  PROVE  \/ FindEmptySlot(tab) = -1
         \/ FindEmptySlot(tab) \in EmptySlots(tab)
<1>1. CASE EmptySlots(tab) = {}
  BY <1>1 DEF FindEmptySlot
<1>2. CASE EmptySlots(tab) # {}
  <2>1. NumSlots - 1 \in Nat /\ EmptySlots(tab) \in SUBSET (0 .. (NumSlots - 1))
    BY PopulationAssumption DEF EmptySlots, Slots
  <2>2. \E x \in EmptySlots(tab) : \A y \in EmptySlots(tab) : x <= y
    BY <2>1, <1>2, LeastElement
  <2> QED BY <2>2, <1>2 DEF FindEmptySlot
<1> QED BY <1>1, <1>2

LEMMA EmptySlotIsSlot ==
  ASSUME NEW tab \in [Slots -> ShipRecord], FindEmptySlot(tab) # -1
  PROVE  /\ FindEmptySlot(tab) \in Slots
         /\ tab[FindEmptySlot(tab)].pid = NoOne
BY FindEmptySlotFinds DEF EmptySlots

-----------------------------------------------------------------------------
(* The bot manager *)

Brained(g) == \A s \in Slots : g.ships[s].pid = Bot => g.bots[s] = g.ships[s].team

\* What every chain of bot manager calls that leaves humans alone guarantees.
Safe(g, h) ==
  /\ h \in Populations
  /\ Brained(h)
  /\ \A s \in Slots : h.ships[s].pid \in Users => h.ships[s].pid = g.ships[s].pid

LEMMA SafeTransitive ==
  ASSUME NEW f, NEW g, NEW h, Safe(f, g), Safe(g, h)
  PROVE  Safe(f, h)
BY DEF Safe

\* spawnBot takes an empty slot only, for a bot and its brain.
LEMMA SpawnBotSafe ==
  ASSUME NEW g \in Populations, Brained(g), NEW t \in Teams
  PROVE  Safe(g, SpawnBot(g, t)) /\ SpawnBot(g, t).humans = g.humans
<1> DEFINE s == FindEmptySlot(g.ships)
<1>1. CASE s = -1
  BY <1>1 DEF SpawnBot, Safe
<1>2. CASE s # -1
  <2>1. s \in Slots
    BY <1>2, EmptySlotIsSlot DEF Populations
  <2> HIDE DEF s
  <2>2. SpawnBot(g, t) = [ships |-> InitShip(g.ships, s, t, Bot),
                          bots |-> [g.bots EXCEPT ![s] = t],
                          humans |-> g.humans]
    BY <1>2 DEF SpawnBot, Populations, s
  <2>3. SpawnBot(g, t) \in Populations
    BY <2>1, <2>2 DEF Populations, InitShip, ShipRecord
  <2>4. Brained(SpawnBot(g, t))
    BY <2>1, <2>2 DEF Populations, InitShip, Brained
  <2>5. \A r \in Slots : SpawnBot(g, t).ships[r].pid \in Users =>
           SpawnBot(g, t).ships[r].pid = g.ships[r].pid
    BY <2>1, <2>2, PopulationAssumption DEF Populations, InitShip
  <2> QED BY <2>2, <2>3, <2>4, <2>5 DEF Safe
<1> QED BY <1>1, <1>2

\* clearShip keeps a population a population and brings no one into a slot.
LEMMA ClearShipSafe ==
  ASSUME NEW g \in Populations, Brained(g), NEW s \in Slots
  PROVE  /\ Safe(g, [g EXCEPT !.ships = ClearShip(@, s)])
         /\ [g EXCEPT !.ships = ClearShip(@, s)].ships[s].pid = NoOne
         /\ [g EXCEPT !.ships = ClearShip(@, s)].humans = g.humans
<1> DEFINE h == [g EXCEPT !.ships = ClearShip(@, s)]
<1>1. h = [ships |-> ClearShip(g.ships, s), bots |-> g.bots, humans |-> g.humans]
  BY DEF Populations
<1>2. /\ DOMAIN ClearShip(g.ships, s) = Slots
      /\ ClearShip(g.ships, s)[s].pid = NoOne
      /\ ClearShip(g.ships, s)[s].status = "DEAD"
      /\ ClearShip(g.ships, s)[s].team = g.ships[s].team
      /\ ClearShip(g.ships, s)[s] \in ShipRecord
      /\ \A r \in Slots : r # s => ClearShip(g.ships, s)[r] = g.ships[r]
  <2>1. g.ships \in [Slots -> ShipRecord] /\ g.ships[s] \in ShipRecord
    BY DEF Populations
  <2>2. ClearShip(g.ships, s) =
          [g.ships EXCEPT ![s] = [@ EXCEPT !.status = "DEAD", !.pid = NoOne]]
    BY <2>1 DEF ClearShip
  <2>3. [g.ships[s] EXCEPT !.status = "DEAD", !.pid = NoOne] \in ShipRecord
    BY <2>1 DEF ShipRecord
  <2> QED BY <2>1, <2>2, <2>3 DEF ShipRecord
<1>3. ClearShip(g.ships, s) \in [Slots -> ShipRecord]
  BY <1>2 DEF ClearShip, Populations
<1>4. h \in Populations
  BY <1>1, <1>3 DEF Populations
<1>5. Brained(h)
  BY <1>1, <1>2, PopulationAssumption DEF Brained, Populations
<1>6. \A r \in Slots : h.ships[r].pid \in Users => h.ships[r].pid = g.ships[r].pid
  BY <1>1, <1>2, PopulationAssumption
<1> QED BY <1>1, <1>2, <1>4, <1>5, <1>6 DEF Safe

LEMMA RemoveBotSafe ==
  ASSUME NEW g \in Populations, Brained(g), NEW s \in Slots
  PROVE  Safe(g, RemoveBot(g, s)) /\ RemoveBot(g, s).humans = g.humans
<1>1. CASE g.bots[s] = NoBot
  BY <1>1 DEF RemoveBot, Safe
<1>2. CASE g.bots[s] # NoBot
  <2> DEFINE f == [g EXCEPT !.ships = ClearShip(@, s)]
             h == [ships |-> f.ships, bots |-> [f.bots EXCEPT ![s] = NoBot],
                   humans |-> f.humans]
  <2>1. Safe(g, f) /\ f.ships[s].pid = NoOne /\ f.humans = g.humans /\ f \in Populations
    BY ClearShipSafe DEF Safe
  <2>2. RemoveBot(g, s) = h
    BY <1>2 DEF RemoveBot, Populations
  <2> HIDE DEF f
  <2>4. h \in Populations
    BY <2>1 DEF Populations
  <2>5. Brained(h)
    BY <2>1, PopulationAssumption DEF Brained, Populations, Safe
  <2> QED BY <2>1, <2>2, <2>4, <2>5 DEF Safe
<1> QED BY <1>1, <1>2

\* A bot that leaves a team and one that joins a team, in that order.
LEMMA ReplaceBotSafe ==
  ASSUME NEW g \in Populations, Brained(g), NEW s \in Slots, NEW t \in Teams
  PROVE  /\ Safe(g, SpawnBot(RemoveBot(g, s), t))
         /\ SpawnBot(RemoveBot(g, s), t).humans = g.humans
<1>1. Safe(g, RemoveBot(g, s)) /\ RemoveBot(g, s).humans = g.humans
  BY RemoveBotSafe
<1>2. RemoveBot(g, s) \in Populations /\ Brained(RemoveBot(g, s))
  BY <1>1 DEF Safe
<1>3. /\ Safe(RemoveBot(g, s), SpawnBot(RemoveBot(g, s), t))
      /\ SpawnBot(RemoveBot(g, s), t).humans = RemoveBot(g, s).humans
  BY <1>2, SpawnBotSafe
<1> QED BY <1>1, <1>3, SafeTransitive

LEMMA RebalanceTeamsSafe ==
  ASSUME NEW g \in Populations, Brained(g), NEW h \in RebalanceTeams(g)
  PROVE  Safe(g, h) /\ h.humans = g.humans
<1>1. Safe(g, g)
  BY DEF Safe
<1>2. ASSUME NEW from \in Teams, NEW to \in Teams, h \in MoveBot(g, from, to)
      PROVE  Safe(g, h) /\ h.humans = g.humans
  <2>1. CASE h = g
    BY <2>1, <1>1
  <2>2. CASE h # g
    <3>1. PICK s \in BotsOn(g, from) : h = SpawnBot(RemoveBot(g, s), to)
      BY <1>2, <2>2 DEF MoveBot
    <3>2. s \in Slots
      BY <3>1 DEF BotsOn
    <3> QED BY <3>1, <3>2, ReplaceBotSafe
  <2> QED BY <2>1, <2>2
<1>3. h = g \/ h \in MoveBot(g, "FED", "ROM") \/ h \in MoveBot(g, "ROM", "FED")
  BY DEF RebalanceTeams
<1> QED BY <1>1, <1>2, <1>3 DEF Teams

LEMMA YieldBotSafe ==
  ASSUME NEW g \in Populations, Brained(g), NEW t \in Teams, NEW h \in YieldBot(g, t)
  PROVE  Safe(g, h) /\ h.humans = g.humans
<1>1. CASE h = g
  BY <1>1 DEF Safe
<1>2. CASE h # g
  <2>1. PICK s \in BotsOn(g, t) : h = RemoveBot(g, s)
    BY <1>2 DEF YieldBot
  <2>2. s \in Slots
    BY <2>1 DEF BotsOn
  <2> QED BY <2>1, <2>2, RemoveBotSafe
<1> QED BY <1>1, <1>2

LEMMA RotateBotSafe ==
  ASSUME NEW g \in Populations, Brained(g), NEW t \in Teams, NEW h \in RotateBot(g, t)
  PROVE  Safe(g, h) /\ h.humans = g.humans
<1>1. CASE h = g
  BY <1>1 DEF Safe
<1>2. CASE h # g
  <2>1. PICK s \in BotsOn(g, t) : h = SpawnBot(RemoveBot(g, s), t)
    BY <1>2 DEF RotateBot
  <2>2. s \in Slots
    BY <2>1 DEF BotsOn
  <2> QED BY <2>1, <2>2, ReplaceBotSafe
<1> QED BY <1>1, <1>2

\* A change of the human counts alone is safe.
LEMMA CountSafe ==
  ASSUME NEW g \in Populations, Brained(g), NEW k \in [Teams -> Nat]
  PROVE  Safe(g, [g EXCEPT !.humans = k])
BY DEF Safe, Populations, Brained

\* onHumanJoin adds one human to the counts.
LEMMA OnHumanJoinSafe ==
  ASSUME NEW g \in Populations, Brained(g), NEW t \in Teams, NEW h \in OnHumanJoin(g, t)
  PROVE  Safe(g, h) /\ h.humans = [g.humans EXCEPT ![t] = @ + 1]
<1> DEFINE k == [g.humans EXCEPT ![t] = @ + 1]
           f == [g EXCEPT !.humans = k]
<1>1. k \in [Teams -> Nat]
  BY DEF Populations
<1>2. f = [g EXCEPT !.humans[t] = @ + 1] /\ f.humans = k
  BY DEF Populations
<1>3. Safe(g, f) /\ f \in Populations /\ Brained(f)
  BY <1>1, CountSafe DEF Safe
<1> HIDE DEF f, k
<1>4. PICK y \in YieldBot(f, t) : h \in RebalanceTeams(y)
  BY <1>2 DEF OnHumanJoin
<1>5. Safe(f, y) /\ y.humans = f.humans /\ y \in Populations /\ Brained(y)
  BY <1>3, <1>4, YieldBotSafe DEF Safe
<1>6. Safe(y, h) /\ h.humans = y.humans
  BY <1>4, <1>5, RebalanceTeamsSafe
<1>7. Safe(g, h)
  BY <1>3, <1>5, <1>6, SafeTransitive
<1> QED BY <1>2, <1>5, <1>6, <1>7 DEF k

\* onHumanLeave takes one human off the counts, or none.
LEMMA OnHumanLeaveSafe ==
  ASSUME NEW g \in Populations, Brained(g), NEW t \in Teams, NEW h \in OnHumanLeave(g, t)
  PROVE  /\ Safe(g, h)
         /\ h.humans = [g.humans EXCEPT ![t] = IF @ = 0 THEN 0 ELSE @ - 1]
<1> DEFINE k == [g.humans EXCEPT ![t] = IF @ = 0 THEN 0 ELSE @ - 1]
           f == [g EXCEPT !.humans = k]
           b == IF Cardinality(BotsOn(f, t)) < BotsPerTeam THEN SpawnBot(f, t) ELSE f
<1>1. k \in [Teams -> Nat]
  BY DEF Populations
<1>2. /\ f = [g EXCEPT !.humans[t] = IF @ = 0 THEN 0 ELSE @ - 1]
      /\ f.humans = k
  BY DEF Populations
<1>3. Safe(g, f) /\ f \in Populations /\ Brained(f)
  BY <1>1, CountSafe DEF Safe
<1> HIDE DEF f, k
<1>4. Safe(f, b) /\ b.humans = f.humans
  BY <1>3, SpawnBotSafe DEF Safe
<1>5. h \in RebalanceTeams(b)
  BY <1>2 DEF OnHumanLeave
<1> HIDE DEF b
<1>6. Safe(b, h) /\ h.humans = b.humans
  BY <1>4, <1>5, RebalanceTeamsSafe DEF Safe
<1>7. Safe(g, h)
  BY <1>3, <1>4, <1>6, SafeTransitive
<1> QED BY <1>2, <1>4, <1>6, <1>7 DEF k

-----------------------------------------------------------------------------
(* Bots that fly, and slots that are not shared *)

\* The slots whose bot has a dead ship, and the tables in which no bot drives
\* a ship that is not marked as a bot's.
Grounded(g) == {s \in Slots : g.bots[s] # NoBot /\ g.ships[s].status = "DEAD"}
Exclusive(g) == \A s \in Slots : g.bots[s] # NoBot => g.ships[s].pid = Bot

\* What every chain of bot manager calls guarantees besides being Safe: no bot
\* more is grounded, and if the slots were not shared they are not after it,
\* and each user has kept its ship.
Tidy(g, h) ==
  /\ h \in Populations
  /\ Grounded(h) \subseteq Grounded(g)
  /\ Exclusive(g) =>
       /\ Exclusive(h)
       /\ \A s \in Slots : g.ships[s].pid \in Users => h.ships[s].pid = g.ships[s].pid

LEMMA TidyTransitive ==
  ASSUME NEW f, NEW g, NEW h, Tidy(f, g), Tidy(g, h)
  PROVE  Tidy(f, h)
BY DEF Tidy

LEMMA SpawnBotTidy ==
  ASSUME NEW g \in Populations, NEW t \in Teams
  PROVE  Tidy(g, SpawnBot(g, t))
<1> DEFINE s == FindEmptySlot(g.ships)
<1>1. CASE s = -1
  BY <1>1 DEF SpawnBot, Tidy
<1>2. CASE s # -1
  <2>1. s \in Slots /\ g.ships[s].pid = NoOne
    BY <1>2, EmptySlotIsSlot DEF Populations
  <2> HIDE DEF s
  <2>2. SpawnBot(g, t) = [ships |-> InitShip(g.ships, s, t, Bot),
                          bots |-> [g.bots EXCEPT ![s] = t],
                          humans |-> g.humans]
    BY <1>2 DEF SpawnBot, Populations, s
  <2>3. SpawnBot(g, t) \in Populations
    BY <2>1, <2>2 DEF Populations, InitShip, ShipRecord
  <2>4. /\ SpawnBot(g, t).ships[s].pid = Bot /\ SpawnBot(g, t).ships[s].status = "ALIVE"
        /\ \A r \in Slots : r # s => /\ SpawnBot(g, t).ships[r] = g.ships[r]
                                     /\ SpawnBot(g, t).bots[r] = g.bots[r]
    BY <2>1, <2>2 DEF Populations, InitShip
  <2>5. Grounded(SpawnBot(g, t)) \subseteq Grounded(g)
    BY <2>4 DEF Grounded
  <2> QED BY <2>1, <2>3, <2>4, <2>5, PopulationAssumption DEF Tidy, Exclusive
<1> QED BY <1>1, <1>2

\* removeBot leaves no bot in the slot, and so none that is grounded.
LEMMA RemoveBotTidy ==
  ASSUME NEW g \in Populations, NEW s \in Slots
  PROVE  Tidy(g, RemoveBot(g, s)) /\ s \notin Grounded(RemoveBot(g, s))
<1>1. CASE g.bots[s] = NoBot
  BY <1>1 DEF RemoveBot, Tidy, Grounded
<1>2. CASE g.bots[s] # NoBot
  <2>1. RemoveBot(g, s) = [ships |-> ClearShip(g.ships, s),
                           bots |-> [g.bots EXCEPT ![s] = NoBot],
                           humans |-> g.humans]
    BY <1>2 DEF RemoveBot, Populations
  <2>2. /\ ClearShip(g.ships, s) \in [Slots -> ShipRecord]
        /\ ClearShip(g.ships, s)[s].pid = NoOne
        /\ \A r \in Slots : r # s => ClearShip(g.ships, s)[r] = g.ships[r]
    BY DEF ClearShip, Populations, ShipRecord
  <2>3. RemoveBot(g, s) \in Populations
    BY <2>1, <2>2 DEF Populations
  <2>4. /\ RemoveBot(g, s).bots[s] = NoBot
        /\ \A r \in Slots : r # s => /\ RemoveBot(g, s).ships[r] = g.ships[r]
                                     /\ RemoveBot(g, s).bots[r] = g.bots[r]
    BY <2>1, <2>2 DEF Populations
  <2>5. Grounded(RemoveBot(g, s)) \subseteq Grounded(g) /\ s \notin Grounded(RemoveBot(g, s))
    BY <2>4 DEF Grounded
  <2> QED BY <1>2, <2>3, <2>4, <2>5, PopulationAssumption DEF Tidy, Exclusive
<1> QED BY <1>1, <1>2

LEMMA ReplaceBotTidy ==
  ASSUME NEW g \in Populations, NEW s \in Slots, NEW t \in Teams
  PROVE  /\ Tidy(g, SpawnBot(RemoveBot(g, s), t))
         /\ s \notin Grounded(SpawnBot(RemoveBot(g, s), t))
<1>1. Tidy(g, RemoveBot(g, s)) /\ s \notin Grounded(RemoveBot(g, s))
  BY RemoveBotTidy
<1>2. RemoveBot(g, s) \in Populations
  BY <1>1 DEF Tidy
<1>3. Tidy(RemoveBot(g, s), SpawnBot(RemoveBot(g, s), t))
  BY <1>2, SpawnBotTidy
<1>4. s \notin Grounded(SpawnBot(RemoveBot(g, s), t))
  BY <1>1, <1>3 DEF Tidy
<1> QED BY <1>1, <1>3, <1>4, TidyTransitive

LEMMA RebalanceTeamsTidy ==
  ASSUME NEW g \in Populations, NEW h \in RebalanceTeams(g)
  PROVE  Tidy(g, h)
<1>1. Tidy(g, g)
  BY DEF Tidy
<1>2. ASSUME NEW from \in Teams, NEW to \in Teams, h \in MoveBot(g, from, to)
      PROVE  Tidy(g, h)
  <2>1. CASE h = g
    BY <2>1, <1>1
  <2>2. CASE h # g
    <3>1. PICK s \in BotsOn(g, from) : h = SpawnBot(RemoveBot(g, s), to)
      BY <1>2, <2>2 DEF MoveBot
    <3>2. s \in Slots
      BY <3>1 DEF BotsOn
    <3> QED BY <3>1, <3>2, ReplaceBotTidy
  <2> QED BY <2>1, <2>2
<1>3. h = g \/ h \in MoveBot(g, "FED", "ROM") \/ h \in MoveBot(g, "ROM", "FED")
  BY DEF RebalanceTeams
<1> QED BY <1>1, <1>2, <1>3 DEF Teams

LEMMA YieldBotTidy ==
  ASSUME NEW g \in Populations, NEW t \in Teams, NEW h \in YieldBot(g, t)
  PROVE  Tidy(g, h)
<1>1. CASE h = g
  BY <1>1 DEF Tidy
<1>2. CASE h # g
  <2>1. PICK s \in BotsOn(g, t) : h = RemoveBot(g, s)
    BY <1>2 DEF YieldBot
  <2>2. s \in Slots
    BY <2>1 DEF BotsOn
  <2> QED BY <2>1, <2>2, RemoveBotTidy
<1> QED BY <1>1, <1>2

LEMMA RotateBotTidy ==
  ASSUME NEW g \in Populations, NEW t \in Teams, NEW h \in RotateBot(g, t)
  PROVE  Tidy(g, h)
<1>1. CASE h = g
  BY <1>1 DEF Tidy
<1>2. CASE h # g
  <2>1. PICK s \in BotsOn(g, t) : h = SpawnBot(RemoveBot(g, s), t)
    BY <1>2 DEF RotateBot
  <2>2. s \in Slots
    BY <2>1 DEF BotsOn
  <2> QED BY <2>1, <2>2, ReplaceBotTidy
<1> QED BY <1>1, <1>2

\* A change of the human counts alone is tidy.
LEMMA CountTidy ==
  ASSUME NEW g \in Populations, NEW k \in [Teams -> Nat]
  PROVE  Tidy(g, [g EXCEPT !.humans = k])
BY DEF Tidy, Populations, Exclusive, Grounded

LEMMA OnHumanJoinTidy ==
  ASSUME NEW g \in Populations, NEW t \in Teams, NEW h \in OnHumanJoin(g, t)
  PROVE  Tidy(g, h)
<1> DEFINE k == [g.humans EXCEPT ![t] = @ + 1]
           f == [g EXCEPT !.humans = k]
<1>1. k \in [Teams -> Nat]
  BY DEF Populations
<1>2. f = [g EXCEPT !.humans[t] = @ + 1]
  BY DEF Populations
<1>3. Tidy(g, f) /\ f \in Populations
  BY <1>1, CountTidy DEF Tidy
<1> HIDE DEF f, k
<1>4. PICK y \in YieldBot(f, t) : h \in RebalanceTeams(y)
  BY <1>2 DEF OnHumanJoin
<1>5. Tidy(f, y) /\ y \in Populations
  BY <1>3, <1>4, YieldBotTidy DEF Tidy
<1>6. Tidy(y, h)
  BY <1>4, <1>5, RebalanceTeamsTidy
<1> QED BY <1>3, <1>5, <1>6, TidyTransitive

LEMMA OnHumanLeaveTidy ==
  ASSUME NEW g \in Populations, NEW t \in Teams, NEW h \in OnHumanLeave(g, t)
  PROVE  Tidy(g, h)
<1> DEFINE k == [g.humans EXCEPT ![t] = IF @ = 0 THEN 0 ELSE @ - 1]
           f == [g EXCEPT !.humans = k]
           b == IF Cardinality(BotsOn(f, t)) < BotsPerTeam THEN SpawnBot(f, t) ELSE f
<1>1. k \in [Teams -> Nat]
  BY DEF Populations
<1>2. f = [g EXCEPT !.humans[t] = IF @ = 0 THEN 0 ELSE @ - 1]
  BY DEF Populations
<1>3. Tidy(g, f) /\ f \in Populations
  BY <1>1, CountTidy DEF Tidy
<1> HIDE DEF f, k
<1>4. Tidy(f, b)
  BY <1>3, SpawnBotTidy DEF Tidy
<1>5. h \in RebalanceTeams(b)
  BY <1>2 DEF OnHumanLeave
<1> HIDE DEF b
<1>6. Tidy(b, h)
  BY <1>4, <1>5, RebalanceTeamsTidy DEF Tidy
<1> QED BY <1>3, <1>4, <1>6, TidyTransitive

-----------------------------------------------------------------------------
(* Leaving *)

Total(g) == g.humans["FED"] + g.humans["ROM"]

\* handleDisconnect empties the slot for good: the bot manager can only put a
\* bot there.  It takes at most one human off the counts.
LEMMA DisconnectedSafe ==
  ASSUME NEW g \in Populations, Brained(g), NEW s \in Slots, NEW h \in Disconnected(g, s)
  PROVE  /\ Safe(g, h)
         /\ h.ships[s].pid \notin Users
         /\ Total(h) >= Total(g) - 1
<1> DEFINE f == [g EXCEPT !.ships = ClearShip(@, s)]
<1>1. Safe(g, f) /\ f.ships[s].pid = NoOne /\ f.humans = g.humans
  BY ClearShipSafe
<1>2. g.ships[s].team \in Teams /\ h \in OnHumanLeave(f, g.ships[s].team)
  BY DEF Disconnected, Populations, ShipRecord
<1> HIDE DEF f
<1>3. PICK t \in Teams : h \in OnHumanLeave(f, t)
  BY <1>2
<1>4. /\ Safe(f, h)
      /\ h.humans = [f.humans EXCEPT ![t] = IF @ = 0 THEN 0 ELSE @ - 1]
  BY <1>1, <1>3, OnHumanLeaveSafe DEF Safe
<1>5. h.ships[s].pid \notin Users
  BY <1>1, <1>4, PopulationAssumption DEF Safe
<1>6. g.humans \in [Teams -> Nat]
  BY DEF Populations
<1>7. Total(h) >= Total(g) - 1
  <2>1. /\ g.humans["FED"] \in Nat /\ g.humans["ROM"] \in Nat
        /\ h.humans["FED"] >= g.humans["FED"] - (IF t = "FED" THEN 1 ELSE 0)
        /\ h.humans["ROM"] >= g.humans["ROM"] - (IF t = "ROM" THEN 1 ELSE 0)
        /\ h.humans["FED"] \in Int /\ h.humans["ROM"] \in Int
    BY <1>1, <1>4, <1>6 DEF Teams
  <2> QED BY <2>1 DEF Total
<1>8. Safe(g, h)
  BY <1>1, <1>4, SafeTransitive
<1> QED BY <1>5, <1>7, <1>8

-----------------------------------------------------------------------------
(* The inductive invariant *)

\* Only a validated connection is in the players map.
SeatedAreServed ==
  \A c \in InGame : conn[c] \in ConnRecord /\ ~conn[c].awaiting

IInv ==
  /\ TypeOK
  /\ SeatedAreServed
  /\ OneSessionPerUser
  /\ HumanShipHasSession
  /\ BotShipHasBrain
  /\ HumansNotUndercounted

LEMMA PopFacts ==
  ASSUME TypeOK, BotShipHasBrain
  PROVE  Pop \in Populations /\ Brained(Pop)
BY DEF TypeOK, BotShipHasBrain, Pop, Populations, Brained

LEMMA InGameFinite ==
  /\ IsFiniteSet(InGame)
  /\ Cardinality(InGame) \in Nat
<1>1. IsFiniteSet(Conns) /\ InGame \subseteq Conns
  BY SessionsAssumption DEF InGame
<1> QED BY <1>1, FS_Subset, FS_CardinalityType

\* Closing the old session of the user of c, if there is one.
LEMMA AfterEvictionSafe ==
  ASSUME IInv, NEW c \in Conns, Awaiting(c), NEW g \in AfterEviction(c)
  PROVE  /\ Safe(Pop, g)
         /\ \A e \in Existing(c) : g.ships[players[e]].pid \notin Users
         /\ Total(g) >= Cardinality(InGame \ Existing(c))
<1>1. Pop \in Populations /\ Brained(Pop)
  BY PopFacts DEF IInv
<1>2. Total(Pop) >= Cardinality(InGame) /\ Total(Pop) \in Int
  BY DEF IInv, TypeOK, HumansNotUndercounted, Total, Pop, Teams
<1>3. CASE Existing(c) = {}
  <2>1. g = Pop /\ InGame \ Existing(c) = InGame
    BY <1>3 DEF AfterEviction
  <2> QED BY <1>1, <1>2, <1>3, <2>1 DEF Safe
<1>4. CASE Existing(c) # {}
  <2>1. PICK e \in Existing(c) : g \in Evicted(e)
    BY <1>4 DEF AfterEviction
  <2>2. Existing(c) = {e} /\ e \in InGame /\ players[e] \in Slots
    BY <2>1 DEF IInv, TypeOK, OneSessionPerUser, Existing, InGame
  <2>3. /\ Cardinality(InGame \ {e}) = Cardinality(InGame) - 1
        /\ Cardinality(InGame) \in Nat
    BY <2>2, InGameFinite, FS_RemoveElement
  <2>4. PICK f \in IF conn[e].up THEN Disconnected(Pop, players[e]) ELSE {Pop} :
          g = [f EXCEPT !.ships = ClearShip(@, players[e])]
    BY <2>1 DEF Evicted
  <2>5. Safe(Pop, f) /\ Total(f) >= Total(Pop) - 1
    <3>1. CASE conn[e].up
      BY <1>1, <2>2, <2>4, <3>1, DisconnectedSafe
    <3>2. CASE ~conn[e].up
      BY <1>1, <1>2, <2>4, <3>2 DEF Safe
    <3> QED BY <3>1, <3>2
  <2>6. Safe(f, g) /\ g.ships[players[e]].pid = NoOne /\ g.humans = f.humans
    BY <2>2, <2>4, <2>5, ClearShipSafe DEF Safe
  <2>7. Safe(Pop, g)
    BY <2>5, <2>6, SafeTransitive
  <2>8. Total(g) = Total(f)
    BY <2>6 DEF Total
  <2>9. Total(f) \in Int
    BY <2>5 DEF Safe, Populations, Total, Teams
  <2> QED BY <1>2, <2>2, <2>3, <2>5, <2>6, <2>7, <2>8, <2>9, PopulationAssumption
<1> QED BY <1>3, <1>4

-----------------------------------------------------------------------------
(* The steps *)

\* A step that runs a safe chain and leaves connections alone.
LEMMA QuietStep ==
  ASSUME IInv, NEW h, Safe(Pop, h), h.humans = humans, Become(h),
         UNCHANGED connVars,
         winPause' \in 0 .. WinPauseTicks,
         stage' \in {"idle", "respawn"},
         deadBots' \in [Slots -> Teams \cup {NoBot}]
  PROVE  IInv'
<1>1. ships' = h.ships /\ bots' = h.bots /\ humans' = humans
  BY DEF Become
<1>2. conn' = conn /\ players' = players /\ InGame' = InGame
  BY DEF connVars, InGame
<1>3. TypeOK'
  BY <1>1, <1>2 DEF IInv, TypeOK, Safe, Populations
<1>4. SeatedAreServed' /\ OneSessionPerUser'
  BY <1>2 DEF IInv, SeatedAreServed, OneSessionPerUser
<1>5. HumanShipHasSession'
  BY <1>1, <1>2 DEF IInv, HumanShipHasSession, Safe, Pop
<1>6. BotShipHasBrain'
  BY <1>1 DEF BotShipHasBrain, Safe, Brained
<1>7. HumansNotUndercounted'
  BY <1>1, <1>2 DEF IInv, HumansNotUndercounted
<1> QED BY <1>3, <1>4, <1>5, <1>6, <1>7 DEF IInv

\* A step of a socket that is not in the players map, on its own record only.
LEMMA SocketStep ==
  ASSUME IInv, NEW c \in Conns, c \notin InGame,
         NEW r \in ConnRecord \cup {NoConn}, conn' = [conn EXCEPT ![c] = r],
         UNCHANGED <<players, popVars, tickVars>>
  PROVE  IInv'
<1>1. /\ InGame' = InGame
      /\ \A d \in InGame : conn'[d] = conn[d]
      /\ conn' \in [Conns -> ConnRecord \cup {NoConn}]
  BY DEF IInv, TypeOK, InGame
<1>2. TypeOK'
  BY <1>1 DEF IInv, TypeOK, popVars, tickVars
<1>3. SeatedAreServed' /\ OneSessionPerUser'
  BY <1>1 DEF IInv, SeatedAreServed, OneSessionPerUser
<1>4. HumanShipHasSession'
  BY <1>1 DEF IInv, HumanShipHasSession, popVars
<1>5. BotShipHasBrain' /\ HumansNotUndercounted'
  BY <1>1 DEF IInv, BotShipHasBrain, HumansNotUndercounted, popVars
<1> QED BY <1>2, <1>3, <1>4, <1>5 DEF IInv

\* A connection whose handler is still waiting is not in the players map.
LEMMA AwaitingIsOutside ==
  ASSUME IInv, NEW c \in Conns, Awaiting(c)
  PROVE  c \notin InGame /\ conn[c] \in ConnRecord
BY DEF IInv, SeatedAreServed, Awaiting, TypeOK

LEMMA InitHolds == Init => IInv
<1> SUFFICES ASSUME Init PROVE IInv
  OBVIOUS
<1>1. InGame = {}
  BY DEF Init, InGame
<1>2. Cardinality(InGame) = 0
  BY <1>1, FS_EmptySet
<1>3. FreshBots \in [Slots -> Teams \cup {NoBot}]
  BY DEF FreshBots, Teams
<1>4. ships \in [Slots -> ShipRecord]
  BY <1>3 DEF Init, FreshShips, ShipRecord, Teams
<1>5. TypeOK
  BY <1>3, <1>4, SessionsAssumption DEF Init, TypeOK, NoDeadBots
<1>6. SeatedAreServed /\ OneSessionPerUser
  BY <1>1 DEF SeatedAreServed, OneSessionPerUser
<1>7. HumanShipHasSession /\ BotShipHasBrain
  BY PopulationAssumption DEF Init, HumanShipHasSession, BotShipHasBrain, FreshShips
<1>8. HumansNotUndercounted
  BY <1>2 DEF Init, HumansNotUndercounted, Teams
<1> QED BY <1>5, <1>6, <1>7, <1>8 DEF IInv

LEMMA JoinServedHolds ==
  ASSUME IInv, NEW c \in Conns, JoinServed(c)
  PROVE  IInv'
<1> DEFINE u == conn[c].user
           t == conn[c].team
<1>1. Awaiting(c) /\ c \notin InGame /\ conn[c] \in ConnRecord /\ u \in Users /\ t \in Teams
  BY AwaitingIsOutside DEF JoinServed, ConnRecord
<1>2. PICK g \in AfterEviction(c) :
        LET slot == FindEmptySlot(g.ships)
            seated == [g EXCEPT !.ships = InitShip(@, slot, t, u)]
        IN  /\ slot # -1
            /\ \E h \in OnHumanJoin(seated, t) : Become(h)
            /\ players' = [e \in Conns |->
                 IF e = c THEN slot ELSE IF e \in Existing(c) THEN NoSlot ELSE players[e]]
  BY DEF JoinServed
<1> DEFINE slot == FindEmptySlot(g.ships)
           seated == [ships |-> InitShip(g.ships, slot, t, u),
                      bots |-> g.bots, humans |-> g.humans]
<1>3. /\ Safe(Pop, g) /\ g \in Populations /\ Brained(g)
      /\ \A e \in Existing(c) : g.ships[players[e]].pid \notin Users
      /\ Total(g) >= Cardinality(InGame \ Existing(c))
  BY <1>1, <1>2, AfterEvictionSafe DEF Safe
<1>4. slot \in Slots /\ g.ships[slot].pid = NoOne
  BY <1>2, <1>3, EmptySlotIsSlot DEF Populations
<1>5. seated = [g EXCEPT !.ships = InitShip(@, slot, t, u)]
  BY <1>3 DEF Populations
<1> HIDE DEF slot
<1>6. seated \in Populations /\ Brained(seated)
  BY <1>1, <1>3, <1>4, PopulationAssumption
  DEF Populations, InitShip, ShipRecord, Brained
<1>7. \A s \in Slots : s # slot => seated.ships[s] = g.ships[s]
  BY <1>3, <1>4 DEF InitShip, Populations
<1> DEFINE seats == [e \in Conns |->
             IF e = c THEN slot ELSE IF e \in Existing(c) THEN NoSlot ELSE players[e]]
<1>8. players' = seats
  BY <1>2 DEF slot
<1>9. PICK h \in OnHumanJoin(seated, t) : Become(h)
  BY <1>2, <1>5 DEF slot
<1> HIDE DEF seated
<1>10. /\ Safe(seated, h) /\ h.humans = [seated.humans EXCEPT ![t] = @ + 1]
       /\ h \in Populations /\ Brained(h)
  BY <1>1, <1>6, <1>9, OnHumanJoinSafe DEF Safe
<1>11. ships' = h.ships /\ bots' = h.bots /\ humans' = h.humans
  BY <1>9 DEF Become
<1>12. /\ conn' = [e \in Conns |->
             IF e = c THEN [conn[c] EXCEPT !.awaiting = FALSE]
             ELSE IF e \in Existing(c) THEN NoConn ELSE conn[e]]
       /\ UNCHANGED tickVars
  BY DEF JoinServed
<1>13. [conn[c] EXCEPT !.awaiting = FALSE] \in ConnRecord
       /\ [conn[c] EXCEPT !.awaiting = FALSE].user = u
       /\ ~[conn[c] EXCEPT !.awaiting = FALSE].awaiting
  BY <1>1 DEF ConnRecord
<1>14. slot # NoSlot /\ players \in [Conns -> Slots \cup {NoSlot}]
  BY <1>4, SessionsAssumption DEF IInv, TypeOK
<1>15. InGame' = (InGame \ Existing(c)) \cup {c}
  BY <1>8, <1>14 DEF InGame
<1>16. TypeOK'
  BY <1>4, <1>8, <1>10, <1>11, <1>12, <1>13 DEF IInv, TypeOK, Populations, tickVars
<1>17. SeatedAreServed'
  BY <1>12, <1>13, <1>15 DEF IInv, SeatedAreServed, InGame
<1>18. OneSessionPerUser'
  <2>1. \A d \in InGame \ Existing(c) : conn'[d].user = conn[d].user /\ conn[d].user # u
    BY <1>1, <1>12 DEF Existing, InGame
  <2>2. conn'[c].user = u
    BY <1>12, <1>13
  <2> QED BY <1>15, <2>1, <2>2 DEF IInv, OneSessionPerUser
<1>19. HumanShipHasSession'
  <2> SUFFICES ASSUME NEW s \in Slots, ships'[s].pid \in Users
               PROVE  \E d \in InGame' : players'[d] = s /\ conn'[d].user = ships'[s].pid
    BY DEF HumanShipHasSession
  <2>1. ships'[s].pid = seated.ships[s].pid
    BY <1>10, <1>11 DEF Safe
  <2>2. CASE s = slot
    <3>1. seated.ships[slot].pid = u
      BY <1>3, <1>4 DEF seated, InitShip, Populations
    <3> QED BY <1>8, <1>12, <1>13, <1>15, <2>1, <2>2, <3>1
  <2>3. CASE s # slot
    <3>1. ships'[s].pid = g.ships[s].pid /\ g.ships[s].pid = ships[s].pid
      BY <1>3, <1>7, <2>1, <2>3 DEF Safe, Pop
    <3>2. PICK d \in InGame : players[d] = s /\ conn[d].user = ships[s].pid
      BY <3>1 DEF IInv, HumanShipHasSession
    <3>3. d \notin Existing(c) /\ d # c
      BY <1>1, <1>3, <3>1, <3>2
    <3> QED BY <1>8, <1>12, <1>15, <3>1, <3>2, <3>3 DEF InGame
  <2> QED BY <2>2, <2>3
<1>20. BotShipHasBrain'
  BY <1>10, <1>11 DEF Brained, BotShipHasBrain
<1>21. HumansNotUndercounted'
  <2>1. IsFiniteSet(InGame \ Existing(c)) /\ c \notin InGame \ Existing(c)
    BY <1>1, InGameFinite, FS_Subset
  <2>2. /\ Cardinality(InGame') = Cardinality(InGame \ Existing(c)) + 1
        /\ Cardinality(InGame \ Existing(c)) \in Nat
    BY <1>15, <2>1, FS_AddElement, FS_CardinalityType
  <2>3. seated.humans = g.humans /\ g.humans \in [Teams -> Nat]
    BY <1>3 DEF seated, Populations
  <2>4. humans'["FED"] + humans'["ROM"] = Total(g) + 1 /\ Total(g) \in Int
    BY <1>1, <1>10, <1>11, <2>3 DEF Total, Teams
  <2> QED BY <1>3, <2>2, <2>4 DEF HumansNotUndercounted
<1> QED BY <1>16, <1>17, <1>18, <1>19, <1>20, <1>21 DEF IInv

\* A step after which the sessions in Gone have left the game and the table
\* is one that a safe chain, with their slots emptied, leads to.
LEMMA LeaveStep ==
  ASSUME IInv, NEW Gone \in SUBSET Conns, NEW c \in Conns, c \notin InGame \/ c \in Gone,
         NEW g, Safe(Pop, g), Become(g),
         \A e \in Gone \cap InGame : g.ships[players[e]].pid \notin Users,
         Total(g) >= Cardinality(InGame \ Gone),
         players' = [e \in Conns |-> IF e \in Gone THEN NoSlot ELSE players[e]],
         conn' = [e \in Conns |-> IF e \in Gone \cup {c} THEN NoConn ELSE conn[e]],
         UNCHANGED tickVars
  PROVE  IInv'
<1>1. ships' = g.ships /\ bots' = g.bots /\ humans' = g.humans
  BY DEF Become
<1>2. InGame' = InGame \ Gone
  BY DEF InGame, IInv, TypeOK
<1>3. \A d \in InGame' : conn'[d] = conn[d] /\ players'[d] = players[d] /\ d \in InGame
  BY <1>2 DEF InGame
<1>4. TypeOK'
  BY <1>1 DEF IInv, TypeOK, Safe, Populations, tickVars
<1>5. SeatedAreServed' /\ OneSessionPerUser'
  BY <1>3 DEF IInv, SeatedAreServed, OneSessionPerUser
<1>6. HumanShipHasSession'
  <2> SUFFICES ASSUME NEW s \in Slots, ships'[s].pid \in Users
               PROVE  \E d \in InGame' : players'[d] = s /\ conn'[d].user = ships'[s].pid
    BY DEF HumanShipHasSession
  <2>1. g.ships[s].pid = ships[s].pid
    BY <1>1 DEF Safe, Pop
  <2>2. PICK d \in InGame : players[d] = s /\ conn[d].user = ships[s].pid
    BY <1>1, <2>1 DEF IInv, HumanShipHasSession
  <2>3. d \notin Gone
    BY <1>1, <2>2
  <2> QED BY <1>1, <1>2, <1>3, <2>1, <2>2, <2>3
<1>7. BotShipHasBrain'
  BY <1>1 DEF Safe, Brained, BotShipHasBrain
<1>8. HumansNotUndercounted'
  BY <1>1, <1>2 DEF Total, HumansNotUndercounted
<1> QED BY <1>4, <1>5, <1>6, <1>7, <1>8 DEF IInv

LEMMA JoinRefusedHolds ==
  ASSUME IInv, NEW c \in Conns, JoinRefused(c)
  PROVE  IInv'
<1>1. Awaiting(c) /\ c \notin InGame
  BY AwaitingIsOutside DEF JoinRefused
<1>2. PICK g \in AfterEviction(c) : Become(g)
  BY DEF JoinRefused
<1>3. /\ Safe(Pop, g)
      /\ \A e \in Existing(c) : g.ships[players[e]].pid \notin Users
      /\ Total(g) >= Cardinality(InGame \ Existing(c))
  BY <1>1, <1>2, AfterEvictionSafe
<1>4. Existing(c) \in SUBSET Conns
  BY DEF Existing, InGame
<1>5. /\ players' = [e \in Conns |-> IF e \in Existing(c) THEN NoSlot ELSE players[e]]
      /\ conn' = [e \in Conns |-> IF e \in Existing(c) \cup {c} THEN NoConn ELSE conn[e]]
      /\ UNCHANGED tickVars
  BY DEF JoinRefused
<1> QED BY <1>1, <1>2, <1>3, <1>4, <1>5, LeaveStep

LEMMA DisconnectHolds ==
  ASSUME IInv, NEW c \in Conns, Disconnect(c)
  PROVE  IInv'
<1>1. Pop \in Populations /\ Brained(Pop)
  BY PopFacts DEF IInv
<1>2. c \in InGame /\ players[c] \in Slots
  BY DEF Disconnect, IInv, TypeOK, InGame
<1>3. PICK g \in Disconnected(Pop, players[c]) : Become(g)
  BY DEF Disconnect
<1>4. /\ Safe(Pop, g)
      /\ g.ships[players[c]].pid \notin Users
      /\ Total(g) >= Total(Pop) - 1
  BY <1>1, <1>2, <1>3, DisconnectedSafe
<1>5. /\ Total(Pop) >= Cardinality(InGame) /\ Total(Pop) \in Int /\ Total(g) \in Int
      /\ Cardinality(InGame \ {c}) = Cardinality(InGame) - 1 /\ Cardinality(InGame) \in Nat
  <2>1. Total(Pop) >= Cardinality(InGame)
    BY DEF IInv, HumansNotUndercounted, Total, Pop
  <2>2. Total(Pop) \in Int
    BY <1>1 DEF Populations, Total, Teams
  <2>3. Total(g) \in Int
    BY <1>4 DEF Safe, Populations, Total, Teams
  <2>4. Cardinality(InGame \ {c}) = Cardinality(InGame) - 1 /\ Cardinality(InGame) \in Nat
    BY <1>2, InGameFinite, FS_RemoveElement
  <2> QED BY <2>1, <2>2, <2>3, <2>4
<1>6. /\ players' = [e \in Conns |-> IF e \in {c} THEN NoSlot ELSE players[e]]
      /\ conn' = [e \in Conns |-> IF e \in {c} \cup {c} THEN NoConn ELSE conn[e]]
      /\ UNCHANGED tickVars
  BY DEF Disconnect, IInv, TypeOK
<1>7. Total(g) >= Cardinality(InGame \ {c})
  BY <1>4, <1>5
<1>8. \A e \in {c} \cap InGame : g.ships[players[e]].pid \notin Users
  BY <1>4
<1>9. {c} \in SUBSET Conns /\ c \in {c}
  OBVIOUS
<1> QED BY <1>3, <1>4, <1>6, <1>7, <1>8, <1>9, LeaveStep

\* A tick that changes neither playerIds nor brains nor counts.
LEMMA RespawnHolds ==
  ASSUME IInv, NEW c \in Conns, Respawn(c)
  PROVE  IInv'
<1> DEFINE s == players[c]
           h == [ships |-> InitShip(ships, s, ships[s].team, ships[s].pid),
                 bots |-> bots, humans |-> humans]
<1>1. s \in Slots /\ ships' = h.ships /\ UNCHANGED <<connVars, bots, humans, tickVars>>
  BY DEF Respawn, IInv, TypeOK, InGame
<1> HIDE DEF s
<1>2. h.ships \in [Slots -> ShipRecord]
  BY <1>1 DEF IInv, TypeOK, InitShip, ShipRecord
<1>3. \A r \in Slots : h.ships[r].pid = ships[r].pid /\ h.ships[r].team = ships[r].team
  BY <1>1 DEF InitShip, IInv, TypeOK, ShipRecord
<1>4. Safe(Pop, h)
  BY <1>2, <1>3 DEF Safe, Pop, Populations, Brained, IInv, TypeOK, BotShipHasBrain
<1>5. Become(h)
  BY <1>1 DEF Become
<1>6. UNCHANGED connVars /\ UNCHANGED tickVars
  BY <1>1
<1>7. /\ winPause' \in 0 .. WinPauseTicks
      /\ stage' \in {"idle", "respawn"}
      /\ deadBots' \in [Slots -> Teams \cup {NoBot}]
  BY <1>6 DEF IInv, TypeOK, tickVars
<1> QED BY <1>4, <1>5, <1>6, <1>7, QuietStep

LEMMA StartOnTickTypes ==
  ASSUME StartOnTick, bots' \in [Slots -> Teams \cup {NoBot}]
  PROVE  /\ stage' \in {"idle", "respawn"}
         /\ deadBots' \in [Slots -> Teams \cup {NoBot}]
BY DEF StartOnTick

LEMMA PlayTickHolds ==
  ASSUME IInv, NEW K \in SUBSET Slots, NEW D \in SUBSET Slots, NEW won \in BOOLEAN,
         PlayTick(K, D, won)
  PROVE  IInv'
<1> DEFINE h == [ships |-> ships', bots |-> bots, humans |-> humans]
<1>1. /\ ships' = [s \in Slots |->
            IF s \in K THEN [ships[s] EXCEPT !.status = "EXPLODING"]
            ELSE IF s \in D THEN [ships[s] EXCEPT !.status = "DEAD"]
            ELSE ships[s]]
      /\ winPause' \in 0 .. WinPauseTicks
      /\ UNCHANGED <<connVars, bots, humans>>
  BY SessionsAssumption DEF PlayTick
<1>2. /\ h.ships \in [Slots -> ShipRecord]
      /\ \A s \in Slots : h.ships[s].pid = ships[s].pid /\ h.ships[s].team = ships[s].team
  BY <1>1 DEF IInv, TypeOK, ShipRecord
<1>3. Safe(Pop, h)
  BY <1>2 DEF Safe, Pop, Populations, Brained, IInv, TypeOK, BotShipHasBrain
<1>4. Become(h) /\ UNCHANGED connVars
  BY <1>1 DEF Become
<1>5. bots' \in [Slots -> Teams \cup {NoBot}] /\ StartOnTick
  BY <1>1 DEF IInv, TypeOK, PlayTick
<1> QED BY <1>1, <1>3, <1>4, <1>5, StartOnTickTypes, QuietStep

LEMMA PauseTickHolds ==
  ASSUME IInv, PauseTick
  PROVE  IInv'
<1>1. UNCHANGED <<connVars, popVars>> /\ winPause' \in 0 .. WinPauseTicks /\ StartOnTick
  <2>1. winPause \in 0 .. WinPauseTicks /\ WinPauseTicks \in Nat
    BY SessionsAssumption DEF IInv, TypeOK
  <2>2. winPause > 1 /\ winPause' = winPause - 1
    BY DEF PauseTick
  <2>3. winPause' \in 0 .. WinPauseTicks
    BY <2>1, <2>2
  <2> QED BY <2>3 DEF PauseTick
<1>2. Become(Pop) /\ UNCHANGED connVars
  BY <1>1 DEF Become, Pop, popVars
<1>3. Safe(Pop, Pop) /\ Pop.humans = humans
  BY PopFacts DEF Safe, IInv, Pop
<1>4. bots' \in [Slots -> Teams \cup {NoBot}]
  BY <1>1 DEF IInv, TypeOK, popVars
<1> QED BY <1>1, <1>2, <1>3, <1>4, StartOnTickTypes, QuietStep

LEMMA ResetTickHolds ==
  ASSUME IInv, ResetTick
  PROVE  IInv'
<1> DEFINE fresh == FreshShips([s \in Slots |-> ships[s].team])
<1>1. PICK owner \in [Slots -> Users] :
        /\ \A s \in Slots : Claims(s) # {} => owner[s] \in Claims(s)
        /\ ships' = [s \in Slots |->
             IF Claims(s) = {} THEN fresh[s] ELSE [fresh[s] EXCEPT !.pid = owner[s]]]
  BY DEF ResetTick
<1>2. UNCHANGED <<connVars, humans>> /\ bots' = FreshBots /\ winPause' = 0 /\ StartOnTick
  BY DEF ResetTick
<1>3. FreshBots \in [Slots -> Teams \cup {NoBot}]
  BY DEF FreshBots, Teams
<1>4. fresh \in [Slots -> ShipRecord]
  BY <1>3 DEF FreshShips, ShipRecord, Teams, IInv, TypeOK
<1>5. \A s \in Slots : /\ fresh[s].pid \notin Users
                       /\ fresh[s].pid = Bot => FreshBots[s] = fresh[s].team
  BY PopulationAssumption DEF FreshShips
<1> HIDE DEF fresh
<1>6. \A s \in Slots : /\ ships'[s] \in ShipRecord
                       /\ ships'[s].team = fresh[s].team
                       /\ ships'[s].pid = IF Claims(s) = {} THEN fresh[s].pid ELSE owner[s]
  BY <1>1, <1>4 DEF ShipRecord
<1>7. TypeOK'
  <2>1. ships' \in [Slots -> ShipRecord]
    BY <1>1, <1>6
  <2>2. /\ conn' \in [Conns -> ConnRecord \cup {NoConn}]
        /\ players' \in [Conns -> Slots \cup {NoSlot}]
        /\ humans' \in [Teams -> Nat] /\ bots' \in [Slots -> Teams \cup {NoBot}]
        /\ winPause' \in 0 .. WinPauseTicks
    BY <1>2, <1>3, SessionsAssumption DEF IInv, TypeOK, connVars
  <2>3. stage' \in {"idle", "respawn"} /\ deadBots' \in [Slots -> Teams \cup {NoBot}]
    BY <1>2, <2>2, StartOnTickTypes
  <2> QED BY <2>1, <2>2, <2>3 DEF TypeOK
<1>8. conn' = conn /\ players' = players /\ InGame' = InGame /\ humans' = humans
  BY <1>2 DEF connVars, InGame
<1>9. SeatedAreServed' /\ OneSessionPerUser' /\ HumansNotUndercounted'
  BY <1>8 DEF IInv, SeatedAreServed, OneSessionPerUser, HumansNotUndercounted
<1>10. HumanShipHasSession'
  <2> SUFFICES ASSUME NEW s \in Slots, ships'[s].pid \in Users
               PROVE  \E d \in InGame : players[d] = s /\ conn[d].user = ships'[s].pid
    BY <1>8 DEF HumanShipHasSession
  <2>1. Claims(s) # {} /\ ships'[s].pid \in Claims(s)
    BY <1>1, <1>5, <1>6
  <2>2. PICK d \in Conns : players[d] = s /\ conn[d].user = ships'[s].pid
    BY <2>1 DEF Claims
  <2>3. d \in InGame
    BY <2>2, SessionsAssumption DEF InGame
  <2> QED BY <2>2, <2>3
<1>11. BotShipHasBrain'
  BY <1>1, <1>2, <1>5, <1>6, PopulationAssumption DEF BotShipHasBrain
<1> QED BY <1>7, <1>9, <1>10, <1>11 DEF IInv

LEMMA RespawnDeadBotHolds ==
  ASSUME IInv, NEW s \in Slots, RespawnDeadBot(s)
  PROVE  IInv'
<1> DEFINE h == SpawnBot(RemoveBot(Pop, s), deadBots[s])
<1>1. /\ deadBots[s] \in Teams /\ Become(h) /\ UNCHANGED <<connVars, winPause, stage>>
      /\ deadBots' \in [Slots -> Teams \cup {NoBot}]
  BY DEF RespawnDeadBot, IInv, TypeOK
<1>2. Pop \in Populations /\ Brained(Pop) /\ Pop.humans = humans
  BY PopFacts DEF IInv, Pop
<1>3. Safe(Pop, h) /\ h.humans = humans
  BY <1>1, <1>2, ReplaceBotSafe
<1> HIDE DEF h
<1>4. winPause' \in 0 .. WinPauseTicks /\ stage' \in {"idle", "respawn"} /\ UNCHANGED connVars
  BY <1>1 DEF IInv, TypeOK
<1> QED BY <1>1, <1>3, <1>4, QuietStep

LEMMA FinishOnTickHolds ==
  ASSUME IInv, FinishOnTick
  PROVE  IInv'
<1>1. Pop \in Populations /\ Brained(Pop) /\ Pop.humans = humans
  BY PopFacts DEF IInv, Pop
<1>2. UNCHANGED connVars /\ UNCHANGED <<winPause, deadBots>> /\ stage' = "idle"
  BY DEF FinishOnTick
<1>3. \E h : Safe(Pop, h) /\ h.humans = humans /\ Become(h)
  <2>1. CASE Become(Pop)
    BY <1>1, <2>1 DEF Safe
  <2>2. CASE \E t \in Teams : \E g \in RotateBot(Pop, t) :
               \E h \in UNION {RotateBot(g, o) : o \in Teams \ {t}} : Become(h)
    <3>1. PICK t \in Teams : \E g \in RotateBot(Pop, t) :
                 \E h \in UNION {RotateBot(g, o) : o \in Teams \ {t}} : Become(h)
      BY <2>2
    <3>2. PICK g \in RotateBot(Pop, t) :
                 \E h \in UNION {RotateBot(g, o) : o \in Teams \ {t}} : Become(h)
      BY <3>1
    <3>3. PICK o \in Teams : \E h \in RotateBot(g, o) : Become(h)
      BY <3>2
    <3>4. PICK h \in RotateBot(g, o) : Become(h)
      BY <3>3
    <3>5. Safe(Pop, g) /\ g.humans = humans /\ g \in Populations /\ Brained(g)
      BY <1>1, <3>2, RotateBotSafe DEF Safe
    <3>6. Safe(g, h) /\ h.humans = humans
      BY <3>4, <3>5, RotateBotSafe
    <3> QED BY <3>4, <3>5, <3>6, SafeTransitive
  <2> QED BY <2>1, <2>2 DEF FinishOnTick
<1>4. /\ winPause' \in 0 .. WinPauseTicks
      /\ stage' \in {"idle", "respawn"}
      /\ deadBots' \in [Slots -> Teams \cup {NoBot}]
  BY <1>2 DEF IInv, TypeOK
<1> QED BY <1>2, <1>3, <1>4, QuietStep

\* Every step of the server, handlers and ticks alike, preserves IInv.
LEMMA StepHolds == IInv /\ [Next]_vars => IInv'
<1> SUFFICES ASSUME IInv, [Next]_vars PROVE IInv'
  OBVIOUS
<1>1. ASSUME NEW c \in Conns, NEW u \in Users, NEW t \in Teams, Connect(c, u, t)
      PROVE  IInv'
  <2>1. c \notin InGame
    BY <1>1, SessionsAssumption DEF Connect, IInv, SeatedAreServed, ConnRecord
  <2> DEFINE r == [user |-> u, team |-> t, up |-> TRUE, awaiting |-> TRUE]
  <2>2. r \in ConnRecord \cup {NoConn} /\ conn' = [conn EXCEPT ![c] = r]
        /\ UNCHANGED <<players, popVars, tickVars>>
    BY <1>1 DEF Connect, ConnRecord
  <2> HIDE DEF r
  <2> QED BY <2>1, <2>2, SocketStep
<1>2. ASSUME NEW c \in Conns, Rejected(c) PROVE IInv'
  <2>1. c \notin InGame
    BY <1>2, AwaitingIsOutside DEF Rejected
  <2>2. conn' = [conn EXCEPT ![c] = NoConn] /\ UNCHANGED <<players, popVars, tickVars>>
    BY <1>2 DEF Rejected
  <2> QED BY <2>1, <2>2, SocketStep
<1>3. ASSUME NEW c \in Conns, DropWhileAwaiting(c) PROVE IInv'
  <2> DEFINE r == [conn[c] EXCEPT !.up = FALSE]
  <2>1. c \notin InGame /\ r \in ConnRecord
    BY <1>3, AwaitingIsOutside DEF DropWhileAwaiting, ConnRecord
  <2>2. conn' = [conn EXCEPT ![c] = r] /\ UNCHANGED <<players, popVars, tickVars>>
    BY <1>3 DEF DropWhileAwaiting
  <2> HIDE DEF r
  <2> QED BY <2>1, <2>2, SocketStep
<1>4. ASSUME NEW c \in Conns, JoinServed(c) \/ JoinRefused(c) \/ Disconnect(c) \/ Respawn(c)
      PROVE  IInv'
  BY <1>4, JoinServedHolds, JoinRefusedHolds, DisconnectHolds, RespawnHolds
<1>5. CASE Tick
  BY <1>5, PlayTickHolds, PauseTickHolds, ResetTickHolds DEF Tick
<1>6. CASE OnTick
  BY <1>6, RespawnDeadBotHolds, FinishOnTickHolds DEF OnTick
<1>7. CASE UNCHANGED vars
  <2>1. InGame' = InGame
    BY <1>7 DEF vars, connVars, InGame
  <2> QED BY <1>7, <2>1 DEF vars, connVars, popVars, tickVars, IInv, TypeOK, SeatedAreServed,
             OneSessionPerUser, HumanShipHasSession, BotShipHasBrain, HumansNotUndercounted
<1> QED BY <1>1, <1>2, <1>3, <1>4, <1>5, <1>6, <1>7 DEF Next

LEMMA AlwaysIInv == Spec => []IInv
<1>1. Init => IInv
  BY InitHolds
<1>2. IInv /\ [Next]_vars => IInv'
  BY StepHolds
<1> QED BY <1>1, <1>2, PTL DEF Spec

-----------------------------------------------------------------------------
(* Every bot flies when onTick is through *)

\* While onTick runs, the bots that are grounded are among those it collected
\* and has not replaced yet.
GroundedAreListed ==
  stage = "respawn" => \A s \in Slots : s \in Grounded(Pop) => deadBots[s] # NoBot

LEMMA IdleListsNothing ==
  ASSUME stage' = "idle"
  PROVE  GroundedAreListed'
BY DEF GroundedAreListed

\* The scan at the start of onTick finds every bot that is grounded.
LEMMA ScanFindsAll ==
  ASSUME StartOnTick
  PROVE  GroundedAreListed'
BY DEF StartOnTick, GroundedAreListed, Grounded, Pop

LEMMA ReplacedFly ==
  ASSUME IInv, GroundedAreListed, NEW s \in Slots, RespawnDeadBot(s)
  PROVE  GroundedAreListed'
<1> DEFINE h == SpawnBot(RemoveBot(Pop, s), deadBots[s])
<1>1. /\ deadBots[s] \in Teams /\ deadBots \in [Slots -> Teams \cup {NoBot}]
      /\ deadBots' = [deadBots EXCEPT ![s] = NoBot]
      /\ stage = "respawn" /\ ships' = h.ships /\ bots' = h.bots
  BY DEF RespawnDeadBot, Become, IInv, TypeOK
<1>2. Tidy(Pop, h) /\ s \notin Grounded(h)
  BY <1>1, PopFacts, ReplaceBotTidy DEF IInv
<1> HIDE DEF h
<1>3. Grounded(Pop)' = Grounded(h)
  BY <1>1 DEF Grounded, Pop
<1>4. ASSUME NEW r \in Slots, r \in Grounded(Pop)' PROVE deadBots'[r] # NoBot
  <2>1. r \in Grounded(Pop) /\ r # s
    BY <1>2, <1>3, <1>4 DEF Tidy
  <2> QED BY <1>1, <2>1 DEF GroundedAreListed
<1> QED BY <1>4 DEF GroundedAreListed

LEMMA StepLists == IInv /\ GroundedAreListed /\ [Next]_vars => GroundedAreListed'
<1> SUFFICES ASSUME IInv, GroundedAreListed, [Next]_vars PROVE GroundedAreListed'
  OBVIOUS
<1>1. CASE UNCHANGED vars
  BY <1>1 DEF vars, popVars, tickVars, GroundedAreListed, Grounded, Pop
<1>2. ASSUME NEW c \in Conns, NEW u \in Users, NEW t \in Teams, Connect(c, u, t)
      PROVE  GroundedAreListed'
  BY <1>2, IdleListsNothing DEF Connect, tickVars
<1>3. ASSUME NEW c \in Conns,
             \/ Rejected(c) \/ JoinServed(c) \/ JoinRefused(c)
             \/ Disconnect(c) \/ DropWhileAwaiting(c) \/ Respawn(c)
      PROVE  GroundedAreListed'
  <2>1. stage' = "idle"
    BY <1>3 DEF Rejected, JoinServed, JoinRefused, Disconnect, DropWhileAwaiting, Respawn, tickVars
  <2> QED BY <2>1, IdleListsNothing
<1>4. CASE Tick
  <2>1. StartOnTick
    BY <1>4 DEF Tick, PlayTick, PauseTick, ResetTick
  <2> QED BY <2>1, ScanFindsAll
<1>5. CASE OnTick
  <2>1. CASE FinishOnTick
    BY <2>1, IdleListsNothing DEF FinishOnTick
  <2> QED BY <1>5, <2>1, ReplacedFly DEF OnTick
<1> QED BY <1>1, <1>2, <1>3, <1>4, <1>5 DEF Next

\* The rotation of checkDifficultyRebalance grounds nobody either.
LEMMA RotationTidy ==
  ASSUME IInv, FinishOnTick
  PROVE  \E h : Tidy(Pop, h) /\ Become(h)
<1>1. Pop \in Populations
  BY PopFacts DEF IInv
<1>2. CASE Become(Pop)
  BY <1>1, <1>2 DEF Tidy
<1>3. CASE \E t \in Teams : \E g \in RotateBot(Pop, t) :
             \E h \in UNION {RotateBot(g, o) : o \in Teams \ {t}} : Become(h)
  <2>1. PICK t \in Teams : \E g \in RotateBot(Pop, t) :
               \E h \in UNION {RotateBot(g, o) : o \in Teams \ {t}} : Become(h)
    BY <1>3
  <2>2. PICK g \in RotateBot(Pop, t) :
               \E h \in UNION {RotateBot(g, o) : o \in Teams \ {t}} : Become(h)
    BY <2>1
  <2>3. PICK o \in Teams : \E h \in RotateBot(g, o) : Become(h)
    BY <2>2
  <2>4. PICK h \in RotateBot(g, o) : Become(h)
    BY <2>3
  <2>5. Tidy(Pop, g) /\ g \in Populations
    BY <1>1, <2>2, RotateBotTidy DEF Tidy
  <2>6. Tidy(g, h)
    BY <2>4, <2>5, RotateBotTidy
  <2> QED BY <2>4, <2>5, <2>6, TidyTransitive
<1> QED BY <1>2, <1>3 DEF FinishOnTick

LEMMA FinishedFly ==
  ASSUME IInv, GroundedAreListed, [Next]_vars, stage = "respawn", stage' = "idle"
  PROVE  \A s \in Slots : bots'[s] # NoBot => ships'[s].status # "DEAD"
<1>1. FinishOnTick
  <2>1. ~ UNCHANGED vars
    BY DEF vars, tickVars
  <2>2. \A c \in Conns, u \in Users, t \in Teams : ~ Connect(c, u, t)
    BY DEF Connect
  <2>3. \A c \in Conns : /\ ~ Rejected(c) /\ ~ JoinServed(c) /\ ~ JoinRefused(c)
                         /\ ~ Disconnect(c) /\ ~ DropWhileAwaiting(c) /\ ~ Respawn(c)
    BY DEF Rejected, JoinServed, JoinRefused, Disconnect, DropWhileAwaiting, Respawn
  <2>4. ~ Tick
    BY DEF Tick, PlayTick, PauseTick, ResetTick
  <2>5. \A s \in Slots : ~ RespawnDeadBot(s)
    BY DEF RespawnDeadBot
  <2> QED BY <2>1, <2>2, <2>3, <2>4, <2>5 DEF Next, OnTick
<1>2. PICK h : Tidy(Pop, h) /\ Become(h)
  BY <1>1, RotationTidy
<1>3. Grounded(Pop) = {}
  <2>1. \A s \in Slots : deadBots[s] = NoBot
    BY <1>1 DEF FinishOnTick, NoDeadBots
  <2> QED BY <2>1 DEF GroundedAreListed, Grounded
<1>4. Grounded(h) = {} /\ ships' = h.ships /\ bots' = h.bots
  BY <1>2, <1>3 DEF Tidy, Become
<1> QED BY <1>4 DEF Grounded

-----------------------------------------------------------------------------
(* How two come to share a slot *)

\* The slots are not shared: what SlotExclusive says of the bots, and of the
\* sessions for a given table of ships and of bots.
LEMMA ExclusiveNow == SlotExclusive => Exclusive(Pop)
BY DEF SlotExclusive, Exclusive, Pop

\* Two sessions never fly one ship, then: its playerId would name both users.
LEMMA OwnSlots ==
  ASSUME IInv, SlotExclusive, NEW c \in InGame, NEW d \in InGame, players[c] = players[d]
  PROVE  c = d
BY DEF IInv, SlotExclusive, OneSessionPerUser

\* A tidy chain of calls leaves the sessions that stay where they are alone.
LEMMA TidyStep ==
  ASSUME IInv, SlotExclusive, NEW g, Tidy(Pop, g), Become(g),
         UNCHANGED connVars
  PROVE  SlotExclusive'
<1>1. /\ Exclusive(g) /\ ships' = g.ships /\ bots' = g.bots
      /\ \A s \in Slots : ships[s].pid \in Users => g.ships[s].pid = ships[s].pid
  BY ExclusiveNow DEF Tidy, Become, Pop
<1>2. InGame' = InGame /\ conn' = conn /\ players' = players
  BY DEF connVars, InGame
<1>3. ASSUME NEW c \in InGame
      PROVE  ships'[players[c]].pid = conn[c].user /\ bots'[players[c]] = NoBot
  <2>1. players[c] \in Slots /\ conn[c].user \in Users /\ ships[players[c]].pid = conn[c].user
    BY DEF IInv, TypeOK, SeatedAreServed, ConnRecord, InGame, SlotExclusive
  <2>2. ships'[players[c]].pid = conn[c].user
    BY <1>1, <2>1
  <2> QED BY <1>1, <2>1, <2>2, PopulationAssumption DEF Exclusive
<1> QED BY <1>1, <1>2, <1>3 DEF SlotExclusive, Exclusive

\* Neither does a step that changes only the record of a socket outside the game.
LEMMA SocketApart ==
  ASSUME IInv, SlotExclusive, NEW c \in Conns, c \notin InGame,
         \A d \in Conns : d # c => conn'[d] = conn[d],
         UNCHANGED <<players, popVars>>
  PROVE  SlotExclusive'
<1>1. InGame' = InGame /\ \A d \in InGame : conn'[d] = conn[d]
  BY DEF InGame
<1> QED BY <1>1 DEF SlotExclusive, popVars

\* A step in which each slot keeps its playerId and no bot comes or goes.
LEMMA SamePilots ==
  ASSUME IInv, SlotExclusive, \A s \in Slots : ships'[s].pid = ships[s].pid,
         UNCHANGED <<connVars, bots>>
  PROVE  SlotExclusive'
<1>1. InGame' = InGame /\ conn' = conn /\ players' = players /\ bots' = bots
  BY DEF connVars, InGame
<1>2. \A c \in InGame : players[c] \in Slots
  BY DEF IInv, TypeOK, InGame
<1> QED BY <1>1, <1>2 DEF SlotExclusive

\* A join that evicts nobody takes a slot in which nobody is.
LEMMA JoinApart ==
  ASSUME IInv, SlotExclusive, NEW c \in Conns, JoinServed(c), Existing(c) = {}
  PROVE  SlotExclusive'
<1> DEFINE slot == FindEmptySlot(ships)
           seated == [Pop EXCEPT !.ships = InitShip(@, slot, conn[c].team, conn[c].user)]
<1>1. /\ slot # -1 /\ Awaiting(c)
      /\ \E h \in OnHumanJoin(seated, conn[c].team) : Become(h)
      /\ players' = [e \in Conns |-> IF e = c THEN slot ELSE players[e]]
      /\ conn' = [e \in Conns |-> IF e = c THEN [conn[c] EXCEPT !.awaiting = FALSE] ELSE conn[e]]
  <2>1. AfterEviction(c) = {Pop} /\ Pop.ships = ships
    BY DEF AfterEviction, Pop
  <2> QED BY <2>1 DEF JoinServed
<1>2. /\ c \notin InGame /\ conn[c].user \in Users /\ conn[c].team \in Teams
      /\ conn'[c].user = conn[c].user
  <2>1. c \notin InGame /\ conn[c] \in ConnRecord
    BY <1>1, AwaitingIsOutside
  <2> QED BY <1>1, <2>1 DEF ConnRecord
<1>3. /\ ships \in [Slots -> ShipRecord] /\ Pop \in Populations
      /\ slot \in Slots /\ ships[slot].pid = NoOne
  BY <1>1, PopFacts, EmptySlotIsSlot DEF IInv, TypeOK
<1> HIDE DEF slot
<1>4. /\ seated = [ships |-> InitShip(ships, slot, conn[c].team, conn[c].user),
                   bots |-> bots, humans |-> humans]
      /\ seated \in Populations
  <2>1. InitShip(ships, slot, conn[c].team, conn[c].user) \in [Slots -> ShipRecord]
    BY <1>2, <1>3 DEF InitShip, ShipRecord
  <2>2. seated = [ships |-> InitShip(ships, slot, conn[c].team, conn[c].user),
                  bots |-> bots, humans |-> humans]
    BY DEF Pop
  <2> QED BY <1>3, <2>1, <2>2 DEF Pop, Populations
<1>5. /\ seated.ships[slot].pid = conn[c].user
      /\ \A s \in Slots : s # slot => seated.ships[s] = ships[s]
  BY <1>3, <1>4 DEF InitShip
<1>6. Exclusive(seated)
  BY <1>3, <1>4, <1>5, ExclusiveNow, PopulationAssumption DEF Exclusive, Pop
<1> HIDE DEF seated
<1>7. PICK h \in OnHumanJoin(seated, conn[c].team) : Become(h)
  BY <1>1
<1>8. Tidy(seated, h)
  BY <1>2, <1>4, <1>7, OnHumanJoinTidy
<1>9. /\ Exclusive(h) /\ ships' = h.ships /\ bots' = h.bots
      /\ \A s \in Slots : seated.ships[s].pid \in Users => h.ships[s].pid = seated.ships[s].pid
  BY <1>6, <1>7, <1>8 DEF Tidy, Become
<1>10. ASSUME NEW d \in InGame'
       PROVE  ships'[players'[d]].pid = conn'[d].user /\ bots'[players'[d]] = NoBot
  <2>1. CASE d = c
    <3>1. players'[d] = slot /\ ships'[slot].pid = conn[c].user
      BY <1>1, <1>2, <1>3, <1>5, <1>9, <2>1
    <3> QED BY <1>2, <1>3, <1>9, <2>1, <3>1, PopulationAssumption DEF Exclusive
  <2>2. CASE d # c
    <3>1. d \in InGame /\ players'[d] = players[d] /\ conn'[d] = conn[d]
      BY <1>1, <2>2, <1>10 DEF InGame
    <3>2. players[d] \in Slots /\ conn[d].user \in Users /\ ships[players[d]].pid = conn[d].user
      BY <3>1 DEF IInv, TypeOK, SeatedAreServed, ConnRecord, InGame, SlotExclusive
    <3>3. ships'[players[d]].pid = conn[d].user
      BY <1>3, <1>5, <1>9, <3>2, PopulationAssumption
    <3> QED BY <1>9, <3>1, <3>2, <3>3, PopulationAssumption DEF Exclusive
  <2> QED BY <2>1, <2>2
<1> QED BY <1>9, <1>10 DEF SlotExclusive, Exclusive

\* A session that ends clears a slot that was its own.
LEMMA DisconnectApart ==
  ASSUME IInv, SlotExclusive, NEW c \in Conns, Disconnect(c)
  PROVE  SlotExclusive'
<1> DEFINE f == [Pop EXCEPT !.ships = ClearShip(@, players[c])]
<1>1. /\ c \in InGame /\ players[c] \in Slots /\ Pop \in Populations /\ Brained(Pop)
      /\ conn' = [conn EXCEPT ![c] = NoConn] /\ players' = [players EXCEPT ![c] = NoSlot]
      /\ conn \in [Conns -> ConnRecord \cup {NoConn}] /\ players \in [Conns -> Slots \cup {NoSlot}]
      /\ ships[players[c]].team \in Teams
  BY PopFacts DEF Disconnect, IInv, TypeOK, InGame, ShipRecord
<1>2. PICK h \in OnHumanLeave(f, ships[players[c]].team) : Become(h)
  BY DEF Disconnect, Disconnected, Pop
<1>3. f \in Populations /\ f.bots = bots
  BY <1>1, ClearShipSafe DEF Safe, Pop
<1>4. \A s \in Slots : s # players[c] => f.ships[s] = ships[s]
  <2>1. ships \in [Slots -> ShipRecord] /\ f.ships = ClearShip(ships, players[c])
    BY DEF Pop, IInv, TypeOK
  <2> HIDE DEF f
  <2> QED BY <1>1, <2>1 DEF ClearShip
<1>5. Exclusive(f)
  BY <1>1, <1>3, <1>4 DEF Exclusive, SlotExclusive
<1> HIDE DEF f
<1>6. Tidy(f, h)
  BY <1>1, <1>2, <1>3, OnHumanLeaveTidy
<1>7. /\ Exclusive(h) /\ ships' = h.ships /\ bots' = h.bots
      /\ \A s \in Slots : f.ships[s].pid \in Users => h.ships[s].pid = f.ships[s].pid
  BY <1>2, <1>5, <1>6 DEF Tidy, Become
<1>8. ASSUME NEW d \in InGame'
      PROVE  ships'[players'[d]].pid = conn'[d].user /\ bots'[players'[d]] = NoBot
  <2>1. d # c /\ d \in InGame /\ players'[d] = players[d] /\ conn'[d] = conn[d]
    BY <1>1, <1>8 DEF InGame
  <2>2. players[d] \in Slots /\ conn[d].user \in Users /\ ships[players[d]].pid = conn[d].user
    BY <2>1 DEF IInv, TypeOK, SeatedAreServed, ConnRecord, InGame, SlotExclusive
  <2>3. players[d] # players[c]
    BY <1>1, <2>1, OwnSlots
  <2>4. ships'[players[d]].pid = conn[d].user
    BY <1>4, <1>7, <2>2, <2>3
  <2> QED BY <1>7, <2>1, <2>2, <2>4, PopulationAssumption DEF Exclusive
<1> QED BY <1>7, <1>8 DEF SlotExclusive, Exclusive

\* The step that ends it takes over a session, or is the reset.
LEMMA StepShares ==
  ASSUME IInv, SlotExclusive, [Next]_vars
  PROVE  \/ SlotExclusive'
         \/ winPause = 1 /\ winPause' = 0
         \/ \E c \in Conns : Awaiting(c) /\ Existing(c) # {}
                              /\ \A e \in Existing(c) : conn'[e] = NoConn
<1>1. CASE UNCHANGED vars
  <2>1. SlotExclusive'
    BY <1>1, SamePilots DEF vars, popVars
  <2> QED BY <2>1
<1>2. ASSUME NEW c \in Conns, NEW u \in Users, NEW t \in Teams, Connect(c, u, t)
      PROVE  SlotExclusive'
  <2>1. c \notin InGame
    BY <1>2, SessionsAssumption DEF Connect, IInv, SeatedAreServed, ConnRecord
  <2> QED BY <1>2, <2>1, SocketApart DEF Connect, IInv, TypeOK
<1>3. ASSUME NEW c \in Conns, Rejected(c) \/ DropWhileAwaiting(c)
      PROVE  SlotExclusive'
  <2>1. c \notin InGame
    BY <1>3, AwaitingIsOutside DEF Rejected, DropWhileAwaiting
  <2> QED BY <1>3, <2>1, SocketApart DEF Rejected, DropWhileAwaiting, IInv, TypeOK
<1>4. ASSUME NEW c \in Conns, JoinServed(c) \/ JoinRefused(c)
      PROVE  SlotExclusive' \/ (Awaiting(c) /\ Existing(c) # {}
                                /\ \A e \in Existing(c) : conn'[e] = NoConn)
  <2>1. Awaiting(c) /\ c \notin InGame
    BY <1>4, AwaitingIsOutside DEF JoinServed, JoinRefused
  <2>2. CASE Existing(c) # {}
    <3>1. \A e \in Existing(c) : e \in Conns /\ e # c
      BY <2>1 DEF Existing, InGame
    <3> QED BY <1>4, <2>1, <2>2, <3>1 DEF JoinServed, JoinRefused
  <2>3. CASE Existing(c) = {} /\ JoinServed(c)
    BY <2>3, JoinApart
  <2>4. CASE Existing(c) = {} /\ JoinRefused(c)
    <3>1. Become(Pop)
      BY <2>4 DEF JoinRefused, AfterEviction
    <3>2. players' = players /\ \A d \in Conns : d # c => conn'[d] = conn[d]
      BY <2>4 DEF JoinRefused, IInv, TypeOK
    <3> QED BY <2>1, <3>1, <3>2, SocketApart DEF Become, Pop, popVars
  <2> QED BY <1>4, <2>2, <2>3, <2>4
<1>5. ASSUME NEW c \in Conns, Disconnect(c) PROVE SlotExclusive'
  BY <1>5, DisconnectApart
<1>6. ASSUME NEW c \in Conns, Respawn(c) PROVE SlotExclusive'
  <2>1. ships' = InitShip(ships, players[c], ships[players[c]].team, ships[players[c]].pid)
        /\ UNCHANGED <<connVars, bots>>
    BY <1>6 DEF Respawn
  <2>2. \A s \in Slots : ships'[s].pid = ships[s].pid
    BY <2>1 DEF InitShip, IInv, TypeOK
  <2> QED BY <2>1, <2>2, SamePilots
<1>7. CASE Tick
  <2>1. ASSUME NEW K, NEW D, NEW won, PlayTick(K, D, won)
        PROVE  SlotExclusive'
    <3>1. \A s \in Slots : ships'[s].pid = ships[s].pid
      BY <2>1 DEF PlayTick, IInv, TypeOK, ShipRecord
    <3> QED BY <2>1, <3>1, SamePilots DEF PlayTick
  <2>2. CASE PauseTick
    BY <2>2, SamePilots DEF PauseTick, popVars
  <2>3. CASE ResetTick
    BY <2>3 DEF ResetTick
  <2> QED BY <1>7, <2>1, <2>2, <2>3 DEF Tick
<1>8. CASE OnTick
  <2>1. ASSUME NEW s \in Slots, RespawnDeadBot(s) PROVE SlotExclusive'
    <3> DEFINE h == SpawnBot(RemoveBot(Pop, s), deadBots[s])
    <3>1. deadBots[s] \in Teams /\ Become(h) /\ UNCHANGED connVars
      BY <2>1 DEF RespawnDeadBot, IInv, TypeOK
    <3>2. Tidy(Pop, h)
      BY <3>1, PopFacts, ReplaceBotTidy DEF IInv
    <3> HIDE DEF h
    <3> QED BY <3>1, <3>2, TidyStep
  <2>2. CASE FinishOnTick
    <3>1. PICK h : Tidy(Pop, h) /\ Become(h)
      BY <2>2, RotationTidy
    <3>2. UNCHANGED connVars
      BY <2>2 DEF FinishOnTick
    <3> QED BY <3>1, <3>2, TidyStep
  <2> QED BY <1>8, <2>1, <2>2 DEF OnTick
<1> QED BY <1>1, <1>2, <1>3, <1>4, <1>5, <1>6, <1>7, <1>8 DEF Next

-----------------------------------------------------------------------------
(* The theorems *)

\* The tables keep their types: in particular no handler or tick listener
\* ever writes outside the slot table, and every count stays a natural number.
THEOREM TypeCorrect == Spec => []TypeOK
BY AlwaysIInv, PTL DEF IInv

\* handleConnection never seats one user twice, for any number of sockets
\* that wait for their token at the same time.
THEOREM OneSession == Spec => []OneSessionPerUser
BY AlwaysIInv, PTL DEF IInv

\* No slot keeps the userId of a user who is not in the players map at that
\* slot: leaveGame, takeovers, resets and the bot manager never leave one behind.
THEOREM NoOrphanShip == Spec => []HumanShipHasSession
BY AlwaysIInv, PTL DEF IInv

\* A ship marked as a bot's is always driven by a brain of its own team.
THEOREM NoBrainlessBot == Spec => []BotShipHasBrain
BY AlwaysIInv, PTL DEF IInv

\* The two together: no ship in use is without a pilot.
THEOREM EveryShipHasPilot == Spec => []ShipsHavePilots
BY AlwaysIInv, PTL DEF IInv, ShipsHavePilots

\* humanCounts never falls below the number of sessions, although onHumanLeave
\* books a leave on whatever team the slot's ship has and clamps at zero.
THEOREM CountsCoverSessions == Spec => []HumansNotUndercounted
BY AlwaysIInv, PTL DEF IInv

\* When onTick is through, every bot flies: whatever slots it cleared and
\* filled for others, none that it collected is left dead or was dropped.
THEOREM BotsFlyAgain == Spec => BotsFlyAfterTick
<1> DEFINE Fly == stage = "respawn" /\ stage' = "idle" =>
                    \A s \in Slots : bots'[s] # NoBot => ships'[s].status # "DEAD"
<1>1. Init => GroundedAreListed
  BY DEF Init, GroundedAreListed
<1>2. IInv /\ GroundedAreListed /\ [Next]_vars => [Fly]_vars
  BY FinishedFly
<1> HIDE DEF Fly
<1>3. Spec => [][Fly]_vars
  BY <1>1, <1>2, AlwaysIInv, StepLists, PTL DEF Spec
<1> QED BY <1>3 DEF Fly, BotsFlyAfterTick

\* Slots begin to be shared only by a reset, or by a join that takes over a
\* live session of its user.
THEOREM SharingStarts == Spec => SharingStartsOnlyAt
<1> DEFINE Ways == SlotExclusive =>
                     \/ SlotExclusive'
                     \/ winPause = 1 /\ winPause' = 0
                     \/ \E c \in Conns : Awaiting(c) /\ Existing(c) # {}
                                          /\ \A e \in Existing(c) : conn'[e] = NoConn
<1>1. IInv /\ [Next]_vars => [Ways]_vars
  BY StepShares
<1> HIDE DEF Ways
<1>2. Spec => [][Ways]_vars
  BY <1>1, AlwaysIInv, PTL DEF Spec
<1> QED BY <1>2 DEF Ways, SharingStartsOnlyAt
=============================================================================
