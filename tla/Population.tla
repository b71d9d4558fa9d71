----------------------------- MODULE Population -----------------------------
(***************************************************************************)
(* The slot table of the game server and the bot manager's accounting.     *)
(*                                                                         *)
(* A population is a record of the three tables that decide who flies what:*)
(*   ships  slot -> status, playerId and team of the ship in that slot     *)
(*   bots   slot -> team of the bot brain that drives the slot, or NoBot   *)
(*   humans team -> the bot manager's own count of its human players       *)
(* Every operator is one method of GameState or BotManagerService; a       *)
(* method that picks "the first bot of a team" in Map insertion order is   *)
(* the set of the populations each choice of a bot leads to.               *)
(***************************************************************************)
EXTENDS Integers, FiniteSets

CONSTANTS
  Users,              \* the userIds that hold game tokens
  Bot,                \* stands for every playerId of the form "bot:<name>"
  NoOne,              \* the empty playerId
  NoBot,              \* no entry for a slot in the bots map
  NumSlots,           \* MAX_PLAYERS
  BotsPerTeam,        \* BOTS_PER_TEAM
  MaxPlayersPerTeam   \* MAX_PLAYERS_PER_TEAM

ASSUME PopulationAssumption ==
  /\ Bot \notin Users /\ NoOne \notin Users /\ Bot # NoOne
  /\ NoBot \notin {"FED", "ROM"}
  /\ NumSlots \in Nat \ {0}
  /\ BotsPerTeam \in Nat
  /\ MaxPlayersPerTeam \in Nat

\* The two teams the client offers and the bot manager balances.
Teams == {"FED", "ROM"}
Slots == 0 .. NumSlots - 1
ShipRecord == [status: {"ALIVE", "EXPLODING", "DEAD"},
               pid: Users \cup {Bot, NoOne}, team: Teams]
Populations == [ships: [Slots -> ShipRecord],
                bots: [Slots -> Teams \cup {NoBot}],
                humans: [Teams -> Nat]]

-----------------------------------------------------------------------------
(* GameState *)

\* Fault: any dead ship counts as an empty slot.
EmptySlotsDead(ships) == {s \in Slots : ships[s].status = "DEAD"}

EmptySlots(ships) ==
  {s \in Slots : ships[s].status = "DEAD" /\ ships[s].pid = NoOne}

\* The lowest empty slot, or -1.
FindEmptySlot(ships) ==
  IF EmptySlots(ships) = {} THEN -1
  ELSE CHOOSE s \in EmptySlots(ships) : \A r \in EmptySlots(ships) : s <= r

InitShip(ships, s, t, p) ==
  [ships EXCEPT ![s] = [status |-> "ALIVE", pid |-> p, team |-> t]]

\* The team of the ship that used the slot stays in the cleared record.
ClearShip(ships, s) ==
  [ships EXCEPT ![s].status = "DEAD", ![s].pid = NoOne]

-----------------------------------------------------------------------------
(* BotManagerService *)

BotsOn(g, t) == {s \in Slots : g.bots[s] = t}

TeamTotal(g, t) == g.humans[t] + Cardinality(BotsOn(g, t))

SpawnBot(g, t) ==
  LET s == FindEmptySlot(g.ships)
  IN  IF s = -1 THEN g
      ELSE [g EXCEPT !.ships = InitShip(@, s, t, Bot), !.bots[s] = t]

RemoveBot(g, s) ==
  IF g.bots[s] = NoBot THEN g
  ELSE [g EXCEPT !.ships = ClearShip(@, s), !.bots[s] = NoBot]

\* Move one bot from the larger team to the smaller when they differ by more than 1.
MoveBot(g, from, to) ==
  IF BotsOn(g, from) = {} THEN {g}
  ELSE {SpawnBot(RemoveBot(g, s), to) : s \in BotsOn(g, from)}

RebalanceTeams(g) ==
  LET fed == TeamTotal(g, "FED")
      rom == TeamTotal(g, "ROM")
  IN  IF fed > rom + 1 THEN MoveBot(g, "FED", "ROM")
      ELSE IF rom > fed + 1 THEN MoveBot(g, "ROM", "FED")
      ELSE {g}

\* One bot of a full team yields, then the teams are balanced.
YieldBot(g, t) ==
  IF TeamTotal(g, t) > MaxPlayersPerTeam /\ BotsOn(g, t) # {}
  THEN {RemoveBot(g, s) : s \in BotsOn(g, t)}
  ELSE {g}

OnHumanJoin(g, t) ==
  LET joined == [g EXCEPT !.humans[t] = @ + 1]
  IN  UNION {RebalanceTeams(h) : h \in YieldBot(joined, t)}

\* Fault: the count is not clamped at zero.
OnHumanLeaveUnclamped(g, t) == RebalanceTeams([g EXCEPT !.humans[t] = @ - 1])

OnHumanLeave(g, t) ==
  LET left == [g EXCEPT !.humans[t] = IF @ = 0 THEN 0 ELSE @ - 1]
  IN  RebalanceTeams(IF Cardinality(BotsOn(left, t)) < BotsPerTeam
                     THEN SpawnBot(left, t) ELSE left)

\* A bot of team t is replaced by one of another difficulty, or is already
\* at the end of the scale (difficulty itself is not kept).
RotateBot(g, t) ==
  {g} \cup {SpawnBot(RemoveBot(g, s), t) : s \in BotsOn(g, t)}

\* resetForNewGame on a table that GameState.resetGame has just cleared:
\* every bot is removed, then BotsPerTeam FED and as many ROM bots take the
\* lowest slots, as at start-up.
FreshBots ==
  [s \in Slots |-> IF s < BotsPerTeam THEN "FED"
                   ELSE IF s < 2 * BotsPerTeam THEN "ROM" ELSE NoBot]

FreshShips(team) ==
  [s \in Slots |-> IF FreshBots[s] # NoBot
                   THEN [status |-> "ALIVE", pid |-> Bot, team |-> FreshBots[s]]
                   ELSE [status |-> "DEAD", pid |-> NoOne, team |-> team[s]]]
=============================================================================
