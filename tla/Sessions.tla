------------------------------ MODULE Sessions ------------------------------
(***************************************************************************)
(* Who is connected, and which slot each connection flies: the gateway's   *)
(* handlers, the broadcast service's players map, the bot manager and the  *)
(* parts of the game tick that change who occupies a slot.                 *)
(*                                                                         *)
(* The server is one JavaScript thread.  A handler runs to completion, so  *)
(* it is one action; the only suspension point is the await of             *)
(* validateSocket in handleConnection, between Connect and JoinServed.         *)
(* The loop of BotManagerService.onTick over the bots found dead is one    *)
(* action per iteration: while stage is not "idle" no handler can run.     *)
(***************************************************************************)
EXTENDS Population

CONSTANTS
  Conns,           \* socket identities, reused once nothing remembers them
  NoConn,          \* a socket the server has no record of
  NoSlot,          \* no entry in the players map
  WinPauseTicks,   \* WIN_PAUSE_DURATION in ticks
  TModeMin,        \* TMODE_MIN_PLAYERS
  HumanCap         \* bound: largest human count per team explored

ASSUME SessionsAssumption ==
  /\ IsFiniteSet(Conns)
  /\ NoSlot \notin Slots
  /\ NoConn \notin [user: Users, team: Teams, up: BOOLEAN, awaiting: BOOLEAN]
  /\ WinPauseTicks \in Nat \ {0}
  /\ TModeMin \in Nat
  /\ HumanCap \in Nat

VARIABLES
  conn,      \* the server's view of a socket, or NoConn
  players,   \* conn -> slot in the broadcast service's players map, or NoSlot
  ships, bots, humans,
  winPause,  \* winPauseTicks of the game loop
  stage,     \* "idle", or "respawn" while onTick runs
  deadBots   \* slot -> team of the bots onTick collected and has not yet replaced

connVars == <<conn, players>>
popVars == <<ships, bots, humans>>
tickVars == <<winPause, stage, deadBots>>
vars == <<connVars, popVars, tickVars>>

Pop == [ships |-> ships, bots |-> bots, humans |-> humans]
Become(g) == ships' = g.ships /\ bots' = g.bots /\ humans' = g.humans

\* user and team come from the game token; up is the transport's state, and
\* awaiting says that handleConnection is still inside validateSocket.
ConnRecord == [user: Users, team: Teams, up: BOOLEAN, awaiting: BOOLEAN]
NoDeadBots == [s \in Slots |-> NoBot]
InGame == {c \in Conns : players[c] # NoSlot}

TypeOK ==
  /\ conn \in [Conns -> ConnRecord \cup {NoConn}]
  /\ players \in [Conns -> Slots \cup {NoSlot}]
  /\ ships \in [Slots -> ShipRecord]
  /\ bots \in [Slots -> Teams \cup {NoBot}]
  /\ humans \in [Teams -> Nat]
  /\ winPause \in 0 .. WinPauseTicks
  /\ stage \in {"idle", "respawn"}
  /\ deadBots \in [Slots -> Teams \cup {NoBot}]

Init ==
  /\ conn = [c \in Conns |-> NoConn]
  /\ players = [c \in Conns |-> NoSlot]
  /\ ships = FreshShips([s \in Slots |-> "FED"])
  /\ bots = FreshBots
  /\ humans = [t \in Teams |-> 0]
  /\ winPause = 0
  /\ stage = "idle"
  /\ deadBots = NoDeadBots

-----------------------------------------------------------------------------
(* GameGateway *)

\* handleConnection up to its await.
Connect(c, u, t) ==
  /\ stage = "idle"
  /\ conn[c] = NoConn
  /\ conn' = [conn EXCEPT ![c] = [user |-> u, team |-> t, up |-> TRUE, awaiting |-> TRUE]]
  /\ UNCHANGED <<players, popVars, tickVars>>

Awaiting(c) == conn[c] # NoConn /\ conn[c].awaiting

\* validateSocket resolves to null.
Rejected(c) ==
  /\ stage = "idle"
  /\ Awaiting(c)
  /\ conn' = [conn EXCEPT ![c] = NoConn]
  /\ UNCHANGED <<players, popVars, tickVars>>

\* Fault: leaveGame is not called, so the ship stays with its owner.
DisconnectedKeepsShip(g, slot) == OnHumanLeave(g, g.ships[slot].team)

\* handleDisconnect of a socket that is in the players map.  The team is
\* read from the ship, before leaveGame clears the slot.
Disconnected(g, slot) ==
  OnHumanLeave([g EXCEPT !.ships = ClearShip(@, slot)], g.ships[slot].team)

\* Fault: the players map is not searched for the user.
ExistingIgnored(c) == {}

\* The session of the same user, if any, is closed: disconnect() runs
\* handleDisconnect before it returns when the transport is still up, and
\* then leaveGame clears the slot (again).
Existing(c) == {e \in InGame : conn[e].user = conn[c].user}

Evicted(e) ==
  {[g EXCEPT !.ships = ClearShip(@, players[e])] :
     g \in IF conn[e].up THEN Disconnected(Pop, players[e]) ELSE {Pop}}

AfterEviction(c) ==
  IF Existing(c) = {} THEN {Pop} ELSE UNION {Evicted(e) : e \in Existing(c)}

\* The rest of handleConnection, after validateSocket resolved to a payload.
\* Nothing checks that the client is still connected.
JoinServed(c) ==
  /\ stage = "idle"
  /\ Awaiting(c)
  /\ humans[conn[c].team] < HumanCap
  /\ \E g \in AfterEviction(c) :
       LET slot == FindEmptySlot(g.ships)
           seated == [g EXCEPT !.ships =
                        InitShip(@, slot, conn[c].team, conn[c].user)]
       IN  /\ slot # -1
           /\ \E h \in OnHumanJoin(seated, conn[c].team) : Become(h)
           /\ players' = [e \in Conns |->
                IF e = c THEN slot ELSE IF e \in Existing(c) THEN NoSlot ELSE players[e]]
  /\ conn' = [e \in Conns |->
       IF e = c THEN [conn[c] EXCEPT !.awaiting = FALSE]
       ELSE IF e \in Existing(c) THEN NoConn ELSE conn[e]]
  /\ UNCHANGED tickVars

\* The same code when joinGame finds no empty slot: "Server full".
JoinRefused(c) ==
  /\ stage = "idle"
  /\ Awaiting(c)
  /\ \E g \in AfterEviction(c) : FindEmptySlot(g.ships) = -1 /\ Become(g)
  /\ players' = [e \in Conns |-> IF e \in Existing(c) THEN NoSlot ELSE players[e]]
  /\ conn' = [e \in Conns |-> IF e \in Existing(c) \cup {c} THEN NoConn ELSE conn[e]]
  /\ UNCHANGED tickVars

\* The transport of a joined client closes: handleDisconnect.
Disconnect(c) ==
  /\ stage = "idle"
  /\ c \in InGame /\ conn[c].up
  /\ \E g \in Disconnected(Pop, players[c]) : Become(g)
  /\ conn' = [conn EXCEPT ![c] = NoConn]
  /\ players' = [players EXCEPT ![c] = NoSlot]
  /\ UNCHANGED tickVars

\* Fault: the leave of a socket that never joined is counted.
DropWhileAwaitingCounts(c) ==
  /\ stage = "idle"
  /\ Awaiting(c) /\ conn[c].up
  /\ conn' = [conn EXCEPT ![c] = [@ EXCEPT !.up = FALSE]]
  /\ \E g \in OnHumanLeave(Pop, conn[c].team) : Become(g)
  /\ UNCHANGED <<players, tickVars>>

\* The transport closes during the await: handleDisconnect finds no player.
DropWhileAwaiting(c) ==
  /\ stage = "idle"
  /\ Awaiting(c) /\ conn[c].up
  /\ conn' = [conn EXCEPT ![c] = [@ EXCEPT !.up = FALSE]]
  /\ UNCHANGED <<players, popVars, tickVars>>

\* handleRespawn.  It asks for a playerId in the slot and not for a dead
\* ship; torpedoes in flight, the delay and the starbase gates can refuse,
\* which changes nothing.
Respawn(c) ==
  /\ stage = "idle"
  /\ c \in InGame /\ conn[c].up
  /\ LET s == players[c]
     IN  /\ ships[s].pid # NoOne
         /\ ships' = InitShip(ships, s, ships[s].team, ships[s].pid)
  /\ UNCHANGED <<connVars, bots, humans, tickVars>>

-----------------------------------------------------------------------------
(* GameLoopService.tick *)

\* Fault: the scan for dead bots skips slot 0.
StartOnTickSkips ==
  /\ deadBots' = [s \in Slots |-> IF /\ bots'[s] # NoBot /\ ships'[s].status = "DEAD"
                                    /\ s > 0
                                  THEN bots'[s] ELSE NoBot]
  /\ stage' = "respawn"

\* Tick listeners start: onTick collects the bots whose ship is DEAD.
StartOnTick ==
  /\ deadBots' = [s \in Slots |-> IF bots'[s] # NoBot /\ ships'[s].status = "DEAD"
                                  THEN bots'[s] ELSE NoBot]
  /\ stage' = "respawn"

Headcount(t) == Cardinality({s \in Slots : ships[s].pid # NoOne /\ ships[s].team = t})
TMode == \A t \in Teams : Headcount(t) >= TModeMin

\* A tick of play: ships in K are destroyed, exploding ships in D finish
\* exploding, and the match may be decided when T-mode is on.
PlayTick(K, D, won) ==
  /\ stage = "idle" /\ winPause = 0
  /\ won => TMode
  /\ K \subseteq {s \in Slots : ships[s].status = "ALIVE"}
  /\ D \subseteq {s \in Slots : ships[s].status = "EXPLODING"}
  /\ ships' = [s \in Slots |->
       IF s \in K THEN [ships[s] EXCEPT !.status = "EXPLODING"]
       ELSE IF s \in D THEN [ships[s] EXCEPT !.status = "DEAD"]
       ELSE ships[s]]
  /\ winPause' = IF won THEN WinPauseTicks ELSE 0
  /\ UNCHANGED <<connVars, bots, humans>>
  /\ StartOnTick

\* A tick of the pause after a win, not the last.
PauseTick ==
  /\ stage = "idle" /\ winPause > 1
  /\ winPause' = winPause - 1
  /\ UNCHANGED <<connVars, popVars>>
  /\ StartOnTick

\* handleReset gives each player's slot back its userId, whoever occupies
\* it by then; the last writer wins when two players name one slot.
Claims(s) == {conn[c].user : c \in {d \in Conns : players[d] = s}}

\* The last tick of the pause: resetGame, then the tick listeners.
ResetTick ==
  /\ stage = "idle" /\ winPause = 1
  /\ winPause' = 0
  /\ bots' = FreshBots
  /\ \E owner \in [Slots -> Users] :
       /\ \A s \in Slots : Claims(s) # {} => owner[s] \in Claims(s)
       /\ LET fresh == FreshShips([s \in Slots |-> ships[s].team])
          IN  ships' = [s \in Slots |->
                IF Claims(s) = {} THEN fresh[s] ELSE [fresh[s] EXCEPT !.pid = owner[s]]]
  /\ UNCHANGED <<connVars, humans>>
  /\ StartOnTick

\* One iteration of onTick's loop over the dead bots: the slot is cleared,
\* and a new bot of the same team takes the lowest empty slot.
RespawnDeadBot(s) ==
  /\ stage = "respawn"
  /\ deadBots[s] # NoBot
  /\ Become(SpawnBot(RemoveBot(Pop, s), deadBots[s]))
  /\ deadBots' = [deadBots EXCEPT ![s] = NoBot]
  /\ UNCHANGED <<connVars, winPause, stage>>

\* The end of onTick: checkDifficultyRebalance may rotate a bot of the
\* trailing team up and then one of the leading team down.
FinishOnTick ==
  /\ stage = "respawn"
  /\ deadBots = NoDeadBots
  /\ stage' = "idle"
  /\ \/ Become(Pop)
     \/ \E t \in Teams : \E g \in RotateBot(Pop, t) :
          \E h \in UNION {RotateBot(g, o) : o \in Teams \ {t}} : Become(h)
  /\ UNCHANGED <<connVars, winPause, deadBots>>

-----------------------------------------------------------------------------
Tick ==
  \/ \E K, D \in SUBSET Slots, won \in BOOLEAN : PlayTick(K, D, won)
  \/ PauseTick
  \/ ResetTick

OnTick == (\E s \in Slots : RespawnDeadBot(s)) \/ FinishOnTick

Next ==
  \/ \E c \in Conns, u \in Users, t \in Teams : Connect(c, u, t)
  \/ \E c \in Conns : \/ Rejected(c)
                      \/ JoinServed(c)
                      \/ JoinRefused(c)
                      \/ Disconnect(c)
                      \/ DropWhileAwaiting(c)
                      \/ Respawn(c)
  \/ Tick
  \/ OnTick

Spec == Init /\ [][Next]_vars
-----------------------------------------------------------------------------
(* Properties *)

\* A user never has two entries in the players map, whatever happens while
\* its second connection waits for the token to be validated: the look-up of
\* the old session and the insertion of the new one are one handler step.
OneSessionPerUser ==
  \A c, d \in InGame : conn[c].user = conn[d].user => c = d

\* No ship outlives its session: a slot that carries a userId belongs to a
\* session of that user that names that slot, through disconnects, takeovers,
\* resets and slots shared with bots.
HumanShipHasSession ==
  \A s \in Slots : ships[s].pid \in Users =>
    \E c \in InGame : players[c] = s /\ conn[c].user = ships[s].pid

\* A ship that is marked as a bot's is driven by a bot of the ship's own
\* team, even when a human who shares the slot respawned it.
BotShipHasBrain ==
  \A s \in Slots : ships[s].pid = Bot => bots[s] = ships[s].team

\* The balancer never believes in fewer humans than are connected, although
\* leaves are booked on the team the slot's ship has by then and clamped at 0.
HumansNotUndercounted ==
  humans["FED"] + humans["ROM"] >= Cardinality(InGame)

\* Each session has a ship of its own and each bot too.
SlotExclusive ==
  /\ \A c \in InGame : /\ ships[players[c]].pid = conn[c].user
                       /\ bots[players[c]] = NoBot
  /\ \A s \in Slots : bots[s] # NoBot => ships[s].pid = Bot

\* Sharing of a slot can start in two ways only: a match reset, or a join
\* that takes over a live session of the same user.
SharingStartsOnlyAt ==
  [][SlotExclusive =>
       \/ SlotExclusive'
       \/ winPause = 1 /\ winPause' = 0
       \/ \E c \in Conns : Awaiting(c) /\ Existing(c) # {}
                            /\ \A e \in Existing(c) : conn'[e] = NoConn]_vars

\* Every ship in use has a pilot: a user with a session, or a brain.
ShipsHavePilots == HumanShipHasSession /\ BotShipHasBrain

\* When onTick is through, every bot flies: it collects the dead bots first and
\* replaces them one by one, clears slots and fills the lowest empty ones, and
\* then may rotate two more bots (bot-manager.service.ts onTick).
BotsFlyAfterTick ==
  [][stage = "respawn" /\ stage' = "idle" =>
       \A s \in Slots : bots'[s] # NoBot => ships'[s].status # "DEAD"]_vars

\* docs: humans stay connected over a reset and need not reconnect, so a
\* reset leaves each of them a slot that is still its own.
ResetKeepsSlots ==
  [][SlotExclusive /\ winPause = 1 /\ winPause' = 0 => SlotExclusive']_vars
=============================================================================
