# A TLA+ model of netrek-web

netrek-web is a browser Netrek: a NestJS game server that runs a ten-hertz
game loop over sixteen ship slots and forty planets, a NestJS back end that
keeps accounts, servers and statistics, and a Next.js client.  This directory
models who flies what and who wins, what a ship and a bot can be told, what the
player's page makes of it, and how accounts, servers and statistics are kept.
TLC checks the models on small instances, and TLAPS proves every one of their
safety properties for all.

Paths below are relative to the repository; `server/` stands for
`apps/server/src/game/`.

## 1. Inventory

| Component | State it keeps | Operations | Talks to |
| --- | --- | --- | --- |
| Slot table (`server/state/game-state.ts`, `server/game.service.ts`) | sixteen ships, pools of torpedoes, plasmas, explosions, planets, what each team knows of them, `currentTick`; statistics per slot, starbase cooldowns | `findEmptySlot`, `initShip`, `clearShip`, `joinGame`, `leaveGame`, `respawn`, `checkSbGates`, `resetGame` | shared state of everything in the server |
| Gateway and broadcast (`server/game.gateway.ts`, `server/game-broadcast.service.ts`, `server/guards/ws-auth.guard.ts`) | `players`: socket -> slot, user | `handleConnection` (awaits the token check), `handleDisconnect`, `handleInput`, `handleRespawn`, `handleChat`, `handleReset`, `handleTick` | sockets; calls the slot table and the bot manager |
| Input queue (`server/state/input-queue.ts`) | per slot up to 32 inputs | `enqueue`, `drain` | written by the gateway and the bots, drained by the loop while the ship lives and the game runs |
| Bot manager (`server/bot/bot-manager.service.ts`) | `bots`: slot -> brain, `humanCounts`: team -> number | spawn, remove, yield, rebalance, replace dead bots, rotate difficulty, reset | called by the gateway; listens to ticks |
| Bot brains (`server/bot/bot-*.ts`) | mission, target, order, combat phase, cooldowns | `think` once per tick: assess, choose, fall back, fight, execute; `setOrder` | read what the wire tells of the game, write the input queue |
| Game loop (`server/game-loop.service.ts`) | `tmode`, `winPauseTicks`, `winningTeam`, `surrenderTimers` | `tick`: inputs, locks, docking, movement, weapons, planets, orbits, bombing, beaming, tractors, refits, ship systems, deaths, T-mode, win | writes the slot table, emits events |
| Statistics reporter (`apps/server/src/registration/stat-reporter.service.ts`) | deltas per user, guests | `record*`, `pushStats` every minute | posts to the back end |
| Registration (`apps/server/src/registration/registration.service.ts`) | none | heartbeat every 30 s | posts to the back end |
| Back end statistics (`apps/backend/src/stats`) | `PlayerStats`, `Match` rows | `ingest`, `reportMatch` | data base |
| Back end servers (`apps/backend/src/servers`) | `GameServer` rows | create, rotate token, heartbeat, stale sweep, join (signs a game token) | data base, clients |
| Back end accounts (`apps/backend/src/auth`) | users, sessions | login, validate and rotate tokens, user name, invalidate | data base, clients |
| Shared package (`packages/shared`) | none | protocol encoding, ranks, capacities, geometry | everyone |
| Client (`apps/client`) | phase of the page, last snapshot, composed message, macros | respawn requests, inputs, chat, drawing | gateway, back end |
| User interface library (`packages/ui`) | none of its own | presentation | client |

### What is hard about it

The server is one JavaScript thread.  Nothing interrupts a handler or a tick,
except at an `await`, and there are few: the token check in `handleConnection`,
the statistics post, and everything the back end does with its data base.  The
client is another process, behind a channel that drops state packets.  So
the hard behaviours are these.

* **Who owns a slot.**  A slot is named by number in the players map, in the
  bots map, in `dockedAt` and `dockedShips`, in locks and in kill credit.  Joins,
  leaves, respawns and resets put another ship behind the same number.
* **The suspended join.**  Between the start of a connection and the end of its
  token check the client may be gone, or be back with a second connection.
* **One pass, many ships.**  A tick goes through the slots in order, and what one
  ship does (docks, dies, bombs, beams) changes what the next one finds.
* **State that many handlers must end.**  Orbiting, bombing, beaming, docking and
  refitting are flags ended in a dozen places.
* **The end of the match.**  Timers with three thresholds, judged team by team
  with an early return, T-mode that comes and goes, a pause, and a reset that
  has to leave connected players in place.
* **Toggles.**  Bombing, beaming, repair and refit are toggles, and bots repeat
  themselves ten times a second.
* **Two pictures of one ship.**  The page and the bots see the game through packets
  that round, leave out the dead and may be lost, and act on it later.
* **In the back end**, checks followed by writes: counts, names, ranks, tokens,
  keys that several validations share.

What each component owes, and what is checked of it, is listed per module in
section 3; the hazards, each at its line, are in `PROJECT.json`.

## 2. Plan

Order: who owns a slot first, because everything else refers to slots; then the
references between ships; then the match; then the fight for planets, which has
to implement the match; then one ship and whoever commands it; then the page and
the back end.

| Module | Models | State of the work |
| --- | --- | --- |
| `Population` | slot table and bot accounting as operators on one record | done |
| `Sessions` | gateway, players map, bot manager, the tick as far as it changes who owns a slot; uses `Population` | done, proved |
| `Docking` | docks, orbits, locks, refits | done, proved |
| `Match` | T-mode, timers, win, pause, reset; abstract in how planets change hands | done, proved |
| `Conquest` | orders, growth, bombing, beaming, refits, deaths; implements `Match` | done, proved |
| `Tally`, `StatPipeline` | what counting merit promises; reporter, posts under way and interleaved ingests, which implement it | done, proved |
| `Combat` | pools of torpedoes and plasmas, explosions, deaths, respawns, resets | done, proved |
| `Helm`, `Wire` | operators: commands and ticks of one ship's systems; what packets keep of the game | done |
| `Flight` | a ship and its pilot, human or bot; uses `Helm`, `Wire`, `BotMissions` | done, proved |
| `BotOrders`, `BotMissions`, `BotBrain` | orders in the chat, commands per mission, the choice of missions | done, proved |
| `ChatEntry`, `GameClient` | keyboard and macros; page, channel, input queue, respawns | done, proved |
| `Accounts` | sign-in, sessions, token rotation, sign-out, user names | done, proved |
| `Registry`, `GameToken` | list of servers, heartbeats, sweep; game tokens and the shared key | done, proved |
| kill credit on `Combat` | credit by slot, and who sits there by then | next |
| player counts in `Registry` | the join that compares the count of the last heartbeat | next |

Theorems: every safety property that a run checks is one, the two refinements
included.  What is left is the liveness, which the prover cannot reach, and what
the two components still to be written will promise.

## 3. The modules

### Population and Sessions

`Population` keeps a record of three tables: `ships` (status, `playerId` and
team per slot), `bots` (the bots map) and `humans` (the bot manager's own
counts).  Each operator is a method of `GameState` or `BotManagerService`; where
the code takes the first bot of a team in the order of a JavaScript `Map`, the
operator yields the set of all results, one per bot it could take.  Every
`playerId` that starts with `bot:` is the one value `Bot`.

`Sessions` adds the sockets (`conn`), the players map and the parts of the tick
that matter.  `Connect` is `handleConnection` up to its `await`, `JoinServed` or
`JoinRefused` the rest of it, including the eviction of an older session of
the same user, whose `disconnect()` runs `handleDisconnect` at once if its
transport is still up.  `DropWhileAwaiting` is the client that leaves during
the `await`.  `onTick` of the bot manager goes through the dead bots one at a
time; its iterations are actions and no handler runs between them (`stage`).

Checked (`sessions`) and proved (`SessionsProofs`): `OneSessionPerUser`;
`ShipsHavePilots`, every ship marked as a human's has a session and every ship
marked as a bot's a brain of its team; `HumansNotUndercounted`;
`SharingStartsOnlyAt`, which says that two owners of one slot come from a match
reset or from a takeover of a live session and from nothing else; and
`BotsFlyAfterTick`, that when `onTick` is through its loop no bot sits in a dead
ship, although the loop clears slots and fills others as it goes.

`sessions_reset` shows a disagreement with the design document
`docs/superpowers/specs/2026-05-04-bots-and-lobby-design.md` (line 191: humans
stay connected over a reset; the new bots are spawned into their slots).  Another
is visible in the model: line 33 has a bot yield its slot to a human, but
`JoinRefused` comes first when no slot is empty.

### Docking

The state is the array of ships, reduced to status, team, type, orbit, lock,
refit and the two ends of the docking relation, and the slot whose inputs the
tick has reached.  `dockedShips`, an array of slots, is kept as a function from
slots to how often they are in it.  Each command is an action; the rest of the
tick is `FinishTick`, which composes one operator per step of the tick in the
code's order, with everything that depends on positions, damage or cloaks
chosen freely.  Starbases are the one type that differs, and `Other` is the rest.
`processInputs` asks for `refitTicks` once per slot, before the batch, so that a ship
obeys what comes behind its `REFIT` in the same tick and is frozen from the next one on
(`server/game-loop.service.ts:291`): a command needs `refit` to be 0 or, as only a refit
of this tick can be, still `RefitTicks`.  The same holds in `Conquest`.

Checked (`docking`) and proved (`DockingProofs`): `DocksSurviveTicks`, which is
`TicksKeepAgreement`, the two ends stay in agreement through every command and
tick and only a new ship in a slot can break that; `NoShipDockedAtWreck`; and
`OrbitWhileDockedOnlyByLock`.

The documents promise more than the code keeps, and the model reaches both
cases.  A starbase that respawns forgets who is docked at it
(`server/state/game-state.ts:265`) and may take more than the four ships of
`docs/superpowers/specs/2026-05-06-gameplay-sb-docking-plasma-design.md:28`.  Two
starbases of a team can exist (`Spec.md:75`: one), because joins and completed
refits pass no gate (`server/game.service.ts:80`).  `toggleDock`
(`server/game-loop.service.ts:545`) is not called by anything and not modelled.

### Match

The state is how many planets and how many occupied slots each team has, and the
loop's own `tmode`, `surrenderTimers`, `winPause` and the win last announced.
`Capture` is the only way planets change hands and needs the T-mode of the tick
before.  `Judge` is `updateTMode` and `checkWinCondition`: the first team in
team order that has lost decides, and later teams keep their timers.

Checked (`match`): `JudgedRightly`, which is `TimersMatchDanger` (the timers that
run are those of the teams in danger, but for those that an earlier verdict
froze) and `WinnerLeads`; `MatchGoesOn`, which is `DangerEnds` and `PauseEnds`.
`WinnerLeads` needs the shape of the galaxy, which `MatchAssumption` states: each
third-space team starts with fewer planets than the two playing teams hold
together beyond the surrender threshold (10 and 10 against 3 in the code).  All but
the liveness is proved for every galaxy and all thresholds (section 5).

### Conquest

Ships with orbit, bombing and beaming flags, armies, whole kills and refit, and
planets with owner and garrison.  A tick is a sequence of steps: commands slot
by slot, `UpdatePlanets` (growth and plague of every planet), `UpdateBombing`
and `UpdateBeaming` one ship per step in slot order, and `FinishTick`
(tractors, refits, deaths, T-mode, win).  What is not `ALIVE` is reset at once,
since nothing reads it before `initShip` does.  Shields, positions, cooldowns
and the table of bomb rolls are choices.

Checked (`conquest`) and proved (`ConquestProofs`): `ImplementsMatch` is the
refinement: `M == INSTANCE Match WITH held <- Held, crew <- Crew, ...` maps
planets and ships to the counts, and `M!Spec` is the property.  Every capture of
`UpdateBeaming` is a `Capture` of `Match`, and `FinishTick` is its `Judge`.
`GalaxyAssumption` is what `MatchAssumption` asks of the planets of the start.
Conquest's own is `ShipsWorkByTheRules`: `WorkIsLegal`
(who bombs or beams is in orbit of the right planet, in the open, at one job) and
`OverloadOnlyByRefit`.  The latter says what the code keeps of `Spec.md:182`: a ship
that beams up during its refit ends over the capacity of its new type
(`server/game-loop.service.ts:1149`), and that is the only way.

### Combat

A ship is its occupant (`taken`), status, team, `explodeTicks` and the ticks since
its `deathTick`; of shields and hull only `doomed` is left, which stands for
`hullDamage >= maxHull`.  The pools are functions from entries to a torpedo or
plasma or `Free`.  A tick is a sequence of stages: commands slot by slot,
`UpdateTorpedoes`, `UpdatePlasmas`, `UpdateSystems` (hostile planets, refits
and repairs, which doom and save ships), `CheckDeaths` slot by slot, and
`FinishTick`, which burns explosions down.  Handlers run between ticks only.  What is
in reach of an explosion is any set of ships the code's conditions admit
(`TorpReach`, `DetReach`, `PlasmaReach`), and any of them may be doomed by it.
`old` is auxiliary: it marks the torpedoes of a slot that has begun another life.

Checked (`combat`) and proved (`CombatProofs`): `ArmsWithinLimits`, which
also says that the shared pools are large enough never to be what keeps a ship
from firing; and `TorpsHaveFirer`, that through leaves, respawns and resets no
torpedo is left to another occupant, team or life.  Plasmas are: `clearShip` does
not take them, so they count against, and are credited to, whoever has the
slot next.  So is `ChainEndsNextTick`: a chain of explosions skips a doomed ship
only when the ship that doomed it comes later in the pass.  Checked only:
`DeathIsTemporary`.

`Respawn` has the gates of the code, which are of torpedoes and of the delay, not of
death: a living ship may be replaced, and an exploding one, whose
`deathTick` is still 0, at once, although
`docs/superpowers/specs/2026-05-06-ux-polish-beta-design.md:100` wants three
seconds from the transition to `DEAD`.

### Tally and StatPipeline

`Tally` is what the statistics of a player promise: merit is earned on a server,
is on its way for a while, and is then counted or dropped, never both and never
twice.  `StatPipeline` is how the code does it.  Per game server: `deltas` (an
absent entry is 0), `guestUserIds`, the clock of the game and the clock at the
last report, and one post, which is first `sent` and then in `ingest`, with the
rest of its batch, the player the ingest is `at` and the rank it is about to write.
In the data base: `total` and `rank` of every user.  The counters a rank is made
of are one number, the merit.

`Record`, `MarkGuest`, `UnmarkGuest` and `PushStats` are the methods of
`stat-reporter.service.ts`; `Accept` and `Reject` are the checks of the DTO;
`Upsert`, `ReadRank` and `WriteRank` are the data-base calls of `StatsService.ingest`
for one player, and any other ingest may run between two of them.  `Lose`,
`IngestFails` and `Restart` are the failures.  `ResetGame` sets the game's clock
behind the last report, so that the next report has negative seconds and is
rejected whole; `RefuseUnknown` is the upsert of an id that is no user, which
throws and takes the rest of the batch with it.

`CountsAtMostOnce` is the refinement: `T == INSTANCE Tally WITH pending <- Pending,
counted <- total`, where `Pending` adds the deltas and the rest of the batch.
`RankNotAhead` says that no interleaving of ingests gives a rank that the totals
do not justify.  `EarnedIsCounted` is about runs in which nothing is lost or refused
(`mishap`, a variable only the property reads): there, what is earned is counted in the
end.  It excuses every loss, also one that nobody sees: the reporter does not look at the
answer and logs a refused post as pushed.
A guest who leaves before the report is no longer marked as one and is posted
(`apps/server/src/registration/stat-reporter.service.ts:95`), where line 7 of
`docs/superpowers/plans/2026-05-08-guest-play-and-username.md` has guests
filtered; the ingest then meets an id that is no user, which is `RefuseUnknown`.

### Helm, Wire and Flight

`Helm` is one ship and an operator per input handler of the game loop and per part of
the tick that touches its systems: cloak and the ticks of uncloaking, shields,
repair, bombing, beaming, tractor and pressor, orbit, desired and actual speed,
fuel, heat and burnout.  Where the outcome depends on heat, distance or another
ship, the operator yields a set.  `Wire` is what `packages/shared/src/game/protocol.ts`
keeps of a ship: the flags, shares rounded to a byte, 255 for no target, no
record for the dead; and of a planet: no owner unless scanned.

`Flight` composes them.  A human's queue may hold any command at any moment.  A bot
sees its ship through `Wire`, and `BotMissions` gives its commands.

Checked (`helm`) and proved (`PilotProofs`): `SystemsExclude`, a ship never pulls
and pushes at once, neither holds nor shoots from the cloak or before it has
surfaced, repairs with its engines stopped only, and works in orbit, in the open
and at one job; and `BotKeepsWorking`, the toggles a bot repeats never turn off what
it is doing.

What the model shows beside its properties.  A bot that wants an active repair in
place (`server/bot/bot-missions.ts:693`) sends `REPAIR_TOGGLE` and `SET_SPEED` 0 in one
batch, and the second clears the repair (`server/game-loop.service.ts:323`), so
that it toggles for ever.  After a burnout a ship is not locked to warp 1, as
`docs/mechanics-reference.md:94` has it.  A bot that cloaks never uncloaks
(`docs/superpowers/specs/2026-05-13-bot-ai-redesign.md:236` wants it to).  The bots'
`mySelf.weaponTemp` is a ratio from 0 to 1, which `bot-combat-module.ts:454` divides by
the maximum again; so a bot never holds its fire when it is hot (lines 404 to 408 of
the same document; the unit test passes an absolute temperature).  A recipient
that is dead gets an own-ship record of zeros, which decodes as an orbit of planet 0.

### BotOrders, BotMissions and BotBrain

`BotBrain` is `think`, once per tick: an
assessment now and then, or at once after an order, heavy damage or a fight; commitment
to a mission, the fallback that filters a
mission which came to nothing, and combat, which takes over while an enemy is
close and leaves after `ExitTicks`.  An order adds to a score, so that whether there is
one is not kept.  The world has, besides the reports on the goals, `manned`: some planet
of ours is known to have armies.  When none has, there may be no planet of ours at all,
and that is where `executeTake` and `executeResupply` command nothing
(`server/bot/bot-missions.ts:342` and 659 to 669).  `BotMissions` has an operator per mission and per
combat phase that yields its commands; `BotOrders` is the reading of chat
messages and the search for the bot they name.  Scores depend on distances and on
the other bots, so the best mission is a choice among the candidates, and what is around
the ship is a choice of every thought.

Checked (`bots`) and proved (`PilotProofs`): `CarriersDeliver`, a bot with armies
aboard and a sound hull keeps to its TAKE until the planet is taken, and no bot sets out
for one with an empty hold; and `MissionsTakeHold`, in a world that stands still,
outside of fights, at most two missions in a row come to nothing.  Both have an
exception, which is what the code does.  A TAKE still in its pickup phase is given up,
partly loaded as it may be, when no planet of ours is known to have armies, although
`server/bot/bot-ai.ts:225` would commit the bot to the drop.  And missions may come to
nothing without end while the bot follows the wreck of a mate, until the wreck is gone,
or while no planet of ours is known to have armies: with no planet to go to, a bot short
of fuel commands nothing, and `RESUPPLY` and a `BOMB` on a stale report can take turns,
each filtering only itself.  During a fight nothing is said: between the holds of its
course and its speed, and when it disengages, `updateCombat` may have no command for a
tick either, and a mission that gives way to a fight has not come to nothing.
Two assumptions of `MCBotBrain` go through
every message of the instance: `OrdersReachTheNamed`, and `SomeAreDeaf`, which
records a defect: when the name of an earlier bot is a prefix of the name in the
message, that bot takes the rest for the order ("comp-bot-12 help" is "2 help" to
comp-bot-1; `server/bot/bot-orders.ts:29` to 46), and bot 12 never gets it.  Bots
obey orders on whatever channel, and a slot number in an order is not checked.

### ChatEntry and GameClient

`ChatEntry` is the keydown of the page: a key is the game's, or starts a message, or
chooses its destination, or is a macro, which may ask for a target before it is
sent.  `GameClient` is the page against its slot: phase and grace period, the
requests on their way up, the packets on their way down, the bounded input queue,
the ship's life, losses of the connection, the pause after a win.  State packets are
volatile: they are dropped when the way down is busy.

Checked (`client`) and, but for the last, proved (`PilotProofs`): `LeftoversAreHarmless`, which is `StaleInputsGoAtOnce` (what an
earlier life, or another pilot, left in the queue is gone after the first tick of
the new ship; `input-queue.ts:7` says the queue is drained each tick, which is not
so while the ship is dead or the game is paused) and `PendingIsPrompted` (a macro
that waits for its target is on the screen, unless the page was left meanwhile);
`RestartOnlyInHaste`, a living ship is started anew only for a request made in
haste, as by a double click: before the page had heard the answer to an earlier one,
or to its joining; and `ScreenFollowsShip`, the overlay follows the ship although
packets are lost.

Beside the properties: inputs held during a reconnect fly the new ship; the text of
a pending macro survives leaving the page; the macro key "h" also toggles the help
panel (line 85 of
`docs/superpowers/specs/2026-05-05-chat-playerlist-macros-design.md`); slot 10
cannot be addressed in person, as "a" means everybody; and the slot held for thirty
seconds (line 136 of
`docs/superpowers/specs/2026-05-05-server-separation-and-auth-design.md`) does not
exist.

### Accounts

Users, sessions, the cookies of browsers, and `reqs`, the requests under way: each
is a record that one action per data-base call moves on.  Any request a page can
make may be made at any time, answers arrive in any order or not at all.  Modelled are
sign-in by Google with the linking of accounts, the reuse of a session, rotation of the
auth and the CSRF token, expiry, sign-out of one session and of all, and the choice of a
user name in `updateUsername` (check without case, then write).  `overtaken` and a
mark per request are auxiliary: they record that a write crossed a check.

Checked (`accounts`) and proved (`BackEndProofs`): `NamesClashOnlyByOverlap`, two
chosen names differ by their case alone only if a name was written between another's
check and its write; and `SignInHolds`: a login answers with a living session unless
its end crossed the login, and a browser's two cookies are of one session.

The model also shows that sign-up takes the prefix of the e-mail address for a name
without the checks a chosen name passes, so that a second user with the same prefix
cannot sign up while the first keeps it; that the token family never changes, so the
reuse branch is never taken; and that two concurrent logins of one client
create two sessions.  On the page, a late answer of `/auth/me` after a logout
shows the user as signed in again, and a logout that fails looks like one; neither is
modelled.

### Registry and GameToken

`Registry` is the table of game servers: creates (count, then insert), removal,
rotation of the server's token, heartbeats, their loss and delay, and the sweep that
takes the silent ones off the list.  `GameToken` adds the way into a game: the back
end signs, the game server checks with a key it keeps, drops and fetches again,
and other validations share that key.  Restarts of the back end make a new key.

Checked (`registry`) and proved (`BackEndProofs`): `LimitNeedsOverlap`, an owner passes
the limit of servers only if two creates were between count and insert at once;
`SweepIsTimely`, the sweep takes off nobody who was heard within the timeout
and leaves nobody on who is overdue by more than its period (that a sweep's statement
fails in the data base is assumed away: the next one, a period later, would do its work); `GoodTokenOpens`, a
token of the running back end is refused only if a fetch failed or another
validation meddled with the key.

Beside the properties: a heartbeat reports sixteen players at most and overwrites
the owner's setting; a late heartbeat puts a stopped server back on the list for one
timeout; and if the answer to a rotation is lost, the owner holds a token that is no
good.  The lobby's page keeps an old status while player count and phase do not
change (`apps/client/app/lobby/[id]/page.tsx:75`).

## 4. Runs, bounds and fairness

| Run | Instance | States | Shows |
| --- | --- | --- | --- |
| `sessions` | 2 users, 2 sockets, 3 slots, 1 bot per team, at most 1 player per team before bots yield, human counts up to 2 | 593,187 | the properties of Sessions |
| `sessions_reset` | 3 users, 3 sockets, 4 slots | | counterexample: a reset gives a human's slot to a bot |
| `docking` | 3 slots, 2 teams, 1 planet, limit 1, refits of 2 ticks | 541,192 | the properties of Docking |
| `match` | 4 + 4 planets and 1 + 2 in third space, thresholds 1 and 3, timers of 3 ticks | 24,120 | timers, winners, liveness |
| `conquest` | 2 ships, one of which may ask for a refit, of 2 ticks; 2 planets, garrisons up to 2, one army per ship | 491,592 | refinement of Match, rules of work |
| `combat` | 2 slots, 2 teams, 1 torpedo a slot, lives, explosion, delay and pause of 2 ticks | 45,306 | the properties of Combat |
| `helm` | 1 ship, warp up to 3 with orbit up to 2, 2 units of fuel, 2 ticks to uncloak, any human or any bot's mission | 126,754 | the systems of a ship, and toggles repeated by bots |
| `bots` | 3 bots, two of one team with names that begin alike, 1 planet, veterans, assessment every tick, 2 ticks to leave combat | 261,494 | armies delivered, missions that take hold, the reading of orders |
| `client` | queue of 2, 2 requests up, 2 packets down, 1 input held, 12 keys, one macro of the player's own | 512,760 | page against ship, left-overs |
| `accounts` | 2 users with one e-mail prefix, 1 browser, 2 session ids, 2 requests, a name in two cases | 1,194,761 | names, logins, cookies |
| `registry` | 2 ids, 1 host, limit 1, timeout, period and length of a sweep 1, 2 creates, 2 tokens, keys up to 2 | 2,899,020 | limit, sweep, game tokens |
| `stats` | 2 servers, 1 user who earns on both up to 2 merit, a guest on one and the empty id on the other, ranks at 0, 1 and 3 merit | 84,976 | the properties of StatPipeline |

Why the bounds are enough.  Three slots with a bot for each team leave room for a
human, for a second one only where a bot made way, and for two owners of one
slot.  A user with two sockets gives the takeover, two users the competition
for slots.  Docking needs a base and two ships to compete for its one place, and a
base that respawns; a planet to orbit while docked.  The match needs a team in
danger, a gap between the thresholds, and a third space that could lead.  In
Conquest two ships of either team meet at one planet, garrisons pass the bombing
threshold, the empty planet and the capture; it has no kills, so that ships fill
up as starbases do.  In Combat two
slots fill both pools exactly, a slot changes hands while its plasma flies, and
each explosion can doom the ship before it and the ship after it; there is no
bound in its guards.  A refit of two ticks has a tick in which the
ship is frozen and one before it in which it still obeys; in Conquest one slot asks for
refits, and the other ship meets it.  Two servers that report one user are two ingests that meet in the data base; the guest and the
empty id are the two ways a batch can break off.  A ship's systems meet only in
itself, so Flight has one ship; its speeds are one below, one at and one above
what an orbit allows.  The brain under study is one, and the others are there
to be named by orders; its mate and its foe are what its missions need.
Its ship is sound, short of fuel, or badly hit as well; the difficulty decides only
whether it attacks carriers at all, which veterans do and newbies do not, so the run
takes the larger choice and the proof every difficulty.  In the
client a queue of two can be full of old inputs, and two requests up can cross two
packets down; the twelve keys are one or two of each kind the entry tells apart.  Two
requests are what it takes for one to cross the check of another; two users
of one prefix have the conflict of names, and a third request only crosses in the
same way.  Two creates against a limit of one overlap; the second id is the
server that keeps reporting while the first falls silent; two keys are the
one before and the one after a restart, and the token may be of either.

Bounds in guards: `HumanCap` in `JoinServed` (a ghost makes the human counts
grow without end), `BaseSlots` and `LockSlots` in `Docking`, `MaxCrew` in `Match`,
`ArmyCap`, `KillCap` and `RefitSlots` in `Conquest`; in `StatPipeline`, `MaxMerit` and `MaxTick`,
one merit at a time for whoever is no user, and one post per server.  In
`GameClient`, `MaxUp`, `MaxDown` and `MaxHeld` bound what is under way; in `BotBrain`
the count of missions that came to nothing stops above what the property allows
(`EndedMax`).
`Accounts` reuses a session id once it is over and no request and no cookie names
it; `Registry` reuses an id when nothing is left of its last row, and
`Tokens` and `MaxKeys` bound rotations and restarts.

Fairness.  `Match!FairSpec` and `Combat!FairSpec` assume weak fairness of the
tick only: `setInterval` keeps calling `tick` (`server/game-loop.service.ts:174`),
whatever connections come and go.  `StatPipeline!FairSpec` assumes
weak fairness of `PushStats`, which an interval calls every minute
(`apps/server/src/registration/stat-reporter.service.ts:34`), and of the next
step of a post under way: a request is answered or fails.  `GameClient!ClientSpec`
assumes weak fairness of delivery and of the timers of the grace period and the
pause, and strong fairness of a tick that finds the way down free: a volatile
packet may be dropped any number of times, but a channel that is free again and
again at some tick lets one through.  No
fairness is assumed of players, sockets or luck; the other specifications have
none.  Deadlock is checked in every run.

## 5. What is proved

`SessionsProofs` proves, for all constants that satisfy the named assumptions,
`TypeOK`, `OneSessionPerUser`, `ShipsHavePilots` and `HumansNotUndercounted`.  The
inductive invariant adds `SeatedAreServed`: a socket in the players map has a record
and is not waiting for its token check any more.  Without it the eviction could not
be shown to remove the right record. The lemmas say what each operator of
`Population` does to the three tables: which slots it may change, and that it keeps
ships and brains together.  The counting argument for `HumansNotUndercounted`
compares the number of sessions before and after each handler with the clamped
change of the counts.  `BotsFlyAfterTick` rests on `GroundedAreListed`: while
`onTick` runs, a bot without a living ship is among those the scan collected
and the loop has not come to yet.  `SharingStartsOnlyAt` is shown handler by
handler: a chain of the bot manager's calls that is `Tidy` grounds no bot and
takes no ship from a user, a join that evicts nobody takes an empty slot (`JoinApart`), and a
session that ends clears a slot that was its own (`DisconnectApart`).

`DockingProofs` proves `TypeOK` and `DocksSurviveTicks`.  The inductive invariant
adds that a ship that refits knows what it refits to.  The action properties follow
from one lemma per step of the tick: what it does to each end of a dock for one pair
of slots.

`MatchProofs` proves `TypeOK` and `JudgedRightly` for every
galaxy and all thresholds and durations that `MatchAssumption` admits.  The
inductive invariant adds three facts: captures conserve the planets, nobody
plays for the third space so it never gains one, and no tick of play runs after
a win.  The first two are what `WinnerLeads` rests on: what the loser and the
third space do not hold, the other team does (`OtherTeamLeads`), and
`findWinningTeam`, which is proved to return a best candidate wherever there is
one (`FindWinningTeamFinds`), then has no other choice.

`CombatProofs` proves `TypeOK`, `TorpsHaveFirer` and `ArmsWithinLimits` for any
numbers of slots and torpedoes and any durations.  The inductive invariant is
`TypeOK`, `TorpsHaveFirer`, that a slot without an occupant is dead
(`SeatedFly`), and the two limits.  Most steps only shrink a pool
(`TorpsShrink`, `PlasmasShrink`), which one lemma settles; the rest are the two
shots.  That the pools suffice follows by counting: if every entry is in use
and nobody is above the limit, owner and number within the owner's torpedoes
map the pool one to one into `NumSlots * MaxTorps` places (`TorpsSuffice`), so a
slot below its limit would leave one place empty.  For `ChainEndsNextTick` the
invariant is about the middle of the pass (`PassExplained`): each ship that the pass
has gone by and that lives on, doomed, has a ship behind it that has exploded since; an iteration
that dooms such a ship is itself that of a ship which explodes.

`StatProofs` proves `TypeOK`, `RankNotAhead` and `CountsAtMostOnce` for any number
of servers, users and guests and any table of ranks.  `RankNotAhead` speaks of
the written ranks and of those about to be written; together with `TypeOK` it is
inductive, because totals only grow and `RankFor` grows with them.  The refinement
is one step simulation per action: `Record` is `Earn`, `Upsert` is `Count`, pushing,
freeing a post and restarting are `Drop`, and the rest stutters.

`ConquestProofs` proves `TypeOK`, `ShipsWorkByTheRules` and `ImplementsMatch` for any
number of slots, any finite galaxy, any ship types and thresholds.  The inductive
invariant is `TypeOK` and four facts about each ship alone (`Good`): it is a record of
its type, knows what it refits to, has no kills beyond the bound of the model, and works
only as `WorkIsLegal` allows.  One lemma per handler and per loop of the tick keeps
them, and says that no ship becomes too full but by its refit (`Carries`).  Above that
is the counting, by the theorems on finite sets: a ship that comes or goes is one more or
one less of its crew (`OneMore`, `OneLess`), and a planet that is taken is one from its
owner to the ship's team (`OneTaken`).  The refinement is one simulation per action:
commands, growth and bombs stutter, and the end of the tick is `Judge`.  `MatchFits`
proves `Match`'s assumption under the mapping, so that what `MatchProofs` proves of
`Match` holds of `Conquest`; the prover cannot cite a theorem through an instance, and
that last step is the reader's.

`PilotProofs` is about whoever flies.

* `Flight`, for any maxima of speed and fuel and any time to uncloak.  The invariant
  `Good` of `SystemsExclude` is what every operator of `Helm` keeps (`Exclusive`,
  with the shape of the record), one lemma per operator, and that the ticks a ship has
  been visible and those it still waits add up to `UncloakTicks` at least
  (`Surfacing`): each tick moves one from the second to the first, so that a ship
  which need not wait has been visible long enough.  `FlightTypeOK` adds the other
  fields (`Measured`) and that every mission's commands carry numbers (`Telling`).
  `BotKeepsWorking` needs to know what is still queued: the commands ahead of a
  ship at work either move it off, with no command to orbit behind, or leave its
  work alone (`Minds`).  `WireKeeps` shows that a bot's view has the right orbit,
  bombing and beaming, `BombMinds` and `TakeMinds` that what it commands on such
  a view minds the work, and `ObeyMinds` that each command obeyed leaves the rest so.
* `BotBrain`, for any planets, any difficulty and intervals: `BrainTypeOK`,
  `CarriersDeliver` and `MissionsTakeHold`.  A mission `Acts` when its object is there (for
  a TAKE, armies to load or armies aboard; for `RESUPPLY` and `DEFEND`, a planet of ours),
  and a mission that acts has a command (`ExecuteActs`).  Every candidate acts but a
  `BOMB` on a stale report, and the type that came to nothing is filtered from the
  next choice.  So the first mission that came to nothing was a `BOMB` or one
  whose object has gone, the second can only be a `BOMB`, and there is no
  third (`Keeping`).
* `GameClient`, for any bounds of its queues and any macros of the player's own:
  `ClientTypeOK`, `LeftoversAreHarmless` and `RestartOnlyInHaste`.  The last needs two
  facts about what is on its way: as long as the ship lives, the page believes it or
  will, once it has heard all that is on its way down (`Believes`); and a request
  made without haste finds the ship dead until it is handled (`DeadWhenAsked`).

`BackEndProofs` holds two independent parts.  `TypeOK`, `LimitNeedsOverlap`,
`SweepIsTimely` and `GoodTokenOpens` are proved for any number of servers, hosts and
requests, any limit, timeout and period.  Three invariants that have little to do with
each other: `OneAtATime` (without an overlap at most one create is past its check,
and from there on the list only gets shorter), `SweptRecently` (the age of the sweep's
timer bounds the age of what it left on the list) and `KeyFollows` (a key fetched
after a failed check is that of the running back end, or the back end has been
restarted since, and then the token is old, too).  `AccountsTypeOK`,
`NamesClashOnlyByOverlap` and `SignInHolds` are proved for any number of users,
browsers and requests.  The invariant is a rule about each request and the tables it
relies on: what it read is still so when it goes on (`Sound`), a name that was
checked and not crossed is still free (`NameFree`), and a session about to be given out
lives unless its end has crossed (`GivesLive`).  The tables only grow in what these
rules ask (users stay, session ids keep their user), so a step of one request keeps
the rules of all others by one lemma per kind of write.

The assumptions are those the modules name: constants are numbers or finite sets,
the special values are not among the ordinary ones, a macro's destination is a known
one (`ChatAssumption`), and the shape of the galaxy (`MatchAssumption`, which
`GalaxyAssumption` derives from the owners of the planets).  TLC evaluates each of them
in a run.

Only model-checked: all liveness (`MatchGoesOn`, `DeathIsTemporary`,
`EarnedIsCounted`, `ScreenFollowsShip`), since fairness is out of the prover's
reach; and the reading of orders in `MCBotBrain`, which goes through the messages
of the instance.

## 6. Not modelled

* Positions, courses and distances are floating point and enter every model as
  choices; so do amounts of damage, repair rates, rolls and cooldowns.
* Kill credit: it goes to the slot that fired, whoever sits there by then
  (`server/game-loop.service.ts:1611`).
* The layout of packets in bytes, the roster and its broadcast, and what a team
  knows of planets over a reset: after one, enemy planets are unknown, while at the
  first start their owners are known.
* The rank, planet and cooldown gates for starbases may refuse in every model,
  which a model without them covers by allowing both answers where a property could
  tell.  A player's effective rank starts again from the token on a reconnect.
* Player counts of the registry: a join compares the count of the last heartbeat
  (`apps/backend/src/servers/servers.controller.ts:102`).  Match reports, which no
  game server posts, and the queries of statistics.
* A pause of length 0: `WIN_PAUSE_DURATION` is parsed without a check
  (`server/bot/bot-config.ts:32`), and at 0 a won game would never be reset;
  `MatchAssumption` leaves it out.
* The renderer, sprites, sound, the display pools of phasers and explosions, the
  player list, the help panels and the user interface library: they show the last
  snapshot and write nothing the rest reads.
