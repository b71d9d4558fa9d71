----------------------------- MODULE GameClient -----------------------------
(***************************************************************************)
(* The game page of the web client against its slot on the server: what    *)
(* the screen shows, the inputs and respawns the player sends, the packets *)
(* that come back, and the bounded input queue of the slot.                *)
(*                                                                         *)
(* A connection is an ordered, reliable channel each way until it is lost; *)
(* "state" packets are volatile and are dropped when the way down is busy. *)
(* The slot is the one this player gets: what may be left in its queue by  *)
(* another pilot is "old", as are the player's own inputs of an earlier    *)
(* life.  Who gets which slot is the subject of Sessions.                  *)
(***************************************************************************)
EXTENDS ChatEntry, Wire, Sequences, SequencesExt

CONSTANTS
  QueueMax,   \* MAX_INPUTS_PER_TICK
  MaxUp,      \* bound: packets on their way up
  MaxDown,    \* bound: packets on their way down
  MaxHeld     \* bound: packets kept by the socket while there is no connection

ASSUME ClientAssumption == {QueueMax, MaxUp, MaxDown, MaxHeld} \subseteq Nat \ {0}

VARIABLES
  life,     \* of the ship in the slot: "none", "alive", "exploding", "dead"
  fresh,    \* history: no tick has run for this life yet
  paused,   \* winPauseTicks > 0
  queue,    \* the slot's InputQueue
  conn,     \* "off", "connecting", "awaiting" validateSocket, "joined", "closed"
  up, down, held,
  phase,    \* the page's phase: "waiting", "playing", "dead"
  joined,   \* mySlot >= 0
  screen,   \* the own ship in the last snapshot: "none" if there is no snapshot, "present", "absent"
  grace,    \* less than 2 s since the last respawn that was granted
  entry,    \* what the keyboard is doing
  left      \* history: the page was left while a macro waited for its destination

server == <<life, fresh, paused, queue>>
wire == <<conn, up, down, held>>
page == <<phase, joined, screen, grace, entry, left>>
clientVars == <<server, wire, page>>

Asked == {"respawn", "hasty"}
Replies == {"ok", "refused"}

ClientTypeOK ==
  /\ life \in {"none", "alive", "exploding", "dead"}
  /\ fresh \in BOOLEAN /\ paused \in BOOLEAN
  /\ queue \in Seq({"new", "held", "old"}) /\ Len(queue) <= QueueMax
  /\ conn \in {"off", "connecting", "awaiting", "joined", "closed"}
  /\ ToSet(up) \cup ToSet(held) \subseteq {"input", "held"} \cup Asked
  /\ ToSet(down) \subseteq {"joined", "present", "absent", "reset"} \cup Replies
  /\ phase \in {"waiting", "playing", "dead"}
  /\ joined \in BOOLEAN /\ grace \in BOOLEAN /\ left \in BOOLEAN
  /\ screen \in {"none", "present", "absent"}
  /\ entry \in Entry
  /\ conn = "joined" <=> life # "none"

ClientInit ==
  /\ life = "none" /\ fresh = FALSE /\ paused = FALSE /\ queue = << >>
  /\ conn = "off" /\ up = << >> /\ down = << >> /\ held = << >>
  /\ phase = "waiting" /\ joined = FALSE /\ screen = "none" /\ grace = FALSE
  /\ entry = NewEntry /\ left = FALSE

-----------------------------------------------------------------------------
(* The page *)

\* The effect that mounts the page connects; mySlot and the snapshots were reset.
Mount ==
  /\ conn = "off"
  /\ conn' = "connecting"
  /\ UNCHANGED <<server, up, down, held, page>>

\* What a lost or closed connection leaves: handleDisconnect clears the slot,
\* but not its input queue.
Gone == life' = "none" /\ fresh' = FALSE /\ up' = << >> /\ down' = << >>

\* The clean-up of the effect: disconnect, resetState, resetChat.
Leave ==
  /\ conn # "off"
  /\ conn' = "off" /\ held' = << >> /\ Gone
  /\ phase' = "waiting" /\ joined' = FALSE /\ screen' = "none" /\ grace' = FALSE
  /\ entry' = ResetChat(entry)
  /\ left' = entry.pending
  /\ UNCHANGED <<paused, queue>>

\* socket.emit: what cannot be sent is held until the socket connects again.
Emit(msgs) ==
  IF conn \in {"awaiting", "joined"}
  THEN /\ Len(up) + Len(msgs) <= MaxUp
       /\ up' = up \o msgs /\ UNCHANGED held
  ELSE /\ Len(held) + Len(msgs) <= MaxHeld
       /\ held' = held \o [i \in DOMAIN msgs |-> IF msgs[i] = "input" THEN "held" ELSE msgs[i]]
       /\ UNCHANGED up

\* handleKeyDown.  Chat rides the same socket and changes nothing here.
Press(k) ==
  /\ conn # "off"
  /\ \E d \in KeyDown(entry, k, joined, screen) :
       /\ entry' = d.entry
       /\ left' = (left /\ d.entry.pending)
       /\ Emit([i \in 1 .. d.inputs |-> "input"])
  /\ UNCHANGED <<server, conn, down, phase, joined, screen, grace>>

\* handleMouseDown, whatever the keyboard is doing.
Click ==
  /\ conn # "off" /\ joined
  /\ Emit(<<"input">>)
  /\ UNCHANGED <<server, conn, down, page>>

\* A respawn is asked for in haste if the answer to an earlier one, or the
\* "joined" of this connection, has not been heard yet.
Hasty ==
  \/ conn # "joined"
  \/ ToSet(up) \cap Asked # {}
  \/ ToSet(down) \cap (Replies \cup {"joined"}) # {}

\* handleRespawn of the page: the buttons of the overlay "DESTROYED".  They
\* are disabled during the countdown, which may be over at any time.
AskRespawn ==
  /\ phase = "dead" /\ conn \in {"awaiting", "joined"}
  /\ Emit(<<IF Hasty THEN "hasty" ELSE "respawn">>)
  /\ UNCHANGED <<server, conn, down, page>>

GraceEnds == grace /\ grace' = FALSE /\ UNCHANGED <<server, wire, phase, joined, screen, entry, left>>

\* Fault: an own ship that is missing from the snapshot is not taken for dead.
ShownIfSent(msg) ==
  CASE ~joined -> phase
    [] msg = "present" -> "playing"
    [] OTHER -> phase

\* onState: a dead ship is not in the packet.
Shown(msg) ==
  CASE ~joined -> phase
    [] msg = "present" -> "playing"
    [] msg = "absent" -> IF grace THEN phase ELSE "dead"

\* Fault: the answer only starts the grace period.
AnsweredLater(msg) ==
  /\ grace' = (grace \/ msg = "ok")
  /\ phase' = phase

\* The acknowledgement that handleRespawn waits for.
Answered(msg) ==
  /\ grace' = (grace \/ msg = "ok")
  /\ phase' = IF msg = "ok" THEN "playing" ELSE phase

\* onState, onJoined, onGameReset and the answer to a respawn.
Deliver ==
  /\ down # << >>
  /\ down' = Tail(down)
  /\ LET msg == Head(down) IN
     \/ /\ msg \in {"present", "absent"}
        /\ screen' = msg /\ phase' = Shown(msg) /\ UNCHANGED <<joined, grace>>
     \/ /\ msg = "joined"
        /\ joined' = TRUE /\ phase' = "playing" /\ UNCHANGED <<screen, grace>>
     \/ /\ msg = "reset"
        /\ phase' = "dead" /\ UNCHANGED <<joined, screen, grace>>
     \/ /\ msg \in Replies
        /\ Answered(msg) /\ UNCHANGED <<joined, screen>>
  /\ UNCHANGED <<server, conn, up, held, entry, left>>

-----------------------------------------------------------------------------
(* The connection *)

\* The transport is up: the socket sends what it held.
Open ==
  /\ conn = "connecting"
  /\ conn' = "awaiting" /\ up' = held /\ held' = << >>
  /\ UNCHANGED <<server, down, page>>

\* The transport is lost; the socket will connect again by itself.
Lose ==
  /\ conn \in {"awaiting", "joined"}
  /\ conn' = "connecting" /\ Gone
  /\ UNCHANGED <<paused, queue, held, page>>

\* The server closes it: token refused, server full, or a second session of
\* the user.  The socket does not try again.
Close ==
  /\ conn \in {"awaiting", "joined"}
  /\ conn' = "closed" /\ Gone
  /\ UNCHANGED <<paused, queue, held, page>>

-----------------------------------------------------------------------------
(* The server *)

Older(q) == [i \in DOMAIN q |-> "old"]
NewLife == life' = "alive" /\ fresh' = TRUE /\ queue' = Older(queue)

Say(msg) == Len(down) < MaxDown /\ down' = Append(down, msg)

\* handleConnection after validateSocket: joinGame and "joined".
Join ==
  /\ conn = "awaiting"
  /\ conn' = "joined" /\ NewLife /\ Say("joined")
  /\ UNCHANGED <<paused, up, held, page>>

\* Fault: off by one.
EnqueueOneMore(q, tag) == IF Len(q) <= QueueMax THEN Append(q, tag) ELSE q

\* InputQueue.enqueue
Enqueue(q, tag) == IF Len(q) < QueueMax THEN Append(q, tag) ELSE q

\* handleInput of the gateway: dropped until the player is in the players map.
HandleInput ==
  /\ up # << >> /\ Head(up) \in {"input", "held"}
  /\ up' = Tail(up)
  /\ queue' = IF conn = "joined"
              THEN Enqueue(queue, IF Head(up) = "held" THEN "held" ELSE "new") ELSE queue
  /\ UNCHANGED <<life, fresh, paused, conn, down, held, page>>

\* handleRespawn of the gateway and respawn: nothing asks whether the ship is
\* dead.  Torpedoes in flight, the delay after a death and the gates of a
\* starbase refuse it.
HandleRespawn ==
  /\ up # << >> /\ Head(up) \in Asked
  /\ up' = Tail(up)
  /\ \/ conn = "joined" /\ NewLife /\ Say("ok")
     \/ Say("refused") /\ UNCHANGED <<life, fresh, queue>>
  /\ UNCHANGED <<paused, conn, held, page>>

\* handleTick of the broadcast service.
Broadcast(ship, msgs) ==
  IF conn # "joined" \/ msgs # << >> THEN down' = msgs
  ELSE down' = <<IF IsSent(ship) THEN "present" ELSE "absent">>

\* Fault: the queue of a refitting ship is not drained.
DrainedUnlessRefitting(q) == {<< >>, q}

\* processInputs takes the whole queue, and throws it away during a refit.
Drained(q) == {<< >>}

\* One tick of the game loop; it may be the one that wins the match.
Tick ==
  /\ ~paused
  /\ paused' \in BOOLEAN
  /\ \E q \in Drained(queue) : queue' = IF life = "alive" THEN q ELSE queue
  /\ fresh' = FALSE
  /\ life' \in CASE life = "alive" -> {"alive", "exploding"}
                 [] life = "exploding" -> {"exploding", "dead"}
                 [] OTHER -> {life}
  /\ Broadcast(life', down)
  /\ UNCHANGED <<conn, up, held, page>>

\* A tick of the pause, which only broadcasts.
PauseTick == paused /\ Broadcast(life, down) /\ UNCHANGED <<server, conn, up, held, page>>

\* The tick that ends the pause: resetGame clears every ship, handleReset
\* returns the slot to its player and says so.
EndPause ==
  /\ paused /\ paused' = FALSE
  /\ life' = IF conn = "joined" THEN "dead" ELSE life
  /\ fresh' = FALSE
  /\ IF conn = "joined" THEN Say("reset") ELSE UNCHANGED down
  /\ UNCHANGED <<queue, conn, up, held, page>>

ClientNext ==
  \/ Mount \/ Leave \/ Click \/ AskRespawn \/ GraceEnds \/ Deliver
  \/ \E k \in Keys : Press(k)
  \/ Open \/ Lose \/ Close
  \/ Join \/ HandleInput \/ HandleRespawn \/ Tick \/ PauseTick \/ EndPause

\* The game loop is driven by a timer and a connection delivers.  The way down
\* carries a packet now and then, so a tick finds it free again and again: a
\* state packet gets through in the end.
Fairness ==
  /\ WF_clientVars(Deliver) /\ WF_clientVars(GraceEnds) /\ WF_clientVars(EndPause)
  /\ SF_clientVars(Tick /\ down = << >>)

ClientSpec == ClientInit /\ [][ClientNext]_clientVars /\ Fairness

-----------------------------------------------------------------------------
(* Properties *)

\* An input that outlives its ship (input-queue.ts: nothing clears the queue at
\* a death, a leave or a reset) is obeyed in the first tick of the next life or
\* never: it is gone before the player can have seen the new ship move.
StaleInputsGoAtOnce ==
  "old" \in ToSet(queue) /\ life = "alive" => fresh

\* The server starts a living ship anew (game.service.ts respawn does not ask
\* whether it is dead) only for a request made in haste: while the page
\* believed what the server had told it, the "DESTROYED" overlay was right.
RestartOnlyInHaste ==
  [][life = "alive" /\ HandleRespawn /\ Last(down') = "ok" => Head(up) = "hasty"]_clientVars

\* The overlay follows the ship: a ship that stays alive is played, a ship that
\* stays dead is offered a respawn, although state packets are lost, the page
\* looks away for 2 s after a respawn, and dead ships are not sent.
ScreenFollowsShip ==
  /\ <>[](life = "alive") => <>[](phase = "playing")
  /\ <>[](life = "dead") => <>[](phase = "dead")

\* A macro's text waits only while its destination is asked for, so that the
\* next message cannot be the old macro, unless the page was left meanwhile
\* (resetChat does not know macroPendingText).
PendingIsPrompted == entry.pending => left \/ entry.typing = "DEST_PROMPT"

\* What is left over, of a former life in the queue or of a macro in the keyboard,
\* does nothing later.
LeftoversAreHarmless == StaleInputsGoAtOnce /\ PendingIsPrompted
=============================================================================
