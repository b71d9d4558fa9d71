------------------------------ MODULE Registry ------------------------------
(***************************************************************************)
(* The back end's list of game servers: owners create, rotate and delete   *)
(* entries, game servers report with heartbeats, a sweep takes the silent  *)
(* ones off the list.  Every statement on the data base is one action; a   *)
(* handler that reads and then writes is two, and others run in between.   *)
(* Time passes in units of Advance; a row knows the age of its last report.*)
(***************************************************************************)
EXTENDS Naturals, FiniteSets

CONSTANTS
  Ids,         \* ids of rows
  Hosts,       \* the ids the owner does more with than create them
  NoRow,
  MaxServers,  \* MAX_SERVERS_PER_USER
  Timeout,     \* serverHeartbeat.timeoutSeconds, in units of time
  SweepEvery,  \* the @Interval of checkStaleServers
  SweepTakes,  \* assumption: a sweep reaches the data base within this time
  Creates,     \* create requests of one owner
  Tokens       \* bound: server tokens are 1 .. Tokens

ASSUME RegistryAssumption ==
  /\ IsFiniteSet(Ids) /\ Hosts \subseteq Ids
  /\ {MaxServers, Timeout, SweepEvery, Tokens} \subseteq Nat \ {0}
  /\ SweepTakes \in Nat

VARIABLES
  row,       \* id -> row or NoRow
  creating,  \* create request -> "idle", or "counted" when the limit was checked
  overlap,   \* history: two creates were past the check at once
  change,    \* host -> the owner's requests that have read the row: of "rotate", "delete"
  shown,     \* host -> the token that the owner's page showed last, or NoToken
  host,      \* host -> the token its game server is running with, or NoToken
  beat,      \* host -> the heartbeat in flight
  sweep,     \* time since the cutoff of the running sweep was computed, or Idle
  timer,     \* time since the last sweep was started
  swept      \* history: a sweep has finished since the back end started

owner == <<creating, overlap, change, shown>>
rows == <<row, owner>>
reports == <<host, beat>>
clock == <<sweep, timer, swept>>
registryVars == <<rows, reports, clock>>

Idle == SweepTakes + 1
MaxAge == Timeout + SweepEvery + SweepTakes + 1
NoToken == 0
NoBeat == [token |-> NoToken, stage |-> "none"]

\* token stands for serverTokenHash; the counts of players are left out.  The age
\* of the last report matters while the server is on the list.
Row == [status : {"online", "offline"}, age : 0 .. MaxAge, token : 1 .. Tokens]

RegistryTypeOK ==
  /\ row \in [Ids -> Row \cup {NoRow}]
  /\ creating \in [Creates -> {"idle", "counted"}]
  /\ overlap \in BOOLEAN /\ swept \in BOOLEAN
  /\ change \in [Hosts -> SUBSET {"rotate", "delete"}]
  /\ shown \in [Hosts -> {NoToken} \cup 1 .. Tokens]
  /\ host \in [Hosts -> {NoToken} \cup 1 .. Tokens]
  /\ beat \in [Hosts -> [token : {NoToken} \cup 1 .. Tokens, stage : {"none", "sent", "passed"}]]
  /\ sweep \in 0 .. Idle
  /\ timer \in 0 .. SweepEvery

RegistryInit ==
  /\ row = [i \in Ids |-> NoRow]
  /\ creating = [c \in Creates |-> "idle"] /\ overlap = FALSE
  /\ change = [i \in Hosts |-> {}]
  /\ shown = [i \in Hosts |-> NoToken]
  /\ host = [i \in Hosts |-> NoToken]
  /\ beat = [i \in Hosts |-> NoBeat]
  /\ sweep = Idle /\ timer = 0 /\ swept = FALSE

Listed == {i \in Ids : row[i] # NoRow}

-----------------------------------------------------------------------------
(* The owner *)

\* Fault: off by one.
CountServersLate(c) ==
  /\ creating[c] = "idle"
  /\ Cardinality(Listed) <= MaxServers
  /\ overlap' = (overlap \/ \E d \in Creates \ {c} : creating[d] = "counted")
  /\ creating' = [creating EXCEPT ![c] = "counted"]
  /\ UNCHANGED <<row, change, shown, reports, clock>>

\* create counts the owner's servers.
CountServers(c) ==
  /\ creating[c] = "idle"
  /\ Cardinality(Listed) < MaxServers
  /\ overlap' = (overlap \/ \E d \in Creates \ {c} : creating[d] = "counted")
  /\ creating' = [creating EXCEPT ![c] = "counted"]
  /\ UNCHANGED <<row, change, shown, reports, clock>>

\* create inserts the row.  A fresh row is offline and has never reported.
NewRow == [status |-> "offline", age |-> MaxAge, token |-> 1]

\* What the page shows if the answer arrives: newCreds, the one time the token is seen
Shows(i, token) ==
  shown' \in {shown, IF i \in Hosts THEN [shown EXCEPT ![i] = token] ELSE shown}

\* Ids are random: one is used again here only when nothing is left of its last row
Fresh(i) ==
  row[i] = NoRow /\ (i \in Hosts => change[i] = {} /\ host[i] = NoToken /\ beat[i] = NoBeat)

CreateRow(c, i) ==
  /\ creating[c] = "counted" /\ Fresh(i)
  /\ row' = [row EXCEPT ![i] = NewRow]
  /\ creating' = [creating EXCEPT ![c] = "idle"]
  /\ Shows(i, NewRow.token)
  /\ UNCHANGED <<overlap, change, reports, clock>>

\* The page asks and the back end finds the row and its owner; the button is disabled
\* until the answer.  A rotation and a deletion may cross.
Ask(i, what) ==
  /\ row[i] # NoRow /\ what \notin change[i]
  /\ change' = [change EXCEPT ![i] = @ \cup {what}]
  /\ UNCHANGED <<row, creating, overlap, shown, reports, clock>>
AskRotate(i) == Ask(i, "rotate")
AskDelete(i) == Ask(i, "delete")

Answered(i, what) == change' = [change EXCEPT ![i] = @ \ {what}]

\* rotateToken replaces the hash and nothing else: the status stays.  If the answer is
\* lost, the owner holds a token that is good for nothing.
RotateToken(i) ==
  /\ "rotate" \in change[i] /\ (row[i] # NoRow => row[i].token < Tokens)
  /\ Answered(i, "rotate")
  /\ IF row[i] = NoRow THEN UNCHANGED <<row, shown>>
     ELSE /\ row' = [row EXCEPT ![i].token = @ + 1]
          /\ Shows(i, row'[i].token)
  /\ UNCHANGED <<creating, overlap, reports, clock>>

Remove(i) ==
  /\ "delete" \in change[i] /\ Answered(i, "delete")
  /\ row' = [row EXCEPT ![i] = NoRow]
  /\ shown' = [shown EXCEPT ![i] = NoToken]
  /\ UNCHANGED <<creating, overlap, reports, clock>>

\* The owner starts the game server with the id and the token last shown, or stops it.
StartHost(i) ==
  /\ shown[i] # NoToken /\ host[i] = NoToken
  /\ host' = [host EXCEPT ![i] = shown[i]]
  /\ UNCHANGED <<rows, beat, clock>>

StopHost(i) ==
  /\ host[i] # NoToken
  /\ host' = [host EXCEPT ![i] = NoToken]
  /\ UNCHANGED <<rows, beat, clock>>

-----------------------------------------------------------------------------
(* Heartbeats *)

\* sendHeartbeat; one at a time is in flight.
SendHeartbeat(i) ==
  /\ host[i] # NoToken /\ beat[i] = NoBeat
  /\ beat' = [beat EXCEPT ![i] = [token |-> host[i], stage |-> "sent"]]
  /\ UNCHANGED <<rows, host, clock>>

\* A request is lost, or the guard refuses it.
DropBeat(i) ==
  /\ beat[i] # NoBeat
  /\ beat' = [beat EXCEPT ![i] = NoBeat]
  /\ UNCHANGED <<rows, host, clock>>

\* ServerTokenGuard and validateServerToken
ValidateServerToken(i) ==
  /\ beat[i].stage = "sent" /\ row[i] # NoRow /\ row[i].token = beat[i].token
  /\ beat' = [beat EXCEPT ![i].stage = "passed"]
  /\ UNCHANGED <<rows, host, clock>>

\* Fault: an upsert, which makes a row without a token hash.
HeartbeatUpserts(i) ==
  /\ beat[i].stage = "passed"
  /\ row' = [row EXCEPT ![i] = [status |-> "online", age |-> 0,
                               token |-> IF @ = NoRow THEN NoToken ELSE @.token]]
  /\ beat' = [beat EXCEPT ![i] = NoBeat]
  /\ UNCHANGED <<owner, host, clock>>

\* heartbeat; the row may have been deleted since the guard read it.
Heartbeat(i) ==
  /\ beat[i].stage = "passed"
  /\ row' = IF row[i] = NoRow THEN row
            ELSE [row EXCEPT ![i].status = "online", ![i].age = 0]
  /\ beat' = [beat EXCEPT ![i] = NoBeat]
  /\ UNCHANGED <<owner, host, clock>>

-----------------------------------------------------------------------------
(* The sweep *)

\* checkStaleServers computes the cutoff when its timer fires.
StartSweep ==
  /\ timer = SweepEvery /\ sweep = Idle
  /\ timer' = 0 /\ sweep' = 0
  /\ UNCHANGED <<rows, reports, swept>>

\* Fault: the time since the cutoff was computed counts against the server, not for it.
StaleByNow(r) == r # NoRow /\ r.status = "online" /\ r.age + sweep > Timeout

\* The rows whose report is older than the cutoff.
Stale(r) == r # NoRow /\ r.status = "online" /\ r.age > Timeout + sweep

\* updateMany is one statement: it reads and writes each row at once.
MarkStaleServersOffline ==
  /\ sweep # Idle
  /\ row' = [i \in Ids |-> IF Stale(row[i]) THEN [row[i] EXCEPT !.status = "offline", !.age = MaxAge]
                       ELSE row[i]]
  /\ sweep' = Idle /\ swept' = TRUE
  /\ UNCHANGED <<owner, reports, timer>>

Older(r) == IF r = NoRow \/ r.age = MaxAge THEN r ELSE [r EXCEPT !.age = @ + 1]

Advance ==
  /\ timer < SweepEvery
  /\ sweep = Idle \/ sweep < SweepTakes
  /\ timer' = timer + 1
  /\ sweep' = IF sweep = Idle THEN Idle ELSE sweep + 1
  /\ row' = [i \in Ids |-> Older(row[i])]
  /\ UNCHANGED <<owner, reports, swept>>

\* The back end stops and starts: requests and timers are lost.
RegistryRestart ==
  /\ creating' = [c \in Creates |-> "idle"]
  /\ change' = [i \in Hosts |-> {}]
  /\ beat' = [i \in Hosts |-> NoBeat]
  /\ sweep' = Idle /\ timer' = 0 /\ swept' = FALSE
  /\ UNCHANGED <<row, overlap, shown, host>>

RegistryNext ==
  \/ \E c \in Creates : CountServers(c) \/ \E i \in Ids : CreateRow(c, i)
  \/ \E i \in Hosts : \/ AskRotate(i) \/ RotateToken(i) \/ AskDelete(i) \/ Remove(i)
                      \/ StartHost(i) \/ StopHost(i) \/ SendHeartbeat(i) \/ DropBeat(i)
                      \/ ValidateServerToken(i) \/ Heartbeat(i)
  \/ StartSweep \/ MarkStaleServersOffline \/ Advance

-----------------------------------------------------------------------------
(* Properties *)

\* An owner has more servers than MAX_SERVERS_PER_USER only if two of the
\* owner's create requests were between their count and their insert at once.
LimitNeedsOverlap == Cardinality(Listed) > MaxServers => overlap

\* The list shows only servers heard of lately: within the timeout, a period of
\* the sweep and the time that one takes, once a sweep has run.
ListedIsRecent ==
  \A i \in Listed : swept /\ row[i].status = "online" => row[i].age < MaxAge

\* A sweep that races heartbeats never takes a server off the list that has
\* reported within the timeout.
SweepSparesLive ==
  [][\A i \in Listed : row[i].status = "online" /\ row'[i] # NoRow /\ row'[i].status = "offline"
        => row[i].age > Timeout]_registryVars

\* The sweep is neither late nor early.
SweepIsTimely == []ListedIsRecent /\ SweepSparesLive
=============================================================================
