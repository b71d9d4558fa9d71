---------------------------- MODULE BackEndProofs ----------------------------
(***************************************************************************)
(* Proofs about the back end: Registry and GameToken for any number of     *)
(* servers, hosts and requests, Accounts for any users, browsers, names    *)
(* and number of requests under way.  The two share a module, and nothing  *)
(* else: no handler of the back end touches the tables of both.            *)
(***************************************************************************)
EXTENDS GameToken, Accounts, FiniteSetTheorems, TLAPS
-----------------------------------------------------------------------------
(***************************************************************************)
(* Proofs about Registry and GameToken for any number of servers, hosts    *)
(* and requests, any limit, any timeout and any period of the sweep.       *)
(*                                                                         *)
(* Three arguments that have little to do with each other, one invariant   *)
(* each.  The limit: unless creates overlap, one of them at most is past   *)
(* the check, and from there on the list only gets shorter (OneAtATime).   *)
(* The sweep: its own age and that of its timer bound the age of whatever  *)
(* it has left on the list (SweptRecently).  The token: a key that was     *)
(* fetched after a failed check is that of the running back end, or the    *)
(* back end has started again since, and then so must the token be old     *)
(* (KeyFollows).                                                           *)
(***************************************************************************)

Online(r) == r # NoRow /\ r.status = "online"

OneAtATime ==
  ~ overlap => /\ Cardinality(Listed) <= MaxServers
               /\ \A c \in Creates : creating[c] = "counted" =>
                    /\ Cardinality(Listed) < MaxServers
                    /\ \A d \in Creates : creating[d] = "counted" => c = d

SweptRecently ==
  /\ sweep # Idle => timer = sweep
  /\ swept => \A i \in Ids : Online(row[i]) =>
       row[i].age <= IF sweep = Idle THEN Timeout + timer ELSE Timeout + SweepEvery + sweep

KeyFollows ==
  /\ join.at \in {"answered", "reanswered"} => join.answer # NoKey
  /\ join.at = "reanswered" /\ join.token = keyPair => join.answer = keyPair
  /\ join.at = "check" => key # NoKey \/ meddled
  /\ join.at = "recheck" /\ join.token = keyPair => key = keyPair \/ meddled
  /\ join.at = "refused" /\ join.token = keyPair => meddled

LEMMA Positive ==
  /\ MaxServers \in Nat \ {0} /\ Timeout \in Nat \ {0} /\ SweepEvery \in Nat \ {0}
  /\ Tokens \in Nat \ {0} /\ SweepTakes \in Nat /\ MaxKeys \in Nat \ {0}
BY RegistryAssumption, GameTokenAssumption

LEMMA Bounds ==
  /\ Idle \in Nat /\ Idle = SweepTakes + 1
  /\ MaxAge \in Nat /\ MaxAge = Timeout + SweepEvery + SweepTakes + 1
  /\ 0 \in 0 .. Idle /\ Idle \in 0 .. Idle /\ 0 \in 0 .. MaxAge /\ MaxAge \in 0 .. MaxAge
  /\ 0 \in 0 .. SweepEvery
BY Positive DEF Idle, MaxAge

-----------------------------------------------------------------------------
(* Types *)

LEMMA RowUpdates ==
  ASSUME NEW r \in Row
  PROVE  /\ [r EXCEPT !.status = "online", !.age = 0] \in Row
         /\ [r EXCEPT !.status = "offline", !.age = MaxAge] \in Row
<1>1. ASSUME NEW t \in {"online", "offline"}, NEW a \in 0 .. MaxAge
      PROVE  [r EXCEPT !.status = t, !.age = a] \in Row
  BY <1>1 DEF Row
<1> QED BY <1>1, Bounds

LEMMA BeatUpdates ==
  /\ NoBeat \in [token : {NoToken} \cup 1 .. Tokens, stage : {"none", "sent", "passed"}]
  /\ \A i \in Hosts, t \in {NoToken} \cup 1 .. Tokens :
       [token |-> t, stage |-> "sent"]
         \in [token : {NoToken} \cup 1 .. Tokens, stage : {"none", "sent", "passed"}]
BY DEF NoBeat

LEMMA RegistryInitTyped == RegistryInit => RegistryTypeOK
<1> SUFFICES ASSUME RegistryInit PROVE RegistryTypeOK
  OBVIOUS
<1>1. beat \in [Hosts -> [token : {NoToken} \cup 1 .. Tokens, stage : {"none", "sent", "passed"}]]
  BY BeatUpdates DEF RegistryInit
<1>2. sweep \in 0 .. Idle /\ timer \in 0 .. SweepEvery
  BY Bounds DEF RegistryInit
<1> QED BY <1>1, <1>2 DEF RegistryInit, RegistryTypeOK

LEMMA OlderTyped ==
  ASSUME NEW r \in Row \cup {NoRow}
  PROVE  /\ Older(r) \in Row \cup {NoRow}
         /\ Online(Older(r)) => Online(r) /\ Older(r).age <= r.age + 1
BY Positive DEF Row, Older, MaxAge, Online

\* The two updates of Heartbeat in one.
LEMMA OnlineTwice ==
  ASSUME RegistryTypeOK, NEW i \in Ids
  PROVE  [row EXCEPT ![i].status = "online", ![i].age = 0]
           = [row EXCEPT ![i] = [row[i] EXCEPT !.status = "online", !.age = 0]]
BY DEF RegistryTypeOK

LEMMA RegistryStepTyped ==
  ASSUME RegistryTypeOK, RegistryNext
  PROVE  RegistryTypeOK'
<1> USE Positive DEF RegistryTypeOK
<1>1. ASSUME NEW c \in Creates, CountServers(c)
      PROVE  RegistryTypeOK'
  BY <1>1 DEF CountServers, reports, clock
<1>2. ASSUME NEW c \in Creates, NEW i \in Ids, CreateRow(c, i)
      PROVE  RegistryTypeOK'
  <2>1. NewRow \in Row
    BY DEF NewRow, Row, MaxAge
  <2>2. NewRow.token \in 1 .. Tokens
    BY DEF NewRow
  <2> QED BY <1>2, <2>1, <2>2 DEF CreateRow, Shows, reports, clock
<1>3. ASSUME NEW i \in Hosts, AskRotate(i) \/ AskDelete(i)
      PROVE  RegistryTypeOK'
  BY <1>3 DEF AskRotate, AskDelete, Ask, reports, clock
<1>4. ASSUME NEW i \in Hosts, RotateToken(i)
      PROVE  RegistryTypeOK'
  <2>1. i \in Ids
    BY RegistryAssumption
  <2>2. CASE row[i] = NoRow
    BY <1>4, <2>2 DEF RotateToken, Answered, reports, clock
  <2>3. CASE row[i] # NoRow
    <3>1. row[i] \in Row /\ row[i].token < Tokens
      BY <1>4, <2>1, <2>3 DEF RotateToken
    <3>2. [row[i] EXCEPT !.token = @ + 1] \in Row /\ row[i].token + 1 \in 1 .. Tokens
      BY <3>1 DEF Row
    <3>3. row' = [row EXCEPT ![i] = [row[i] EXCEPT !.token = @ + 1]] /\ Shows(i, row'[i].token)
      BY <1>4, <2>3 DEF RotateToken
    <3>4. row'[i].token \in 1 .. Tokens /\ row' \in [Ids -> Row \cup {NoRow}]
      BY <2>1, <3>1, <3>2, <3>3 DEF Row
    <3> QED BY <1>4, <3>3, <3>4 DEF RotateToken, Answered, Shows, reports, clock
  <2> QED BY <2>2, <2>3
<1>5. ASSUME NEW i \in Hosts, Remove(i)
      PROVE  RegistryTypeOK'
  BY <1>5 DEF Remove, Answered, reports, clock
<1>6. ASSUME NEW i \in Hosts, StartHost(i) \/ StopHost(i)
      PROVE  RegistryTypeOK'
  BY <1>6 DEF StartHost, StopHost, rows, owner, clock
<1>7. ASSUME NEW i \in Hosts, SendHeartbeat(i) \/ DropBeat(i) \/ ValidateServerToken(i)
      PROVE  RegistryTypeOK'
  <2> DEFINE B == [token : {NoToken} \cup 1 .. Tokens, stage : {"none", "sent", "passed"}]
  <2>1. beat[i] \in B /\ host[i] \in {NoToken} \cup 1 .. Tokens
    OBVIOUS
  <2>2. /\ [token |-> host[i], stage |-> "sent"] \in B /\ NoBeat \in B
        /\ [beat[i] EXCEPT !.stage = "passed"] \in B
    BY <2>1, BeatUpdates
  <2>3. \/ beat' = [beat EXCEPT ![i] = [token |-> host[i], stage |-> "sent"]]
        \/ beat' = [beat EXCEPT ![i] = NoBeat]
        \/ beat' = [beat EXCEPT ![i] = [beat[i] EXCEPT !.stage = "passed"]]
    BY <1>7 DEF SendHeartbeat, DropBeat, ValidateServerToken
  <2>4. beat' \in [Hosts -> B]
    BY <2>2, <2>3
  <2> QED BY <1>7, <2>4 DEF SendHeartbeat, DropBeat, ValidateServerToken, rows, owner, clock
<1>8. ASSUME NEW i \in Hosts, Heartbeat(i)
      PROVE  RegistryTypeOK'
  <2>1. i \in Ids /\ row[i] \in Row \cup {NoRow}
    BY RegistryAssumption
  <2>2. row[i] # NoRow => [row[i] EXCEPT !.status = "online", !.age = 0] \in Row
    BY <2>1, RowUpdates
  <2>3. row' = IF row[i] = NoRow THEN row
               ELSE [row EXCEPT ![i] = [row[i] EXCEPT !.status = "online", !.age = 0]]
    BY <1>8, <2>1, OnlineTwice DEF Heartbeat
  <2>4. row' \in [Ids -> Row \cup {NoRow}]
    BY <2>1, <2>2, <2>3
  <2>5. beat' \in [Hosts -> [token : {NoToken} \cup 1 .. Tokens, stage : {"none", "sent", "passed"}]]
    BY <1>8, BeatUpdates DEF Heartbeat
  <2> QED BY <1>8, <2>4, <2>5 DEF Heartbeat, owner, clock
<1>9. CASE StartSweep
  BY <1>9, Bounds DEF StartSweep, rows, owner, reports
<1>10. CASE MarkStaleServersOffline
  <2>1. \A r \in Row \cup {NoRow} :
          Stale(r) => [r EXCEPT !.status = "offline", !.age = MaxAge] \in Row
    BY RowUpdates DEF Stale
  <2>2. row' \in [Ids -> Row \cup {NoRow}]
    BY <1>10, <2>1 DEF MarkStaleServersOffline
  <2> QED BY <1>10, <2>2, Bounds DEF MarkStaleServersOffline, owner, reports
<1>11. CASE Advance
  <2>1. row' \in [Ids -> Row \cup {NoRow}]
    BY <1>11, OlderTyped DEF Advance
  <2> QED BY <1>11, <2>1 DEF Advance, owner, reports, Idle
<1> QED BY <1>1, <1>2, <1>3, <1>4, <1>5, <1>6, <1>7, <1>8, <1>9, <1>10, <1>11 DEF RegistryNext

LEMMA RestartTyped == RegistryTypeOK /\ RegistryRestart => RegistryTypeOK'
<1> SUFFICES ASSUME RegistryTypeOK, RegistryRestart PROVE RegistryTypeOK'
  OBVIOUS
<1>1. beat' \in [Hosts -> [token : {NoToken} \cup 1 .. Tokens, stage : {"none", "sent", "passed"}]]
  BY BeatUpdates DEF RegistryRestart
<1>2. sweep' \in 0 .. Idle /\ timer' \in 0 .. SweepEvery
  BY Bounds DEF RegistryRestart
<1> QED BY <1>1, <1>2 DEF RegistryTypeOK, RegistryRestart

\* The actions of GameToken that leave the registry alone.
JoinStep ==
  \/ \E i \in Hosts : JoinServer(i) \/ JoinGuest(i)
  \/ SignGameToken \/ EnterGame \/ Expire \/ Connect \/ PublicKey \/ FetchPublicKey
  \/ FetchFails \/ Check \/ Recheck \/ OthersValidate \/ BackToLobby

LEMMA Cases ==
  [Next]_vars => \/ RegistryNext /\ UNCHANGED tokenVars
                 \/ Restart
                 \/ JoinStep /\ UNCHANGED registryVars
                 \/ UNCHANGED registryVars /\ UNCHANGED tokenVars
BY DEF Next, vars, JoinStep, JoinServer, JoinGuest, SignGameToken, EnterGame, Expire, Connect,
   PublicKey, FetchPublicKey, FetchFails, Check, Recheck, OthersValidate, BackToLobby

LEMMA RegistryUnchanged ==
  RegistryTypeOK /\ UNCHANGED registryVars => RegistryTypeOK'
BY DEF RegistryTypeOK, registryVars, rows, owner, reports, clock

TokenTypeOK ==
  /\ keyPair \in 1 .. MaxKeys /\ key \in NoKey .. keyPair
  /\ join \in [at : Stages, on : Hosts \cup {NoRow}, token : NoKey .. keyPair,
               answer : NoKey .. keyPair]
  /\ meddled \in BOOLEAN

Joins(newest) == [at : Stages, on : Hosts \cup {NoRow}, token : NoKey .. newest,
                  answer : NoKey .. newest]

\* The changes of a join.
LEMMA JoinUpdates ==
  ASSUME NEW newest \in Nat, NEW J \in Joins(newest), NEW s \in Stages,
         NEW i \in Hosts \cup {NoRow}, NEW k \in NoKey .. newest
  PROVE  /\ [J EXCEPT !.at = s] \in Joins(newest)
         /\ [J EXCEPT !.token = k] \in Joins(newest)
         /\ [J EXCEPT !.at = s, !.on = i] \in Joins(newest)
         /\ [J EXCEPT !.at = s, !.on = i, !.token = k] \in Joins(newest)
BY DEF Joins

LEMMA NoJoinTyped == \A newest \in Nat : NoJoin \in Joins(newest) /\ NoKey \in NoKey .. newest
BY DEF NoJoin, Joins, NoKey, Stages

LEMMA TokenTypes ==
  TokenTypeOK <=> /\ keyPair \in 1 .. MaxKeys /\ key \in NoKey .. keyPair
                  /\ join \in Joins(keyPair) /\ meddled \in BOOLEAN
BY DEF TokenTypeOK, Joins

\* What a step of a player's way does to the types and to KeyFollows.
LEMMA JoinStepTyped ==
  ASSUME TokenTypeOK, JoinStep
  PROVE  TokenTypeOK' /\ keyPair' = keyPair
<1>0. /\ keyPair \in 1 .. MaxKeys /\ keyPair \in Nat /\ keyPair \in NoKey .. keyPair
      /\ key \in NoKey .. keyPair /\ join \in Joins(keyPair) /\ meddled \in BOOLEAN
      /\ NoJoin \in Joins(keyPair) /\ NoKey \in NoKey .. keyPair
  BY TokenTypes, NoJoinTyped, Positive DEF NoKey
<1>a. join.answer \in NoKey .. keyPair
  BY <1>0 DEF Joins
<1>b. \A s \in Stages : To(s) \in Joins(keyPair)
  BY <1>0, JoinUpdates DEF To
<1> SUFFICES /\ keyPair' = keyPair /\ key' \in NoKey .. keyPair
             /\ join' \in Joins(keyPair) /\ meddled' \in BOOLEAN
  BY <1>0, Positive DEF TokenTypeOK, Joins
<1> USE DEF Step
<1>c. {"admitted", "issued", "signed", "lobby", "fetch", "answered", "check", "refetch",
       "reanswered", "recheck", "in", "refused"} \subseteq Stages
  BY DEF Stages
<1>1. ASSUME NEW i \in Hosts, JoinServer(i) \/ JoinGuest(i)
      PROVE  /\ keyPair' = keyPair /\ key' \in NoKey .. keyPair
             /\ join' \in Joins(keyPair) /\ meddled' \in BOOLEAN
  <2>1. /\ [NoJoin EXCEPT !.at = "admitted", !.on = i] \in Joins(keyPair)
        /\ [NoJoin EXCEPT !.at = "issued", !.on = i, !.token = keyPair] \in Joins(keyPair)
    BY <1>0, <1>c, JoinUpdates
  <2> QED BY <1>0, <1>1, <2>1 DEF JoinServer, JoinGuest
<1>2. CASE SignGameToken
  <2>1. [To("issued") EXCEPT !.token = keyPair] \in Joins(keyPair)
    BY <1>0, <1>b, <1>c, JoinUpdates
  <2> QED BY <1>0, <1>2, <2>1 DEF SignGameToken
<1>3. CASE Expire
  <2>1. [join EXCEPT !.token = NoKey] \in Joins(keyPair)
    BY <1>0 DEF Joins
  <2> QED BY <1>0, <1>3, <2>1 DEF Expire
<1>4. CASE PublicKey \/ FetchPublicKey
  <2>1. \A k \in NoKey .. keyPair, s \in Stages : [To(s) EXCEPT !.answer = k] \in Joins(keyPair)
    <3> SUFFICES ASSUME NEW k \in NoKey .. keyPair, NEW s \in Stages
                 PROVE  [To(s) EXCEPT !.answer = k] \in Joins(keyPair)
      OBVIOUS
    <3> QED BY <1>b DEF Joins
  <2> QED BY <1>0, <1>a, <1>c, <1>4, <2>1 DEF PublicKey, FetchPublicKey
<1>5. CASE EnterGame \/ BackToLobby \/ Connect \/ FetchFails
  BY <1>0, <1>b, <1>c, <1>5 DEF EnterGame, BackToLobby, Connect, FetchFails
<1>6. CASE Check \/ Recheck
  BY <1>0, <1>b, <1>c, <1>6 DEF Check, Recheck
<1>7. CASE OthersValidate
  BY <1>0, <1>7 DEF OthersValidate
<1> QED BY <1>1, <1>2, <1>3, <1>4, <1>5, <1>6, <1>7 DEF JoinStep

LEMMA JoinStepFollows ==
  ASSUME TokenTypeOK, KeyFollows, JoinStep
  PROVE  KeyFollows'
<1>1. keyPair' = keyPair /\ keyPair \in Nat \ {NoKey} /\ join \in Joins(keyPair)
  BY JoinStepTyped, TokenTypes, Positive DEF NoKey
<1> USE <1>1 DEF KeyFollows, Step, Joins
<1>2. ASSUME NEW i \in Hosts, JoinServer(i) \/ JoinGuest(i)
      PROVE  KeyFollows'
  BY <1>2 DEF JoinServer, JoinGuest, NoJoin
<1>3. CASE SignGameToken \/ EnterGame \/ Connect \/ BackToLobby
  <2>1. CASE SignGameToken
    BY <2>1 DEF SignGameToken, To
  <2>2. CASE EnterGame
    BY <2>2 DEF EnterGame, To, NoJoin
  <2>3. CASE Connect
    BY <2>3 DEF Connect, To
  <2>4. CASE BackToLobby
    BY <2>4 DEF BackToLobby, NoJoin
  <2> QED BY <1>3, <2>1, <2>2, <2>3, <2>4
<1>4. CASE Expire
  BY <1>4 DEF Expire
<1>5. CASE PublicKey \/ FetchPublicKey \/ FetchFails
  <2>1. CASE PublicKey
    BY <2>1 DEF PublicKey, To
  <2>2. CASE FetchPublicKey
    BY <2>2 DEF FetchPublicKey, To
  <2>3. CASE FetchFails
    BY <2>3 DEF FetchFails, To
  <2> QED BY <1>5, <2>1, <2>2, <2>3
<1>6. CASE Check
  BY <1>6 DEF Check, To, Verified
<1>7. CASE Recheck
  BY <1>7 DEF Recheck, To, Verified
<1>8. CASE OthersValidate
  BY <1>8 DEF OthersValidate
<1> QED BY <1>2, <1>3, <1>4, <1>5, <1>6, <1>7, <1>8 DEF JoinStep

\* After a restart no token is one of the running back end.
LEMMA RestartKeeps ==
  ASSUME TokenTypeOK, KeyFollows, Restart
  PROVE  TokenTypeOK' /\ KeyFollows'
<1>0. /\ keyPair \in Nat /\ key \in NoKey .. keyPair /\ join \in Joins(keyPair)
      /\ meddled \in BOOLEAN /\ keyPair' = keyPair + 1 /\ keyPair' \in 1 .. MaxKeys
      /\ key' = key /\ keyPair' \in Nat
  BY TokenTypes, Positive DEF Restart, NoKey
<1>1. \A J \in Joins(keyPair) : J \in Joins(keyPair') /\ J.token # keyPair'
  BY <1>0 DEF Joins, NoKey
<1>2. /\ NoJoin \in Joins(keyPair)
      /\ \A s \in Stages : To(s) \in Joins(keyPair)
  BY <1>0, NoJoinTyped, JoinUpdates, TokenTypes DEF To, NoKey
<1>3. /\ join' = CASE join.at \in {"admitted", "issued"} -> NoJoin
                   [] join.at = "fetch" -> To("check")
                   [] join.at = "refetch" -> To("recheck")
                   [] OTHER -> join
      /\ meddled' = (meddled \/ join.at \in {"fetch", "refetch"})
  BY DEF Restart
<1>4. join' \in Joins(keyPair)
  BY <1>0, <1>2, <1>3 DEF Stages
<1>5. TokenTypeOK'
  BY <1>0, <1>1, <1>3, <1>4 DEF TokenTypeOK, Joins, NoKey
<1>6. join'.token # keyPair'
  BY <1>1, <1>4
<1>7. join'.at \in {"answered", "reanswered"} => join'.answer # NoKey
  BY <1>0, <1>3 DEF KeyFollows, NoJoin, To, Joins
<1>8. join'.at = "check" => key' # NoKey \/ meddled'
  BY <1>0, <1>3 DEF KeyFollows, NoJoin, To, Joins
<1> QED BY <1>5, <1>6, <1>7, <1>8 DEF KeyFollows

LEMMA TypeInductive ==
  ASSUME RegistryTypeOK, TokenTypeOK, KeyFollows, [Next]_vars
  PROVE  RegistryTypeOK' /\ TokenTypeOK' /\ KeyFollows'
<1>1. CASE RegistryNext /\ UNCHANGED tokenVars
  BY <1>1, RegistryStepTyped DEF tokenVars, TokenTypeOK, KeyFollows
<1>2. CASE Restart
  BY <1>2, RestartKeeps, RestartTyped DEF Restart
<1>3. CASE JoinStep /\ UNCHANGED registryVars
  BY <1>3, JoinStepTyped, JoinStepFollows, RegistryUnchanged
<1>4. CASE UNCHANGED registryVars /\ UNCHANGED tokenVars
  BY <1>4, RegistryUnchanged DEF tokenVars, TokenTypeOK, KeyFollows
<1> QED BY <1>1, <1>2, <1>3, <1>4, Cases

LEMMA TypeInit == Init => RegistryTypeOK /\ TokenTypeOK /\ KeyFollows
<1> SUFFICES ASSUME Init PROVE RegistryTypeOK /\ TokenTypeOK /\ KeyFollows
  OBVIOUS
<1>1. RegistryTypeOK
  BY RegistryInitTyped DEF Init
<1>2. TokenTypeOK
  <2>1. keyPair = 1 /\ key = NoKey /\ join = NoJoin /\ meddled = FALSE
    BY DEF Init
  <2>2. NoJoin \in Joins(1) /\ NoKey \in NoKey .. 1 /\ 1 \in 1 .. MaxKeys
    BY NoJoinTyped, Positive
  <2> QED BY <2>1, <2>2, TokenTypes
<1>3. KeyFollows
  BY DEF Init, KeyFollows, NoJoin
<1> QED BY <1>1, <1>2, <1>3

\* Types: every row, request, heartbeat, sweep and token is what the data base and
\* the handlers may hold, for any bounds.
THEOREM TypeCorrect == Spec => []TypeOK
<1>1. RegistryTypeOK /\ TokenTypeOK => TypeOK
  BY DEF TypeOK, TokenTypeOK
<1> QED BY <1>1, TypeInit, TypeInductive, PTL DEF Spec

\* A game token of the running back end that has not expired is refused only if a
\* fetch of the key failed or another player's validation changed the shared key
\* meanwhile, however often the back end restarts (validateSocket's second fetch).
THEOREM GoodTokenIsLetIn == Spec => []GoodTokenOpens
<1>1. KeyFollows => GoodTokenOpens
  BY DEF KeyFollows, GoodTokenOpens
<1> QED BY <1>1, TypeInit, TypeInductive, PTL DEF Spec

-----------------------------------------------------------------------------
(* The limit *)

\* Only CreateRow adds to the list, and a row at a time.
LEMMA ListedShrinks ==
  ASSUME RegistryTypeOK, RegistryNext \/ RegistryRestart \/ UNCHANGED registryVars
  PROVE  \/ Listed' \subseteq Listed
         \/ \E c \in Creates, i \in Ids : CreateRow(c, i) /\ Listed' \subseteq Listed \cup {i}
<1>0. row \in [Ids -> Row \cup {NoRow}] /\ Hosts \subseteq Ids
  BY RegistryAssumption DEF RegistryTypeOK
<1> SUFFICES ASSUME ~ \E c \in Creates, i \in Ids : CreateRow(c, i)
             PROVE  \A j \in Ids : row[j] = NoRow => row'[j] = NoRow
  <2>1. ASSUME NEW c \in Creates, NEW i \in Ids, CreateRow(c, i)
        PROVE  Listed' \subseteq Listed \cup {i}
    BY <1>0, <2>1 DEF CreateRow, Listed
  <2> QED BY <2>1 DEF Listed
<1>1. ASSUME NEW i \in Hosts, RotateToken(i)
      PROVE  \A j \in Ids : row[j] = NoRow => row'[j] = NoRow
  <2>1. CASE row[i] = NoRow
    BY <1>1, <2>1 DEF RotateToken
  <2>2. CASE row[i] # NoRow
    <3>1. \A j \in Ids \ {i} : row'[j] = row[j]
      BY <1>0, <1>1, <2>2 DEF RotateToken
    <3> QED BY <2>2, <3>1
  <2> QED BY <2>1, <2>2
<1>2. ASSUME NEW i \in Hosts, Heartbeat(i)
      PROVE  \A j \in Ids : row[j] = NoRow => row'[j] = NoRow
  <2>1. CASE row[i] = NoRow
    BY <1>2, <2>1 DEF Heartbeat
  <2>2. CASE row[i] # NoRow
    <3>1. \A j \in Ids \ {i} : row'[j] = row[j]
      BY <1>0, <1>2, <2>2 DEF Heartbeat
    <3> QED BY <2>2, <3>1
  <2> QED BY <2>1, <2>2
<1>3. ASSUME NEW i \in Hosts, Remove(i)
      PROVE  \A j \in Ids : row[j] = NoRow => row'[j] = NoRow
  BY <1>0, <1>3 DEF Remove
<1>4. CASE MarkStaleServersOffline
  BY <1>4 DEF MarkStaleServersOffline, Stale
<1>5. CASE Advance
  BY <1>5 DEF Advance, Older
<1>6. CASE row' = row
  BY <1>6
<1> QED
  BY <1>1, <1>2, <1>3, <1>4, <1>5, <1>6
     DEF RegistryNext, RegistryRestart, registryVars, rows, CountServers, AskRotate, AskDelete, Ask,
         StartHost, StopHost, SendHeartbeat, DropBeat, ValidateServerToken, StartSweep

LEMMA ListedFinite == IsFiniteSet(Listed) /\ Cardinality(Listed) \in Nat
<1>1. Listed \subseteq Ids
  BY DEF Listed
<1> QED BY <1>1, RegistryAssumption, FS_Subset, FS_CardinalityType

LEMMA NoMoreListed ==
  ASSUME Listed' \subseteq Listed
  PROVE  /\ Cardinality(Listed') \in Nat /\ Cardinality(Listed) \in Nat
         /\ Cardinality(Listed') <= Cardinality(Listed)
<1> DEFINE L == Listed
           M == Listed'
<1>1. IsFiniteSet(L) /\ M \subseteq L
  BY ListedFinite
<1> HIDE DEF L, M
<1>2. IsFiniteSet(M) /\ Cardinality(M) <= Cardinality(L)
  BY <1>1, FS_Subset
<1>3. Cardinality(M) \in Nat /\ Cardinality(L) \in Nat
  BY <1>1, <1>2, FS_CardinalityType
<1> QED BY <1>2, <1>3 DEF L, M

LEMMA OneMoreListed ==
  ASSUME NEW i, Listed' \subseteq Listed \cup {i}
  PROVE  /\ Cardinality(Listed') \in Nat /\ Cardinality(Listed) \in Nat
         /\ Cardinality(Listed') <= Cardinality(Listed) + 1
<1> DEFINE L == Listed
           M == Listed'
           N == L \cup {i}
<1>1. IsFiniteSet(L) /\ M \subseteq N
  BY ListedFinite
<1> HIDE DEF L, M
<1>2. IsFiniteSet(N) /\ Cardinality(N) <= Cardinality(L) + 1 /\ Cardinality(L) \in Nat
  <2>1. Cardinality(L) \in Nat
    BY <1>1, FS_CardinalityType
  <2>2. IsFiniteSet(N) /\ Cardinality(N) = IF i \in L THEN Cardinality(L) ELSE Cardinality(L) + 1
    BY <1>1, FS_AddElement
  <2> QED BY <2>1, <2>2
<1> HIDE DEF N
<1>3. IsFiniteSet(M) /\ Cardinality(M) <= Cardinality(N)
  BY <1>1, <1>2, FS_Subset
<1>4. Cardinality(M) \in Nat /\ Cardinality(N) \in Nat
  BY <1>2, <1>3, FS_CardinalityType
<1>5. Cardinality(M) <= Cardinality(L) + 1
  BY <1>2, <1>3, <1>4
<1> QED BY <1>2, <1>4, <1>5 DEF L, M

LEMMA CreatingElsewhere ==
  ASSUME RegistryNext \/ RegistryRestart \/ UNCHANGED registryVars
  PROVE  \/ \E c \in Creates : CountServers(c)
         \/ \E c \in Creates, i \in Ids : CreateRow(c, i)
         \/ RegistryRestart
         \/ UNCHANGED <<creating, overlap>>
BY DEF RegistryNext, registryVars, rows, owner, AskRotate, AskDelete, Ask, RotateToken, Remove,
   StartHost, StopHost, SendHeartbeat, DropBeat, ValidateServerToken, Heartbeat, StartSweep,
   MarkStaleServersOffline, Advance

LEMMA LimitStep ==
  ASSUME RegistryTypeOK, OneAtATime, RegistryNext \/ RegistryRestart \/ UNCHANGED registryVars
  PROVE  OneAtATime'
<1> SUFFICES ASSUME ~ overlap'
             PROVE  /\ Cardinality(Listed') <= MaxServers
                    /\ \A c \in Creates : creating'[c] = "counted" =>
                         /\ Cardinality(Listed') < MaxServers
                         /\ \A d \in Creates : creating'[d] = "counted" => c = d
  BY DEF OneAtATime
<1>0. /\ ~ overlap
      /\ creating \in [Creates -> {"idle", "counted"}] /\ MaxServers \in Nat \ {0}
  BY CreatingElsewhere, Positive DEF RegistryTypeOK, CountServers, CreateRow, RegistryRestart
<1>1. CASE \E c \in Creates : CountServers(c)
  <2>1. PICK c \in Creates : CountServers(c)
    BY <1>1
  <2>2. Listed' = Listed /\ Cardinality(Listed) < MaxServers /\ Cardinality(Listed) \in Nat
    BY <2>1, ListedFinite DEF CountServers, Listed
  <2>3. creating' = [creating EXCEPT ![c] = "counted"]
        /\ \A d \in Creates \ {c} : creating[d] # "counted"
    BY <2>1 DEF CountServers
  <2>4. \A d \in Creates : creating'[d] = "counted" => d = c
    BY <1>0, <2>3
  <2>5. Cardinality(Listed') < MaxServers /\ Cardinality(Listed') <= MaxServers
    BY <2>2, <1>0
  <2> QED BY <2>4, <2>5
<1>2. CASE \E c \in Creates, i \in Ids : CreateRow(c, i)
  <2>1. PICK c \in Creates, i \in Ids : CreateRow(c, i)
    BY <1>2
  <2>2. Listed' \subseteq Listed \cup {i}
    BY <2>1 DEF CreateRow, Listed, RegistryTypeOK
  <2>3. Cardinality(Listed) < MaxServers /\ \A d \in Creates : creating[d] = "counted" => d = c
    BY <1>0, <2>1 DEF CreateRow, OneAtATime
  <2>4. Cardinality(Listed') <= MaxServers
    BY <1>0, <2>2, <2>3, OneMoreListed
  <2>5. creating' = [creating EXCEPT ![c] = "idle"]
    BY <2>1 DEF CreateRow
  <2>6. \A d \in Creates : creating'[d] # "counted"
    BY <1>0, <2>3, <2>5
  <2> QED BY <2>4, <2>6
<1>3. CASE RegistryRestart
  <2>1. Listed' \subseteq Listed /\ \A d \in Creates : creating'[d] # "counted"
    BY <1>3 DEF RegistryRestart, Listed
  <2>2. Cardinality(Listed) <= MaxServers
    BY <1>0 DEF OneAtATime
  <2> QED BY <1>0, <2>1, <2>2, NoMoreListed
<1>4. CASE UNCHANGED <<creating, overlap>>
  <2>1. CASE \E c \in Creates, i \in Ids : CreateRow(c, i)
    BY <1>2, <2>1
  <2>2. CASE Listed' \subseteq Listed
    BY <1>0, <1>4, <2>2, NoMoreListed DEF OneAtATime
  <2> QED BY <2>1, <2>2, ListedShrinks
<1> QED BY <1>1, <1>2, <1>3, <1>4, CreatingElsewhere

LEMMA RegistrySteps ==
  [Next]_vars => RegistryNext \/ RegistryRestart \/ UNCHANGED registryVars
BY Cases DEF Restart

LEMMA LimitInit == Init => OneAtATime
<1> SUFFICES ASSUME Init PROVE OneAtATime
  OBVIOUS
<1>1. Listed = {}
  BY DEF Init, RegistryInit, Listed
<1>2. \A c \in Creates : creating[c] # "counted"
  BY DEF Init, RegistryInit
<1> QED BY <1>1, <1>2, FS_EmptySet, Positive DEF OneAtATime

\* An account has more servers than MAX_SERVERS_PER_USER only if two of its create
\* requests were between their count and their insert at once (servers.service.ts
\* create); restarts, deletions and rotations never bring it about.
THEOREM LimitHolds == Spec => []LimitNeedsOverlap
<1>1. OneAtATime => LimitNeedsOverlap
  <2>1. Cardinality(Listed) \in Nat /\ MaxServers \in Nat
    BY ListedFinite, Positive
  <2> QED BY <2>1 DEF OneAtATime, LimitNeedsOverlap
<1>2. RegistryTypeOK /\ OneAtATime /\ [Next]_vars => OneAtATime'
  BY RegistrySteps, LimitStep
<1> QED BY <1>1, <1>2, LimitInit, TypeInit, TypeInductive, PTL DEF Spec

-----------------------------------------------------------------------------
(* The sweep *)

\* What a step that is not of the clock does to the list: a row that is online
\* afterwards has just reported, or was online and is as old as it was; and no server
\* is taken off it but by a deletion.
LEMMA ReportsAge ==
  ASSUME RegistryTypeOK, RegistryNext,
         ~ StartSweep, ~ MarkStaleServersOffline, ~ Advance
  PROVE  /\ \A i \in Ids : Online(row'[i]) =>
              row'[i].age = 0 \/ (Online(row[i]) /\ row'[i].age = row[i].age)
         /\ \A i \in Ids : Online(row[i]) /\ row'[i] # NoRow => Online(row'[i])
         /\ UNCHANGED clock
<1>0. row \in [Ids -> Row \cup {NoRow}] /\ Hosts \subseteq Ids
  BY RegistryAssumption DEF RegistryTypeOK
<1>1. ASSUME NEW c \in Creates, NEW k \in Ids, CreateRow(c, k)
      PROVE  /\ \A i \in Ids : Online(row'[i]) => Online(row[i]) /\ row'[i].age = row[i].age
             /\ \A i \in Ids : Online(row[i]) /\ row'[i] # NoRow => Online(row'[i])
             /\ UNCHANGED clock
  <2>1. row' = [row EXCEPT ![k] = NewRow] /\ UNCHANGED clock /\ row[k] = NoRow
    BY <1>1 DEF CreateRow, Fresh
  <2>2. ~ Online(NewRow) /\ ~ Online(row[k])
    BY <2>1 DEF Online, NewRow
  <2>3. row'[k] = NewRow /\ \A i \in Ids \ {k} : row'[i] = row[i]
    BY <1>0, <2>1
  <2> QED BY <2>1, <2>2, <2>3
<1>2. ASSUME NEW k \in Hosts, RotateToken(k)
      PROVE  /\ \A i \in Ids : Online(row'[i]) => Online(row[i]) /\ row'[i].age = row[i].age
             /\ \A i \in Ids : Online(row[i]) /\ row'[i] # NoRow => Online(row'[i])
             /\ UNCHANGED clock
  <2>1. UNCHANGED clock
    BY <1>2 DEF RotateToken
  <2>2. CASE row[k] = NoRow
    BY <1>2, <2>1, <2>2 DEF RotateToken
  <2>3. CASE row[k] # NoRow
    <3>1. row' = [row EXCEPT ![k].token = @ + 1] /\ k \in Ids /\ row[k] \in Row
      BY <1>0, <1>2, <2>3 DEF RotateToken
    <3>2. row'[k].status = row[k].status /\ row'[k].age = row[k].age
      BY <1>0, <3>1 DEF Row
    <3>3. \A i \in Ids \ {k} : row'[i] = row[i]
      BY <1>0, <3>1
    <3> QED BY <2>1, <2>3, <3>2, <3>3 DEF Online
  <2> QED BY <2>2, <2>3
<1>3. ASSUME NEW k \in Hosts, Heartbeat(k)
      PROVE  /\ \A i \in Ids : Online(row'[i]) =>
                  row'[i].age = 0 \/ (Online(row[i]) /\ row'[i].age = row[i].age)
             /\ \A i \in Ids : Online(row[i]) /\ row'[i] # NoRow => Online(row'[i])
             /\ UNCHANGED clock
  <2>1. UNCHANGED clock
    BY <1>3 DEF Heartbeat
  <2>2. CASE row[k] = NoRow
    BY <1>3, <2>1, <2>2 DEF Heartbeat
  <2>3. CASE row[k] # NoRow
    <3>1. row' = [row EXCEPT ![k].status = "online", ![k].age = 0] /\ k \in Ids
          /\ row[k] \in Row
      BY <1>0, <1>3, <2>3 DEF Heartbeat
    <3>2. row'[k].status = "online" /\ row'[k].age = 0
      BY <1>0, <3>1 DEF Row
    <3>3. \A i \in Ids \ {k} : row'[i] = row[i]
      BY <1>0, <3>1
    <3> QED BY <2>1, <3>2, <3>3 DEF Online
  <2> QED BY <2>2, <2>3
<1>4. ASSUME NEW k \in Hosts, Remove(k)
      PROVE  /\ \A i \in Ids : Online(row'[i]) => Online(row[i]) /\ row'[i].age = row[i].age
             /\ \A i \in Ids : Online(row[i]) /\ row'[i] # NoRow => Online(row'[i])
             /\ UNCHANGED clock
  BY <1>0, <1>4 DEF Remove, Online
<1>5. CASE UNCHANGED <<row, clock>>
  BY <1>5
<1> QED
  BY <1>1, <1>2, <1>3, <1>4, <1>5
     DEF RegistryNext, rows, CountServers, AskRotate, AskDelete, Ask, StartHost, StopHost,
         SendHeartbeat, DropBeat, ValidateServerToken

\* What the clock does to the list
LEMMA ClockAges ==
  ASSUME RegistryTypeOK, SweptRecently, StartSweep \/ MarkStaleServersOffline \/ Advance
  PROVE  SweptRecently'
<1>0. /\ row \in [Ids -> Row \cup {NoRow}]
      /\ timer \in 0 .. SweepEvery /\ sweep \in 0 .. Idle
      /\ \A i \in Ids : Online(row[i]) => row[i].age \in Nat
  BY Bounds DEF RegistryTypeOK, Online, Row
<1> USE Positive, Bounds
<1>1. CASE StartSweep
  <2>1. /\ timer = SweepEvery /\ sweep = Idle /\ timer' = 0 /\ sweep' = 0
        /\ row' = row /\ swept' = swept
    BY <1>1 DEF StartSweep, rows
  <2>2. ASSUME swept, NEW i \in Ids, Online(row[i])
        PROVE  row[i].age <= Timeout + SweepEvery
    BY <2>1, <2>2 DEF SweptRecently
  <2>3. sweep' # Idle
    BY <2>1
  <2> QED BY <2>1, <2>2, <2>3 DEF SweptRecently, Online, Idle
<1>2. CASE MarkStaleServersOffline
  <2>1. /\ sweep # Idle /\ sweep' = Idle /\ timer' = timer
        /\ row' = [i \in Ids |-> IF Stale(row[i])
                                THEN [row[i] EXCEPT !.status = "offline", !.age = MaxAge]
                                ELSE row[i]]
    BY <1>2 DEF MarkStaleServersOffline
  <2>2. timer = sweep
    BY <2>1 DEF SweptRecently
  <2>3. ASSUME NEW i \in Ids, Online(row'[i])
        PROVE  row'[i].age <= Timeout + timer
    <3>1. CASE Stale(row[i])
      <4>1. row'[i] = [row[i] EXCEPT !.status = "offline", !.age = MaxAge] /\ row[i] \in Row
        BY <1>0, <2>1, <3>1 DEF Stale
      <4>2. row'[i].status = "offline"
        BY <4>1 DEF Row
      <4> QED BY <2>3, <4>2 DEF Online
    <3>2. CASE ~ Stale(row[i])
      <4>1. row'[i] = row[i]
        BY <2>1, <3>2
      <4>2. ~ (row[i].age > Timeout + sweep) /\ row[i].age \in Nat
        BY <1>0, <2>3, <3>2, <4>1 DEF Stale, Online
      <4> QED BY <1>0, <2>2, <4>1, <4>2
    <3> QED BY <3>1, <3>2
  <2> QED BY <2>1, <2>3 DEF SweptRecently, Idle
<1>3. CASE Advance
  <2>1. /\ sweep = Idle \/ sweep < SweepTakes
        /\ timer' = timer + 1
        /\ sweep' = IF sweep = Idle THEN Idle ELSE sweep + 1
        /\ row' = [i \in Ids |-> Older(row[i])] /\ swept' = swept
    BY <1>3 DEF Advance
  <2>2. sweep' # Idle => sweep # Idle /\ sweep' = sweep + 1
    BY <1>0, <2>1
  <2>3. sweep = Idle <=> sweep' = Idle
    BY <1>0, <2>1
  <2>4. ASSUME swept, NEW i \in Ids, Online(row'[i])
        PROVE  row'[i].age <= IF sweep = Idle THEN Timeout + timer + 1
                              ELSE Timeout + SweepEvery + sweep + 1
    <3>1. Online(row[i]) /\ row'[i].age <= row[i].age + 1 /\ row[i].age \in Nat
      BY <1>0, <2>1, <2>4, OlderTyped
    <3>2. row'[i].age \in Nat
      BY <1>0, <2>1, <2>4, OlderTyped DEF Online, Row
    <3>3. row[i].age <= IF sweep = Idle THEN Timeout + timer ELSE Timeout + SweepEvery + sweep
      BY <2>4, <3>1 DEF SweptRecently
    <3> QED BY <1>0, <3>1, <3>2, <3>3
  <2>5. sweep' # Idle => timer' = sweep'
    BY <2>1, <2>2 DEF SweptRecently
  <2>6. ASSUME swept', NEW i \in Ids, Online(row'[i])
        PROVE  row'[i].age <= IF sweep' = Idle THEN Timeout + timer'
                              ELSE Timeout + SweepEvery + sweep'
    BY <1>0, <2>1, <2>3, <2>4, <2>6
  <2> QED BY <2>5, <2>6 DEF SweptRecently, Online, Idle
<1> QED BY <1>1, <1>2, <1>3

LEMMA SweepStep ==
  ASSUME RegistryTypeOK, SweptRecently, RegistryNext \/ RegistryRestart \/ UNCHANGED registryVars
  PROVE  SweptRecently'
<1> USE Positive, Bounds
<1>1. CASE StartSweep \/ MarkStaleServersOffline \/ Advance
  BY <1>1, ClockAges
<1>2. CASE RegistryNext /\ ~ StartSweep /\ ~ MarkStaleServersOffline /\ ~ Advance
  <2>1. /\ \A i \in Ids : Online(row'[i]) =>
              row'[i].age = 0 \/ (Online(row[i]) /\ row'[i].age = row[i].age)
        /\ sweep' = sweep /\ timer' = timer /\ swept' = swept
    BY <1>2, ReportsAge DEF clock
  <2>2. 0 <= IF sweep = Idle THEN Timeout + timer ELSE Timeout + SweepEvery + sweep
    BY DEF RegistryTypeOK
  <2> QED BY <2>1, <2>2 DEF SweptRecently, Online, Idle
<1>3. CASE RegistryRestart
  BY <1>3 DEF RegistryRestart, SweptRecently, Idle
<1>4. CASE UNCHANGED registryVars
  BY <1>4 DEF registryVars, rows, clock, SweptRecently, Online, Idle
<1> QED BY <1>1, <1>2, <1>3, <1>4

LEMMA SweptInit == Init => SweptRecently
BY DEF Init, RegistryInit, SweptRecently, Idle

LEMMA RecentlyListed == RegistryTypeOK /\ SweptRecently => ListedIsRecent
<1> SUFFICES ASSUME RegistryTypeOK, SweptRecently, swept,
                    NEW i \in Ids, row[i] # NoRow, row[i].status = "online"
             PROVE  row[i].age < MaxAge
  BY DEF ListedIsRecent, Listed
<1>1. row[i].age \in Nat /\ timer \in 0 .. SweepEvery /\ sweep \in 0 .. Idle
  BY Bounds DEF RegistryTypeOK, Row
<1>2. row[i].age <= IF sweep = Idle THEN Timeout + timer ELSE Timeout + SweepEvery + sweep
  BY DEF SweptRecently, Online
<1>3. sweep # Idle => sweep <= SweepTakes
  BY <1>1, Positive, Bounds
<1> QED BY <1>1, <1>2, <1>3, Positive, Bounds

LEMMA SparesLive ==
  ASSUME RegistryTypeOK, RegistryNext \/ RegistryRestart \/ UNCHANGED registryVars,
         NEW i \in Listed, row[i].status = "online",
         row'[i] # NoRow, row'[i].status = "offline"
  PROVE  row[i].age > Timeout
<1>0. i \in Ids /\ Online(row[i]) /\ row[i] \in Row /\ row[i].age \in Nat
      /\ sweep \in 0 .. Idle
  BY DEF RegistryTypeOK, Listed, Online, Row
<1>1. ~ Online(row'[i]) /\ row'[i] # row[i]
  BY DEF Online
<1>2. CASE MarkStaleServersOffline
  <2>1. row'[i] = IF Stale(row[i]) THEN [row[i] EXCEPT !.status = "offline", !.age = MaxAge]
                  ELSE row[i]
    BY <1>0, <1>2 DEF MarkStaleServersOffline
  <2>2. row[i].age > Timeout + sweep
    BY <1>1, <2>1 DEF Stale
  <2> QED BY <1>0, <2>2, Positive, Bounds
<1>3. CASE Advance
  <2>1. row'[i] = Older(row[i])
    BY <1>0, <1>3 DEF Advance
  <2>2. Older(row[i]).status = row[i].status
    BY <1>0 DEF Older, Row
  <2> QED BY <2>1, <2>2
<1>4. CASE StartSweep
  BY <1>1, <1>4 DEF StartSweep, rows
<1>5. CASE RegistryNext /\ ~ StartSweep /\ ~ MarkStaleServersOffline /\ ~ Advance
  BY <1>0, <1>1, <1>5, ReportsAge
<1>6. CASE RegistryRestart \/ UNCHANGED registryVars
  BY <1>1, <1>6 DEF RegistryRestart, registryVars, rows
<1> QED BY <1>2, <1>3, <1>4, <1>5, <1>6

\* The list never shows a server that has been silent for longer than the timeout, a
\* period of the sweep and the time one takes (once a sweep has run since the back end
\* started), and no sweep takes a server off it that reported within the timeout,
\* however heartbeats and sweeps interleave (servers.service.ts checkStaleServers).
THEOREM SweepInTime == Spec => SweepIsTimely
<1>1. RegistryTypeOK /\ SweptRecently /\ [Next]_vars => SweptRecently'
  BY RegistrySteps, SweepStep
<1>2. RegistryTypeOK /\ [Next]_vars =>
        [\A i \in Listed : row[i].status = "online" /\ row'[i] # NoRow /\ row'[i].status = "offline"
           => row[i].age > Timeout]_registryVars
  BY RegistrySteps, SparesLive
<1>3. Spec => []ListedIsRecent
  BY <1>1, SweptInit, RecentlyListed, TypeInit, TypeInductive, PTL DEF Spec
<1>4. Spec => SweepSparesLive
  BY <1>2, TypeInit, TypeInductive, PTL DEF Spec, SweepSparesLive
<1> QED BY <1>3, <1>4, PTL DEF SweepIsTimely

-----------------------------------------------------------------------------
(***************************************************************************)
(* Proofs about Accounts for any users, browsers, names and number of      *)
(* requests under way.                                                     *)
(*                                                                         *)
(* A request keeps what it has read while others write, so each argument   *)
(* is a rule about every request (its record q) and the tables us and ss   *)
(* of users and sessions: what q relies on is still true when q goes on    *)
(* (Sound), a name that was checked and not crossed is still free          *)
(* (NameFree), and a session that is about to be given out lives unless    *)
(* its end has crossed the login (GivesLive).                              *)
(***************************************************************************)

LiveIn(ss, s) == ss[s] # None /\ ss[s].isValid /\ ~ ss[s].expired

UserOK(w) == /\ w \in User
             /\ w.linked => w.known
             /\ w.known <=> w.name # None
             /\ w.usernameSet => w.name \in Admitted

LoginSteps == {"start", "create", "link", "session", "write", "answer"}

Sound(q, us, ss) ==
  /\ q \in Request
  /\ q.kind = "login" =>
       /\ q.arg \in Users /\ q.step \in LoginSteps
       /\ q.step \in {"link", "session", "write", "answer"} => us[q.arg].known
       /\ q.sid # None => ss[q.sid] \in Session
       /\ q.step = "answer" => q.sid # None
  /\ q.kind # "login" =>
       /\ q.sid \in Sids /\ ss[q.sid] \in Session
       /\ q.step \in {"start", "refresh", "expire", "handle", "commit", "answer"}
  /\ q.kind = "username" => q.arg \in Admitted
  /\ q.kind = "revoke" => q.arg \in Sids /\ ss[q.arg] \in Session

CookiesOK(j, ss) ==
  /\ j \in Jar
  /\ j.auth = j.csrf /\ (j.stale => j.old)
  /\ j.auth # None => ss[j.auth] \in Session

Types ==
  /\ users \in [Users -> User] /\ \A u \in Users : UserOK(users[u])
  /\ sessions \in [Sids -> Session \cup {None}]
  /\ \A s \in Sids : sessions[s] # None => users[sessions[s].user].known
  /\ jar \in [Browsers -> Jar] /\ \A b \in Browsers : CookiesOK(jar[b], sessions)
  /\ reqs \in [Reqs -> Request \cup {None}]
  /\ \A r \in Reqs : reqs[r] # None => Sound(reqs[r], users, sessions)
  /\ overtaken \in BOOLEAN

LEMMA Constants ==
  /\ Admitted \subseteq Names /\ Prefix \in [Users -> Names]
  /\ None \notin Users /\ None \notin Sids /\ None \notin Names /\ None \notin Admitted
  /\ None \notin Session
BY AccountsAssumption, NoneAssumption

-----------------------------------------------------------------------------
(* What the tables may do under a request *)

\* Sign-ups and sessions stay.
Grow(us, ss, us2, ss2) ==
  /\ us2 \in [Users -> User] /\ \A u \in Users : us[u].known => us2[u].known
  /\ ss2 \in [Sids -> Session \cup {None}]
  /\ \A s \in Sids : ss[s] \in Session => ss2[s] \in Session

LEMMA SoundGrows ==
  ASSUME NEW q, NEW us, NEW ss, NEW us2, NEW ss2, Sound(q, us, ss), Grow(us, ss, us2, ss2)
  PROVE  Sound(q, us2, ss2)
<1>1. q.sid \in Sids \cup {None}
  BY DEF Sound, Request
<1> QED BY <1>1 DEF Sound, Grow

\* A history that is written changes nothing else.
LEMMA CrossedSound ==
  ASSUME NEW q, NEW us, NEW ss, Sound(q, us, ss)
  PROVE  LET c == [q EXCEPT !.crossed = TRUE]
         IN  /\ Sound(c, us, ss)
             /\ c.kind = q.kind /\ c.step = q.step /\ c.sid = q.sid /\ c.arg = q.arg /\ c.crossed
<1> DEFINE c == [q EXCEPT !.crossed = TRUE]
<1>1. /\ c \in Request
      /\ c.kind = q.kind /\ c.step = q.step /\ c.sid = q.sid /\ c.arg = q.arg /\ c.crossed
  BY DEF Sound, Request
<1> HIDE DEF c
<1>2. Sound(c, us, ss)
  BY <1>1 DEF Sound
<1> QED BY <1>1, <1>2 DEF c

LEMMA OthersSound ==
  ASSUME Types, Grow(users, sessions, users', sessions'), NEW r \in Reqs,
         reqs' = [k \in Reqs |-> reqs'[k]],
         \A k \in Reqs \ {r} :
           reqs'[k] = reqs[k] \/ (reqs[k] # None /\ reqs'[k] = [reqs[k] EXCEPT !.crossed = TRUE]),
         reqs'[r] # None => Sound(reqs'[r], users', sessions')
  PROVE  /\ reqs' \in [Reqs -> Request \cup {None}]
         /\ \A k \in Reqs : reqs'[k] # None => Sound(reqs'[k], users', sessions')
<1>1. ASSUME NEW k \in Reqs, reqs'[k] # None
      PROVE  Sound(reqs'[k], users', sessions')
  <2>1. CASE k = r
    BY <1>1, <2>1
  <2>2. CASE k # r
    <3>1. reqs[k] # None
      BY <1>1, <2>2
    <3>2. Sound(reqs[k], users', sessions')
      BY <3>1, SoundGrows DEF Types
    <3>3. Sound([reqs[k] EXCEPT !.crossed = TRUE], users', sessions')
      BY <3>2, CrossedSound
    <3> QED BY <2>2, <3>2, <3>3
  <2> QED BY <2>1, <2>2
<1>2. \A k \in Reqs : reqs'[k] \in Request \cup {None}
  BY <1>1 DEF Sound
<1> QED BY <1>1, <1>2

LEMMA CookiesGrow ==
  ASSUME NEW j, NEW us, NEW ss, NEW us2, NEW ss2, CookiesOK(j, ss), Grow(us, ss, us2, ss2)
  PROVE  CookiesOK(j, ss2)
<1>1. j.auth \in Sids \cup {None}
  BY DEF CookiesOK, Jar
<1> QED BY <1>1 DEF CookiesOK, Grow

\* A step that lets the tables grow and writes one request keeps the types.
LEMMA TypesStep ==
  ASSUME Types, Grow(users, sessions, users', sessions'), NEW r \in Reqs,
         \A u \in Users : UserOK(users'[u]),
         \A s \in Sids : sessions'[s] # None => users'[sessions'[s].user].known,
         jar' = jar, overtaken' \in BOOLEAN,
         reqs' = [k \in Reqs |-> reqs'[k]],
         \A k \in Reqs \ {r} :
           reqs'[k] = reqs[k] \/ (reqs[k] # None /\ reqs'[k] = [reqs[k] EXCEPT !.crossed = TRUE]),
         reqs'[r] # None => Sound(reqs'[r], users', sessions')
  PROVE  Types'
<1>1. /\ reqs' \in [Reqs -> Request \cup {None}]
      /\ \A k \in Reqs : reqs'[k] # None => Sound(reqs'[k], users', sessions')
  BY OthersSound
<1>2. \A b \in Browsers : CookiesOK(jar'[b], sessions')
  BY CookiesGrow DEF Types
<1>3. /\ users' \in [Users -> User] /\ sessions' \in [Sids -> Session \cup {None}]
      /\ jar' \in [Browsers -> Jar]
  BY DEF Grow, Types
<1> QED BY <1>1, <1>2, <1>3 DEF Types, UserOK, CookiesOK, Sound

LEMMA GrowsNot == ASSUME Types, UNCHANGED <<users, sessions>>
                  PROVE  Grow(users, sessions, users', sessions')
BY DEF Types, Grow

\* The tables stay and one request is written.
LEMMA RequestStep ==
  ASSUME Types, NEW r \in Reqs, NEW q, UNCHANGED <<users, sessions, jar, overtaken>>,
         reqs' = [reqs EXCEPT ![r] = q], q # None => Sound(q, users, sessions)
  PROVE  Types'
<1>1. Grow(users, sessions, users', sessions')
  BY GrowsNot
<1>2. \A u \in Users : UserOK(users'[u])
  BY DEF Types
<1>3. \A s \in Sids : sessions'[s] # None => users'[sessions'[s].user].known
  BY DEF Types
<1>4. reqs \in [Reqs -> Request \cup {None}] /\ overtaken \in BOOLEAN
  BY DEF Types
<1>5. reqs' = [k \in Reqs |-> reqs'[k]]
  BY <1>4
<1>6. \A k \in Reqs \ {r} : reqs'[k] = reqs[k]
  BY <1>4
<1>7. reqs'[r] = q
  BY <1>4
<1> QED BY <1>1, <1>2, <1>3, <1>4, <1>5, <1>6, <1>7, TypesStep

-----------------------------------------------------------------------------
(* Types, request by request *)

LEMMA AskTypes ==
  ASSUME Types, NEW r \in Reqs, NEW kind \in Kinds \ {"login"}, NEW b \in Browsers, NEW arg,
         jar[b].auth # None, Send(r, kind, b, jar[b].auth, arg),
         kind = "username" => arg \in Admitted,
         kind = "revoke" => arg \in Sids /\ sessions[arg] # None,
         kind \notin {"username", "revoke"} => arg = None,
         UNCHANGED <<users, sessions, jar, overtaken>>
  PROVE  Types'
<1> DEFINE sets == IF jar[b].auth # None /\ Rotates(b) THEN "set" ELSE "keep"
           q == [kind |-> kind, from |-> b, sid |-> jar[b].auth, arg |-> arg, step |-> "start",
                 sets |-> sets, crossed |-> FALSE]
<1>1. CookiesOK(jar[b], sessions)
  BY DEF Types
<1>2. jar[b].auth \in Sids /\ sessions[jar[b].auth] \in Session
  BY <1>1 DEF CookiesOK, Jar
<1>3. arg \in Names \cup Sids \cup {None}
  BY Constants DEF Kinds
<1>4. q \in Request
  BY <1>2, <1>3 DEF Request, Kinds
<1>5. kind = "revoke" => sessions[arg] \in Session
  BY DEF Types
<1>6. Sound(q, users, sessions)
  BY <1>2, <1>4, <1>5 DEF Sound
<1>7. reqs' = [reqs EXCEPT ![r] = q]
  BY DEF Send
<1> HIDE DEF q
<1> QED BY <1>6, <1>7, RequestStep

LEMMA SignInTypes ==
  ASSUME Types, NEW r \in Reqs, NEW b \in Browsers, NEW u \in Users, SignIn(r, b, u)
  PROVE  Types'
<1> DEFINE q == [kind |-> "login", from |-> b, sid |-> None, arg |-> u, step |-> "start",
                 sets |-> "keep", crossed |-> FALSE]
<1>1. q \in Request
  BY DEF Request, Kinds
<1>2. Sound(q, users, sessions)
  BY <1>1 DEF Sound, LoginSteps
<1>3. reqs' = [reqs EXCEPT ![r] = q]
  BY DEF SignIn, Send
<1>4. UNCHANGED <<users, sessions, jar, overtaken>>
  BY DEF SignIn
<1> HIDE DEF q
<1> QED BY <1>2, <1>3, <1>4, RequestStep

LEMMA BrowserTypes ==
  ASSUME Types, NEW r \in Reqs, NEW b \in Browsers,
         \/ AskMe(r, b) \/ FirstName(r, b) \/ NewName(r, b)
         \/ SignOut(r, b) \/ EndSession(r, b) \/ EndOthers(r, b)
  PROVE  Types'
<1>1. CASE AskMe(r, b)
  BY <1>1, AskTypes DEF AskMe, Kinds
<1>2. CASE FirstName(r, b)
  <2>1. PICK n \in Admitted : Change(r, b, "username", n)
    BY <1>2 DEF FirstName
  <2> QED BY <2>1, AskTypes DEF Change, Kinds
<1>3. CASE NewName(r, b)
  <2>1. PICK n \in Admitted : Change(r, b, "username", n)
    BY <1>3 DEF NewName
  <2> QED BY <2>1, AskTypes DEF Change, Kinds
<1>4. CASE SignOut(r, b)
  BY <1>4, AskTypes DEF SignOut, Change, Kinds
<1>5. CASE EndSession(r, b)
  <2>1. PICK s \in Sids : sessions[s] # None /\ Change(r, b, "revoke", s)
    BY <1>5 DEF EndSession
  <2> QED BY <2>1, AskTypes DEF Change, Kinds
<1>6. CASE EndOthers(r, b)
  BY <1>6, AskTypes DEF EndOthers, Change, Kinds
<1> QED BY <1>1, <1>2, <1>3, <1>4, <1>5, <1>6

\* A request goes on to a step that needs nothing new.
LEMMA GoTypes ==
  ASSUME Types, NEW r \in Reqs, NEW step, reqs[r] # None, Go(r, step),
         UNCHANGED <<users, sessions, jar, overtaken>>,
         Sound([reqs[r] EXCEPT !.step = step], users, sessions)
  PROVE  Types'
<1>1. reqs' = [reqs EXCEPT ![r] = [reqs[r] EXCEPT !.step = step]]
  BY DEF Go
<1> QED BY <1>1, RequestStep

LEMMA DoneTypes ==
  ASSUME Types, NEW r \in Reqs, Done(r), UNCHANGED <<users, sessions, jar, overtaken>>
  PROVE  Types'
BY RequestStep DEF Done

\* What a request is about to do changes nothing that makes it sound.
LEMMA StepSound ==
  ASSUME NEW us, NEW ss, NEW q, Sound(q, us, ss),
         NEW step \in {"start", "create", "link", "session", "write", "refresh", "expire",
                       "handle", "commit", "answer"},
         q.kind = "login" =>
           /\ step \in LoginSteps
           /\ step \in {"link", "session", "write", "answer"} => us[q.arg].known
           /\ step = "answer" => q.sid # None,
         q.kind # "login" =>
           step \in {"start", "refresh", "expire", "handle", "commit", "answer"}
  PROVE  Sound([q EXCEPT !.step = step], us, ss)
<1> DEFINE c == [q EXCEPT !.step = step]
<1>1. c \in Request /\ c.kind = q.kind /\ c.sid = q.sid /\ c.arg = q.arg /\ c.step = step
  BY DEF Sound, Request
<1> HIDE DEF c
<1>2. Sound(c, us, ss)
  BY <1>1 DEF Sound
<1> QED BY <1>2 DEF c

LEMMA RequestTypes ==
  ASSUME Types, NEW r \in Reqs, reqs[r] # None
  PROVE  /\ Sound(reqs[r], users, sessions) /\ reqs[r] \in Request
         /\ reqs[r].kind = "login" => reqs[r].arg \in Users
         /\ reqs[r].kind # "login" =>
              /\ reqs[r].sid \in Sids /\ sessions[reqs[r].sid] \in Session
              /\ Owner(reqs[r].sid) \in Users /\ users[Owner(reqs[r].sid)].known
<1>1. Sound(reqs[r], users, sessions)
  BY DEF Types
<1>2. ASSUME reqs[r].kind # "login"
      PROVE  /\ reqs[r].sid \in Sids /\ sessions[reqs[r].sid] \in Session
             /\ Owner(reqs[r].sid) \in Users /\ users[Owner(reqs[r].sid)].known
  <2>1. reqs[r].sid \in Sids /\ sessions[reqs[r].sid] \in Session
    BY <1>1, <1>2 DEF Sound
  <2>2. sessions[reqs[r].sid].user \in Users
    BY <2>1 DEF Session
  <2>3. sessions[reqs[r].sid] # None
    BY <2>1, Constants
  <2> QED BY <2>1, <2>2, <2>3 DEF Types, Owner
<1> QED BY <1>1, <1>2 DEF Sound

\* Only a login is at one of its own steps.
LEMMA LoginTypes ==
  ASSUME Types, NEW r \in Reqs, reqs[r] # None,
         reqs[r].step \in {"create", "link", "session", "write"}
  PROVE  reqs[r].kind = "login"
BY RequestTypes DEF Sound

LEMMA FindUserTypes ==
  ASSUME Types, NEW r \in Reqs, FindUser(r)
  PROVE  Types'
<1>1. reqs[r] # None /\ reqs[r].kind = "login" /\ reqs[r].step = "start"
  BY DEF FindUser, At
<1>2. CASE users[reqs[r].arg].known
  BY <1>1, <1>2, RequestTypes, StepSound, GoTypes DEF FindUser, LoginSteps
<1>3. CASE ~ users[reqs[r].arg].known
  BY <1>1, <1>3, RequestTypes, StepSound, GoTypes DEF FindUser, LoginSteps
<1> QED BY <1>2, <1>3

\* A user that is written stays well formed, and no sign-up is undone.
LEMMA UserWrite ==
  ASSUME Types, NEW u \in Users, NEW w, UserOK(w), users[u].known => w.known,
         users' = [users EXCEPT ![u] = w], sessions' = sessions
  PROVE  /\ Grow(users, sessions, users', sessions')
         /\ \A v \in Users : UserOK(users'[v])
         /\ \A s \in Sids : sessions'[s] # None => users'[sessions'[s].user].known
<1>1. users \in [Users -> User] /\ sessions \in [Sids -> Session \cup {None}]
  BY DEF Types
<1>2. Grow(users, sessions, users', sessions')
  BY <1>1 DEF Grow, UserOK
<1>3. \A v \in Users : UserOK(users'[v])
  BY <1>1 DEF Types
<1>4. ASSUME NEW s \in Sids, sessions[s] # None
      PROVE  sessions[s].user \in Users /\ users[sessions[s].user].known
  BY <1>1, <1>4 DEF Session, Types
<1>5. \A s \in Sids : sessions'[s] # None => users'[sessions'[s].user].known
  BY <1>2, <1>4 DEF Grow
<1> QED BY <1>2, <1>3, <1>5

LEMMA CreateUserTypes ==
  ASSUME Types, NEW r \in Reqs, CreateUser(r)
  PROVE  Types'
<1> DEFINE u == reqs[r].arg
           w == [users[u] EXCEPT !.known = TRUE, !.name = Prefix[u]]
<1>1. reqs[r] # None /\ reqs[r].step = "create"
  BY DEF CreateUser, At
<1>2. reqs[r].kind = "login" /\ u \in Users /\ Sound(reqs[r], users, sessions)
  BY <1>1, LoginTypes, RequestTypes
<1>3. CASE users[u].known \/ ~ Unique(u, Prefix[u])
  BY <1>3, DoneTypes DEF CreateUser
<1>4. CASE ~ (users[u].known \/ ~ Unique(u, Prefix[u]))
  <2>1. /\ users' = [users EXCEPT ![u] = w] /\ Go(r, "link")
        /\ UNCHANGED <<sessions, jar, overtaken>>
    BY <1>4 DEF CreateUser
  <2>2. users \in [Users -> User] /\ reqs \in [Reqs -> Request \cup {None}] /\ overtaken \in BOOLEAN
    BY DEF Types
  <2>3. w \in User /\ w.known /\ w.name = Prefix[u] /\ w.usernameSet = users[u].usernameSet
    <3>1. users[u] \in User /\ Prefix[u] \in Names
      BY <1>2, <2>2, Constants
    <3> HIDE DEF u
    <3>2. w \in User
      BY <3>1 DEF User
    <3>3. QED
      BY <3>1, <3>2 DEF User
  <2>4. users[u].name = None /\ ~ users[u].usernameSet
    BY <1>2, <1>4, Constants DEF Types, UserOK
  <2>5. UserOK(w)
    BY <1>2, <2>3, <2>4, Constants DEF UserOK
  <2> HIDE DEF w
  <2>6. /\ Grow(users, sessions, users', sessions')
        /\ \A v \in Users : UserOK(users'[v])
        /\ \A s \in Sids : sessions'[s] # None => users'[sessions'[s].user].known
    BY <1>2, <2>1, <2>3, <2>5, UserWrite
  <2>7. Sound(reqs[r], users', sessions')
    BY <1>2, <2>6, SoundGrows
  <2>8. users'[u].known
    BY <1>2, <2>1, <2>2, <2>3
  <2>9. reqs'[r] = [reqs[r] EXCEPT !.step = "link"] /\ \A k \in Reqs \ {r} : reqs'[k] = reqs[k]
    BY <2>1, <2>2 DEF Go
  <2>10. Sound(reqs'[r], users', sessions')
    <3>1. Sound([reqs[r] EXCEPT !.step = "link"], users', sessions')
      BY <1>2, <2>7, <2>8, StepSound DEF LoginSteps
    <3> QED BY <3>1, <2>9
  <2>11. reqs' = [k \in Reqs |-> reqs'[k]]
    BY <2>1, <2>2 DEF Go
  <2> QED BY <2>1, <2>2, <2>6, <2>9, <2>10, <2>11, TypesStep
<1> QED BY <1>3, <1>4

LEMMA LinkAccountTypes ==
  ASSUME Types, NEW r \in Reqs, LinkAccount(r)
  PROVE  Types'
<1> DEFINE u == reqs[r].arg
           w == [users[u] EXCEPT !.linked = TRUE]
<1>1. reqs[r] # None /\ reqs[r].step = "link"
  BY DEF LinkAccount, At
<1>2. /\ reqs[r].kind = "login" /\ u \in Users /\ Sound(reqs[r], users, sessions)
      /\ users[u].known
  BY <1>1, LoginTypes, RequestTypes DEF Sound
<1>3. users' = [users EXCEPT ![u] = w] /\ Go(r, "session") /\ UNCHANGED <<sessions, jar, overtaken>>
  BY DEF LinkAccount
<1>4. users \in [Users -> User] /\ reqs \in [Reqs -> Request \cup {None}] /\ overtaken \in BOOLEAN
  BY DEF Types
<1>5. /\ w \in User /\ w.known /\ w.name = users[u].name
      /\ w.usernameSet = users[u].usernameSet
  BY <1>2, <1>4 DEF User
<1>6. UserOK(w)
  BY <1>2, <1>5 DEF UserOK, Types
<1> HIDE DEF w
<1>7. /\ Grow(users, sessions, users', sessions')
      /\ \A v \in Users : UserOK(users'[v])
      /\ \A s \in Sids : sessions'[s] # None => users'[sessions'[s].user].known
  BY <1>2, <1>3, <1>5, <1>6, UserWrite
<1>8. Sound(reqs[r], users', sessions')
  BY <1>2, <1>7, SoundGrows
<1>9. users'[u].known
  BY <1>2, <1>3, <1>4, <1>5
<1>10. reqs'[r] = [reqs[r] EXCEPT !.step = "session"] /\ \A k \in Reqs \ {r} : reqs'[k] = reqs[k]
  BY <1>3, <1>4 DEF Go
<1>11. Sound(reqs'[r], users', sessions')
  <2>1. Sound([reqs[r] EXCEPT !.step = "session"], users', sessions')
    BY <1>2, <1>8, <1>9, StepSound DEF LoginSteps
  <2> QED BY <2>1, <1>10
<1>12. reqs' = [k \in Reqs |-> reqs'[k]]
  BY <1>3, <1>4 DEF Go
<1> QED BY <1>3, <1>4, <1>7, <1>10, <1>11, <1>12, TypesStep

\* A session that is written stays one, of the same user or of one who is known.
LEMMA SessionsWrite ==
  ASSUME Types, UNCHANGED users, sessions' \in [Sids -> Session \cup {None}],
         \A s \in Sids : sessions[s] # None => sessions'[s] # None,
         \A s \in Sids : sessions'[s] # None =>
           \/ users[sessions'[s].user].known
           \/ sessions[s] # None /\ sessions'[s].user = sessions[s].user
  PROVE  /\ Grow(users, sessions, users', sessions')
         /\ \A u \in Users : UserOK(users'[u])
         /\ \A s \in Sids : sessions'[s] # None => users'[sessions'[s].user].known
<1>1. \A s \in Sids : sessions[s] \in Session => sessions'[s] \in Session
  BY Constants
<1> QED BY <1>1 DEF Types, Grow

LEMMA FindSessionTypes ==
  ASSUME Types, NEW r \in Reqs, FindSession(r)
  PROVE  Types'
<1> DEFINE q == reqs[r]
<1>1. q # None /\ q.step = "session"
  BY DEF FindSession, At
<1>2. q.kind = "login" /\ q.arg \in Users /\ Sound(q, users, sessions) /\ q \in Request
  BY <1>1, LoginTypes, RequestTypes
<1>3. PICK s \in Reusable(q.arg, q.from) \cup {None} :
        reqs' = [reqs EXCEPT ![r].step = "write", ![r].sid = s]
  BY DEF FindSession
<1> DEFINE c == [q EXCEPT !.step = "write", !.sid = s]
<1>4. reqs' = [reqs EXCEPT ![r] = c]
  BY <1>3
<1>5. s # None => s \in Sids /\ sessions[s] # None
  BY <1>3 DEF Reusable, Live
<1>6. /\ c \in Request /\ c.kind = q.kind /\ c.sid = s /\ c.arg = q.arg /\ c.step = "write"
  BY <1>2, <1>5 DEF Request
<1>7. s # None => sessions[s] \in Session
  BY <1>5 DEF Types
<1> HIDE DEF c
<1>8. Sound(c, users, sessions)
  BY <1>1, <1>2, <1>6, <1>7 DEF Sound, LoginSteps
<1> QED BY <1>4, <1>8, RequestStep DEF FindSession

LEMMA WriteSessionTypes ==
  ASSUME Types, NEW r \in Reqs, WriteSession(r)
  PROVE  Types'
<1> DEFINE q == reqs[r]
<1>1. q # None /\ q.step = "write"
  BY DEF WriteSession, At
<1>2. /\ q.kind = "login" /\ q.arg \in Users /\ Sound(q, users, sessions) /\ q \in Request
      /\ users[q.arg].known /\ q.from \in Browsers
      /\ q.sid # None => q.sid \in Sids /\ sessions[q.sid] \in Session
  BY <1>1, LoginTypes, RequestTypes DEF Sound, Request
<1> DEFINE new(s) == IF q.sid # None THEN [sessions[s] EXCEPT !.expired = FALSE]
                     ELSE [user |-> q.arg, client |-> q.from, isValid |-> TRUE, expired |-> FALSE]
<1>3. PICK s \in IF q.sid # None THEN {q.sid} ELSE Unused :
        /\ sessions' = [sessions EXCEPT ![s] = new(s)]
        /\ reqs' = [reqs EXCEPT ![r].sid = s, ![r].step = "answer", ![r].sets = "set"]
  BY DEF WriteSession
<1>4. s \in Sids /\ (q.sid # None => s = q.sid)
  BY <1>2, <1>3 DEF Unused
<1>5. /\ new(s) \in Session
      /\ q.sid # None => new(s).user = sessions[s].user
      /\ q.sid = None => new(s).user = q.arg
  BY <1>2, <1>4 DEF Session
<1> HIDE DEF new
<1>6. /\ sessions \in [Sids -> Session \cup {None}] /\ reqs \in [Reqs -> Request \cup {None}]
      /\ overtaken \in BOOLEAN
  BY DEF Types
<1>7. UNCHANGED <<users, jar, overtaken>>
  BY DEF WriteSession
<1>8. /\ Grow(users, sessions, users', sessions')
      /\ \A u \in Users : UserOK(users'[u])
      /\ \A t \in Sids : sessions'[t] # None => users'[sessions'[t].user].known
  <2>1. sessions' \in [Sids -> Session \cup {None}]
    BY <1>3, <1>5, <1>6
  <2>2. \A t \in Sids : t # s => sessions'[t] = sessions[t]
    BY <1>3, <1>6
  <2>3. sessions'[s] = new(s) /\ sessions'[s] # None
    BY <1>3, <1>4, <1>5, <1>6, Constants
  <2>4. q.sid # None => sessions[s] # None
    BY <1>2, <1>4, Constants
  <2> QED BY <1>2, <1>5, <1>7, <2>1, <2>2, <2>3, <2>4, SessionsWrite
<1> DEFINE c == [q EXCEPT !.sid = s, !.step = "answer", !.sets = "set"]
<1>9. /\ reqs' = [k \in Reqs |-> reqs'[k]] /\ reqs'[r] = c
      /\ \A k \in Reqs \ {r} : reqs'[k] = reqs[k]
  BY <1>3, <1>6
<1>10. c \in Request /\ c.kind = q.kind /\ c.sid = s /\ c.arg = q.arg /\ c.step = "answer"
  BY <1>2, <1>4 DEF Request
<1> HIDE DEF c
<1>11. sessions'[s] \in Session /\ s # None
  BY <1>3, <1>4, <1>5, <1>6, Constants
<1>12. Sound(c, users', sessions')
  BY <1>2, <1>7, <1>10, <1>11 DEF Sound, LoginSteps
<1> QED BY <1>6, <1>7, <1>8, <1>9, <1>12, TypesStep

LEMMA AuthenticateTypes ==
  ASSUME Types, NEW r \in Reqs, Authenticate(r)
  PROVE  Types'
<1>1. reqs[r] # None /\ reqs[r].kind # "login"
  BY DEF Authenticate, At
<1>2. Sound(reqs[r], users, sessions)
  BY <1>1, RequestTypes
<1>3. UNCHANGED <<users, sessions, jar, overtaken>>
  BY DEF Authenticate
<1>4. CASE Done(r)
  BY <1>3, <1>4, DoneTypes
<1>5. CASE Go(r, "expire")
  BY <1>1, <1>2, <1>3, <1>5, StepSound, GoTypes
<1>6. CASE Go(r, "refresh")
  BY <1>1, <1>2, <1>3, <1>6, StepSound, GoTypes
<1>7. Done(r) \/ Go(r, "expire") \/ Go(r, "refresh")
  BY DEF Authenticate
<1> QED BY <1>4, <1>5, <1>6, <1>7

LEMMA RefreshTypes ==
  ASSUME Types, NEW r \in Reqs, Refresh(r)
  PROVE  Types'
<1> DEFINE step == IF reqs[r].kind = "me" THEN "answer" ELSE "handle"
           s == reqs[r].sid
<1>1. reqs[r] # None /\ reqs[r].step = "refresh"
  BY DEF Refresh, At
<1>2. Sound(reqs[r], users, sessions) /\ reqs[r].kind # "login"
  BY <1>1, RequestTypes DEF Sound, LoginSteps
<1>3. s \in Sids /\ sessions[s] \in Session
  BY <1>1, <1>2, RequestTypes
<1>4. /\ sessions' = [sessions EXCEPT ![s] = [sessions[s] EXCEPT !.expired = FALSE]]
      /\ Go(r, step) /\ UNCHANGED <<users, jar, overtaken>>
  BY DEF Refresh
<1>5. /\ sessions \in [Sids -> Session \cup {None}] /\ reqs \in [Reqs -> Request \cup {None}]
      /\ overtaken \in BOOLEAN
  BY DEF Types
<1>6. /\ Grow(users, sessions, users', sessions')
      /\ \A u \in Users : UserOK(users'[u])
      /\ \A t \in Sids : sessions'[t] # None => users'[sessions'[t].user].known
  <2>1. /\ [sessions[s] EXCEPT !.expired = FALSE] \in Session
        /\ [sessions[s] EXCEPT !.expired = FALSE].user = sessions[s].user
    BY <1>3 DEF Session
  <2>2. sessions' \in [Sids -> Session \cup {None}] /\ sessions'[s] # None
    BY <1>3, <1>4, <1>5, <2>1, Constants
  <2>3. sessions[s] # None /\ sessions'[s].user = sessions[s].user
    BY <1>3, <1>4, <1>5, <2>1, Constants
  <2>4. \A t \in Sids : t # s => sessions'[t] = sessions[t]
    BY <1>4, <1>5
  <2> QED BY <1>4, <2>2, <2>3, <2>4, SessionsWrite
<1>7. Sound(reqs[r], users', sessions')
  BY <1>2, <1>6, SoundGrows
<1>8. step \in {"answer", "handle"}
  OBVIOUS
<1> HIDE DEF step
<1>9. Sound([reqs[r] EXCEPT !.step = step], users', sessions')
  BY <1>2, <1>7, <1>8, StepSound
<1>10. /\ reqs' = [k \in Reqs |-> reqs'[k]] /\ reqs'[r] = [reqs[r] EXCEPT !.step = step]
       /\ \A k \in Reqs \ {r} : reqs'[k] = reqs[k]
  BY <1>4, <1>5 DEF Go
<1> QED BY <1>4, <1>5, <1>6, <1>9, <1>10, TypesStep

\* The sessions in ended are signed out: r goes on with next, the others with what
\* they had, but for the history.
LEMMA InvalidateTypes ==
  ASSUME Types, NEW r \in Reqs, NEW ended \in SUBSET Sids, NEW next,
         \A s \in ended : sessions[s] # None,
         Invalidate(r, ended, next), UNCHANGED <<users, jar, overtaken>>,
         next # None => Sound(next, users, sessions)
  PROVE  Types'
<1>1. /\ sessions \in [Sids -> Session \cup {None}] /\ reqs \in [Reqs -> Request \cup {None}]
      /\ overtaken \in BOOLEAN
  BY DEF Types
<1>2. ASSUME NEW s \in ended
      PROVE  /\ [sessions[s] EXCEPT !.isValid = FALSE] \in Session
             /\ [sessions[s] EXCEPT !.isValid = FALSE].user = sessions[s].user
  BY <1>1 DEF Session
<1>3. /\ Grow(users, sessions, users', sessions')
      /\ \A u \in Users : UserOK(users'[u])
      /\ \A t \in Sids : sessions'[t] # None => users'[sessions'[t].user].known
  <2>1. \A s \in ended : sessions'[s] \in Session /\ sessions'[s].user = sessions[s].user
    BY <1>2 DEF Invalidate
  <2>2. \A s \in Sids \ ended : sessions'[s] = sessions[s]
    BY DEF Invalidate
  <2>3. sessions' \in [Sids -> Session \cup {None}]
    BY <1>1, <2>1, <2>2 DEF Invalidate
  <2> QED BY <2>1, <2>2, <2>3, Constants, SessionsWrite
<1> DEFINE rs == [reqs EXCEPT ![r] = next]
<1>4. reqs' = [k \in Reqs |-> IF rs[k] # None /\ rs[k].kind = "login" /\ rs[k].sid \in ended
                              THEN [rs[k] EXCEPT !.crossed = TRUE] ELSE rs[k]]
  BY DEF Invalidate, Cross
<1>5. rs[r] = next /\ \A k \in Reqs \ {r} : rs[k] = reqs[k]
  BY <1>1
<1> HIDE DEF rs
<1>6. reqs' = [k \in Reqs |-> reqs'[k]]
  BY <1>4
<1>7. \A k \in Reqs \ {r} :
        reqs'[k] = reqs[k] \/ (reqs[k] # None /\ reqs'[k] = [reqs[k] EXCEPT !.crossed = TRUE])
  BY <1>4, <1>5
<1>8. next # None => Sound(next, users', sessions')
  BY <1>3, SoundGrows
<1>9. \/ reqs'[r] = next
      \/ next # None /\ reqs'[r] = [next EXCEPT !.crossed = TRUE]
  BY <1>4, <1>5
<1>10. reqs'[r] # None => Sound(reqs'[r], users', sessions')
  BY <1>8, <1>9, CrossedSound
<1> QED BY <1>1, <1>3, <1>6, <1>7, <1>10, TypesStep

\* An answer may do something to the cookies.
LEMMA AnsweredSound ==
  ASSUME NEW us, NEW ss, NEW q, Sound(q, us, ss), q.kind # "login",
         NEW sets \in {"keep", "set", "clear"}
  PROVE  Sound([q EXCEPT !.step = "answer", !.sets = sets], us, ss)
<1> DEFINE c == [q EXCEPT !.step = "answer", !.sets = sets]
<1>1. c \in Request /\ c.kind = q.kind /\ c.sid = q.sid /\ c.arg = q.arg /\ c.step = "answer"
  BY DEF Sound, Request
<1> HIDE DEF c
<1>2. Sound(c, us, ss)
  BY <1>1 DEF Sound
<1> QED BY <1>2 DEF c

LEMMA EndingTypes ==
  ASSUME Types, NEW r \in Reqs,
         ExpireSession(r) \/ Logout(r) \/ Revoke(r) \/ RevokeOthers(r)
  PROVE  Types'
<1>1. reqs[r] # None /\ reqs[r].step \in {"expire", "handle", "commit"}
  BY DEF ExpireSession, Logout, Revoke, RevokeOthers, At
<1>2. Sound(reqs[r], users, sessions) /\ reqs[r].kind # "login"
  BY <1>1, RequestTypes DEF Sound, LoginSteps
<1>3. reqs[r].sid \in Sids /\ sessions[reqs[r].sid] # None
  BY <1>1, <1>2, RequestTypes, Constants
<1>4. Sound([reqs[r] EXCEPT !.step = "answer"], users, sessions)
  BY <1>2, StepSound
<1>5. CASE ExpireSession(r)
  BY <1>3, <1>5, InvalidateTypes DEF ExpireSession
<1>6. CASE Logout(r)
  <2>1. Sound([reqs[r] EXCEPT !.step = "answer", !.sets = "clear"], users, sessions)
    BY <1>2, AnsweredSound
  <2>2. /\ Invalidate(r, {reqs[r].sid}, [reqs[r] EXCEPT !.step = "answer", !.sets = "clear"])
        /\ UNCHANGED <<users, jar, overtaken>>
    BY <1>6 DEF Logout
  <2> QED BY <1>3, <2>1, <2>2, InvalidateTypes
<1>7. CASE Revoke(r)
  <2>1. reqs[r].kind = "revoke"
    BY <1>7 DEF Revoke
  <2>2. reqs[r].arg \in Sids /\ sessions[reqs[r].arg] # None
    BY <1>2, <2>1, Constants DEF Sound
  <2> QED BY <1>4, <1>7, <2>2, InvalidateTypes DEF Revoke
<1>8. CASE RevokeOthers(r)
  <2> DEFINE ended == {s \in Sids : /\ sessions[s] # None /\ sessions[s].isValid
                                    /\ Owner(s) = Owner(reqs[r].sid) /\ s # reqs[r].sid}
  <2>1. /\ ended \in SUBSET Sids /\ \A s \in ended : sessions[s] # None
        /\ Invalidate(r, ended, [reqs[r] EXCEPT !.step = "answer"])
        /\ UNCHANGED <<users, jar, overtaken>>
    BY <1>8 DEF RevokeOthers
  <2> HIDE DEF ended
  <2> QED BY <1>4, <2>1, InvalidateTypes
<1> QED BY <1>5, <1>6, <1>7, <1>8

LEMMA CheckTypes ==
  ASSUME Types, NEW r \in Reqs, CheckName(r) \/ CheckSession(r)
  PROVE  Types'
<1>1. reqs[r] # None /\ reqs[r].kind # "login"
  BY DEF CheckName, CheckSession, At
<1>2. Sound(reqs[r], users, sessions)
  BY <1>1, RequestTypes
<1>3. UNCHANGED <<users, sessions, jar, overtaken>> /\ (Go(r, "answer") \/ Go(r, "commit"))
  BY DEF CheckName, CheckSession
<1>4. CASE Go(r, "answer")
  BY <1>1, <1>2, <1>3, <1>4, StepSound, GoTypes
<1>5. CASE Go(r, "commit")
  BY <1>1, <1>2, <1>3, <1>5, StepSound, GoTypes
<1> QED BY <1>3, <1>4, <1>5

LEMMA RenameTypes ==
  ASSUME Types, NEW r \in Reqs, Rename(r)
  PROVE  Types'
<1> DEFINE u == Owner(reqs[r].sid)
           w == [users[u] EXCEPT !.name = reqs[r].arg, !.usernameSet = TRUE]
<1>1. reqs[r] # None /\ reqs[r].kind = "username"
  BY DEF Rename, At
<1>2. /\ Sound(reqs[r], users, sessions) /\ u \in Users /\ users[u].known
      /\ reqs[r].arg \in Admitted /\ reqs[r] \in Request
  BY <1>1, RequestTypes DEF Sound
<1>3. UNCHANGED <<sessions, jar>>
  BY DEF Rename
<1>4. CASE ~ Unique(u, reqs[r].arg)
  BY <1>1, <1>2, <1>3, <1>4, StepSound, GoTypes DEF Rename
<1>5. CASE Unique(u, reqs[r].arg)
  <2>1. /\ users' = [users EXCEPT ![u] = w]
        /\ reqs' = [k \in Reqs |->
             CASE k = r -> [reqs[r] EXCEPT !.step = "answer"]
               [] k # r /\ At(k, "commit") /\ reqs[k].kind = "username" ->
                    [reqs[k] EXCEPT !.crossed = TRUE]
               [] OTHER -> reqs[k]]
        /\ overtaken' = (overtaken \/ reqs[r].crossed)
    BY <1>5 DEF Rename
  <2>2. users \in [Users -> User] /\ overtaken \in BOOLEAN
    BY DEF Types
  <2>3. w \in User /\ w.known /\ w.name = reqs[r].arg
    BY <1>2, <2>2, Constants DEF User
  <2>4. w.name # None
    BY <1>2, <2>3, Constants
  <2>5. UserOK(w)
    BY <1>2, <2>3, <2>4, Constants DEF UserOK
  <2> HIDE DEF w
  <2>6. /\ Grow(users, sessions, users', sessions')
        /\ \A v \in Users : UserOK(users'[v])
        /\ \A s \in Sids : sessions'[s] # None => users'[sessions'[s].user].known
    BY <1>2, <1>3, <2>1, <2>3, <2>5, UserWrite
  <2>7. Sound([reqs[r] EXCEPT !.step = "answer"], users', sessions')
    <3>1. Sound(reqs[r], users', sessions')
      BY <1>2, <2>6, SoundGrows
    <3> QED BY <1>1, <3>1, StepSound
  <2>8. /\ reqs' = [k \in Reqs |-> reqs'[k]] /\ reqs'[r] = [reqs[r] EXCEPT !.step = "answer"]
        /\ \A k \in Reqs \ {r} :
             reqs'[k] = reqs[k] \/ (reqs[k] # None /\ reqs'[k] = [reqs[k] EXCEPT !.crossed = TRUE])
    BY <2>1 DEF At
  <2>9. overtaken' \in BOOLEAN
    BY <1>2, <2>1, <2>2 DEF Request
  <2> QED BY <1>3, <2>6, <2>7, <2>8, <2>9, TypesStep
<1> QED BY <1>4, <1>5

LEMMA AnswerTypes ==
  ASSUME Types, NEW r \in Reqs, Answer(r) \/ Unheard(r)
  PROVE  Types'
<1>1. CASE Unheard(r)
  BY <1>1, DoneTypes DEF Unheard
<1>2. CASE Answer(r)
  <2> DEFINE q == reqs[r]
             j == CASE q.sets = "set" -> Cookies(q.sid) [] q.sets = "clear" -> NoCookies
                    [] OTHER -> jar[q.from]
  <2>1. q # None /\ q.step = "answer"
    BY <1>2 DEF Answer, At
  <2>2. Sound(q, users, sessions) /\ q \in Request
    BY <2>1, RequestTypes
  <2>3. /\ q.sid \in Sids /\ sessions[q.sid] \in Session /\ q.from \in Browsers
        /\ q.sets \in {"keep", "set", "clear"}
    BY <2>1, <2>2, Constants DEF Sound, Request
  <2>4. /\ jar' = [jar EXCEPT ![q.from] = j] /\ reqs' = [reqs EXCEPT ![r] = None]
        /\ UNCHANGED <<users, sessions, overtaken>>
    BY <1>2 DEF Answer, Done
  <2>5. CookiesOK(Cookies(q.sid), sessions) /\ CookiesOK(NoCookies, sessions)
    BY <2>3, Constants DEF CookiesOK, Cookies, NoCookies, Jar
  <2>6. CookiesOK(j, sessions)
    BY <2>3, <2>5 DEF Types
  <2> HIDE DEF j
  <2>7. jar' \in [Browsers -> Jar] /\ \A b \in Browsers : CookiesOK(jar'[b], sessions')
    BY <2>4, <2>6 DEF Types, CookiesOK
  <2>8. /\ reqs' \in [Reqs -> Request \cup {None}]
        /\ \A k \in Reqs : reqs'[k] # None => Sound(reqs'[k], users', sessions')
    BY <2>4 DEF Types
  <2> QED BY <2>4, <2>7, <2>8 DEF Types
<1> QED BY <1>1, <1>2

LEMMA TimeTypes ==
  ASSUME Types, (\E b \in Browsers : Age(b)) \/ (\E s \in Sids : SessionEnds(s))
  PROVE  Types'
<1>1. ASSUME NEW b \in Browsers, Age(b)
      PROVE  Types'
  <2>1. /\ jar[b] \in Jar /\ CookiesOK(jar[b], sessions) /\ jar \in [Browsers -> Jar]
        /\ UNCHANGED <<users, sessions, reqs, overtaken>>
    BY <1>1 DEF Types, Age
  <2>2. CASE jar' = [jar EXCEPT ![b].old = TRUE]
    <3>1. CookiesOK([jar[b] EXCEPT !.old = TRUE], sessions)
      BY <2>1 DEF CookiesOK, Jar
    <3>2. jar' \in [Browsers -> Jar] /\ \A c \in Browsers : CookiesOK(jar'[c], sessions')
      BY <2>1, <2>2, <3>1 DEF Types, CookiesOK
    <3> QED BY <2>1, <3>2 DEF Types
  <2>3. CASE jar[b].old /\ jar' = [jar EXCEPT ![b].stale = TRUE]
    <3>1. CookiesOK([jar[b] EXCEPT !.stale = TRUE], sessions)
      BY <2>1, <2>3 DEF CookiesOK, Jar
    <3>2. jar' \in [Browsers -> Jar] /\ \A c \in Browsers : CookiesOK(jar'[c], sessions')
      BY <2>1, <2>3, <3>1 DEF Types, CookiesOK
    <3> QED BY <2>1, <3>2 DEF Types
  <2> QED BY <1>1, <2>2, <2>3 DEF Age
<1>2. ASSUME NEW s \in Sids, SessionEnds(s)
      PROVE  Types'
  <2>1. /\ Quiet /\ sessions[s] # None
        /\ sessions' = [sessions EXCEPT ![s] = [sessions[s] EXCEPT !.expired = TRUE]]
        /\ UNCHANGED <<users, reqs, overtaken>>
    BY <1>2 DEF SessionEnds
  <2>2. sessions \in [Sids -> Session \cup {None}] /\ jar \in [Browsers -> Jar]
    BY DEF Types
  <2>3. /\ [sessions[s] EXCEPT !.expired = TRUE] \in Session
        /\ [sessions[s] EXCEPT !.expired = TRUE].user = sessions[s].user
    BY <2>1, <2>2 DEF Session
  <2>4. sessions' \in [Sids -> Session \cup {None}] /\ sessions'[s].user = sessions[s].user
    BY <2>1, <2>2, <2>3
  <2>5. \A t \in Sids : t # s => sessions'[t] = sessions[t]
    BY <2>1, <2>2
  <2>6. sessions'[s] # None
    BY <2>1, <2>2, <2>3, Constants
  <2>7. /\ Grow(users, sessions, users', sessions')
        /\ \A t \in Sids : sessions'[t] # None => users'[sessions'[t].user].known
    BY <2>1, <2>4, <2>5, <2>6, SessionsWrite
  <2>8. \A b \in Browsers : CookiesOK(jar[b], sessions')
    BY <2>7, CookiesGrow DEF Types
  <2>9. CookiesOK(NoCookies, sessions')
    BY Constants DEF CookiesOK, NoCookies, Jar
  <2>10. \A b \in Browsers : jar'[b] = jar[b] \/ jar'[b] = NoCookies
    BY <1>2 DEF SessionEnds
  <2>11. jar' = [b \in Browsers |-> jar'[b]]
    BY <1>2, <2>2 DEF SessionEnds
  <2>12. \A b \in Browsers : CookiesOK(jar'[b], sessions')
    BY <2>8, <2>9, <2>10
  <2>13. jar' \in [Browsers -> Jar]
    BY <2>11, <2>12 DEF CookiesOK
  <2>14. \A r \in Reqs : reqs'[r] = None
    BY <2>1 DEF Quiet
  <2> QED BY <2>1, <2>4, <2>7, <2>12, <2>13, <2>14 DEF Types
<1> QED BY <1>1, <1>2

LEMMA InitTypes == AccountsInit => Types
<1> SUFFICES ASSUME AccountsInit PROVE Types
  OBVIOUS
<1>1. \A u \in Users : UserOK(users[u])
  BY Constants DEF AccountsInit, User, UserOK
<1>2. users \in [Users -> User]
  BY <1>1 DEF AccountsInit, UserOK
<1>3. \A b \in Browsers : CookiesOK(jar[b], sessions)
  BY Constants DEF AccountsInit, CookiesOK, NoCookies, Jar
<1>4. jar \in [Browsers -> Jar]
  BY <1>3 DEF AccountsInit, CookiesOK
<1> QED BY <1>1, <1>2, <1>3, <1>4 DEF AccountsInit, Types

LEMMA NextTypes ==
  ASSUME Types, [AccountsNext]_accountsVars
  PROVE  Types'
<1>1. CASE UNCHANGED accountsVars
  BY <1>1 DEF accountsVars, Types, UserOK, Sound, CookiesOK
<1>2. ASSUME NEW r \in Reqs, NEW b \in Browsers,
             \/ \E u \in Users : SignIn(r, b, u)
             \/ AskMe(r, b) \/ FirstName(r, b) \/ NewName(r, b)
             \/ SignOut(r, b) \/ EndSession(r, b) \/ EndOthers(r, b)
      PROVE  Types'
  BY <1>2, SignInTypes, BrowserTypes
<1>3. ASSUME NEW r \in Reqs, Login(r)
      PROVE  Types'
  BY <1>3, FindUserTypes, CreateUserTypes, LinkAccountTypes, FindSessionTypes, WriteSessionTypes
     DEF Login
<1>4. ASSUME NEW r \in Reqs, Guarded(r)
      PROVE  Types'
  BY <1>4, AuthenticateTypes, EndingTypes, RefreshTypes DEF Guarded
<1>5. ASSUME NEW r \in Reqs, Handled(r)
      PROVE  Types'
  BY <1>5, CheckTypes, RenameTypes, EndingTypes DEF Handled
<1>6. ASSUME NEW r \in Reqs, Answer(r) \/ Unheard(r)
      PROVE  Types'
  BY <1>6, AnswerTypes
<1> QED BY <1>1, <1>2, <1>3, <1>4, <1>5, <1>6, TimeTypes DEF AccountsNext

\* What the tables, the cookies and the requests may hold: a request's session and
\* what it is about exist whatever other requests do meanwhile.
THEOREM AccountsTyped == AccountsSpec => []AccountsTypeOK
<1>1. Types => AccountsTypeOK
  BY DEF Types, AccountsTypeOK, UserOK
<1>2. Types /\ [AccountsNext]_accountsVars => Types'
  BY NextTypes
<1> QED BY <1>1, <1>2, InitTypes, PTL DEF AccountsSpec

-----------------------------------------------------------------------------
(* What a request relies on while others write *)

\* About to write a name that nobody else has, unless it was crossed
Committing(q) == q.step = "commit" /\ q.kind = "username"
NameFree(q, us, ss) ==
  Committing(q) /\ ~ q.crossed =>
    \A v \in Users \ {ss[q.sid].user} : us[v].usernameSet => ~ Same(us[v].name, q.arg)

\* About to give out a session that lives, unless it was crossed
Giving(q) == q.kind = "login" /\ q.step \in {"write", "answer"} /\ q.sid # None
GivesLive(q, ss) == Giving(q) => LiveIn(ss, q.sid) \/ q.crossed

Rules ==
  /\ \A r \in Reqs : reqs[r] # None =>
       NameFree(reqs[r], users, sessions) /\ GivesLive(reqs[r], sessions)
  /\ NamesClashOnlyByOverlap

\* A step that writes request r, and leaves the chosen names, the owners of the
\* sessions under a change of name and the life of those about to be given out.
LEMMA RulesStep ==
  ASSUME Types, Rules, NEW r \in Reqs, overtaken' = overtaken,
         \A k \in Reqs \ {r} :
           reqs'[k] = reqs[k] \/ (reqs[k] # None /\ reqs'[k] = [reqs[k] EXCEPT !.crossed = TRUE]),
         \A v \in Users :
           users'[v].usernameSet => users[v].usernameSet /\ users'[v].name = users[v].name,
         \A k \in Reqs \ {r} : reqs[k] # None /\ Committing(reqs[k]) =>
           sessions'[reqs[k].sid].user = sessions[reqs[k].sid].user,
         \A k \in Reqs \ {r} : reqs[k] # None /\ Giving(reqs[k]) /\ Live(reqs[k].sid) =>
           LiveIn(sessions', reqs[k].sid) \/ reqs'[k].crossed,
         reqs'[r] # None => ~ Committing(reqs'[r]) /\ GivesLive(reqs'[r], sessions')
  PROVE  Rules'
<1>1. ASSUME NEW k \in Reqs, reqs'[k] # None
      PROVE  NameFree(reqs'[k], users', sessions') /\ GivesLive(reqs'[k], sessions')
  <2>1. CASE k = r
    BY <1>1, <2>1 DEF NameFree
  <2>2. CASE k # r
    <3>1. reqs[k] # None
      BY <1>1, <2>2
    <3>2. /\ NameFree(reqs[k], users, sessions) /\ GivesLive(reqs[k], sessions)
          /\ Sound(reqs[k], users, sessions)
      BY <3>1 DEF Rules, Types
    <3>3. CASE reqs'[k] = reqs[k]
      BY <2>2, <3>1, <3>2, <3>3 DEF NameFree, GivesLive, LiveIn, Live
    <3>4. CASE reqs'[k] = [reqs[k] EXCEPT !.crossed = TRUE]
      BY <3>2, <3>4, CrossedSound DEF NameFree, GivesLive
    <3> QED BY <2>2, <3>3, <3>4
  <2> QED BY <2>1, <2>2
<1>2. NamesClashOnlyByOverlap'
  BY DEF Rules, NamesClashOnlyByOverlap
<1> QED BY <1>1, <1>2 DEF Rules

\* Only the request is written.
LEMMA RequestRules ==
  ASSUME Types, Rules, NEW r \in Reqs, NEW q, UNCHANGED <<users, sessions, overtaken>>,
         reqs' = [reqs EXCEPT ![r] = q],
         q # None => ~ Committing(q) /\ GivesLive(q, sessions)
  PROVE  Rules'
<1>1. reqs'[r] = q /\ \A k \in Reqs \ {r} : reqs'[k] = reqs[k]
  BY DEF Types
<1> QED BY <1>1, RulesStep DEF Live, LiveIn

LEMMA GoRules ==
  ASSUME Types, Rules, NEW r \in Reqs, NEW step, reqs[r] # None, Go(r, step),
         UNCHANGED <<users, sessions, overtaken>>,
         step = "commit" => reqs[r].kind # "username",
         step \in {"write", "answer"} => reqs[r].kind # "login"
  PROVE  Rules'
<1> DEFINE q == [reqs[r] EXCEPT !.step = step]
<1>1. q.kind = reqs[r].kind /\ q.step = step
  BY RequestTypes DEF Request
<1>2. reqs' = [reqs EXCEPT ![r] = q]
  BY DEF Go
<1> HIDE DEF q
<1>3. ~ Committing(q) /\ GivesLive(q, sessions)
  BY <1>1 DEF Committing, GivesLive, Giving
<1> QED BY <1>2, <1>3, RequestRules

LEMMA DoneRules ==
  ASSUME Types, Rules, NEW r \in Reqs, Done(r), UNCHANGED <<users, sessions, overtaken>>
  PROVE  Rules'
BY RequestRules DEF Done

LEMMA AskRules ==
  ASSUME Types, Rules, NEW r \in Reqs, NEW kind, NEW b, NEW sid, NEW arg,
         Send(r, kind, b, sid, arg), UNCHANGED <<users, sessions, jar, overtaken>>
  PROVE  Rules'
<1> DEFINE sets == IF sid # None /\ Rotates(b) THEN "set" ELSE "keep"
           q == [kind |-> kind, from |-> b, sid |-> sid, arg |-> arg, step |-> "start",
                 sets |-> sets, crossed |-> FALSE]
<1>1. reqs' = [reqs EXCEPT ![r] = q] /\ q.step = "start"
  BY DEF Send
<1> HIDE DEF q
<1>2. ~ Committing(q) /\ GivesLive(q, sessions)
  BY <1>1 DEF Committing, GivesLive, Giving
<1> QED BY <1>1, <1>2, RequestRules

LEMMA BrowserRules ==
  ASSUME Types, Rules, NEW r \in Reqs, NEW b \in Browsers,
         \/ \E u \in Users : SignIn(r, b, u)
         \/ AskMe(r, b) \/ FirstName(r, b) \/ NewName(r, b)
         \/ SignOut(r, b) \/ EndSession(r, b) \/ EndOthers(r, b)
  PROVE  Rules'
<1>1. /\ \E kind, sid, arg : Send(r, kind, b, sid, arg)
      /\ UNCHANGED <<users, sessions, jar, overtaken>>
  BY DEF SignIn, AskMe, FirstName, NewName, SignOut, EndSession, EndOthers, Change
<1> QED BY <1>1, AskRules

LEMMA SignUpRules ==
  ASSUME Types, Rules, NEW r \in Reqs, FindUser(r) \/ CreateUser(r) \/ LinkAccount(r)
  PROVE  Rules'
<1>1. reqs[r] # None
  BY DEF FindUser, CreateUser, LinkAccount, At
<1>2. CASE FindUser(r)
  <2>1. /\ Go(r, "link") \/ Go(r, "create")
        /\ UNCHANGED <<users, sessions, overtaken>>
    BY <1>2 DEF FindUser
  <2>2. CASE Go(r, "link")
    BY <1>1, <2>1, <2>2, GoRules
  <2>3. CASE Go(r, "create")
    BY <1>1, <2>1, <2>3, GoRules
  <2> QED BY <2>1, <2>2, <2>3
<1> DEFINE refused == users[reqs[r].arg].known \/ ~ Unique(reqs[r].arg, Prefix[reqs[r].arg])
<1>3. CASE CreateUser(r) /\ refused
  BY <1>3, DoneRules DEF CreateUser
<1>4. ASSUME NEW step \in {"link", "session"}, Go(r, step), UNCHANGED <<sessions, overtaken>>,
             \A v \in Users :
               users'[v].usernameSet => users[v].usernameSet /\ users'[v].name = users[v].name
      PROVE  Rules'
  <2>1. /\ reqs'[r].step = step
        /\ \A k \in Reqs \ {r} : reqs'[k] = reqs[k]
    BY <1>1, <1>4, RequestTypes DEF Go, Types, Request
  <2>2. ~ Committing(reqs'[r]) /\ GivesLive(reqs'[r], sessions')
    BY <2>1 DEF Committing, GivesLive, Giving
  <2> QED BY <1>4, <2>1, <2>2, RulesStep DEF Live, LiveIn
<1>5. CASE CreateUser(r) /\ ~ refused
  <2> DEFINE u == reqs[r].arg
  <2>1. u \in Users
    BY <1>1, <1>5, LoginTypes, RequestTypes DEF CreateUser, At
  <2>2. /\ ~ users[u].known
        /\ users' = [users EXCEPT ![u] = [users[u] EXCEPT !.known = TRUE, !.name = Prefix[u]]]
        /\ Go(r, "link") /\ UNCHANGED <<sessions, overtaken>>
    BY <1>5 DEF CreateUser
  <2>3. ~ users[u].usernameSet
    BY <2>1, <2>2, Constants DEF Types, UserOK
  <2>4. users \in [Users -> User]
    BY DEF Types
  <2>5. /\ users'[u].usernameSet = users[u].usernameSet
        /\ \A v \in Users \ {u} : users'[v] = users[v]
    BY <2>1, <2>2, <2>4 DEF User
  <2> HIDE DEF u
  <2> QED BY <1>4, <2>2, <2>3, <2>5
<1>6. CASE LinkAccount(r)
  <2> DEFINE u == reqs[r].arg
  <2>1. u \in Users
    BY <1>1, <1>6, LoginTypes, RequestTypes DEF LinkAccount, At
  <2>2. /\ users' = [users EXCEPT ![u] = [users[u] EXCEPT !.linked = TRUE]]
        /\ Go(r, "session") /\ UNCHANGED <<sessions, overtaken>>
    BY <1>6 DEF LinkAccount
  <2>3. users \in [Users -> User]
    BY DEF Types
  <2>4. /\ users'[u].usernameSet = users[u].usernameSet /\ users'[u].name = users[u].name
        /\ \A v \in Users \ {u} : users'[v] = users[v]
    BY <2>1, <2>2, <2>3 DEF User
  <2> HIDE DEF u
  <2>5. \A v \in Users :
          users'[v].usernameSet => users[v].usernameSet /\ users'[v].name = users[v].name
    BY <2>4
  <2>6. Go(r, "session") /\ UNCHANGED <<sessions, overtaken>>
    BY <2>2
  <2> QED BY <1>4, <2>5, <2>6
<1> QED BY <1>2, <1>3, <1>5, <1>6

\* The session found lives, ...
LEMMA FindSessionRules ==
  ASSUME Types, Rules, NEW r \in Reqs, FindSession(r)
  PROVE  Rules'
<1> DEFINE q == reqs[r]
<1>1. q # None /\ q.kind = "login" /\ q \in Request
  BY LoginTypes, RequestTypes DEF FindSession, At
<1>2. PICK s \in Reusable(q.arg, q.from) \cup {None} :
        reqs' = [reqs EXCEPT ![r].step = "write", ![r].sid = s]
  BY DEF FindSession
<1> DEFINE c == [q EXCEPT !.step = "write", !.sid = s]
<1>3. reqs' = [reqs EXCEPT ![r] = c]
  BY <1>2
<1>4. c.kind = "login" /\ c.sid = s /\ c.step = "write"
  BY <1>1 DEF Request
<1> HIDE DEF c
<1>5. ~ Committing(c) /\ GivesLive(c, sessions)
  BY <1>2, <1>4 DEF Committing, GivesLive, Giving, LiveIn, Live, Reusable
<1> QED BY <1>3, <1>5, RequestRules DEF FindSession

\* ... and the one that is renewed or created lives; no other request has named it,
\* or its owner stays.
LEMMA WriteSessionRules ==
  ASSUME Types, Rules, NEW r \in Reqs, WriteSession(r)
  PROVE  Rules'
<1> DEFINE q == reqs[r]
<1>1. q # None /\ q.step = "write"
  BY DEF WriteSession, At
<1>2. /\ q.kind = "login" /\ q \in Request /\ GivesLive(q, sessions)
      /\ q.sid # None => q.sid \in Sids /\ sessions[q.sid] \in Session
  BY <1>1, LoginTypes, RequestTypes DEF Sound, Request, Rules
<1> DEFINE new(s) == IF q.sid # None THEN [sessions[s] EXCEPT !.expired = FALSE]
                     ELSE [user |-> q.arg, client |-> q.from, isValid |-> TRUE, expired |-> FALSE]
<1>3. PICK s \in IF q.sid # None THEN {q.sid} ELSE Unused :
        /\ sessions' = [sessions EXCEPT ![s] = new(s)]
        /\ reqs' = [reqs EXCEPT ![r].sid = s, ![r].step = "answer", ![r].sets = "set"]
  BY DEF WriteSession
<1>4. s \in Sids /\ (q.sid # None => s = q.sid) /\ (q.sid = None => s \in Unused)
  BY <1>2, <1>3 DEF Unused
<1>5. /\ new(s) \in Session /\ ~ new(s).expired
      /\ q.sid # None => new(s).user = sessions[s].user /\ new(s).isValid = sessions[s].isValid
      /\ q.sid = None => new(s).isValid
  <2>1. q.arg \in Users /\ q.from \in Browsers
    BY <1>1, <1>2, RequestTypes DEF Request
  <2> QED BY <1>2, <1>4, <2>1 DEF Session
<1> HIDE DEF new
<1>6. /\ sessions \in [Sids -> Session \cup {None}] /\ reqs \in [Reqs -> Request \cup {None}]
      /\ UNCHANGED <<users, jar, overtaken>>
  BY DEF Types, WriteSession
<1>7. /\ sessions'[s] = new(s) /\ sessions'[s] # None
      /\ \A t \in Sids \ {s} : sessions'[t] = sessions[t]
  BY <1>3, <1>4, <1>5, <1>6, Constants
<1>8. ASSUME NEW k \in Reqs, reqs[k] # None, q.sid = None
      PROVE  reqs[k].sid # s
  BY <1>4, <1>8 DEF Unused
<1>9. ASSUME NEW k \in Reqs, reqs[k] # None, Committing(reqs[k])
      PROVE  sessions'[reqs[k].sid].user = sessions[reqs[k].sid].user
  <2>1. reqs[k].sid \in Sids
    BY <1>9, RequestTypes DEF Committing
  <2> QED BY <1>5, <1>7, <1>8, <1>9, <2>1
<1>10. ASSUME NEW k \in Reqs, reqs[k] # None, Giving(reqs[k]), Live(reqs[k].sid)
       PROVE  LiveIn(sessions', reqs[k].sid)
  <2>1. reqs[k].sid \in Sids
    BY <1>10, RequestTypes DEF Giving, Request
  <2> QED BY <1>5, <1>7, <1>8, <1>10, <2>1 DEF Live, LiveIn
<1> DEFINE c == [q EXCEPT !.sid = s, !.step = "answer", !.sets = "set"]
<1>11. reqs'[r] = c /\ \A k \in Reqs \ {r} : reqs'[k] = reqs[k]
  BY <1>3, <1>6
<1>12. c.kind = "login" /\ c.sid = s /\ c.step = "answer" /\ c.crossed = q.crossed
  BY <1>2 DEF Request
<1> HIDE DEF c
<1>13. LiveIn(sessions', s) \/ q.crossed
  BY <1>1, <1>2, <1>4, <1>5, <1>7 DEF GivesLive, Giving, LiveIn
<1>14. ~ Committing(c) /\ GivesLive(c, sessions')
  BY <1>12, <1>13 DEF Committing, GivesLive
<1> QED BY <1>6, <1>9, <1>10, <1>11, <1>14, RulesStep

LEMMA AuthenticateRules ==
  ASSUME Types, Rules, NEW r \in Reqs, Authenticate(r)
  PROVE  Rules'
<1>1. /\ reqs[r] # None /\ UNCHANGED <<users, sessions, overtaken>>
      /\ Done(r) \/ Go(r, "expire") \/ Go(r, "refresh")
  BY DEF Authenticate, At
<1>2. CASE Done(r)
  BY <1>1, <1>2, DoneRules
<1>3. CASE Go(r, "expire")
  BY <1>1, <1>3, GoRules
<1>4. CASE Go(r, "refresh")
  BY <1>1, <1>4, GoRules
<1> QED BY <1>1, <1>2, <1>3, <1>4

LEMMA RefreshRules ==
  ASSUME Types, Rules, NEW r \in Reqs, Refresh(r)
  PROVE  Rules'
<1> DEFINE step == IF reqs[r].kind = "me" THEN "answer" ELSE "handle"
           s == reqs[r].sid
<1>1. reqs[r] # None /\ reqs[r].kind # "login" /\ reqs[r] \in Request
  BY RequestTypes DEF Refresh, At, Sound, LoginSteps
<1>2. s \in Sids /\ sessions[s] \in Session
  BY <1>1, RequestTypes
<1>3. /\ sessions' = [sessions EXCEPT ![s] = [sessions[s] EXCEPT !.expired = FALSE]]
      /\ Go(r, step) /\ UNCHANGED <<users, overtaken>>
  BY DEF Refresh
<1>4. sessions \in [Sids -> Session \cup {None}] /\ reqs \in [Reqs -> Request \cup {None}]
  BY DEF Types
<1>5. /\ [sessions[s] EXCEPT !.expired = FALSE] \in Session
      /\ [sessions[s] EXCEPT !.expired = FALSE].user = sessions[s].user
      /\ [sessions[s] EXCEPT !.expired = FALSE].isValid = sessions[s].isValid
      /\ ~ [sessions[s] EXCEPT !.expired = FALSE].expired
  BY <1>2 DEF Session
<1>6. /\ sessions'[s] # None /\ sessions'[s].user = sessions[s].user
      /\ sessions'[s].isValid = sessions[s].isValid /\ ~ sessions'[s].expired
      /\ \A t \in Sids \ {s} : sessions'[t] = sessions[t]
  BY <1>2, <1>3, <1>4, <1>5, Constants
<1>7. ASSUME NEW k \in Reqs, reqs[k] # None
      PROVE  /\ Committing(reqs[k]) => sessions'[reqs[k].sid].user = sessions[reqs[k].sid].user
             /\ Giving(reqs[k]) /\ Live(reqs[k].sid) => LiveIn(sessions', reqs[k].sid)
  <2>1. reqs[k].sid \in Sids \cup {None}
    BY <1>7, RequestTypes DEF Request
  <2>2. Committing(reqs[k]) \/ Giving(reqs[k]) => reqs[k].sid \in Sids
    BY <1>7, <2>1, RequestTypes DEF Committing, Giving
  <2> QED BY <1>6, <2>2 DEF Live, LiveIn
<1>8. reqs'[r] = [reqs[r] EXCEPT !.step = step] /\ \A k \in Reqs \ {r} : reqs'[k] = reqs[k]
  BY <1>3, <1>4 DEF Go
<1>9. reqs'[r].kind = reqs[r].kind /\ reqs'[r].step = step
  BY <1>1, <1>8 DEF Request
<1>10. ~ Committing(reqs'[r]) /\ GivesLive(reqs'[r], sessions')
  BY <1>1, <1>9 DEF Committing, GivesLive, Giving
<1> QED BY <1>3, <1>7, <1>8, <1>10, RulesStep

\* Sessions end: every login that was about to give one of them out is crossed.
LEMMA InvalidateRules ==
  ASSUME Types, Rules, NEW r \in Reqs, NEW ended \in SUBSET Sids, NEW next,
         \A s \in ended : sessions[s] # None,
         Invalidate(r, ended, next), UNCHANGED <<users, jar, overtaken>>,
         next # None => ~ Committing(next) /\ next.kind # "login"
  PROVE  Rules'
<1>1. sessions \in [Sids -> Session \cup {None}] /\ reqs \in [Reqs -> Request \cup {None}]
  BY DEF Types
<1>2. ASSUME NEW s \in ended
      PROVE  sessions'[s].user = sessions[s].user
  <2>1. [sessions[s] EXCEPT !.isValid = FALSE].user = sessions[s].user
    BY <1>1 DEF Session
  <2> QED BY <2>1 DEF Invalidate
<1>3. \A s \in Sids \ ended : sessions'[s] = sessions[s]
  BY DEF Invalidate
<1> DEFINE rs == [reqs EXCEPT ![r] = next]
<1>4. reqs' = [k \in Reqs |-> IF rs[k] # None /\ rs[k].kind = "login" /\ rs[k].sid \in ended
                              THEN [rs[k] EXCEPT !.crossed = TRUE] ELSE rs[k]]
  BY DEF Invalidate, Cross
<1>5. rs[r] = next /\ \A k \in Reqs \ {r} : rs[k] = reqs[k]
  BY <1>1
<1> HIDE DEF rs
<1>6. \A k \in Reqs \ {r} :
        reqs'[k] = reqs[k] \/ (reqs[k] # None /\ reqs'[k] = [reqs[k] EXCEPT !.crossed = TRUE])
  BY <1>4, <1>5
<1>7. reqs'[r] = next
  BY <1>4, <1>5
<1>8. ASSUME NEW k \in Reqs \ {r}, reqs[k] # None, Committing(reqs[k])
      PROVE  sessions'[reqs[k].sid].user = sessions[reqs[k].sid].user
  <2>1. reqs[k].sid \in Sids
    BY <1>8, RequestTypes DEF Committing
  <2> QED BY <1>2, <1>3, <2>1
<1>9. ASSUME NEW k \in Reqs \ {r}, reqs[k] # None, Giving(reqs[k]), Live(reqs[k].sid)
      PROVE  LiveIn(sessions', reqs[k].sid) \/ reqs'[k].crossed
  <2>1. reqs[k].sid \in Sids /\ reqs[k].kind = "login" /\ Sound(reqs[k], users, sessions)
    BY <1>9, RequestTypes DEF Giving, Request
  <2>2. CASE reqs[k].sid \in ended
    <3>1. reqs'[k] = [reqs[k] EXCEPT !.crossed = TRUE]
      BY <1>4, <1>5, <1>9, <2>1, <2>2
    <3> QED BY <2>1, <3>1, CrossedSound
  <2>3. CASE reqs[k].sid \notin ended
    BY <1>3, <1>9, <2>1, <2>3 DEF Live, LiveIn
  <2> QED BY <2>2, <2>3
<1>10. next # None => GivesLive(next, sessions')
  BY DEF GivesLive, Giving
<1> QED BY <1>6, <1>7, <1>8, <1>9, <1>10, RulesStep

LEMMA EndingRules ==
  ASSUME Types, Rules, NEW r \in Reqs,
         ExpireSession(r) \/ Logout(r) \/ Revoke(r) \/ RevokeOthers(r)
  PROVE  Rules'
<1>1. reqs[r] # None /\ reqs[r].step \in {"expire", "handle", "commit"}
  BY DEF ExpireSession, Logout, Revoke, RevokeOthers, At
<1>2. /\ Sound(reqs[r], users, sessions) /\ reqs[r] \in Request /\ reqs[r].kind # "login"
      /\ reqs[r].sid \in Sids /\ sessions[reqs[r].sid] # None
  BY <1>1, RequestTypes, Constants DEF Sound, LoginSteps
<1> DEFINE kept == [reqs[r] EXCEPT !.step = "answer"]
           cleared == [reqs[r] EXCEPT !.step = "answer", !.sets = "clear"]
<1>3. /\ kept.step = "answer" /\ kept.kind # "login"
      /\ cleared.step = "answer" /\ cleared.kind # "login"
  BY <1>2 DEF Request
<1> HIDE DEF kept, cleared
<1>4. ~ Committing(kept) /\ ~ Committing(cleared)
  BY <1>3 DEF Committing
<1>5. CASE ExpireSession(r)
  BY <1>2, <1>5, InvalidateRules DEF ExpireSession
<1>6. CASE Logout(r)
  <2>1. Invalidate(r, {reqs[r].sid}, cleared) /\ UNCHANGED <<users, jar, overtaken>>
    BY <1>6 DEF Logout, cleared
  <2> QED BY <1>2, <1>3, <1>4, <2>1, InvalidateRules
<1>7. CASE Revoke(r)
  <2>1. reqs[r].kind = "revoke" /\ Invalidate(r, {reqs[r].arg}, kept)
        /\ UNCHANGED <<users, jar, overtaken>>
    BY <1>7 DEF Revoke, kept
  <2>2. reqs[r].arg \in Sids /\ sessions[reqs[r].arg] # None
    BY <1>2, <2>1, Constants DEF Sound
  <2> QED BY <1>3, <1>4, <2>1, <2>2, InvalidateRules
<1>8. CASE RevokeOthers(r)
  <2> DEFINE ended == {s \in Sids : /\ sessions[s] # None /\ sessions[s].isValid
                                    /\ Owner(s) = Owner(reqs[r].sid) /\ s # reqs[r].sid}
  <2>1. /\ ended \in SUBSET Sids /\ \A s \in ended : sessions[s] # None
        /\ Invalidate(r, ended, kept) /\ UNCHANGED <<users, jar, overtaken>>
    BY <1>8 DEF RevokeOthers, kept
  <2> HIDE DEF ended
  <2> QED BY <1>3, <1>4, <2>1, InvalidateRules
<1> QED BY <1>5, <1>6, <1>7, <1>8

LEMMA CheckSessionRules ==
  ASSUME Types, Rules, NEW r \in Reqs, CheckSession(r)
  PROVE  Rules'
<1>1. /\ reqs[r] # None /\ reqs[r].kind = "revoke" /\ UNCHANGED <<users, sessions, overtaken>>
      /\ Go(r, "commit") \/ Go(r, "answer")
  BY DEF CheckSession, At
<1>2. CASE Go(r, "commit")
  BY <1>1, <1>2, GoRules
<1>3. CASE Go(r, "answer")
  BY <1>1, <1>3, GoRules
<1> QED BY <1>1, <1>2, <1>3

\* The look-up finds the name free ...
LEMMA CheckNameRules ==
  ASSUME Types, Rules, NEW r \in Reqs, CheckName(r)
  PROVE  Rules'
<1> DEFINE u == Owner(reqs[r].sid)
           n == reqs[r].arg
<1>1. /\ reqs[r] # None /\ reqs[r].kind = "username" /\ UNCHANGED <<users, sessions, overtaken>>
      /\ Go(r, IF Taken(u, n) THEN "answer" ELSE "commit")
  BY DEF CheckName, At
<1>2. CASE Taken(u, n)
  BY <1>1, <1>2, GoRules
<1>3. CASE ~ Taken(u, n)
  <2> DEFINE q == [reqs[r] EXCEPT !.step = "commit"]
  <2>1. q.kind = "username" /\ q.sid = reqs[r].sid /\ q.arg = n
    BY <1>1, RequestTypes DEF Request
  <2>2. reqs'[r] = q /\ \A k \in Reqs \ {r} : reqs'[k] = reqs[k]
    BY <1>1, <1>3 DEF Go, Types
  <2> HIDE DEF q
  <2>3. NameFree(q, users, sessions)
    <3>1. ASSUME NEW v \in Users \ {u}, users[v].usernameSet
          PROVE  ~ Same(users[v].name, n)
      <4>1. users[v].name # None
        BY <3>1, Constants DEF Types, UserOK
      <4> QED BY <1>3, <4>1 DEF Taken
    <3> QED BY <2>1, <3>1 DEF NameFree, Owner
  <2>4. GivesLive(q, sessions)
    BY <2>1 DEF GivesLive, Giving
  <2>5. \A k \in Reqs : reqs'[k] # None =>
          NameFree(reqs'[k], users', sessions') /\ GivesLive(reqs'[k], sessions')
    BY <1>1, <2>2, <2>3, <2>4 DEF Rules
  <2>6. NamesClashOnlyByOverlap'
    BY <1>1 DEF Rules, NamesClashOnlyByOverlap
  <2> QED BY <2>5, <2>6 DEF Rules
<1> QED BY <1>2, <1>3

\* ... and it is still free when it is written, unless another was written since.
LEMMA RenameRules ==
  ASSUME Types, Rules, NEW r \in Reqs, Rename(r)
  PROVE  Rules'
<1> DEFINE u == Owner(reqs[r].sid)
           n == reqs[r].arg
<1>1. reqs[r] # None /\ reqs[r].kind = "username" /\ reqs[r].step = "commit"
  BY DEF Rename, At
<1>2. u \in Users /\ n \in Admitted /\ reqs[r] \in Request
  BY <1>1, RequestTypes DEF Sound
<1>3. CASE ~ Unique(u, n)
  BY <1>1, <1>3, GoRules DEF Rename
<1>4. CASE Unique(u, n)
  <2>1. /\ users' = [users EXCEPT ![u] = [users[u] EXCEPT !.name = n, !.usernameSet = TRUE]]
        /\ overtaken' = (overtaken \/ reqs[r].crossed) /\ sessions' = sessions
        /\ reqs' = [k \in Reqs |->
             CASE k = r -> [reqs[r] EXCEPT !.step = "answer"]
               [] k # r /\ At(k, "commit") /\ reqs[k].kind = "username" ->
                    [reqs[k] EXCEPT !.crossed = TRUE]
               [] OTHER -> reqs[k]]
    BY <1>4 DEF Rename
  <2>2. users \in [Users -> User] /\ overtaken \in BOOLEAN /\ reqs[r].crossed \in BOOLEAN
    BY <1>2 DEF Types, Request
  <2>3. users'[u].name = n /\ \A v \in Users \ {u} : users'[v] = users[v]
    BY <1>2, <2>1, <2>2 DEF User
  <2>4. NamesClashOnlyByOverlap'
    <3>1. SUFFICES ASSUME ~ overtaken', NEW v \in Users, NEW w \in Users, v # w,
                          users'[v].usernameSet, users'[w].usernameSet
                   PROVE  ~ Same(users'[v].name, users'[w].name)
      BY DEF NamesClashOnlyByOverlap
    <3>2. ~ overtaken /\ ~ reqs[r].crossed
      BY <2>1, <2>2, <3>1
    <3>3. \A x \in Users \ {u} : users[x].usernameSet => ~ Same(users[x].name, n)
      BY <1>1, <3>2 DEF Rules, NameFree, Committing, Owner
    <3>4. CASE v = u
      BY <2>3, <3>1, <3>3, <3>4 DEF Same
    <3>5. CASE w = u
      BY <2>3, <3>1, <3>3, <3>5 DEF Same
    <3>6. CASE v # u /\ w # u
      BY <2>3, <3>1, <3>2, <3>6 DEF Rules, NamesClashOnlyByOverlap
    <3> QED BY <3>4, <3>5, <3>6
  <2>5. ASSUME NEW k \in Reqs, reqs'[k] # None
        PROVE  NameFree(reqs'[k], users', sessions') /\ GivesLive(reqs'[k], sessions')
    <3>1. CASE k = r
      <4>1. reqs'[k].step = "answer" /\ reqs'[k].kind = "username"
        BY <1>1, <1>2, <2>1, <3>1 DEF Request
      <4> QED BY <4>1 DEF NameFree, GivesLive, Committing, Giving
    <3>2. CASE k # r /\ At(k, "commit") /\ reqs[k].kind = "username"
      <4>1. reqs'[k] = [reqs[k] EXCEPT !.crossed = TRUE] /\ reqs[k] # None
        BY <2>1, <3>2 DEF At
      <4>2. reqs'[k].crossed
        BY <4>1, RequestTypes, CrossedSound
      <4> QED BY <4>2 DEF NameFree, GivesLive
    <3>3. CASE k # r /\ ~ (At(k, "commit") /\ reqs[k].kind = "username")
      <4>1. reqs'[k] = reqs[k]
        BY <2>1, <3>3
      <4> QED BY <2>1, <2>5, <3>3, <4>1 DEF NameFree, Committing, At, Rules
    <3> QED BY <3>1, <3>2, <3>3
  <2> QED BY <2>4, <2>5 DEF Rules
<1> QED BY <1>3, <1>4

LEMMA AnswerRules ==
  ASSUME Types, Rules, NEW r \in Reqs, Answer(r) \/ Unheard(r)
  PROVE  Rules'
BY DoneRules DEF Answer, Unheard

LEMMA TimeRules ==
  ASSUME Types, Rules, (\E b \in Browsers : Age(b)) \/ (\E s \in Sids : SessionEnds(s))
  PROVE  Rules'
BY DEF Age, SessionEnds, Quiet, Rules, NamesClashOnlyByOverlap

LEMMA InitRules == AccountsInit => Rules
BY DEF AccountsInit, Rules, NamesClashOnlyByOverlap

LEMMA NextRules ==
  ASSUME Types, Rules, [AccountsNext]_accountsVars
  PROVE  Rules'
<1>1. CASE UNCHANGED accountsVars
  BY <1>1 DEF accountsVars, Rules, NamesClashOnlyByOverlap
<1>2. ASSUME NEW r \in Reqs, NEW b \in Browsers,
             \/ \E u \in Users : SignIn(r, b, u)
             \/ AskMe(r, b) \/ FirstName(r, b) \/ NewName(r, b)
             \/ SignOut(r, b) \/ EndSession(r, b) \/ EndOthers(r, b)
      PROVE  Rules'
  BY <1>2, BrowserRules
<1>3. ASSUME NEW r \in Reqs, Login(r)
      PROVE  Rules'
  BY <1>3, SignUpRules, FindSessionRules, WriteSessionRules DEF Login
<1>4. ASSUME NEW r \in Reqs, Guarded(r)
      PROVE  Rules'
  BY <1>4, AuthenticateRules, EndingRules, RefreshRules DEF Guarded
<1>5. ASSUME NEW r \in Reqs, Handled(r)
      PROVE  Rules'
  BY <1>5, CheckNameRules, RenameRules, CheckSessionRules, EndingRules DEF Handled
<1>6. ASSUME NEW r \in Reqs, Answer(r) \/ Unheard(r)
      PROVE  Rules'
  BY <1>6, AnswerRules
<1> QED BY <1>1, <1>2, <1>3, <1>4, <1>5, <1>6, TimeRules DEF AccountsNext

\* Two chosen names that differ by their case alone need a name written between
\* another's check and its write.
THEOREM NamesApart == AccountsSpec => []NamesClashOnlyByOverlap
<1>1. Rules => NamesClashOnlyByOverlap
  BY DEF Rules
<1>2. Types /\ Rules /\ [AccountsNext]_accountsVars => (Types /\ Rules)'
  BY NextTypes, NextRules
<1> QED BY <1>1, <1>2, InitTypes, InitRules, PTL DEF AccountsSpec

\* A login answers with a session that lives unless its end crossed the login, and
\* the browser's two cookies belong together whatever order the answers came in.
THEOREM LoginWorks == AccountsSpec => []SignInHolds
<1>1. Types /\ Rules => SignInHolds
  <2>1. SUFFICES ASSUME Types, Rules PROVE SignInHolds
    OBVIOUS
  <2>2. CookiesMatch
    BY <2>1 DEF Types, CookiesOK, CookiesMatch
  <2>3. ASSUME NEW r \in Reqs, At(r, "answer"), reqs[r].kind = "login"
        PROVE  Live(reqs[r].sid) \/ reqs[r].crossed
    <3>1. reqs[r] # None /\ reqs[r].step = "answer" /\ reqs[r].sid # None
      BY <2>1, <2>3, RequestTypes DEF At, Sound
    <3> QED BY <2>1, <2>3, <3>1 DEF Rules, GivesLive, Giving, LiveIn, Live
  <2> QED BY <2>2, <2>3 DEF SignInHolds, LoginGivesLiveSession
<1>2. Types /\ Rules /\ [AccountsNext]_accountsVars => (Types /\ Rules)'
  BY NextTypes, NextRules
<1> QED BY <1>1, <1>2, InitTypes, InitRules, PTL DEF AccountsSpec
=============================================================================
