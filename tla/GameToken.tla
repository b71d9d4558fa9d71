----------------------------- MODULE GameToken -----------------------------
(***************************************************************************)
(* From the lobby into a game: the back end signs a game token, the game   *)
(* server checks it with the back end's public key, which it fetches when  *)
(* it has none and once more when the check fails (validateSocket).  The   *)
(* key is shared by all validations of the server; one of them is followed *)
(* step by step and the others are what they do to the key.                *)
(***************************************************************************)
EXTENDS Registry

CONSTANTS
  MaxKeys   \* bound: key pairs the back end has, one per start without a configured key

ASSUME GameTokenAssumption == MaxKeys \in Nat \ {0}

VARIABLES
  keyPair,  \* the key pair of the running back end
  key,      \* publicKey of the game server, or NoKey
  join,     \* the player's way into the game
  meddled   \* history of the validation under way: a fetch of it failed, or another
            \* validation changed the key under it

tokenVars == <<keyPair, key, join, meddled>>
vars == <<registryVars, tokenVars>>

\* No key verifies a token that has expired: its token is NoKey.
NoKey == 0
NoJoin == [at |-> "lobby", on |-> NoRow, token |-> NoKey, answer |-> NoKey]
Stages == {"lobby", "admitted", "issued", "signed", "fetch", "answered", "check",
           "refetch", "reanswered", "recheck", "in", "refused"}

TypeOK ==
  /\ RegistryTypeOK
  /\ keyPair \in 1 .. MaxKeys /\ key \in NoKey .. keyPair
  /\ join \in [at : Stages, on : Hosts \cup {NoRow}, token : NoKey .. keyPair,
               answer : NoKey .. keyPair]
  /\ meddled \in BOOLEAN

Init ==
  /\ RegistryInit
  /\ keyPair = 1 /\ key = NoKey /\ join = NoJoin /\ meddled = FALSE

To(stage) == [join EXCEPT !.at = stage]
Step(from, J) == join.at = from /\ join' = J

-----------------------------------------------------------------------------
(* The back end *)

\* join finds the server on the list; its count of players is a choice, so a full
\* server is one that does not admit.  The token is signed after the reads of
\* statistics and name.
Admits(i) == row[i] # NoRow /\ row[i].status = "online"

JoinServer(i) ==
  /\ Admits(i)
  /\ Step("lobby", [NoJoin EXCEPT !.at = "admitted", !.on = i])
  /\ UNCHANGED <<registryVars, keyPair, key, meddled>>

SignGameToken ==
  /\ Step("admitted", [To("issued") EXCEPT !.token = keyPair])
  /\ UNCHANGED <<registryVars, keyPair, key, meddled>>

\* joinGuest has nothing to read between
JoinGuest(i) ==
  /\ Admits(i)
  /\ Step("lobby", [NoJoin EXCEPT !.at = "issued", !.on = i, !.token = keyPair])
  /\ UNCHANGED <<registryVars, keyPair, key, meddled>>

\* handleJoin keeps the token for one visit of the game page, or the answer is lost
EnterGame ==
  /\ Step("issued", To("signed")) \/ Step("issued", NoJoin)
  /\ UNCHANGED <<registryVars, keyPair, key, meddled>>

Expire ==
  /\ join.token # NoKey
  /\ join' = [join EXCEPT !.token = NoKey]
  /\ UNCHANGED <<registryVars, keyPair, key, meddled>>

\* A restart: onModuleInit makes a new pair, requests in flight fail.
Restart ==
  /\ keyPair < MaxKeys
  /\ keyPair' = keyPair + 1
  /\ RegistryRestart
  /\ join' = CASE join.at \in {"admitted", "issued"} -> NoJoin
               [] join.at = "fetch" -> To("check")
               [] join.at = "refetch" -> To("recheck")
               [] OTHER -> join
  /\ meddled' = (meddled \/ join.at \in {"fetch", "refetch"})
  /\ UNCHANGED key

-----------------------------------------------------------------------------
(* validateSocket *)

\* jwtVerify with the key that is cached at the call.
Verified == key # NoKey /\ key = join.token

\* The player's socket arrives, or comes back with the same token.
Connect ==
  /\ join.at \in {"signed", "in"} /\ host[join.on] # NoToken
  /\ join' = To(IF key = NoKey THEN "fetch" ELSE "check")
  /\ UNCHANGED <<registryVars, keyPair, key, meddled>>

\* The back end answers a fetch with the key of the moment.
PublicKey ==
  /\ \/ Step("fetch", [To("answered") EXCEPT !.answer = keyPair])
     \/ Step("refetch", [To("reanswered") EXCEPT !.answer = keyPair])
  /\ UNCHANGED <<registryVars, keyPair, key, meddled>>

\* The answer arrives.
FetchPublicKey ==
  /\ \/ Step("answered", [To("check") EXCEPT !.answer = NoKey])
     \/ Step("reanswered", [To("recheck") EXCEPT !.answer = NoKey])
  /\ key' = join.answer
  /\ UNCHANGED <<registryVars, keyPair, meddled>>

\* The fetch fails: fetchPublicKey logs it and leaves the key alone.
FetchFails ==
  /\ \/ Step("fetch", To("check"))
     \/ Step("refetch", To("recheck"))
  /\ meddled' = TRUE
  /\ UNCHANGED <<registryVars, keyPair, key>>

\* Fault: the key that failed is kept and used again.
CheckOnce ==
  /\ \/ key = NoKey /\ Step("check", To("refused"))
     \/ key # NoKey /\ Step("check", To(IF Verified THEN "in" ELSE "refused"))
  /\ UNCHANGED <<registryVars, keyPair, key, meddled>>

\* The first verification; if it fails the key is dropped and fetched again.
Check ==
  /\ \/ key = NoKey /\ Step("check", To("refused")) /\ UNCHANGED <<key, meddled>>
     \/ Verified /\ Step("check", To("in")) /\ UNCHANGED key /\ meddled' = FALSE
     \/ key # NoKey /\ ~Verified /\ Step("check", To("refetch")) /\ key' = NoKey /\ UNCHANGED meddled
  /\ UNCHANGED <<registryVars, keyPair>>

\* The second one is the last.
Recheck ==
  /\ Step("recheck", To(IF Verified THEN "in" ELSE "refused"))
  /\ meddled' = (meddled /\ ~Verified)
  /\ UNCHANGED <<registryVars, keyPair, key>>

\* Another validation drops the key, or its fetch, of now or of before a
\* restart, arrives.
OthersValidate ==
  /\ \E k \in NoKey .. keyPair : key' = k
  /\ meddled' = (meddled \/ (join.at \in {"check", "recheck"} /\ key' # key))
  /\ UNCHANGED <<registryVars, keyPair, join>>

\* The page is left; a refused socket is closed and does not come back.
BackToLobby ==
  /\ join.at \in {"signed", "in", "refused"}
  /\ join' = NoJoin /\ meddled' = FALSE
  /\ UNCHANGED <<registryVars, keyPair, key>>

Next ==
  \/ RegistryNext /\ UNCHANGED tokenVars
  \/ \E i \in Hosts : JoinServer(i) \/ JoinGuest(i)
  \/ SignGameToken \/ EnterGame \/ Expire \/ Restart \/ Connect \/ PublicKey \/ FetchPublicKey
  \/ FetchFails \/ Check \/ Recheck \/ OthersValidate \/ BackToLobby

Spec == Init /\ [][Next]_vars

-----------------------------------------------------------------------------
(* Properties *)

\* A token of the running back end that has not expired opens the game: it is
\* refused only if a fetch of this validation failed, or if another validation
\* dropped or replaced the shared key between this one's fetch and its check.
\* A restart of the back end is no excuse: that is what the second fetch is for.
GoodTokenOpens ==
  join.at = "refused" /\ join.token = keyPair => meddled
=============================================================================
