---------------------------- MODULE StatPipeline ----------------------------
(***************************************************************************)
(* How merit gets from the games into the data base: the deltas every game *)
(* server keeps, the post it sends once a minute, and the back end's       *)
(* ingest, which is a chain of data-base calls that interleaves with the   *)
(* ingests of other posts.                                                 *)
(*                                                                         *)
(* The counters a rank is made of (kills, planets taken, armies bombed)    *)
(* are one number here, the merit.  A userId is that of a registered user, *)
(* of a guest, or the empty one that a slot is left with.                  *)
(***************************************************************************)
EXTENDS Integers

CONSTANTS
  Servers, Users, Guests,
  Strangers,    \* server -> ids but users that earn there: the guests whose
                \* token is for the server, and Nobody
  Nobody,       \* the playerId of an empty slot
  None,
  TopRank,
  DiThreshold,  \* RANK_DEFS: rank -> merit it takes
  MaxMerit,     \* bound: merit a user earns
  MaxTick       \* bound: server -> the clock of its game, in seconds

Ids == Users \cup Guests \cup {Nobody}
Ranks == 0 .. TopRank

ASSUME StatAssumption ==
  /\ TopRank \in Nat /\ MaxMerit \in Nat /\ MaxTick \in [Servers -> Nat]
  /\ Strangers \in [Servers -> SUBSET (Guests \cup {Nobody})]
  /\ DiThreshold \in [Ranks -> Nat] /\ DiThreshold[0] = 0
  /\ Users \cap (Guests \cup {Nobody}) = {} /\ None \notin Ids

VARIABLES
  deltas,          \* server -> userId -> merit not yet reported
  guestUserIds,    \* server -> guests marked
  currentTick,     \* server -> clock of the game
  lastReportTick,  \* server -> clock at the last report
  posts,           \* server -> its post and the ingest of it
  total,           \* user -> merit in playerStats
  rank,            \* user -> rank in playerStats
  earned,          \* auxiliary: user -> merit earned
  mishap           \* auxiliary: a report or a part of one got lost

server == <<deltas, guestUserIds, currentTick, lastReportTick>>
database == <<total, rank>>
vars == <<server, posts, database, earned, mishap>>

Nothing == [i \in Ids |-> 0]
Free == [phase |-> "free", batch |-> Nothing, seconds |-> 0, at |-> None, newRank |-> None]

Posts == [phase: {"free", "sent", "ingest"}, batch: [Ids -> Nat], seconds: Int,
          at: Users \cup {None}, newRank: Ranks \cup {None}]

TypeOK ==
  /\ deltas \in [Servers -> [Ids -> Nat]]
  /\ guestUserIds \in [Servers -> SUBSET Guests]
  /\ currentTick \in [Servers -> Nat]
  /\ lastReportTick \in [Servers -> Nat]
  /\ posts \in [Servers -> Posts]
  /\ total \in [Users -> Nat]
  /\ rank \in [Users -> Ranks]
  /\ earned \in [Users -> 0 .. MaxMerit]
  /\ mishap \in BOOLEAN
  /\ \A s \in Servers : posts[s].newRank # None => posts[s].at # None

Init ==
  /\ deltas = [s \in Servers |-> Nothing]
  /\ guestUserIds = [s \in Servers |-> {}]
  /\ currentTick = [s \in Servers |-> 0]
  /\ lastReportTick = [s \in Servers |-> 0]
  /\ posts = [s \in Servers |-> Free]
  /\ total = [u \in Users |-> 0]
  /\ rank = [u \in Users |-> 0]
  /\ earned = [u \in Users |-> 0]
  /\ mishap = FALSE

-----------------------------------------------------------------------------
(* The game server *)

\* recordKill and the others.  The kill of a player who has left is booked on
\* the empty playerId.  Bound: one merit at a time for who is no user.
Record(s, i) ==
  /\ IF i \in Users THEN earned[i] < MaxMerit ELSE deltas[s][i] = 0
  /\ i \in Guests => i \in guestUserIds[s]
  /\ deltas' = [deltas EXCEPT ![s][i] = @ + 1]
  /\ earned' = [u \in Users |-> IF u = i THEN earned[u] + 1 ELSE earned[u]]
  /\ UNCHANGED <<guestUserIds, currentTick, lastReportTick, posts, database, mishap>>

MarkGuest(s, g) ==
  /\ g \in Strangers[s] \ guestUserIds[s]
  /\ guestUserIds' = [guestUserIds EXCEPT ![s] = @ \cup {g}]
  /\ UNCHANGED <<deltas, currentTick, lastReportTick, posts, database, earned, mishap>>

UnmarkGuest(s, g) ==
  /\ g \in guestUserIds[s]
  /\ guestUserIds' = [guestUserIds EXCEPT ![s] = @ \ {g}]
  /\ UNCHANGED <<deltas, currentTick, lastReportTick, posts, database, earned, mishap>>

Tick(s) ==
  /\ currentTick[s] < MaxTick[s]
  /\ currentTick' = [currentTick EXCEPT ![s] = @ + 1]
  /\ UNCHANGED <<deltas, guestUserIds, lastReportTick, posts, database, earned, mishap>>

\* resetGame sets the clock back and leaves lastReportTick where it was.
ResetGame(s) ==
  /\ currentTick' = [currentTick EXCEPT ![s] = 0]
  /\ UNCHANGED <<deltas, guestUserIds, lastReportTick, posts, database, earned, mishap>>

\* Without shutdown hooks the process ends and starts without reporting.
Restart(s) ==
  /\ deltas' = [deltas EXCEPT ![s] = Nothing]
  /\ guestUserIds' = [guestUserIds EXCEPT ![s] = {}]
  /\ currentTick' = [currentTick EXCEPT ![s] = 0]
  /\ lastReportTick' = [lastReportTick EXCEPT ![s] = 0]
  /\ mishap' = TRUE
  /\ UNCHANGED <<posts, database, earned>>

Reported(s) == [i \in Ids |-> IF i \in guestUserIds[s] THEN 0 ELSE deltas[s][i]]

\* Fault: the deltas are cleared when they have been counted, not when sent.
PushStatsKeepsDeltas(s) ==
  /\ deltas[s] # Nothing /\ posts[s].phase = "free"
  /\ posts' = [posts EXCEPT ![s] = [Free EXCEPT !.phase = "sent", !.batch = Reported(s),
                                      !.seconds = currentTick[s] - lastReportTick[s]]]
  /\ lastReportTick' = [lastReportTick EXCEPT ![s] = currentTick[s]]
  /\ UNCHANGED <<deltas, guestUserIds, currentTick, database, earned, mishap>>

\* Fault: the deltas are cleared before the post is put together.
PushStatsClearsFirst(s) ==
  /\ deltas[s] # Nothing /\ posts[s].phase = "free"
  /\ posts' = [posts EXCEPT ![s] = [Free EXCEPT !.phase = "sent",
                                      !.seconds = currentTick[s] - lastReportTick[s]]]
  /\ lastReportTick' = [lastReportTick EXCEPT ![s] = currentTick[s]]
  /\ deltas' = [deltas EXCEPT ![s] = Nothing]
  /\ UNCHANGED <<guestUserIds, currentTick, database, earned, mishap>>

\* pushStats.  Bound: a server has one post under way; two posts of one
\* server meet in the data base as those of two servers do.
PushStats(s) ==
  /\ deltas[s] # Nothing /\ posts[s].phase = "free"
  /\ posts' = [posts EXCEPT ![s] = [Free EXCEPT !.phase = "sent", !.batch = Reported(s),
                                      !.seconds = currentTick[s] - lastReportTick[s]]]
  /\ lastReportTick' = [lastReportTick EXCEPT ![s] = currentTick[s]]
  /\ deltas' = [deltas EXCEPT ![s] = Nothing]
  /\ UNCHANGED <<guestUserIds, currentTick, database, earned, mishap>>

-----------------------------------------------------------------------------
(* The way to the back end, and its checks *)

\* The post is gone: fetch fails, or the guard refuses the server's token.
Lose(s) ==
  /\ posts[s].phase = "sent"
  /\ posts' = [posts EXCEPT ![s] = Free]
  /\ mishap' = TRUE
  /\ UNCHANGED <<server, database, earned>>

\* IngestStatsDto: no number of any player may be negative.  The reporter does
\* not look at the answer.
Invalid(post) == post.seconds < 0 /\ post.batch # Nothing

Reject(s) ==
  /\ posts[s].phase = "sent" /\ Invalid(posts[s])
  /\ posts' = [posts EXCEPT ![s] = Free]
  /\ mishap' = TRUE
  /\ UNCHANGED <<server, database, earned>>

Accept(s) ==
  /\ posts[s].phase = "sent" /\ ~ Invalid(posts[s])
  /\ posts' = [posts EXCEPT ![s].phase = "ingest"]
  /\ UNCHANGED <<server, database, earned, mishap>>

-----------------------------------------------------------------------------
(* The ingest: between any two of its steps another ingest may run. *)

RankFor(merit) ==
  CHOOSE r \in Ranks :
    /\ DiThreshold[r] <= merit
    /\ \A q \in Ranks : q > r => DiThreshold[q] > merit

\* The players come in the order in which they first earned, which is any.
Upsert(s, u) ==
  /\ posts[s].phase = "ingest" /\ posts[s].at = None /\ posts[s].batch[u] > 0
  /\ total' = [total EXCEPT ![u] = @ + posts[s].batch[u]]
  /\ posts' = [posts EXCEPT ![s].batch[u] = 0, ![s].at = u]
  /\ UNCHANGED <<server, rank, earned, mishap>>

\* playerStats refers to users: the upsert of anyone else throws, and the
\* rest of the batch is lost with it.
RefuseUnknown(s, i) ==
  /\ posts[s].phase = "ingest" /\ posts[s].at = None /\ posts[s].batch[i] > 0
  /\ i \notin Users
  /\ posts' = [posts EXCEPT ![s] = Free]
  /\ mishap' = TRUE
  /\ UNCHANGED <<server, database, earned>>

ReadRank(s) ==
  /\ posts[s].at # None /\ posts[s].newRank = None
  /\ LET r == RankFor(total[posts[s].at])
     IN  posts' = [posts EXCEPT ![s] = IF r = rank[posts[s].at]
                                       THEN [@ EXCEPT !.at = None]
                                       ELSE [@ EXCEPT !.newRank = r]]
  /\ UNCHANGED <<server, database, earned, mishap>>

\* Fault: the rank goes up by one instead of being set.
WriteRankPromotes(s) ==
  /\ posts[s].newRank # None
  /\ rank' = [rank EXCEPT ![posts[s].at] = IF @ < TopRank THEN @ + 1 ELSE @]
  /\ posts' = [posts EXCEPT ![s].at = None, ![s].newRank = None]
  /\ UNCHANGED <<server, total, earned, mishap>>

\* Fault: the rank that was read stays for the next player of the batch.
WriteRankKeepsRank(s) ==
  /\ posts[s].newRank # None
  /\ rank' = [rank EXCEPT ![posts[s].at] = posts[s].newRank]
  /\ posts' = [posts EXCEPT ![s].at = None]
  /\ UNCHANGED <<server, total, earned, mishap>>

WriteRank(s) ==
  /\ posts[s].newRank # None
  /\ rank' = [rank EXCEPT ![posts[s].at] = posts[s].newRank]
  /\ posts' = [posts EXCEPT ![s].at = None, ![s].newRank = None]
  /\ UNCHANGED <<server, total, earned, mishap>>

FinishIngest(s) ==
  /\ posts[s].phase = "ingest" /\ posts[s].at = None /\ posts[s].batch = Nothing
  /\ posts' = [posts EXCEPT ![s] = Free]
  /\ UNCHANGED <<server, database, earned, mishap>>

\* A call to the data base fails, or the back end stops.
IngestFails(s) ==
  /\ posts[s].phase = "ingest"
  /\ posts' = [posts EXCEPT ![s] = Free]
  /\ mishap' = TRUE
  /\ UNCHANGED <<server, database, earned>>

-----------------------------------------------------------------------------
PostStep(s) ==
  \/ Lose(s) \/ Reject(s) \/ Accept(s)
  \/ \E u \in Users : Upsert(s, u)
  \/ \E i \in Ids : RefuseUnknown(s, i)
  \/ ReadRank(s) \/ WriteRank(s) \/ FinishIngest(s) \/ IngestFails(s)

Next ==
  \E s \in Servers :
    \/ \E i \in Users \cup Strangers[s] : Record(s, i)
    \/ \E g \in Guests : MarkGuest(s, g) \/ UnmarkGuest(s, g)
    \/ Tick(s) \/ ResetGame(s) \/ Restart(s)
    \/ PushStats(s)
    \/ PostStep(s)

Spec == Init /\ [][Next]_vars

\* The reporter's interval keeps firing; a request is answered or fails.
FairSpec ==
  Spec /\ \A s \in Servers : WF_vars(PushStats(s)) /\ WF_vars(PostStep(s))

-----------------------------------------------------------------------------
(* Properties *)

\* What of a user's merit is in a server's deltas or in its post under way.
Pending == [s \in Servers |-> [u \in Users |-> deltas[s][u] + posts[s].batch[u]]]

\* Merit is counted at most once, although it is handed over twice, from the
\* deltas to a post and from the post to the data base, and each may fail.
T == INSTANCE Tally WITH pending <- Pending, counted <- total
CountsAtMostOnce == T!Spec

\* No interleaving of ingests gives a player a rank the totals do not justify:
\* the rank is read, computed and written in separate calls.
RankNotAhead ==
  /\ \A u \in Users : rank[u] <= RankFor(total[u])
  /\ \A s \in Servers :
       posts[s].newRank # None => posts[s].newRank <= RankFor(total[posts[s].at])

\* As long as nothing is lost anywhere (no restart, no failed or refused post,
\* no failed ingest), what a user earns is counted in the end: the deltas reach
\* their post, and the post the data base, whatever is recorded meanwhile and
\* whoever is marked a guest.  Of what is lost with a mishap, which the reporter
\* may not even notice (an answer of 400 is logged as pushed), it says nothing.
EarnedIsCounted ==
  \A u \in Users : \A n \in 1 .. MaxMerit : earned[u] = n ~> total[u] >= n \/ mishap

=============================================================================
