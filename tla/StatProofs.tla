----------------------------- MODULE StatProofs -----------------------------
(***************************************************************************)
(* Proofs about StatPipeline for any servers, users, guests and ranks: it  *)
(* implements Tally, and ranks never run ahead of the totals.              *)
(*                                                                         *)
(* RankNotAhead speaks of the ranks that ingests have read and not yet     *)
(* written as well, and so is inductive together with TypeOK: totals only  *)
(* grow, so a rank stays justified however long its write takes.           *)
(***************************************************************************)
EXTENDS StatPipeline, FiniteSetTheorems, WellFoundedInduction, TLAPS

-----------------------------------------------------------------------------
(* Ranks *)

Reached(merit) == {r \in Ranks : DiThreshold[r] <= merit}

\* A nonempty set of ranks has a highest one; rankForDI scans downwards for it.
LEMMA HighestRank ==
  ASSUME NEW S \in SUBSET Ranks, S # {}
  PROVE  \E r \in S : \A q \in S : q <= r
<1> DEFINE Above(k) == k .. TopRank
           A == {Above(k) : k \in S}
<1>1. TopRank \in Nat
  BY StatAssumption
<1>2. IsWellFoundedOn(StrictSubsetOrdering(Ranks), FiniteSubsetsOf(Ranks))
  BY FS_StrictSubsetOrderingWellFounded
<1>3. A # {} /\ A \subseteq FiniteSubsetsOf(Ranks)
  <2>1. ASSUME NEW k \in S PROVE Above(k) \in FiniteSubsetsOf(Ranks)
    <3>1. k \in Int /\ Above(k) \subseteq Ranks
      BY <1>1 DEF Ranks
    <3>2. IsFiniteSet(Above(k))
      BY <1>1, <3>1, FS_Interval
    <3> QED BY <3>1, <3>2 DEF FiniteSubsetsOf
  <2>2. A # {}
    OBVIOUS
  <2> QED BY <2>1, <2>2
<1> HIDE DEF A
<1>4. PICK X \in A : \A Y \in A : <<Y, X>> \notin StrictSubsetOrdering(Ranks)
  BY <1>2, <1>3, WFMin
<1>5. PICK r \in S : X = Above(r)
  BY <1>4 DEF A
<1>6. ASSUME NEW q \in S, r < q PROVE FALSE
  <2>1. /\ Above(q) \in SUBSET Ranks /\ Above(r) \in SUBSET Ranks
        /\ Above(q) \subseteq Above(r) /\ r \in Above(r) /\ r \notin Above(q)
    BY <1>1, <1>6 DEF Ranks
  <2>2. <<Above(q), Above(r)>> \in StrictSubsetOrdering(Ranks)
    BY <2>1 DEF StrictSubsetOrdering
  <2>3. Above(q) \in A
    BY DEF A
  <2> QED BY <2>2, <2>3, <1>4, <1>5
<1> QED BY <1>6 DEF Ranks

\* rankForDI returns a rank whose threshold is reached and no higher one is.
LEMMA RankForFinds ==
  ASSUME NEW m \in Nat
  PROVE  /\ RankFor(m) \in Ranks
         /\ DiThreshold[RankFor(m)] <= m
         /\ \A q \in Ranks : q > RankFor(m) => DiThreshold[q] > m
<1>1. 0 \in Reached(m) /\ Reached(m) \in SUBSET Ranks
  BY StatAssumption DEF Reached, Ranks
<1>2. PICK r \in Reached(m) : \A q \in Reached(m) : q <= r
  BY <1>1, HighestRank
<1>3. /\ r \in Ranks /\ DiThreshold[r] <= m
      /\ \A q \in Ranks : q > r => DiThreshold[q] > m
  <2>1. ASSUME NEW q \in Ranks, q > r PROVE DiThreshold[q] > m
    <3>1. q \notin Reached(m)
      BY <1>2, <2>1 DEF Reached, Ranks
    <3>2. DiThreshold[q] \in Nat
      BY StatAssumption
    <3> QED BY <3>1, <3>2 DEF Reached
  <2> QED BY <1>2, <2>1 DEF Reached
<1> QED BY <1>3 DEF RankFor

\* More merit never makes a lower rank.
LEMMA RankForGrows ==
  ASSUME NEW m \in Nat, NEW n \in Nat, m <= n
  PROVE  RankFor(m) <= RankFor(n)
<1>1. RankFor(m) \in Ranks /\ DiThreshold[RankFor(m)] <= m
  BY RankForFinds
<1>2. RankFor(n) \in Ranks /\ \A q \in Ranks : q > RankFor(n) => DiThreshold[q] > n
  BY RankForFinds
<1>3. DiThreshold[RankFor(m)] \in Nat
  BY <1>1, StatAssumption
<1>4. ASSUME RankFor(m) > RankFor(n) PROVE FALSE
  BY <1>1, <1>2, <1>3, <1>4
<1> QED BY <1>1, <1>2, <1>4 DEF Ranks

-----------------------------------------------------------------------------
(* The invariant *)

IInv == TypeOK /\ RankNotAhead

LEMMA FreeIsPost == Free \in Posts /\ Nothing \in [Ids -> Nat]
BY DEF Free, Posts, Nothing

LEMMA InitInv == Init => IInv
<1> SUFFICES ASSUME Init PROVE IInv
  OBVIOUS
<1>1. Free.newRank = None
  BY DEF Free
<1>2. TypeOK
  <2>1. 0 \in Ranks /\ 0 \in 0 .. MaxMerit
    BY StatAssumption DEF Ranks
  <2>2. posts \in [Servers -> Posts] /\ \A s \in Servers : posts[s].newRank = None
    BY <1>1, FreeIsPost DEF Init
  <2>3. deltas \in [Servers -> [Ids -> Nat]]
    BY FreeIsPost DEF Init
  <2> QED BY <2>1, <2>2, <2>3 DEF Init, TypeOK
<1>3. RankNotAhead
  <2>1. RankFor(0) \in Ranks
    BY RankForFinds
  <2> QED BY <1>1, <2>1 DEF Init, RankNotAhead, Ranks
<1> QED BY <1>2, <1>3 DEF IInv

\* What a game server does to its own tables leaves the ranks alone.
LEMMA ServerStepRanks ==
  ASSUME IInv, UNCHANGED <<posts, database>>
  PROVE  RankNotAhead'
BY DEF IInv, RankNotAhead, database

\* Freeing a post, or sending one, reads no rank.
LEMMA PostWithoutRank ==
  ASSUME IInv, NEW s \in Servers, NEW post \in Posts, post.newRank = None,
         posts' = [posts EXCEPT ![s] = post], UNCHANGED database
  PROVE  /\ posts' \in [Servers -> Posts]
         /\ \A q \in Servers : posts'[q].newRank # None => posts'[q].at # None
         /\ RankNotAhead'
<1>1. /\ posts \in [Servers -> Posts]
      /\ \A q \in Servers : posts[q].newRank # None => posts[q].at # None
  BY DEF IInv, TypeOK
<1>2. posts' \in [Servers -> Posts]
  BY <1>1
<1>3. \A q \in Servers : posts'[q] = IF q = s THEN post ELSE posts[q]
  BY <1>1
<1>4. RankNotAhead'
  BY <1>3 DEF IInv, RankNotAhead, database
<1> QED BY <1>1, <1>2, <1>3, <1>4

LEMMA RecordKeeps ==
  ASSUME IInv, NEW s \in Servers, NEW i \in Ids, Record(s, i)
  PROVE  IInv'
<1>1. deltas' \in [Servers -> [Ids -> Nat]]
  BY DEF IInv, TypeOK, Record
<1>2. earned' \in [Users -> 0 .. MaxMerit]
  <2>1. /\ earned \in [Users -> 0 .. MaxMerit] /\ MaxMerit \in Nat
        /\ i \in Users => earned[i] < MaxMerit
        /\ earned' = [u \in Users |-> IF u = i THEN earned[u] + 1 ELSE earned[u]]
    BY StatAssumption DEF IInv, TypeOK, Record
  <2> QED BY <2>1
<1>3. TypeOK'
  BY <1>1, <1>2 DEF IInv, TypeOK, Record, database
<1> QED BY <1>3, ServerStepRanks DEF IInv, Record

LEMMA GuestsKeep ==
  ASSUME IInv, NEW s \in Servers, NEW g \in Guests, MarkGuest(s, g) \/ UnmarkGuest(s, g)
  PROVE  IInv'
<1>1. TypeOK'
  BY DEF IInv, TypeOK, MarkGuest, UnmarkGuest, database
<1> QED BY <1>1, ServerStepRanks DEF IInv, MarkGuest, UnmarkGuest

LEMMA ClockKeeps ==
  ASSUME IInv, NEW s \in Servers, Tick(s) \/ ResetGame(s) \/ Restart(s)
  PROVE  IInv'
<1>1. CASE Tick(s)
  <2>1. currentTick' \in [Servers -> Nat]
    BY <1>1 DEF IInv, TypeOK, Tick
  <2>2. TypeOK'
    BY <1>1, <2>1 DEF IInv, TypeOK, Tick, database
  <2> QED BY <1>1, <2>2, ServerStepRanks DEF IInv, Tick
<1>2. CASE ResetGame(s)
  <2>1. TypeOK'
    BY <1>2 DEF IInv, TypeOK, ResetGame, database
  <2> QED BY <1>2, <2>1, ServerStepRanks DEF IInv, ResetGame
<1>3. CASE Restart(s)
  <2>1. TypeOK'
    BY <1>3, FreeIsPost DEF IInv, TypeOK, Restart, database
  <2> QED BY <1>3, <2>1, ServerStepRanks DEF IInv, Restart
<1> QED BY <1>1, <1>2, <1>3

\* The post pushStats sends.
Sent(s) == [Free EXCEPT !.phase = "sent", !.batch = Reported(s),
                        !.seconds = currentTick[s] - lastReportTick[s]]

LEMMA SentIsPost ==
  ASSUME IInv, NEW s \in Servers
  PROVE  Sent(s) \in Posts /\ Sent(s).newRank = None /\ Sent(s).batch = Reported(s)
<1>1. deltas[s] \in [Ids -> Nat] /\ currentTick[s] \in Nat /\ lastReportTick[s] \in Nat
  BY DEF IInv, TypeOK
<1>2. Reported(s) \in [Ids -> Nat]
  BY <1>1 DEF Reported
<1>3. currentTick[s] - lastReportTick[s] \in Int
  BY <1>1
<1>4. ASSUME NEW batch \in [Ids -> Nat], NEW seconds \in Int, NEW post,
             post = [Free EXCEPT !.phase = "sent", !.batch = batch, !.seconds = seconds]
      PROVE  post \in Posts /\ post.newRank = None /\ post.batch = batch
  <2>1. post = [phase |-> "sent", batch |-> batch, seconds |-> seconds,
                at |-> None, newRank |-> None]
    BY <1>4 DEF Free
  <2> QED BY <2>1 DEF Posts
<1> QED BY <1>2, <1>3, <1>4 DEF Sent

LEMMA PushKeeps ==
  ASSUME IInv, NEW s \in Servers, PushStats(s)
  PROVE  IInv'
<1>1. posts' = [posts EXCEPT ![s] = Sent(s)] /\ UNCHANGED database
  BY DEF PushStats, Sent
<1>2. Sent(s) \in Posts /\ Sent(s).newRank = None
  BY SentIsPost
<1>3. /\ posts' \in [Servers -> Posts] /\ RankNotAhead'
      /\ \A q \in Servers : posts'[q].newRank # None => posts'[q].at # None
  BY <1>1, <1>2, PostWithoutRank
<1>4. deltas' \in [Servers -> [Ids -> Nat]] /\ lastReportTick' \in [Servers -> Nat]
  BY FreeIsPost DEF IInv, TypeOK, PushStats
<1>5. TypeOK'
  BY <1>3, <1>4 DEF IInv, TypeOK, PushStats, database
<1> QED BY <1>3, <1>5 DEF IInv

\* The ends of a post.
LEMMA FreeKeeps ==
  ASSUME IInv, NEW s \in Servers, posts' = [posts EXCEPT ![s] = Free],
         mishap' \in BOOLEAN, UNCHANGED <<server, database, earned>>
  PROVE  IInv'
<1>1. Free \in Posts /\ Free.newRank = None
  BY FreeIsPost DEF Free
<1>2. /\ posts' \in [Servers -> Posts] /\ RankNotAhead'
      /\ \A q \in Servers : posts'[q].newRank # None => posts'[q].at # None
  BY <1>1, PostWithoutRank
<1>3. TypeOK'
  BY <1>2 DEF IInv, TypeOK, server, database
<1> QED BY <1>2, <1>3 DEF IInv

LEMMA AcceptKeeps ==
  ASSUME IInv, NEW s \in Servers, Accept(s)
  PROVE  IInv'
<1>1. posts \in [Servers -> Posts]
  BY DEF IInv, TypeOK
<1>2. /\ posts' \in [Servers -> Posts]
      /\ \A q \in Servers : posts'[q].at = posts[q].at /\ posts'[q].newRank = posts[q].newRank
  BY <1>1 DEF Accept, Posts
<1>3. TypeOK'
  BY <1>2 DEF IInv, TypeOK, Accept, server, database
<1>4. RankNotAhead'
  BY <1>2 DEF IInv, RankNotAhead, Accept, database
<1> QED BY <1>3, <1>4 DEF IInv

\* What Upsert does to the posts.
LEMMA UpsertPosts ==
  ASSUME IInv, NEW s \in Servers, NEW u \in Users, Upsert(s, u)
  PROVE  /\ posts' \in [Servers -> Posts]
         /\ \A q \in Servers \ {s} : posts'[q] = posts[q]
         /\ posts'[s].at = u /\ posts'[s].newRank = None /\ posts[s].newRank = None
         /\ posts'[s].batch = [posts[s].batch EXCEPT ![u] = 0]
         /\ posts[s].batch[u] \in Nat /\ posts[s].batch \in [Ids -> Nat]
<1>1. /\ posts \in [Servers -> Posts] /\ posts[s] \in Posts /\ u \in Ids
      /\ posts[s].at = None /\ posts[s].newRank = None
  BY DEF IInv, TypeOK, Upsert, Ids
<1>2. posts' = [posts EXCEPT ![s].batch[u] = 0, ![s].at = u]
  BY DEF Upsert
<1>3. posts'[s] = [[posts[s] EXCEPT !.batch[u] = 0] EXCEPT !.at = u]
  BY <1>1, <1>2
<1>4. posts[s].batch \in [Ids -> Nat]
  BY <1>1 DEF Posts
<1>5. posts'[s] \in Posts /\ posts'[s].at = u /\ posts'[s].newRank = None
      /\ posts'[s].batch = [posts[s].batch EXCEPT ![u] = 0]
  <2>1. posts'[s] = [phase |-> posts[s].phase, batch |-> [posts[s].batch EXCEPT ![u] = 0],
                     seconds |-> posts[s].seconds, at |-> u, newRank |-> posts[s].newRank]
    BY <1>1, <1>3 DEF Posts
  <2>2. [posts[s].batch EXCEPT ![u] = 0] \in [Ids -> Nat]
    BY <1>4
  <2> QED BY <1>1, <2>1, <2>2 DEF Posts
<1>6. \A q \in Servers \ {s} : posts'[q] = posts[q]
  BY <1>1, <1>2
<1>7. posts' = [q \in Servers |-> IF q = s THEN posts'[s] ELSE posts[q]]
  BY <1>1, <1>2
<1>8. posts' \in [Servers -> Posts]
  BY <1>1, <1>5, <1>7
<1> QED BY <1>1, <1>4, <1>5, <1>6, <1>8

LEMMA UpsertKeeps ==
  ASSUME IInv, NEW s \in Servers, NEW u \in Users, Upsert(s, u)
  PROVE  IInv'
<1>1. total \in [Users -> Nat] /\ posts[s].batch[u] \in Nat
  BY UpsertPosts DEF IInv, TypeOK
<1>2. total' = [total EXCEPT ![u] = @ + posts[s].batch[u]]
  BY DEF Upsert
<1>3. total' \in [Users -> Nat] /\ \A v \in Users : total[v] <= total'[v]
  BY <1>1, <1>2
<1>4. \A v \in Users : RankFor(total[v]) <= RankFor(total'[v])
                       /\ RankFor(total[v]) \in Int /\ RankFor(total'[v]) \in Int
  BY <1>1, <1>3, RankForGrows, RankForFinds DEF Ranks
<1>5. TypeOK'
  <2>1. \A q \in Servers : posts'[q].newRank # None => posts'[q].at # None
    BY UpsertPosts DEF IInv, TypeOK
  <2> QED BY <1>3, <2>1, UpsertPosts DEF IInv, TypeOK, Upsert, server
<1>6. RankNotAhead'
  <2>1. ASSUME NEW v \in Users PROVE rank'[v] <= RankFor(total'[v])
    <3>1. rank' = rank /\ rank[v] \in Int /\ rank[v] <= RankFor(total[v])
      BY DEF IInv, TypeOK, RankNotAhead, Ranks, Upsert
    <3> QED BY <3>1, <1>4
  <2>2. ASSUME NEW q \in Servers, posts'[q].newRank # None
        PROVE  posts'[q].newRank <= RankFor(total'[posts'[q].at])
    <3>1. q # s /\ posts'[q] = posts[q]
      BY <2>2, UpsertPosts
    <3>2. posts[q] \in Posts /\ posts[q].at # None
      BY <2>2, <3>1 DEF IInv, TypeOK
    <3>3. posts[q].at \in Users /\ posts[q].newRank \in Ranks
      BY <2>2, <3>1, <3>2 DEF Posts
    <3>4. posts[q].newRank <= RankFor(total[posts[q].at])
      BY <2>2, <3>1 DEF IInv, RankNotAhead
    <3> QED BY <3>1, <3>3, <3>4, <1>4 DEF Ranks
  <2> QED BY <2>1, <2>2 DEF RankNotAhead
<1> QED BY <1>5, <1>6 DEF IInv

\* A post whose user and rank change, and nothing else of it.
LEMMA AskKeeps ==
  ASSUME IInv, NEW s \in Servers, NEW post \in Posts, posts' = [posts EXCEPT ![s] = post],
         rank' \in [Users -> Ranks], \A v \in Users : rank'[v] <= RankFor(total[v]),
         post.newRank # None => post.at # None /\ post.newRank <= RankFor(total[post.at]),
         UNCHANGED <<server, total, earned, mishap>>
  PROVE  IInv'
<1>1. posts \in [Servers -> Posts]
  BY DEF IInv, TypeOK
<1>2. posts' \in [Servers -> Posts] /\ \A q \in Servers : posts'[q] = IF q = s THEN post ELSE posts[q]
  BY <1>1
<1>3. TypeOK'
  BY <1>2 DEF IInv, TypeOK, server
<1>4. RankNotAhead'
  BY <1>2 DEF IInv, RankNotAhead
<1> QED BY <1>3, <1>4 DEF IInv

LEMMA ReadRankKeeps ==
  ASSUME IInv, NEW s \in Servers, ReadRank(s)
  PROVE  IInv'
<1> DEFINE r == RankFor(total[posts[s].at])
           post == IF r = rank[posts[s].at] THEN [posts[s] EXCEPT !.at = None]
                                            ELSE [posts[s] EXCEPT !.newRank = r]
<1>1. posts[s] \in Posts /\ posts[s].at # None /\ posts[s].newRank = None
  BY DEF IInv, TypeOK, ReadRank
<1>2. posts[s].at \in Users
  BY <1>1 DEF Posts
<1>3. r \in Ranks
  <2>1. total[posts[s].at] \in Nat
    BY <1>2 DEF IInv, TypeOK
  <2> QED BY <2>1, RankForFinds
<1> HIDE DEF r
<1>4. post \in Posts /\ (post.newRank # None => post.at = posts[s].at /\ post.newRank = r)
  BY <1>1, <1>3 DEF Posts
<1>5. posts' = [posts EXCEPT ![s] = post]
  BY DEF ReadRank, r
<1>6. post.newRank # None => post.at # None /\ post.newRank <= RankFor(total[post.at])
  BY <1>1, <1>3, <1>4 DEF r, Ranks
<1>7. UNCHANGED <<server, database, earned, mishap>>
  BY DEF ReadRank
<1>8. rank' \in [Users -> Ranks] /\ \A v \in Users : rank'[v] <= RankFor(total[v])
  BY <1>7 DEF IInv, TypeOK, RankNotAhead, database
<1> HIDE DEF post
<1> QED BY <1>4, <1>5, <1>6, <1>7, <1>8, AskKeeps DEF database

LEMMA WriteRankKeeps ==
  ASSUME IInv, NEW s \in Servers, WriteRank(s)
  PROVE  IInv'
<1> DEFINE post == [posts[s] EXCEPT !.at = None, !.newRank = None]
<1>1. posts[s] \in Posts /\ posts[s].newRank # None /\ posts[s].at # None
  BY DEF IInv, TypeOK, WriteRank
<1>2. posts[s].at \in Users /\ posts[s].newRank \in Ranks
      /\ posts[s].newRank <= RankFor(total[posts[s].at])
  BY <1>1 DEF Posts, IInv, RankNotAhead
<1>3. post \in Posts /\ post.newRank = None
  BY <1>1 DEF Posts
<1>4. posts' = [posts EXCEPT ![s] = post]
  BY DEF WriteRank, IInv, TypeOK
<1>5. rank' \in [Users -> Ranks] /\ \A v \in Users : rank'[v] <= RankFor(total[v])
  BY <1>2 DEF IInv, TypeOK, RankNotAhead, WriteRank
<1> HIDE DEF post
<1> QED BY <1>3, <1>4, <1>5, AskKeeps DEF WriteRank

LEMMA PostStepKeeps ==
  ASSUME IInv, NEW s \in Servers, PostStep(s)
  PROVE  IInv'
<1>1. CASE Lose(s) \/ Reject(s) \/ FinishIngest(s) \/ IngestFails(s)
  <2>1. mishap' \in BOOLEAN
    BY <1>1 DEF Lose, Reject, FinishIngest, IngestFails, IInv, TypeOK
  <2> QED BY <1>1, <2>1, FreeKeeps DEF Lose, Reject, FinishIngest, IngestFails
<1>2. CASE \E i \in Ids : RefuseUnknown(s, i)
  <2>1. posts' = [posts EXCEPT ![s] = Free] /\ mishap' \in BOOLEAN
        /\ UNCHANGED <<server, database, earned>>
    BY <1>2 DEF RefuseUnknown
  <2> QED BY <2>1, FreeKeeps
<1>3. CASE \E u \in Users : Upsert(s, u)
  BY <1>3, UpsertKeeps
<1> QED BY <1>1, <1>2, <1>3, AcceptKeeps, ReadRankKeeps, WriteRankKeeps DEF PostStep

LEMMA NextKeeps == IInv /\ [Next]_vars => IInv'
<1> SUFFICES ASSUME IInv, [Next]_vars PROVE IInv'
  OBVIOUS
<1>1. CASE UNCHANGED vars
  BY <1>1 DEF vars, server, database, IInv, TypeOK, RankNotAhead
<1>2. CASE Next
  <2>1. PICK s \in Servers :
          \/ \E i \in Users \cup Strangers[s] : Record(s, i)
          \/ \E g \in Guests : MarkGuest(s, g) \/ UnmarkGuest(s, g)
          \/ Tick(s) \/ ResetGame(s) \/ Restart(s)
          \/ PushStats(s)
          \/ PostStep(s)
    BY <1>2 DEF Next
  <2>2. Users \cup Strangers[s] \subseteq Ids
    BY StatAssumption DEF Ids
  <2>3. CASE \E i \in Users \cup Strangers[s] : Record(s, i)
    BY <2>2, <2>3, RecordKeeps
  <2>4. CASE \E g \in Guests : MarkGuest(s, g) \/ UnmarkGuest(s, g)
    BY <2>4, GuestsKeep
  <2> QED BY <2>1, <2>3, <2>4, ClockKeeps, PushKeeps, PostStepKeeps
<1> QED BY <1>1, <1>2

LEMMA Invariance == Spec => []IInv
<1>1. Init => IInv
  BY InitInv
<1>2. IInv /\ [Next]_vars => IInv'
  BY NextKeeps
<1> QED BY <1>1, <1>2, PTL DEF Spec

-----------------------------------------------------------------------------
(* Merit is counted at most once *)

\* A step in which every server but s keeps its tables is a Drop of s, if the
\* merit pending there does not grow.
LEMMA DropStep ==
  ASSUME IInv, IInv', NEW s \in Servers,
         \A q \in Servers \ {s} : deltas'[q] = deltas[q] /\ posts'[q].batch = posts[q].batch,
         \A u \in Users : Pending'[s][u] <= Pending[s][u],
         UNCHANGED <<earned, total>>
  PROVE  T!Drop(s)
<1>1. \A q \in Servers : \A u \in Users : Pending[q][u] \in Nat /\ Pending'[q][u] \in Nat
  <2>1. ASSUME NEW q \in Servers, NEW u \in Users
        PROVE  /\ deltas[q][u] \in Nat /\ posts[q].batch[u] \in Nat
               /\ deltas'[q][u] \in Nat /\ posts'[q].batch[u] \in Nat
    BY DEF IInv, TypeOK, Posts, Ids
  <2> QED BY <2>1 DEF Pending
<1>2. Pending' = [Pending EXCEPT ![s] = Pending'[s]]
  BY DEF Pending
<1>3. \A u \in Users : Pending'[s][u] \in 0 .. Pending[s][u]
  BY <1>1
<1> QED BY <1>2, <1>3 DEF T!Drop

\* A step that moves no merit is a stutter of Tally.
LEMMA StutterStep ==
  ASSUME UNCHANGED <<earned, total>>, UNCHANGED Pending
  PROVE  UNCHANGED T!vars
BY DEF T!vars

\* One entry of a table of tables changes.
LEMMA EntryChange ==
  ASSUME NEW P \in [Servers -> [Users -> Nat]], NEW Q \in [Servers -> [Users -> Nat]],
         NEW s \in Servers, NEW u \in Users, NEW n \in Nat, Q[s][u] = n,
         \A q \in Servers : \A v \in Users : q # s \/ v # u => Q[q][v] = P[q][v]
  PROVE  Q = [P EXCEPT ![s][u] = n]
<1>1. \A q \in Servers : P[q] \in [Users -> Nat] /\ Q[q] \in [Users -> Nat]
  OBVIOUS
<1>2. ASSUME NEW q \in Servers \ {s} PROVE Q[q] = P[q]
  <2>1. \A v \in Users : Q[q][v] = P[q][v]
    OBVIOUS
  <2> QED BY <1>1, <2>1
<1>3. Q[s] = [P[s] EXCEPT ![u] = n]
  BY <1>1
<1>4. Q = [P EXCEPT ![s] = [P[s] EXCEPT ![u] = n]]
  BY <1>2, <1>3
<1> QED BY <1>4

LEMMA PendingTyped == IInv => Pending \in [Servers -> [Users -> Nat]]
<1> SUFFICES ASSUME IInv PROVE Pending \in [Servers -> [Users -> Nat]]
  OBVIOUS
<1>1. ASSUME NEW q \in Servers, NEW u \in Users
      PROVE  deltas[q][u] \in Nat /\ posts[q].batch[u] \in Nat
  BY DEF IInv, TypeOK, Posts, Ids
<1> QED BY <1>1 DEF Pending

LEMMA RecordImplements ==
  ASSUME IInv, IInv', NEW s \in Servers, NEW i \in Ids, Record(s, i)
  PROVE  [T!Next]_(T!vars)
<1>0. deltas \in [Servers -> [Ids -> Nat]] /\ posts \in [Servers -> Posts]
  BY DEF IInv, TypeOK
<1>1. deltas' = [deltas EXCEPT ![s][i] = @ + 1] /\ posts' = posts /\ total' = total
      /\ earned' = [u \in Users |-> IF u = i THEN earned[u] + 1 ELSE earned[u]]
  BY DEF Record, database
<1>5. \A q \in Servers : \A u \in Users :
        posts[q].batch[u] \in Nat /\ u \in Ids /\ deltas[q][u] \in Nat
  BY <1>0 DEF Posts, Ids
<1>2. \A q \in Servers : \A u \in Users :
        deltas'[q][u] = IF q = s /\ u = i THEN deltas[q][u] + 1 ELSE deltas[q][u]
  BY <1>0, <1>1, <1>5
<1>3. CASE i \in Users
  <2>1. Pending'[s][i] = Pending[s][i] + 1
    <3>1. deltas'[s][i] = deltas[s][i] + 1 /\ deltas[s][i] \in Nat /\ posts[s].batch[i] \in Nat
      BY <1>2, <1>3, <1>5
    <3>2. Pending[s][i] = deltas[s][i] + posts[s].batch[i]
          /\ Pending'[s][i] = deltas'[s][i] + posts[s].batch[i]
      BY <1>1, <1>3 DEF Pending
    <3> QED BY <3>1, <3>2
  <2>5. ASSUME NEW q \in Servers, NEW u \in Users, q # s \/ u # i
        PROVE  Pending'[q][u] = Pending[q][u]
    BY <1>1, <1>2, <2>5 DEF Pending
  <2>2. Pending' = [Pending EXCEPT ![s][i] = @ + 1]
    <3>1. /\ Pending \in [Servers -> [Users -> Nat]]
          /\ Pending' \in [Servers -> [Users -> Nat]]
      BY PendingTyped DEF IInv, TypeOK, Pending, Posts, Ids
    <3>2. Pending[s][i] + 1 \in Nat
      BY <3>1, <1>3
    <3> QED BY <3>1, <3>2, <2>1, <2>5, <1>3, EntryChange
  <2>3. earned' = [earned EXCEPT ![i] = @ + 1]
    BY <1>1, <1>3 DEF IInv, TypeOK
  <2>4. T!Earn(s, i)
    BY <2>2, <2>3, <1>1 DEF T!Earn
  <2> QED BY <2>4, <1>3 DEF T!Next
<1>4. CASE i \notin Users
  <2>1. Pending' = Pending
    BY <1>1, <1>2, <1>4 DEF Pending
  <2>2. earned' = earned
    BY <1>1, <1>4 DEF IInv, TypeOK
  <2> QED BY <2>1, <2>2, <1>1, StutterStep
<1> QED BY <1>3, <1>4

\* pushStats hands the deltas to the post: nothing of a user's is lost, since
\* only guests are filtered, and nothing stays behind to be sent again.
LEMMA PushImplements ==
  ASSUME IInv, IInv', NEW s \in Servers, PushStats(s)
  PROVE  T!Drop(s)
<1>1. /\ posts' = [posts EXCEPT ![s] = Sent(s)]
      /\ deltas' = [deltas EXCEPT ![s] = Nothing]
      /\ UNCHANGED <<earned, total>>
  BY DEF PushStats, Sent, database
<1>2. posts \in [Servers -> Posts] /\ deltas \in [Servers -> [Ids -> Nat]]
  BY DEF IInv, TypeOK
<1>3. posts'[s].batch = Reported(s) /\ deltas'[s] = Nothing
  BY <1>1, <1>2, SentIsPost
<1>4. ASSUME NEW u \in Users PROVE Pending'[s][u] <= Pending[s][u]
  <2>1. u \in Ids /\ deltas[s][u] \in Nat /\ posts[s].batch[u] \in Nat
    BY <1>2 DEF Ids, Posts
  <2>2. deltas'[s][u] = 0 /\ posts'[s].batch[u] \in {0, deltas[s][u]}
    BY <1>3, <2>1 DEF Nothing, Reported
  <2> QED BY <2>1, <2>2 DEF Pending
<1>5. \A q \in Servers \ {s} : deltas'[q] = deltas[q] /\ posts'[q].batch = posts[q].batch
  BY <1>1, <1>2
<1> QED BY <1>1, <1>4, <1>5, DropStep

LEMMA RestartImplements ==
  ASSUME IInv, IInv', NEW s \in Servers, Restart(s)
  PROVE  T!Drop(s)
<1>1. deltas' = [deltas EXCEPT ![s] = Nothing] /\ UNCHANGED <<posts, earned, total>>
      /\ deltas \in [Servers -> [Ids -> Nat]] /\ posts[s] \in Posts
  BY DEF Restart, database, IInv, TypeOK
<1>2. \A u \in Users : u \in Ids /\ deltas[s][u] \in Nat /\ posts[s].batch[u] \in Nat
                       /\ deltas'[s][u] = 0
  BY <1>1 DEF Ids, Posts, Nothing
<1>3. \A u \in Users : Pending'[s][u] <= Pending[s][u]
  BY <1>1, <1>2 DEF Pending
<1> QED BY <1>1, <1>3, DropStep

LEMMA FreeImplements ==
  ASSUME IInv, IInv', NEW s \in Servers, posts' = [posts EXCEPT ![s] = Free],
         UNCHANGED <<deltas, earned, total>>
  PROVE  T!Drop(s)
<1>1. posts \in [Servers -> Posts] /\ posts'[s].batch = Nothing
  BY DEF IInv, TypeOK, Free
<1>2. ASSUME NEW u \in Users PROVE Pending'[s][u] <= Pending[s][u]
  <2>1. u \in Ids /\ deltas[s][u] \in Nat /\ posts[s].batch[u] \in Nat /\ posts'[s].batch[u] = 0
    BY <1>1 DEF IInv, TypeOK, Ids, Posts, Nothing
  <2> QED BY <2>1 DEF Pending
<1>3. \A q \in Servers \ {s} : deltas'[q] = deltas[q] /\ posts'[q].batch = posts[q].batch
  BY <1>1
<1> QED BY <1>2, <1>3, DropStep

\* The upsert counts what the batch has of the user, and takes it out of it.
LEMMA UpsertImplements ==
  ASSUME IInv, IInv', NEW s \in Servers, NEW u \in Users, Upsert(s, u)
  PROVE  T!Count(s, u)
<1> DEFINE n == posts[s].batch[u]
<1>1. /\ n \in Nat /\ n > 0 /\ UNCHANGED <<deltas, earned>>
      /\ total' = [total EXCEPT ![u] = @ + n]
      /\ deltas \in [Servers -> [Ids -> Nat]] /\ posts \in [Servers -> Posts]
      /\ Users \subseteq Ids
  BY UpsertPosts DEF Upsert, server, IInv, TypeOK, Ids
<1>2. \A q \in Servers : \A v \in Users :
        posts'[q].batch[v] = IF q = s /\ v = u THEN 0 ELSE posts[q].batch[v]
  <2>1. ASSUME NEW v \in Users
        PROVE  posts'[s].batch[v] = IF v = u THEN 0 ELSE posts[s].batch[v]
    <3>1. /\ posts'[s].batch = [posts[s].batch EXCEPT ![u] = 0]
          /\ posts[s].batch \in [Ids -> Nat] /\ v \in Ids /\ u \in Ids
      BY <1>1, UpsertPosts
    <3> QED BY <3>1
  <2>2. \A q \in Servers \ {s} : posts'[q] = posts[q]
    BY UpsertPosts
  <2> QED BY <2>1, <2>2
<1>3. \A q \in Servers : \A v \in Users : deltas[q][v] \in Nat /\ posts[q].batch[v] \in Nat
  BY <1>1 DEF Posts
<1>4. \A q \in Servers : \A v \in Users :
        Pending'[q][v] = IF q = s /\ v = u THEN Pending[q][v] - n ELSE Pending[q][v]
  BY <1>1, <1>2, <1>3 DEF Pending
<1>6. n \in 1 .. Pending[s][u]
  BY <1>1, <1>3 DEF Pending
<1>5. Pending' = [Pending EXCEPT ![s][u] = @ - n]
  <2>1. Pending \in [Servers -> [Users -> Nat]] /\ Pending' \in [Servers -> [Users -> Nat]]
    BY PendingTyped DEF IInv, TypeOK, Pending, Posts, Ids
  <2>2. Pending'[s][u] = Pending[s][u] - n /\ Pending'[s][u] \in Nat
    BY <1>4, <2>1
  <2>3. \A q \in Servers : \A v \in Users : q # s \/ v # u => Pending'[q][v] = Pending[q][v]
    BY <1>4
  <2> QED BY <2>1, <2>2, <2>3, EntryChange
<1> HIDE DEF n
<1> QED BY <1>1, <1>5, <1>6 DEF T!Count

LEMMA AskImplements ==
  ASSUME IInv, NEW s \in Servers, Accept(s) \/ ReadRank(s) \/ WriteRank(s)
  PROVE  UNCHANGED <<Pending, earned, total>>
<1>1. posts \in [Servers -> Posts]
  BY DEF IInv, TypeOK
<1>2. UNCHANGED <<deltas, earned, total>>
  BY DEF Accept, ReadRank, WriteRank, server, database
<1>3. \A q \in Servers : posts'[q].batch = posts[q].batch
  <2>1. CASE Accept(s)
    <3>1. posts' = [posts EXCEPT ![s].phase = "ingest"]
      BY <2>1 DEF Accept
    <3> QED BY <1>1, <3>1 DEF Posts
  <2>2. CASE ReadRank(s) \/ WriteRank(s)
    BY <1>1, <2>2 DEF ReadRank, WriteRank, Posts
  <2> QED BY <2>1, <2>2
<1> QED BY <1>2, <1>3 DEF Pending

LEMMA StepImplements ==
  ASSUME IInv, IInv', [Next]_vars
  PROVE  [T!Next]_(T!vars)
<1>1. CASE UNCHANGED vars
  BY <1>1, StutterStep DEF vars, server, database, Pending
<1>2. CASE Next
  <2>1. PICK s \in Servers :
          \/ \E i \in Users \cup Strangers[s] : Record(s, i)
          \/ \E g \in Guests : MarkGuest(s, g) \/ UnmarkGuest(s, g)
          \/ Tick(s) \/ ResetGame(s) \/ Restart(s)
          \/ PushStats(s)
          \/ PostStep(s)
    BY <1>2 DEF Next
  <2>2. Users \cup Strangers[s] \subseteq Ids
    BY StatAssumption DEF Ids
  <2>3. CASE \E i \in Users \cup Strangers[s] : Record(s, i)
    BY <2>2, <2>3, RecordImplements
  <2>4. CASE (\E g \in Guests : MarkGuest(s, g) \/ UnmarkGuest(s, g)) \/ Tick(s) \/ ResetGame(s)
    <3>1. UNCHANGED <<deltas, posts, earned, total>>
      BY <2>4 DEF MarkGuest, UnmarkGuest, Tick, ResetGame, database
    <3> QED BY <3>1, StutterStep DEF Pending
  <2>5. CASE Restart(s) \/ PushStats(s)
    BY <2>5, RestartImplements, PushImplements DEF T!Next
  <2>6. CASE PostStep(s)
    <3>1. CASE Lose(s) \/ Reject(s) \/ FinishIngest(s) \/ IngestFails(s)
               \/ \E i \in Ids : RefuseUnknown(s, i)
      <4>1. posts' = [posts EXCEPT ![s] = Free] /\ UNCHANGED <<deltas, earned, total>>
        BY <3>1 DEF Lose, Reject, FinishIngest, IngestFails, RefuseUnknown, server, database
      <4> QED BY <4>1, FreeImplements DEF T!Next
    <3>2. CASE \E u \in Users : Upsert(s, u)
      BY <3>2, UpsertImplements DEF T!Next
    <3>3. CASE Accept(s) \/ ReadRank(s) \/ WriteRank(s)
      BY <3>3, AskImplements, StutterStep
    <3> QED BY <2>6, <3>1, <3>2, <3>3 DEF PostStep
  <2> QED BY <2>1, <2>3, <2>4, <2>5, <2>6
<1> QED BY <1>1, <1>2

-----------------------------------------------------------------------------
(* The results *)

\* Every reachable state of the pipeline is well typed; no ingest writes a
\* rank it has not read for the player it writes it to.
THEOREM TypeCorrect == Spec => []TypeOK
<1>1. IInv => TypeOK
  BY DEF IInv
<1> QED BY <1>1, Invariance, PTL

\* However ingests of one player interleave, his rank in the data base is one
\* his totals justify.
THEOREM RankJustified == Spec => []RankNotAhead
<1>1. IInv => RankNotAhead
  BY DEF IInv
<1> QED BY <1>1, Invariance, PTL

\* The pipeline implements Tally: with posts lost, refused or broken off at
\* any call, no merit reaches the data base twice.
THEOREM AtMostOnce == Spec => CountsAtMostOnce
<1>1. Init => T!Init
  <2>1. ASSUME Init PROVE Pending = [s \in Servers |-> [u \in Users |-> 0]]
    <3>1. \A s \in Servers : \A u \in Users : deltas[s][u] = 0 /\ posts[s].batch[u] = 0
      BY <2>1 DEF Init, Nothing, Free, Ids
    <3> QED BY <3>1 DEF Pending
  <2> QED BY <2>1 DEF Init, T!Init
<1>2. IInv /\ IInv' /\ [Next]_vars => [T!Next]_(T!vars)
  BY StepImplements
<1> QED BY <1>1, <1>2, Invariance, PTL DEF Spec, CountsAtMostOnce, T!Spec
=============================================================================
