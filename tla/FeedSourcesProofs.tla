------------------------- MODULE FeedSourcesProofs -------------------------
(* The graph's properties agree with its edges, whatever statements are sent, *)
(* alone and beside fan-out, promotion and any number of requests; and no    *)
(* request misses a delivered post without a reason.  The lemmas about the   *)
(* tiers are those of FanoutProofs.                                          *)
EXTENDS FeedSources, FanoutProofs, FiniteSetTheorems, WellFoundedInduction, TLAPS

-----------------------------------------------------------------------------
(* The Cypher statements alone, over any set of users                       *)

\* The followers of a user are finitely many: their number is a natural number.
LEMMA FollowersFinite ==
    ASSUME GraphConstants, NEW edges, NEW a
    PROVE  /\ IsFiniteSet(FollowersIn(edges, a))
           /\ Cardinality(FollowersIn(edges, a)) \in Nat
<1>1. FollowersIn(edges, a) \subseteq Readers \cup Authors
  BY DEF FollowersIn
<1> QED
  BY <1>1, FS_Subset, FS_CardinalityType DEF GraphConstants

\* A new edge is one follower more for its end, and nothing for anybody else.
LEMMA EdgeAdded ==
    ASSUME GraphConstants, NEW edges, NEW u \in Readers \cup Authors, NEW a, <<u, a>> \notin edges
    PROVE  /\ Cardinality(FollowersIn(edges \cup {<<u, a>>}, a))
                = Cardinality(FollowersIn(edges, a)) + 1
           /\ \A b : b # a => FollowersIn(edges \cup {<<u, a>>}, b) = FollowersIn(edges, b)
<1>1. FollowersIn(edges \cup {<<u, a>>}, a) = FollowersIn(edges, a) \cup {u}
  BY DEF FollowersIn
<1>2. u \notin FollowersIn(edges, a)
  BY DEF FollowersIn
<1>3. \A b : b # a => FollowersIn(edges \cup {<<u, a>>}, b) = FollowersIn(edges, b)
  BY DEF FollowersIn
<1> QED
  BY <1>1, <1>2, <1>3, FollowersFinite, FS_AddElement

\* An edge less is one follower less.
LEMMA EdgeRemoved ==
    ASSUME GraphConstants, NEW edges, NEW u \in Readers \cup Authors, NEW a, <<u, a>> \in edges
    PROVE  /\ Cardinality(FollowersIn(edges \ {<<u, a>>}, a))
                = Cardinality(FollowersIn(edges, a)) - 1
           /\ Cardinality(FollowersIn(edges, a)) > 0
           /\ \A b : b # a => FollowersIn(edges \ {<<u, a>>}, b) = FollowersIn(edges, b)
<1>1. FollowersIn(edges \ {<<u, a>>}, a) = FollowersIn(edges, a) \ {u}
  BY DEF FollowersIn
<1>2. u \in FollowersIn(edges, a)
  BY DEF FollowersIn
<1>3. \A b : b # a => FollowersIn(edges \ {<<u, a>>}, b) = FollowersIn(edges, b)
  BY DEF FollowersIn
<1>4. Cardinality(FollowersIn(edges, a) \ {u}) = Cardinality(FollowersIn(edges, a)) - 1
  BY <1>2, FollowersFinite, FS_RemoveElement
<1>5. Cardinality(FollowersIn(edges, a)) > 0
  <2>1. Cardinality(FollowersIn(edges, a)) # 0
    BY <1>2, FollowersFinite, FS_EmptySet
  <2>2. Cardinality(FollowersIn(edges, a)) \in Nat
    BY FollowersFinite
  <2> QED
    BY <2>1, <2>2
<1> QED
  BY <1>1, <1>3, <1>4, <1>5

\* The invariant: a node that does not exist yet has no edges either.
GraphInv == GraphTypeOK /\ CountIsDegree

LEMMA GraphInvInit == GraphInit => GraphInv
<1> SUFFICES ASSUME GraphInit PROVE GraphInv
  OBVIOUS
<1> QED
  BY DEF GraphInit, GraphInv, GraphTypeOK, CountIsDegree

LEMMA EnsureUserNodeKeeps ==
    ASSUME GraphConstants, GraphInv, NEW u \in Readers \cup Authors, EnsureUserNode(u)
    PROVE  GraphInv'
<1>1. GraphTypeOK'
  BY DEF GraphInv, GraphTypeOK, EnsureUserNode
<1>2. ASSUME NEW a \in nodes'
      PROVE  /\ followerCount'[a] = Cardinality(FollowersIn(follows', a))
             /\ isCelebrity'[a] <=> followerCount'[a] > CelebrityCutoff
  <2> a \in Readers \cup Authors /\ follows' = follows /\ follows \subseteq nodes \X nodes
    BY <1>1 DEF GraphInv, GraphTypeOK, EnsureUserNode
  <2>1. CASE a \in nodes
    <3>1. followerCount'[a] = followerCount[a] /\ isCelebrity'[a] = isCelebrity[a]
      BY <2>1 DEF GraphInv, GraphTypeOK, EnsureUserNode
    <3> QED
      BY <2>1, <3>1 DEF GraphInv, CountIsDegree
  <2>2. CASE a \notin nodes
    <3>1. a = u /\ followerCount'[a] = 0 /\ isCelebrity'[a] = FALSE
      BY <2>2 DEF GraphInv, GraphTypeOK, EnsureUserNode
    <3>2. FollowersIn(follows, a) = {}
      BY <2>2 DEF FollowersIn
    <3> QED
      BY <3>1, <3>2, FS_EmptySet DEF GraphConstants
  <2> QED
    BY <2>1, <2>2
<1> QED
  BY <1>1, <1>2 DEF GraphInv, CountIsDegree

LEMMA MergeFollowKeeps ==
    ASSUME GraphConstants, GraphInv, NEW u \in Readers \cup Authors, NEW a \in Readers \cup Authors, MergeFollow(u, a)
    PROVE  GraphInv'
<1>1. GraphTypeOK'
  BY DEF GraphInv, GraphTypeOK, MergeFollow
<1>2. ASSUME NEW b \in nodes'
      PROVE  /\ followerCount'[b] = Cardinality(FollowersIn(follows', b))
             /\ isCelebrity'[b] <=> followerCount'[b] > CelebrityCutoff
  <2> b \in nodes /\ b \in Readers \cup Authors /\ follows' = follows \cup {<<u, a>>}
    BY DEF GraphInv, GraphTypeOK, MergeFollow
  <2>0. /\ followerCount[b] = Cardinality(FollowersIn(follows, b))
        /\ isCelebrity[b] <=> followerCount[b] > CelebrityCutoff
    BY DEF GraphInv, CountIsDegree
  <2>1. CASE b # a
    <3>1. followerCount'[b] = followerCount[b] /\ isCelebrity'[b] = isCelebrity[b]
      BY <2>1 DEF GraphInv, GraphTypeOK, MergeFollow
    <3>2. FollowersIn(follows', b) = FollowersIn(follows, b)
      BY <2>1 DEF FollowersIn
    <3> QED
      BY <2>0, <3>1, <3>2
  <2>2. CASE b = a
    <3>1. isCelebrity'[b] <=> followerCount'[b] > CelebrityCutoff
      BY <2>2 DEF GraphInv, GraphTypeOK, MergeFollow
    <3>2. CASE <<u, a>> \in follows
      <4>1. follows' = follows /\ followerCount'[b] = followerCount[b]
        BY <2>2, <3>2 DEF GraphInv, GraphTypeOK, MergeFollow
      <4> QED
        BY <2>0, <3>1, <4>1
    <3>3. CASE <<u, a>> \notin follows
      <4>1. followerCount'[b] = followerCount[b] + 1
        BY <2>2, <3>3 DEF GraphInv, GraphTypeOK, MergeFollow
      <4> QED
        BY <2>0, <2>2, <3>1, <3>3, <4>1, EdgeAdded
    <3> QED
      BY <3>2, <3>3
  <2> QED
    BY <2>1, <2>2
<1> QED
  BY <1>1, <1>2 DEF GraphInv, CountIsDegree

LEMMA DeleteFollowKeeps ==
    ASSUME GraphConstants, GraphInv, NEW u \in Readers \cup Authors, NEW a \in Readers \cup Authors, DeleteFollow(u, a)
    PROVE  GraphInv'
<1>1. GraphTypeOK'
  <2>1. followerCount[a] \in Nat
    BY DEF GraphInv, GraphTypeOK
  <2>2. (IF followerCount[a] > 0 THEN followerCount[a] - 1 ELSE 0) \in Nat
    BY <2>1
  <2> QED
    BY <2>2 DEF GraphInv, GraphTypeOK, DeleteFollow
<1>2. ASSUME NEW b \in nodes'
      PROVE  /\ followerCount'[b] = Cardinality(FollowersIn(follows', b))
             /\ isCelebrity'[b] <=> followerCount'[b] > CelebrityCutoff
  <2> b \in nodes /\ b \in Readers \cup Authors /\ follows' = follows \ {<<u, a>>} /\ <<u, a>> \in follows
    BY DEF GraphInv, GraphTypeOK, DeleteFollow
  <2>0. /\ followerCount[b] = Cardinality(FollowersIn(follows, b))
        /\ isCelebrity[b] <=> followerCount[b] > CelebrityCutoff
    BY DEF GraphInv, CountIsDegree
  <2>1. CASE b # a
    <3>1. followerCount'[b] = followerCount[b] /\ isCelebrity'[b] = isCelebrity[b]
      BY <2>1 DEF GraphInv, GraphTypeOK, DeleteFollow
    <3>2. FollowersIn(follows', b) = FollowersIn(follows, b)
      BY <2>1 DEF FollowersIn
    <3> QED
      BY <2>0, <3>1, <3>2
  <2>2. CASE b = a
    <3>1. isCelebrity'[b] <=> followerCount'[b] > CelebrityCutoff
      BY <2>2 DEF GraphInv, GraphTypeOK, DeleteFollow
    <3>2. followerCount[b] > 0
          /\ Cardinality(FollowersIn(follows', b)) = followerCount[b] - 1
      BY <2>0, <2>2, EdgeRemoved
    <3>3. followerCount'[b] = followerCount[b] - 1
      BY <2>2, <3>2 DEF GraphInv, GraphTypeOK, DeleteFollow
    <3> QED
      BY <3>1, <3>2, <3>3
  <2> QED
    BY <2>1, <2>2
<1> QED
  BY <1>1, <1>2 DEF GraphInv, CountIsDegree

\* Whatever signups, follows and unfollows are sent, repeated or refused, a
\* node's followerCount is the number of edges that end in it and isCelebrity
\* says whether that is above the cutoff: what the fan-out and the feed read
\* instead of the edges is never stale.
THEOREM CountsAreDegrees == GraphSpec => []CountIsDegree
<1>1. GraphInit => GraphInv
  BY GraphInvInit
<1>2. GraphInv /\ [GraphNext]_graph => GraphInv'
  <2> SUFFICES ASSUME GraphInv, [GraphNext]_graph PROVE GraphInv'
    OBVIOUS
  <2>1. CASE GraphNext
    BY <2>1, GraphAssumption, EnsureUserNodeKeeps, MergeFollowKeeps, DeleteFollowKeeps DEF GraphNext
  <2>2. CASE UNCHANGED graph
    BY <2>2 DEF graph, GraphInv, GraphTypeOK, CountIsDegree
  <2> QED
    BY <2>1, <2>2
<1>3. GraphInv => CountIsDegree
  BY DEF GraphInv
<1> QED
  BY <1>1, <1>2, <1>3, PTL DEF GraphSpec

-----------------------------------------------------------------------------
(* Beside posts, promotions and requests                                    *)

\* The graph a database may hold when the system starts.
LEMMA SourcesInitGraph == SourcesInit => GraphInv
<1> SUFFICES ASSUME SourcesInit PROVE GraphInv
  OBVIOUS
<1>1. \A a : Cardinality(FollowersIn(follows, a)) \in Nat
  BY GraphAssumption, FollowersFinite
<1>2. GraphTypeOK
  BY <1>1 DEF SourcesInit, GraphTypeOK
<1>3. CountIsDegree
  BY <1>2 DEF SourcesInit, CountIsDegree, GraphTypeOK
<1> QED
  BY <1>2, <1>3 DEF GraphInv

\* A step that leaves nodes, edges and their properties alone.
LEMMA GraphUntouched ==
    ASSUME GraphInv, UNCHANGED <<graphFields, follows>>
    PROVE  GraphInv'
BY DEF graphFields, GraphInv, GraphTypeOK, CountIsDegree, FollowersIn

\* No step of the worker, of CreatePost or of the clock writes an edge.
LEMMA WorkerLeavesEdges == PostsAndWorker => UNCHANGED follows
<1> SUFFICES ASSUME PostsAndWorker PROVE follows' = follows
  OBVIOUS
<1>1. CASE \E a \in Authors : InsertPost(a)
  BY <1>1 DEF InsertPost, graphVars
<1>2. CASE \E p \in Posts : PublishPost(p) \/ PublishFails(p)
  BY <1>2 DEF PublishPost, PublishFails, graphVars
<1>3. CASE \E u \in Readers : ActivityLapses(u)
  BY <1>3 DEF ActivityLapses
<1>4. CASE Poll \/ CommitSync \/ \E x \in Partitions : TakeRecord(x)
  BY <1>4 DEF Poll, CommitSync, TakeRecord, graphVars
<1>5. CASE Handle
  BY <1>5 DEF Handle, CheckCelebrity, PushToCelebrityOutbox, GetFollowers, NoFollowers,
              FilterActive, PushToInbox, TrimInbox, BeginAppends, AppendToColdTier,
              AppendSwallowed, FinishFanout, RecordFails, FinishRecord, graphVars
<1>6. CASE Restart \/ DeadlinePasses
  BY <1>6 DEF Restart, DeadlinePasses, graphVars
<1> QED
  BY <1>1, <1>2, <1>3, <1>4, <1>5, <1>6 DEF PostsAndWorker, Worker

\* A request only reads the graph.
LEMMA RequestsLeaveGraph ==
    ASSUME NEW s \in Sessions, FanIn(s)
    PROVE  UNCHANGED <<graphFields, follows>>
<1>1. CASE ReadInNetwork(s)
  <2>1. UNCHANGED graphFields
    BY <1>1 DEF ReadInNetwork
  <2>2. CASE CheckExists(s) \/ GetInbox(s) \/ GetCold(s) \/ ReturnCold(s) \/ ReadFails(s)
    BY <2>1, <2>2 DEF CheckExists, GetInbox, GetCold, ReturnCold, ReadFails, vars, graphVars
  <2>3. CASE Promote(s)
    BY <2>1, <2>3 DEF Promote, fanoutVars, graphVars
  <2> QED
    BY <1>1, <2>2, <2>3 DEF ReadInNetwork
<1>2. CASE BeginFanIn(s) \/ ReadCelebrities(s) \/ ReadCelebritiesFails(s) \/ JoinOutboxes(s)
           \/ TakeCandidates(s)
  BY <1>2 DEF BeginFanIn, ReadCelebrities, ReadCelebritiesFails, JoinOutboxes, TakeCandidates,
              allVars, vars, graphVars
<1>3. CASE \E a \in Authors : FetchOutbox(s, a) \/ FetchOutboxFails(s, a)
  BY <1>3 DEF FetchOutbox, FetchOutboxFails, allVars, vars, graphVars
<1> QED
  BY <1>1, <1>2, <1>3 DEF FanIn

\* The Cypher statements, with what the composition adds to them.
LEMMA StatementsKeepGraph ==
    ASSUME GraphInv, NEW u \in Readers \cup Authors, NEW a \in Readers \cup Authors,
           SignUp(u) \/ FollowOnce(u, a) \/ UnfollowOnce(u, a) \/ FollowAgain(u, a)
    PROVE  GraphInv'
<1>1. CASE SignUp(u)
  <2>1. EnsureUserNode(u)
    BY <1>1 DEF SignUp
  <2> QED
    BY <2>1, GraphAssumption, EnsureUserNodeKeeps
<1>2. CASE FollowOnce(u, a) \/ FollowAgain(u, a)
  <2>1. MergeFollow(u, a)
    BY <1>2 DEF FollowOnce, FollowAgain
  <2> QED
    BY <2>1, GraphAssumption, MergeFollowKeeps
<1>3. CASE UnfollowOnce(u, a)
  <2>1. DeleteFollow(u, a)
    BY <1>3 DEF UnfollowOnce
  <2> QED
    BY <2>1, GraphAssumption, DeleteFollowKeeps
<1> QED
  BY <1>1, <1>2, <1>3

\* Every step of the composition keeps the graph right.
LEMMA GraphStep ==
    ASSUME GraphInv, [SourcesNext]_sourceVars
    PROVE  GraphInv'
<1>1. CASE \E u \in Readers \cup Authors : SignUp(u)
  BY <1>1, StatementsKeepGraph
<1>2. CASE \E u \in Readers, a \in Authors :
              FollowOnce(u, a) \/ UnfollowOnce(u, a) \/ FollowAgain(u, a)
  BY <1>2, StatementsKeepGraph
<1>3. CASE PostsAndWorker /\ UNCHANGED <<readVars, graphFields, locals>>
  BY <1>3, WorkerLeavesEdges, GraphUntouched
<1>4. CASE \E s \in Sessions : FanIn(s)
  BY <1>4, RequestsLeaveGraph, GraphUntouched
<1>5. CASE UNCHANGED sourceVars
  BY <1>5, GraphUntouched DEF sourceVars, allVars, vars, graphVars
<1> QED
  BY <1>1, <1>2, <1>3, <1>4, <1>5 DEF SourcesNext

\* What fan-out and feed read instead of the edges is right in the whole
\* composition, too: whatever the worker, its crashes, promotions and requests
\* do in between, the follower count of a node is its number of edges and the
\* celebrity flag follows from it.
THEOREM CountsAreDegreesWhileServing == SourcesSpec => []CountIsDegree
<1>1. SourcesInit => GraphInv
  BY SourcesInitGraph
<1>2. GraphInv /\ [SourcesNext]_sourceVars => GraphInv'
  BY GraphStep
<1>3. GraphInv => CountIsDegree
  BY DEF GraphInv
<1> QED
  BY <1>1, <1>2, <1>3, PTL DEF SourcesSpec

-----------------------------------------------------------------------------
(* No candidate is missed without a reason.                                 *)

\* What was pushed is in the hot inbox, or the inbox is full.
PushedOrFull == \A s \in pushed : InHot(s[1], s[2]) \/ Cardinality(HotInbox(s[1])) >= MaxItems

\* A score is that of a push, or below all of these.
ScoresSound ==
    \A u \in Readers : \A p \in Posts :
        hot[u][p] = PushScore(p) \/ hot[u][p] <= MaxColdTierItems

Full(u) == Cardinality(HotInbox(u)) >= MaxItems \/ Len(cold[u]) >= MaxColdTierItems
Hidden(u, p) == <<u, p>> \in appended /\ HotInbox(u) # {}

\* The in-network source of request s offers p, or has a reason not to.
ByInNetwork(s, p) ==
    /\ InNetwork \notin running[s]
          => \/ p \in offered[s]
             \/ Full(UserOf[s]) \/ BeyondLimit(UserOf[s], p) \/ Hidden(UserOf[s], p)
    /\ InNetwork \in running[s] /\ reading[s] \in {"idle", "hit"}
          => <<UserOf[s], p>> \in pushed \cup appended
    /\ reading[s] = "miss" => <<UserOf[s], p>> \in appended
    /\ reading[s] = "promote"
          => (\E i \in DOMAIN coldRead[s] : coldRead[s][i] = p) \/ Full(UserOf[s])

\* Its celebrity source offers p, or has a reason not to.
ByOutbox(s, p) ==
    /\ p \in outbox[authorOf[p]]
    /\ authorOf[p] \in readCelebs[s] \ toFetch[s]
          => \/ p \in offered[s]
             \/ Cardinality({q \in outbox[authorOf[p]] : q > p}) >= perCeleb[s]

StartsWith(c, d) == Len(d) <= Len(c) /\ \A i \in DOMAIN d : c[i] = d[i]

\* What it read of the cold inbox is still there, and first, or the inbox filled.
ColdHeld(s) ==
    reading[s] = "promote" => StartsWith(cold[UserOf[s]], coldRead[s]) \/ Full(UserOf[s])

RequestInv(s) ==
    /\ InNetwork \notin running[s] => reading[s] = "idle"
    /\ Celebrity \notin running[s] => toFetch[s] = {}
    /\ due[s] = {} => running[s] = {} /\ readCelebs[s] = {}
    /\ reading[s] = "hit" => HotInbox(UserOf[s]) # {}
    /\ due[s] \subseteq DOMAIN authorOf
    /\ ColdHeld(s)
    /\ ~ sourceFailed[s] => \A p \in due[s] : ByInNetwork(s, p) \/ ByOutbox(s, p)

\* Every local of fanIn is there for each request, and shares are numbers.
LocalsDomains ==
    /\ DOMAIN running = Sessions /\ DOMAIN toFetch = Sessions /\ DOMAIN offered = Sessions
    /\ DOMAIN sourceFailed = Sessions /\ DOMAIN readCelebs = Sessions /\ DOMAIN due = Sessions
    /\ perCeleb \in [Sessions -> Nat]

SourcesInv ==
    /\ TimelineInv /\ PushedOrFull /\ ScoresSound /\ LocalsDomains
    /\ \A s \in Sessions : RequestInv(s)

\* Of a set of posts, one has the least rank.
LEMMA LeastRanked ==
    ASSUME NEW f \in [Posts -> Nat], NEW S \in SUBSET Posts, S # {}
    PROVE  \E p \in S : \A q \in S : f[p] <= f[q]
<1> DEFINE R == {f[p] : p \in S}
<1>1. R \subseteq Nat /\ R # {}
  OBVIOUS
<1>2. PICK r \in R : \A x \in R : <<x, r>> \notin OpToRel(<, Nat)
  BY <1>1, NatLessThanWellFounded, WFMin
<1>3. PICK p \in S : r = f[p]
  OBVIOUS
<1>4. ASSUME NEW q \in S PROVE f[p] <= f[q]
  <2>1. <<f[q], f[p]>> \notin OpToRel(<, Nat)
    BY <1>2, <1>3
  <2> QED
    BY <2>1 DEF OpToRel
<1> QED
  BY <1>4

\* A trim that takes anything out leaves n members.
LEMMA TopIsFull ==
    ASSUME NEW z \in [Posts -> Nat], NEW n \in Nat,
           NEW p \in Posts, z[p] > 0, p \notin TopOf(z, n)
    PROVE  Cardinality(TopOf(z, n)) >= n
<1> DEFINE above(q) == {x \in Posts : Outranks(z, x, q)}
           f == [q \in Posts |-> Cardinality(above(q))]
           S == {q \in Posts : z[q] > 0 /\ q \notin TopOf(z, n)}
<1>1. \A q \in Posts : above(q) \in SUBSET Posts /\ f[q] = Cardinality(above(q)) /\ f[q] \in Nat
  BY PostsFinite
<1>2. PICK q \in S : \A x \in S : f[q] <= f[x]
  <2>1. f \in [Posts -> Nat] /\ S \in SUBSET Posts /\ p \in S
    BY <1>1
  <2> HIDE DEF f, S
  <2> QED
    BY <2>1, LeastRanked
<1>3. f[q] >= n
  BY <1>1, <1>2 DEF TopOf
<1>4. ASSUME NEW x \in above(q) PROVE x \in TopOf(z, n)
  <2>1. /\ x \in Posts /\ Outranks(z, x, q) /\ z[x] \in Nat /\ z[q] \in Nat /\ z[q] > 0
    BY <1>2
  <2>2. z[x] > 0
    BY <2>1 DEF Outranks
  <2>3. ASSUME x \notin TopOf(z, n) PROVE FALSE
    <3>1. f[q] <= f[x]
      BY <1>2, <2>1, <2>2, <2>3
    <3>2. \A y \in above(x) : y \in above(q)
      BY <2>1, BoundAssumption DEF Outranks, Posts
    <3>3. x \in above(q) /\ x \notin above(x)
      BY <2>1, BoundAssumption DEF Outranks, Posts
    <3>4. above(x) \in SUBSET above(q) /\ above(x) # above(q) /\ IsFiniteSet(above(q))
      BY <3>2, <3>3, PostsFinite
    <3>5. Cardinality(above(x)) < Cardinality(above(q))
      <4>1. above(x) \subseteq above(q) /\ above(x) # above(q) /\ IsFiniteSet(above(q))
        BY <3>4
      <4>2. Cardinality(above(x)) \in Nat /\ Cardinality(above(q)) \in Nat
        BY <1>1, <2>1, <1>2
      <4> HIDE DEF above
      <4>3. Cardinality(above(x)) <= Cardinality(above(q))
            /\ (Cardinality(above(x)) = Cardinality(above(q)) => above(x) = above(q))
        BY <4>1, FS_Subset
      <4> QED
        BY <4>1, <4>2, <4>3
    <3> HIDE DEF f, above
    <3> QED
      BY <1>1, <1>2, <2>1, <3>1, <3>5
  <2> QED
    BY <2>3
<1>5. TopOf(z, n) \in SUBSET Posts /\ above(q) \in SUBSET TopOf(z, n)
  BY <1>4 DEF TopOf
<1>6. Cardinality(above(q)) <= Cardinality(TopOf(z, n)) /\ Cardinality(TopOf(z, n)) \in Nat
  BY <1>5, MorePosts, PostsFinite
<1> HIDE DEF f, above
<1> QED
  BY <1>1, <1>2, <1>3, <1>6

\* A hot inbox loses nothing in a step, or is full after it.
LEMMA FanoutHotStep ==
    ASSUME IInv, ServedParts, TierParts, Next \/ UNCHANGED vars, NEW u \in Readers
    PROVE  \/ \A p \in Posts : InHot(u, p) => hot'[u][p] > 0
           \/ Cardinality(HotInbox(u)') >= MaxItems
<1>1. ASSUME NEW v \in Readers, PushToInbox(v) PROVE \A p \in Posts : InHot(u, p) => hot'[u][p] > 0
  BY <1>1, TierPush DEF InHot
<1>2. ASSUME NEW v \in Readers, TrimInbox(v), NEW p \in Posts, InHot(u, p), ~ (hot'[u][p] > 0)
      PROVE  Cardinality(HotInbox(u)') >= MaxItems
  <2>1. hot \in [Readers -> [Posts -> Nat]] /\ hot[u] \in [Posts -> Nat]
    BY DEF IInv, TypeOK
  <2>2. hot' = [hot EXCEPT ![v] = [q \in Posts |-> IF q \in TopOf(hot[v], MaxItems) THEN hot[v][q] ELSE 0]]
    BY <1>2 DEF TrimInbox
  <2>3. v = u
    BY <1>2, <2>1, <2>2 DEF InHot
  <2>4. \A q \in Posts : hot'[u][q] = IF q \in TopOf(hot[u], MaxItems) THEN hot[u][q] ELSE 0
    BY <2>1, <2>2, <2>3
  <2>5. p \notin TopOf(hot[u], MaxItems) /\ hot[u][p] > 0
    BY <1>2, <2>4 DEF InHot
  <2>6. HotInbox(u)' = TopOf(hot[u], MaxItems)
    <3>1. \A q \in TopOf(hot[u], MaxItems) : q \in Posts /\ hot[u][q] > 0
      BY DEF TopOf
    <3>2. \A q \in Posts : hot'[u][q] > 0 <=> q \in TopOf(hot[u], MaxItems)
      BY <2>4, <3>1
    <3> QED
      BY <3>1, <3>2 DEF HotInbox, InHot
  <2> QED
    BY <2>1, <2>5, <2>6, TopIsFull, CapAssumption
<1>3. ASSUME NEW v \in Readers, AppendToColdTier(v) PROVE UNCHANGED hot
  BY <1>3 DEF AppendToColdTier
<1> QED
  BY <1>1, <1>2, <1>3, TierOthers DEF InHot

\* The steps of the composition are steps of Timeline, but for a signup, which
\* is none of the fan-out's business.
LEMMA SourcesAreTimeline ==
    ASSUME [SourcesNext]_sourceVars
    PROVE  \/ TimelineNext
           \/ UNCHANGED allVars
           \/ \E u \in Readers \cup Authors : SignUp(u)
<1>1. ASSUME NEW u \in Readers, NEW a \in Authors, FollowOnce(u, a) \/ UnfollowOnce(u, a)
      PROVE  TimelineNext
  BY <1>1 DEF FollowOnce, UnfollowOnce, TimelineNext, Next, Ingestion
<1>2. ASSUME NEW u \in Readers, NEW a \in Authors, FollowAgain(u, a)
      PROVE  UNCHANGED allVars
  BY <1>2 DEF FollowAgain, MergeFollow, allVars, vars, graphVars, readVars
<1>3. ASSUME PostsAndWorker, UNCHANGED readVars PROVE TimelineNext
  BY <1>3 DEF PostsAndWorker, TimelineNext, Next, Ingestion
<1>4. ASSUME NEW s \in Sessions, FanIn(s) PROVE TimelineNext \/ UNCHANGED allVars
  BY <1>4 DEF FanIn, ReadInNetwork, BeginFanIn, ReadCelebrities, ReadCelebritiesFails, FetchOutbox,
              FetchOutboxFails, JoinOutboxes, TakeCandidates, TimelineNext, Read
<1> QED
  BY <1>1, <1>2, <1>3, <1>4 DEF SourcesNext, sourceVars

\* What only grows while a request runs.
Grows ==
    /\ \A p \in DOMAIN authorOf : p \in DOMAIN authorOf' /\ authorOf'[p] = authorOf[p]
    /\ pushed \subseteq pushed' /\ appended \subseteq appended'
    /\ \A a \in Authors : outbox[a] \subseteq outbox'[a]
    /\ \A u \in Readers :
          /\ Len(cold[u]) >= MaxColdTierItems => Len(cold'[u]) >= MaxColdTierItems
          /\ StartsWith(cold'[u], cold[u]) \/ Len(cold'[u]) >= MaxColdTierItems
          /\ \/ \A p \in Posts : InHot(u, p) => hot'[u][p] > 0
             \/ Cardinality(HotInbox(u)') >= MaxItems

\* The steps of the fan-out let all of it grow.
LEMMA FanoutGrows ==
    ASSUME FanoutInv, Next \/ UNCHANGED vars
    PROVE  Grows
<1> USE DEF postVars, graphVars, offsets, job, tiers, history
<1>1. IInv /\ ServedParts /\ TierParts
  BY DEF FanoutInv
<1>2. pushed \subseteq pushed' /\ appended \subseteq appended'
  BY DEF Next, Ingestion, InsertPost, PublishPost, PublishFails, Follow, Unfollow, ActivityLapses,
         Worker, Handle, Poll, TakeRecord, CommitSync, CheckCelebrity, PushToCelebrityOutbox,
         GetFollowers, NoFollowers, FilterActive, PushToInbox, TrimInbox, BeginAppends,
         AppendToColdTier, AppendSwallowed, FinishFanout, RecordFails, FinishRecord,
         Restart, DeadlinePasses, vars
<1>3. \A p \in DOMAIN authorOf : p \in DOMAIN authorOf' /\ authorOf'[p] = authorOf[p]
  <2>1. UNCHANGED authorOf \/ \E a \in Authors : authorOf' = Append(authorOf, a)
    BY DEF Next, Ingestion, InsertPost, PublishPost, PublishFails, Follow, Unfollow, ActivityLapses,
         Worker, Handle, Poll, TakeRecord, CommitSync, CheckCelebrity, PushToCelebrityOutbox,
         GetFollowers, NoFollowers, FilterActive, PushToInbox, TrimInbox, BeginAppends,
         AppendToColdTier, AppendSwallowed, FinishFanout, RecordFails, FinishRecord,
         Restart, DeadlinePasses, vars
  <2>2. authorOf \in Seq(Authors)
    BY <1>1 DEF IInv, TypeOK
  <2> QED
    BY <2>1, <2>2
<1>4. \A a \in Authors : outbox[a] \subseteq outbox'[a]
  <2>1. UNCHANGED outbox \/ PushToCelebrityOutbox
    BY DEF Next, Ingestion, InsertPost, PublishPost, PublishFails, Follow, Unfollow, ActivityLapses,
         Worker, Handle, Poll, TakeRecord, CommitSync, CheckCelebrity,
         GetFollowers, NoFollowers, FilterActive, PushToInbox, TrimInbox, BeginAppends,
         AppendToColdTier, AppendSwallowed, FinishFanout, RecordFails, FinishRecord,
         Restart, DeadlinePasses, vars
  <2>2. ASSUME PushToCelebrityOutbox
        PROVE  \A a \in Authors : outbox[a] \subseteq outbox'[a]
    <3> DEFINE c == Current
               b == authorOf[Current]
    <3>1. outbox' = [outbox EXCEPT ![b] = outbox[b] \cup {c}]
      BY <2>2 DEF PushToCelebrityOutbox
    <3>2. outbox \in [Authors -> SUBSET Posts]
      BY <1>1 DEF IInv, TypeOK
    <3> HIDE DEF b, c
    <3> QED
      BY <3>1, <3>2
  <2> QED
    BY <2>1, <2>2
<1>5. ASSUME NEW u \in Readers, Len(cold[u]) >= MaxColdTierItems PROVE Len(cold'[u]) >= MaxColdTierItems
  <2>1. UNCHANGED cold \/ \E v \in Readers : AppendToColdTier(v)
    BY DEF Next, Ingestion, InsertPost, PublishPost, PublishFails, Follow, Unfollow, ActivityLapses,
         Worker, Handle, Poll, TakeRecord, CommitSync, CheckCelebrity, PushToCelebrityOutbox,
         GetFollowers, NoFollowers, FilterActive, PushToInbox, TrimInbox, BeginAppends,
         AppendSwallowed, FinishFanout, RecordFails, FinishRecord,
         Restart, DeadlinePasses, vars
  <2>2. ASSUME NEW v \in Readers, AppendToColdTier(v) PROVE Len(cold'[u]) >= MaxColdTierItems
    <3> DEFINE t == Append(cold[v], Current)
    <3>1. cold' = [cold EXCEPT ![v] = LastItems(t)] /\ stage # "poll"
      BY <2>2 DEF AppendToColdTier
    <3>2. cold \in [Readers -> Seq(Posts)] /\ Current \in Posts
      BY <1>1, <3>1, CurrentStored DEF IInv, TypeOK
    <3>3. t \in Seq(Posts) /\ Len(t) = Len(cold[v]) + 1 /\ Len(cold[v]) \in Nat
      <4> HIDE DEF Current
      <4> QED
        BY <3>2
    <3>4. LastItems(t) = t \/ Len(LastItems(t)) = MaxColdTierItems
      BY <3>3, LastItemsKeeps
    <3> HIDE DEF t
    <3>5. CASE u = v
      <4>1. cold'[u] = LastItems(t)
        BY <3>1, <3>2, <3>5
      <4> QED
        BY <1>5, <3>3, <3>4, <3>5, <4>1, CapAssumption
    <3>6. CASE u # v
      BY <1>5, <3>1, <3>2, <3>6
    <3> QED
      BY <3>5, <3>6
  <2> QED
    BY <1>5, <2>1, <2>2
<1>6. ASSUME NEW u \in Readers
      PROVE  StartsWith(cold'[u], cold[u]) \/ Len(cold'[u]) >= MaxColdTierItems
  <2>0. cold \in [Readers -> Seq(Posts)]
    BY <1>1 DEF IInv, TypeOK
  <2>1. UNCHANGED cold \/ \E v \in Readers : AppendToColdTier(v)
    BY DEF Next, Ingestion, InsertPost, PublishPost, PublishFails, Follow, Unfollow, ActivityLapses,
         Worker, Handle, Poll, TakeRecord, CommitSync, CheckCelebrity, PushToCelebrityOutbox,
         GetFollowers, NoFollowers, FilterActive, PushToInbox, TrimInbox, BeginAppends,
         AppendSwallowed, FinishFanout, RecordFails, FinishRecord,
         Restart, DeadlinePasses, vars
  <2>2. CASE cold'[u] = cold[u]
    <3>1. cold[u] \in Seq(Posts)
      BY <2>0
    <3> QED
      BY <2>2, <3>1 DEF StartsWith
  <2>3. ASSUME NEW v \in Readers, AppendToColdTier(v), cold'[u] # cold[u]
        PROVE  StartsWith(cold'[u], cold[u]) \/ Len(cold'[u]) >= MaxColdTierItems
    <3> DEFINE t == Append(cold[v], Current)
    <3>1. cold' = [cold EXCEPT ![v] = LastItems(t)] /\ stage # "poll"
      BY <2>3 DEF AppendToColdTier
    <3>2. u = v /\ cold'[u] = LastItems(t) /\ Current \in Posts /\ cold[u] \in Seq(Posts)
      <4>1. Current \in Posts
        BY <1>1, <3>1, CurrentStored DEF IInv, TypeOK
      <4> HIDE DEF t
      <4> QED
        BY <2>0, <2>3, <3>1, <4>1
    <3>3. t \in Seq(Posts) /\ StartsWith(t, cold[u])
      <4> DEFINE c == Current
      <4>1. c \in Posts /\ t = Append(cold[u], c)
        BY <3>2
      <4> HIDE DEF c, t
      <4> QED
        BY <3>2, <4>1 DEF StartsWith
    <3>4. LastItems(t) = t \/ Len(LastItems(t)) = MaxColdTierItems
      <4> HIDE DEF t
      <4> QED
        BY <3>3, LastItemsKeeps
    <3> HIDE DEF t
    <3> QED
      BY <3>2, <3>3, <3>4, CapAssumption
  <2> QED
    BY <2>1, <2>2, <2>3
<1> QED
  BY <1>1, <1>2, <1>3, <1>4, <1>5, <1>6, FanoutHotStep DEF Grows

\* So do the steps of the composition.
LEMMA SourcesGrow ==
    ASSUME TimelineInv, [SourcesNext]_sourceVars
    PROVE  TimelineInv' /\ Grows
<1>0. FanoutInv
  BY DEF TimelineInv
<1>7. \A u \in Readers : StartsWith(cold[u], cold[u])
  <2>1. \A u \in Readers : cold[u] \in Seq(Posts)
    BY DEF TimelineInv, TimelineTypeOK, TypeOK
  <2> QED
    BY <2>1 DEF StartsWith
<1>1. ASSUME TimelineNext \/ UNCHANGED allVars PROVE TimelineInv'
  BY <1>1, TimelineStep
<1>2. ASSUME Next \/ UNCHANGED vars PROVE Grows
  BY <1>0, <1>2, FanoutGrows
<1>3. ASSUME NEW s \in Sessions, Promote(s) PROVE Grows
  <2>1. UNCHANGED <<postVars, cold, outbox, history>>
    BY <1>3 DEF Promote, fanoutVars
  <2>2. \A v \in Readers, p \in Posts : InHot(v, p) => hot'[v][p] > 0
    BY <1>3, PromoteBeside
  <2> QED
    BY <1>7, <2>1, <2>2 DEF Grows, postVars, history
<1>4. ASSUME NEW s \in Sessions, Read(s), ~ Promote(s) PROVE UNCHANGED vars
  BY <1>4 DEF Read, CheckExists, GetInbox, GetCold, ReturnCold, ReadFails
<1>5. ASSUME NEW u \in Readers \cup Authors, SignUp(u) PROVE TimelineInv' /\ Grows
  <2>1. /\ graphChanges' = graphChanges + 1 /\ graphChanges < MaxGraphChanges
        /\ UNCHANGED <<postVars, follows, active, crashes, offsets, job, stubExpired, tiers, history, readVars>>
    BY <1>5 DEF SignUp, EnsureUserNode
  <2>2. graphChanges' \in 0 .. MaxGraphChanges
    BY <2>1, BoundAssumption DEF TimelineInv, TimelineTypeOK, TypeOK
  <2>3. Current' = Current
    BY <2>1 DEF Current, postVars, offsets, job
  <2>4. TypeOK'
    BY <2>1, <2>2 DEF TimelineInv, TimelineTypeOK, TypeOK, postVars, offsets, job, tiers, history
  <2>5. IInv'
    BY <2>1, <2>3, <2>4 DEF TimelineInv, FanoutInv, IInv, OffsetsInOrder, EdgesEligible, TargetsEligible,
                            OnlyFollowersServed, postVars, offsets, job, history
  <2>6. ServedParts'
    BY <2>1, <2>3 DEF TimelineInv, FanoutInv, ServedParts, LocalsInOrder, StableFollows, StableInHand,
                      StableFollowersServed, postVars, job, tiers, history
  <2>7. TierParts'
    BY <2>1 DEF TimelineInv, FanoutInv, TierParts, LapseIsFinal, ColdCapped, AppendedKept, HotSound,
                PushedKept, InHot, tiers, job, history
  <2>8. ReadsCold' /\ PromotedStays' /\ TimelineTypeOK'
    BY <2>1, <2>4 DEF TimelineInv, ReadsCold, PromotedStays, TimelineTypeOK, InHot, readVars, tiers, history
  <2>9. Grows
    BY <1>7, <2>1 DEF Grows, postVars, tiers, history, InHot
  <2> QED
    BY <2>5, <2>6, <2>7, <2>8, <2>9 DEF TimelineInv, FanoutInv
<1>6. ASSUME TimelineNext \/ UNCHANGED allVars PROVE Grows
  BY <1>2, <1>3, <1>4, <1>6 DEF TimelineNext, allVars
<1> QED
  BY <1>1, <1>5, <1>6, SourcesAreTimeline

\* A full inbox stays full, and one with members is never emptied.
LEMMA FullStays ==
    ASSUME Grows, NEW u \in Readers
    PROVE  /\ Cardinality(HotInbox(u)) >= MaxItems => Cardinality(HotInbox(u)') >= MaxItems
           /\ HotInbox(u) # {} => HotInbox(u)' # {}
<1>1. HotInbox(u) \in SUBSET Posts /\ HotInbox(u)' \in SUBSET Posts
  BY DEF HotInbox
<1>2. Cardinality(HotInbox(u)) \in Nat /\ Cardinality(HotInbox(u)') \in Nat
  BY <1>1, PostsFinite
<1>3. CASE \A p \in Posts : InHot(u, p) => hot'[u][p] > 0
  <2>1. HotInbox(u) \in SUBSET HotInbox(u)'
    BY <1>3 DEF HotInbox, InHot
  <2>2. Cardinality(HotInbox(u)) <= Cardinality(HotInbox(u)')
    BY <1>1, <2>1, MorePosts
  <2> QED
    BY <1>2, <2>1, <2>2, CapAssumption
<1>4. CASE Cardinality(HotInbox(u)') >= MaxItems
  <2>1. HotInbox(u)' # {}
    <3>1. ASSUME HotInbox(u)' = {} PROVE FALSE
      <4>1. Cardinality(HotInbox(u)') = 0
        BY <3>1, FS_EmptySet
      <4> QED
        BY <1>4, <4>1, CapAssumption
    <3> QED
      BY <3>1
  <2> QED
    BY <1>4, <2>1
<1> QED
  BY <1>3, <1>4 DEF Grows

\* Only the push pushes.
LEMMA PushedByPush ==
    ASSUME [SourcesNext]_sourceVars, pushed' # pushed
    PROVE  \E u \in Readers : PushToInbox(u)
<1> USE DEF postVars, graphVars, offsets, job, tiers, history
<1>1. ASSUME Next PROVE \E u \in Readers : PushToInbox(u)
  BY <1>1 DEF Next, Ingestion, InsertPost, PublishPost, PublishFails, Follow, Unfollow, ActivityLapses,
         Worker, Handle, Poll, TakeRecord, CommitSync, CheckCelebrity, PushToCelebrityOutbox,
         GetFollowers, NoFollowers, FilterActive, TrimInbox, BeginAppends,
         AppendToColdTier, AppendSwallowed, FinishFanout, RecordFails, FinishRecord,
         Restart, DeadlinePasses
<1>2. ASSUME NEW s \in Sessions, Read(s) PROVE FALSE
  BY <1>2 DEF Read, CheckExists, GetInbox, GetCold, Promote, ReturnCold, ReadFails, vars, fanoutVars
<1>3. ASSUME UNCHANGED allVars \/ \E u \in Readers \cup Authors : SignUp(u) PROVE FALSE
  BY <1>3 DEF allVars, vars, SignUp
<1> QED
  BY <1>1, <1>2, <1>3, SourcesAreTimeline DEF TimelineNext

\* What was pushed stays, or fills the inbox.
LEMMA PushedOrFullKept ==
    ASSUME TimelineInv, PushedOrFull, [SourcesNext]_sourceVars
    PROVE  PushedOrFull'
<1>1. Grows
  BY SourcesGrow
<1>2. /\ \A u \in Readers : HotInbox(u) \in SUBSET Posts /\ HotInbox(u)' \in SUBSET Posts
      /\ pushed \subseteq Readers \X Posts
  BY DEF HotInbox, TimelineInv, TimelineTypeOK, TypeOK
<1>3. ASSUME NEW u \in Readers, Cardinality(HotInbox(u)) >= MaxItems
      PROVE  Cardinality(HotInbox(u)') >= MaxItems
  BY <1>1, <1>3, FullStays
<1>4. ASSUME NEW s \in pushed PROVE InHot(s[1], s[2])' \/ Cardinality(HotInbox(s[1])') >= MaxItems
  <2>1. s[1] \in Readers /\ s[2] \in Posts
    BY <1>2
  <2>2. CASE InHot(s[1], s[2])
    BY <1>1, <2>1, <2>2 DEF Grows, InHot
  <2>3. CASE Cardinality(HotInbox(s[1])) >= MaxItems
    BY <1>3, <2>1, <2>3
  <2> QED
    BY <2>2, <2>3 DEF PushedOrFull
<1>5. ASSUME NEW s \in pushed', s \notin pushed PROVE InHot(s[1], s[2])'
  <2>1. PICK u \in Readers : PushToInbox(u)
    BY <1>5, PushedByPush
  <2>2. stage = "push" /\ hot' = [hot EXCEPT ![u][Current] = PushScore(Current)]
        /\ pushed' = pushed \cup {<<u, Current>>}
    BY <2>1 DEF PushToInbox
  <2>3. Current \in Posts /\ hot \in [Readers -> [Posts -> Nat]]
    BY <2>2, CurrentStored DEF TimelineInv, FanoutInv, IInv, TypeOK
  <2>4. PushScore(Current) > 0
    BY <2>3, BoundAssumption, CapAssumption DEF PushScore, Posts
  <2>5. s = <<u, Current>> /\ hot'[u][Current] = PushScore(Current)
    <3> DEFINE c == Current
    <3>1. c \in Posts /\ hot' = [hot EXCEPT ![u][c] = PushScore(c)]
      BY <2>2, <2>3
    <3> HIDE DEF c
    <3>2. hot'[u][c] = PushScore(c)
      BY <2>3, <3>1
    <3> QED
      BY <1>5, <2>2, <3>2 DEF c
  <2> QED
    BY <2>4, <2>5 DEF InHot
<1> QED
  BY <1>4, <1>5 DEF PushedOrFull

\* The worker and the requests give no other scores.
LEMMA ScoresSoundKept ==
    ASSUME TimelineInv, ScoresSound, [SourcesNext]_sourceVars
    PROVE  ScoresSound'
<1>0. hot \in [Readers -> [Posts -> Nat]] /\ MaxColdTierItems \in Nat
  BY CapAssumption DEF TimelineInv, TimelineTypeOK, TypeOK
<1> SUFFICES ASSUME NEW v \in Readers, NEW q \in Posts
             PROVE  hot'[v][q] \in {hot[v][q], PushScore(q)} \/ hot'[v][q] <= MaxColdTierItems
  BY DEF ScoresSound
<1>1. ASSUME NEW u \in Readers, PushToInbox(u)
      PROVE  hot'[v][q] \in {hot[v][q], PushScore(q)}
  <2> DEFINE c == Current
  <2>1. hot' = [hot EXCEPT ![u][c] = PushScore(c)]
    BY <1>1 DEF PushToInbox
  <2> HIDE DEF c
  <2> QED
    BY <1>0, <2>1
<1>2. ASSUME NEW u \in Readers, TrimInbox(u)
      PROVE  hot'[v][q] \in {hot[v][q], 0}
  <2>1. hot' = [hot EXCEPT ![u] = [p \in Posts |-> IF p \in TopOf(hot[u], MaxItems) THEN hot[u][p] ELSE 0]]
    BY <1>2 DEF TrimInbox
  <2> QED
    BY <1>0, <2>1
<1>3. ASSUME NEW s \in Sessions, Promote(s)
      PROVE  hot'[v][q] = hot[v][q] \/ hot'[v][q] <= MaxColdTierItems
  <2> DEFINE i == zadds[s] + 1
             d == coldRead[s]
             score == PromotedScore(d, i)
  <2>1. /\ hot' = [hot EXCEPT ![UserOf[s]] = [hot[UserOf[s]] EXCEPT ![d[i]] = score]]
        /\ zadds[s] < Len(d)
    BY <1>3 DEF Promote, Promoted
  <2>2. /\ d \in Seq(Posts) /\ zadds[s] \in Nat /\ Len(d) <= MaxColdTierItems
        /\ UserOf[s] \in Readers
    BY SessionAssumption DEF TimelineInv, TimelineTypeOK, ReadsCold
  <2>3. score <= MaxColdTierItems
    BY <1>0, <2>2 DEF PromotedScore
  <2> HIDE DEF d, i, score
  <2> QED
    BY <1>0, <2>1, <2>2, <2>3
<1>4. ASSUME UNCHANGED hot PROVE hot'[v][q] = hot[v][q]
  BY <1>4
<1>5. \/ UNCHANGED hot
      \/ \E u \in Readers : PushToInbox(u) \/ TrimInbox(u)
      \/ \E s \in Sessions : Promote(s)
  <2>1. ASSUME Next, ~ \E u \in Readers : PushToInbox(u) \/ TrimInbox(u) PROVE UNCHANGED hot
    BY <2>1 DEF Next, Ingestion, InsertPost, PublishPost, PublishFails, Follow, Unfollow, ActivityLapses,
         Worker, Handle, Poll, TakeRecord, CommitSync, CheckCelebrity, PushToCelebrityOutbox,
         GetFollowers, NoFollowers, FilterActive, BeginAppends,
         AppendToColdTier, AppendSwallowed, FinishFanout, RecordFails, FinishRecord,
         Restart, DeadlinePasses, tiers
  <2>2. ASSUME NEW s \in Sessions, Read(s), ~ Promote(s) PROVE UNCHANGED hot
    BY <2>2 DEF Read, CheckExists, GetInbox, GetCold, ReturnCold, ReadFails, vars, tiers
  <2>3. ASSUME UNCHANGED allVars \/ \E u \in Readers \cup Authors : SignUp(u) PROVE UNCHANGED hot
    BY <2>3 DEF allVars, vars, SignUp, tiers
  <2> QED
    BY <2>1, <2>2, <2>3, SourcesAreTimeline DEF TimelineNext
<1> QED
  BY <1>0, <1>1, <1>2, <1>3, <1>4, <1>5

\* A post behind perCeleb newer ones of its author's outbox stays behind them.
LEMMA OutboxGoodStays ==
    ASSUME Grows, authorOf \in Seq(Authors), outbox' \in [Authors -> SUBSET Posts],
           NEW s \in Sessions, NEW p \in DOMAIN authorOf, ByOutbox(s, p),
           toFetch'[s] = toFetch[s], perCeleb'[s] = perCeleb[s], perCeleb[s] \in Nat,
           offered[s] \subseteq offered'[s], readCelebs'[s] = readCelebs[s]
    PROVE  ByOutbox(s, p)'
<1> DEFINE a == authorOf[p]
           S == {q \in outbox[a] : q > p}
           T == {q \in outbox'[a] : q > p}
<1>1. a \in Authors /\ authorOf'[p] = a /\ outbox[a] \subseteq outbox'[a]
  BY DEF Grows
<1>2. T \in SUBSET Posts /\ S \in SUBSET T
  BY <1>1
<1>3. Cardinality(S) <= Cardinality(T) /\ Cardinality(S) \in Nat /\ Cardinality(T) \in Nat
  BY <1>2, MorePosts, PostsFinite
<1>4. /\ p \in outbox[a]
      /\ a \in readCelebs[s] \ toFetch[s] => p \in offered[s] \/ Cardinality(S) >= perCeleb[s]
  BY DEF ByOutbox
<1> SUFFICES /\ p \in outbox'[a]
             /\ a \in readCelebs'[s] \ toFetch'[s] => p \in offered'[s] \/ Cardinality(T) >= perCeleb'[s]
  BY <1>1 DEF ByOutbox
<1> HIDE DEF a, S, T
<1> QED
  BY <1>1, <1>3, <1>4

\* What a sequence starts with has the same first entries.
LEMMA FirstOfPrefix ==
    ASSUME NEW c \in Seq(Posts), NEW d \in Seq(Posts), StartsWith(c, d),
           Len(d) > InNetworkCandidateLimit
    PROVE  Len(c) > InNetworkCandidateLimit /\ FirstInCold(c) = FirstInCold(d)
<1>1. /\ InNetworkCandidateLimit \in Nat /\ Len(c) \in Nat /\ Len(d) \in Nat
      /\ Len(d) <= Len(c) /\ DOMAIN c = 1 .. Len(c) /\ DOMAIN d = 1 .. Len(d)
  BY LimitAssumption DEF StartsWith
<1>2. /\ DOMAIN c \cap 1 .. InNetworkCandidateLimit = 1 .. InNetworkCandidateLimit
      /\ DOMAIN d \cap 1 .. InNetworkCandidateLimit = 1 .. InNetworkCandidateLimit
  BY <1>1
<1>3. \A i \in 1 .. InNetworkCandidateLimit : c[i] = d[i]
  BY <1>1 DEF StartsWith
<1> QED
  BY <1>1, <1>2, <1>3 DEF FirstInCold

\* Entries behind the limit stay behind it: newer pushes do not go, and older
\* appends go only when the cold inbox is full.
LEMMA BeyondStays ==
    ASSUME Grows, NEW u \in Readers, NEW p, BeyondLimit(u, p),
           cold[u] \in Seq(Posts), cold'[u] \in Seq(Posts)
    PROVE  BeyondLimit(u, p)' \/ Full(u)'
<1> DEFINE S == {q \in Posts : q > p /\ <<u, q>> \in pushed}
           T == {q \in Posts : q > p /\ <<u, q>> \in pushed'}
           k == InNetworkCandidateLimit
<1>0. k \in Nat
  BY LimitAssumption
<1>1. CASE Cardinality(S) >= k
  <2>1. T \in SUBSET Posts /\ S \in SUBSET T
    BY DEF Grows
  <2>2. Cardinality(S) <= Cardinality(T) /\ Cardinality(S) \in Nat /\ Cardinality(T) \in Nat
    BY <2>1, MorePosts, PostsFinite
  <2>3. Cardinality(T) >= k
    <3> HIDE DEF S, T, k
    <3> QED
      BY <1>0, <1>1, <2>2
  <2> QED
    BY <2>3 DEF BeyondLimit
<1>2. CASE Len(cold[u]) > k /\ p \notin FirstInCold(cold[u])
  <2>1. CASE Len(cold'[u]) >= MaxColdTierItems
    BY <2>1 DEF Full
  <2>2. CASE StartsWith(cold'[u], cold[u])
    BY <1>0, <1>2, <2>2, FirstOfPrefix DEF BeyondLimit
  <2> QED
    BY <2>1, <2>2 DEF Grows
<1> QED
  BY <1>1, <1>2 DEF BeyondLimit

\* A post of the hot inbox that nobody appended and that is not among the best
\* is behind newer pushes.
LEMMA BehindNewerPushes ==
    ASSUME TimelineInv, ScoresSound, NEW u \in Readers, NEW p \in HotInbox(u),
           <<u, p>> \notin appended, p \notin NewestInInbox(u)
    PROVE  BeyondLimit(u, p)
<1> DEFINE k == InNetworkCandidateLimit
           above == {q \in Posts : Outranks(hot[u], q, p)}
           S == {q \in Posts : q > p /\ <<u, q>> \in pushed}
<1>0. /\ p \in Posts /\ hot[u][p] > 0 /\ hot \in [Readers -> [Posts -> Nat]]
      /\ HotSound
  BY DEF HotInbox, InHot, TimelineInv, TimelineTypeOK, FanoutInv, TierParts, TypeOK
<1>1. hot[u][p] = PushScore(p)
  <2>1. hot[u][p] \in {0, PushScore(p)}
    BY <1>0 DEF HotSound
  <2> QED
    BY <1>0, <2>1
<1>2. ASSUME NEW q \in above PROVE q \in S
  <2>1. /\ q \in Posts /\ Outranks(hot[u], q, p) /\ hot[u][q] \in Nat
        /\ q \in Nat /\ p \in Nat /\ MaxColdTierItems \in Nat
    BY <1>0, CapAssumption, BoundAssumption DEF Posts
  <2>2. hot[u][q] >= PushScore(p) /\ PushScore(p) > MaxColdTierItems /\ PushScore(p) \in Nat
    <3>1. PushScore(p) \in Nat /\ PushScore(p) > MaxColdTierItems
      BY <1>0, <2>1, BoundAssumption DEF PushScore, Posts
    <3> QED
      BY <1>1, <2>1, <3>1 DEF Outranks
  <2>3. hot[u][q] = PushScore(q)
    BY <2>1, <2>2 DEF ScoresSound
  <2>4. <<u, q>> \in pushed
    <3>1. <<u, q>> \notin pushed => hot[u][q] <= MaxColdTierItems
      BY <1>0, <2>1 DEF HotSound
    <3> QED
      BY <2>1, <2>2, <3>1
  <2>5. q > p
    BY <1>1, <2>1, <2>3 DEF Outranks, PushScore
  <2> QED
    BY <2>1, <2>4, <2>5
<1>3. Cardinality(above) <= Cardinality(S) /\ Cardinality(above) \in Nat /\ Cardinality(S) \in Nat
  <2>1. above \in SUBSET S /\ S \in SUBSET Posts /\ above \in SUBSET Posts
    BY <1>2
  <2> QED
    BY <2>1, MorePosts, PostsFinite
<1>4. ~ (Cardinality(above) < k) /\ k \in Nat
  BY <1>0, LimitAssumption DEF NewestInInbox, TopOf
<1>5. Cardinality(S) >= k
  <2> HIDE DEF S, above, k
  <2> QED
    BY <1>3, <1>4
<1> QED
  BY <1>5 DEF BeyondLimit

\* A step that leaves the locals of request s and its place in Timeline alone
\* keeps what it has in hand: everything else it relies on only grows.
LEMMA RequestBystander ==
    ASSUME SourcesInv, Grows, NEW s \in Sessions,
           reading'[s] = reading[s], coldRead'[s] = coldRead[s],
           running'[s] = running[s], toFetch'[s] = toFetch[s], perCeleb'[s] = perCeleb[s],
           offered'[s] = offered[s], sourceFailed'[s] = sourceFailed[s],
           readCelebs'[s] = readCelebs[s], due'[s] = due[s],
           outbox' \in [Authors -> SUBSET Posts], cold' \in [Readers -> Seq(Posts)]
    PROVE  RequestInv(s)'
<1> DEFINE u == UserOf[s]
<1>1. u \in Readers /\ RequestInv(s) /\ authorOf \in Seq(Authors)
  BY SessionAssumption DEF SourcesInv, TimelineInv, TimelineTypeOK, TypeOK
<1>2. Full(u) => Full(u)'
  BY <1>1, FullStays DEF Full, Grows
<1>3. HotInbox(u) # {} => HotInbox(u)' # {}
  BY <1>1, FullStays
<1>4. \A p : Hidden(u, p) => Hidden(u, p)'
  BY <1>3 DEF Hidden, Grows
<1>5. due[s] \subseteq DOMAIN authorOf
  BY <1>1 DEF RequestInv
<1>8. cold[u] \in Seq(Posts) /\ cold'[u] \in Seq(Posts) /\ coldRead[s] \in Seq(Posts)
  BY <1>1 DEF SourcesInv, TimelineInv, TimelineTypeOK, TypeOK
<1>9. \A p : BeyondLimit(u, p) => BeyondLimit(u, p)' \/ Full(u)'
  BY <1>1, <1>8, BeyondStays
<1>6. ASSUME NEW p, ByInNetwork(s, p) PROVE ByInNetwork(s, p)'
  BY <1>2, <1>4, <1>6, <1>9 DEF ByInNetwork, Grows
<1>10. ColdHeld(s)'
  <2>1. CASE Len(cold'[u]) >= MaxColdTierItems \/ Full(u)
    BY <1>2, <2>1 DEF ColdHeld, Full
  <2>2. CASE reading[s] = "promote" /\ ~ Full(u) /\ StartsWith(cold'[u], cold[u])
    <3>1. StartsWith(cold[u], coldRead[s])
      BY <1>1, <2>2 DEF RequestInv, ColdHeld
    <3>2. StartsWith(cold'[u], coldRead[s])
      BY <1>8, <2>2, <3>1 DEF StartsWith
    <3> QED
      BY <3>2 DEF ColdHeld
  <2>3. CASE reading[s] # "promote"
    BY <2>3 DEF ColdHeld
  <2> QED
    BY <1>1, <2>1, <2>2, <2>3 DEF Grows
<1>7. ASSUME NEW p \in due[s], ByOutbox(s, p) PROVE ByOutbox(s, p)'
  BY <1>1, <1>5, <1>7, OutboxGoodStays DEF SourcesInv, LocalsDomains
<1> QED
  BY <1>1, <1>3, <1>5, <1>6, <1>7, <1>10 DEF RequestInv, Grows

\* The steps of request s itself, but for those that only read the tiers.
LEMMA OwnStep ==
    ASSUME SourcesInv, NEW s \in Sessions, FanIn(s), UNCHANGED vars
    PROVE  RequestInv(s)'
<1> DEFINE u == UserOf[s]
<1>0. /\ u \in Readers /\ RequestInv(s) /\ TimelineInv /\ PushedOrFull /\ ScoresSound /\ LocalsDomains
      /\ reading \in [Sessions -> ReadStages] /\ coldRead \in [Sessions -> Seq(Posts)]
      /\ pushed \subseteq Readers \X Posts /\ appended \subseteq Readers \X Posts
      /\ outbox \in [Authors -> SUBSET Posts] /\ authorOf \in Seq(Authors)
  BY SessionAssumption DEF SourcesInv, TimelineInv, TimelineTypeOK, TypeOK
<1>1. UNCHANGED <<hot, cold, outbox, authorOf, pushed, appended>>
  BY DEF vars, tiers, postVars, history
<1>2. /\ HotInbox(u)' = HotInbox(u) /\ Full(u)' = Full(u)
      /\ \A p : Hidden(u, p)' = Hidden(u, p) /\ BeyondLimit(u, p)' = BeyondLimit(u, p)
  BY <1>1 DEF HotInbox, InHot, Full, Hidden, BeyondLimit, FirstInCold
<1>14. ASSUME reading'[s] = reading[s], coldRead'[s] = coldRead[s] PROVE ColdHeld(s)'
  BY <1>0, <1>1, <1>2, <1>14 DEF RequestInv, ColdHeld
<1>15. ASSUME reading'[s] # "promote" PROVE ColdHeld(s)'
  BY <1>15 DEF ColdHeld
<1>3. InNetwork # Celebrity
  BY DEF InNetwork, Celebrity
<1> HIDE DEF u
\* A step that leaves the in-network source alone, and one that leaves the
\* celebrity source alone.
<1>4. ASSUME UNCHANGED <<reading, coldRead>>, InNetwork \in running'[s] <=> InNetwork \in running[s],
             offered[s] \subseteq offered'[s], NEW p, ByInNetwork(s, p)
      PROVE  ByInNetwork(s, p)'
  BY <1>1, <1>2, <1>4 DEF ByInNetwork, u
<1>5. ASSUME UNCHANGED <<toFetch, perCeleb, readCelebs>>, offered[s] \subseteq offered'[s],
             NEW p, ByOutbox(s, p)
      PROVE  ByOutbox(s, p)'
  BY <1>1, <1>5 DEF ByOutbox
<1>6. CASE BeginFanIn(s)
  <2>1. /\ running[s] = {} /\ due[s] = {} /\ running'[s] = {InNetwork, Celebrity}
        /\ due'[s] = DeliveredTo(u)
        /\ UNCHANGED <<reading, coldRead, toFetch, perCeleb, offered, sourceFailed, readCelebs>>
    BY <1>0, <1>6 DEF BeginFanIn, LocalsDomains, allVars, readVars, u
  <2>2. reading[s] = "idle" /\ toFetch[s] = {} /\ readCelebs[s] = {}
    BY <1>0, <2>1 DEF RequestInv
  <2>3. DeliveredTo(u) # {} /\ DeliveredTo(u) \subseteq DOMAIN authorOf
    BY <1>0, <1>6 DEF BeginFanIn, DeliveredTo, TimelineInv, FanoutInv, ServedParts, u
  <2>4. ASSUME NEW p \in due'[s] PROVE ByInNetwork(s, p)' \/ ByOutbox(s, p)'
    <3>1. <<u, p>> \in pushed \cup appended \/ p \in outbox[authorOf[p]]
      BY <2>1, <2>4 DEF DeliveredTo
    <3>2. CASE <<u, p>> \in pushed \cup appended
      BY <1>1, <2>1, <2>2, <3>2 DEF ByInNetwork, u
    <3>3. CASE p \in outbox[authorOf[p]]
      BY <1>1, <2>1, <2>2, <3>3 DEF ByOutbox
    <3> QED
      BY <3>1, <3>2, <3>3
  <2> QED
    BY <1>1, <2>1, <2>2, <2>3, <2>4, <1>14, <1>15 DEF RequestInv
<1>7. ASSUME ReadInNetwork(s), UNCHANGED vars PROVE RequestInv(s)'
  <2>0. /\ InNetwork \in running[s] /\ UNCHANGED <<toFetch, perCeleb, readCelebs, due>>
        /\ due[s] # {} /\ due[s] \subseteq DOMAIN authorOf
    BY <1>0, <1>7 DEF ReadInNetwork, RequestInv
  <2>1. CASE CheckExists(s) /\ UNCHANGED <<running, offered, sourceFailed>>
    <3>1. /\ reading[s] = "idle" /\ reading'[s] = IF HotInbox(u) = {} THEN "miss" ELSE "hit"
          /\ UNCHANGED coldRead
      BY <1>0, <2>1 DEF CheckExists, u
    <3>2. ASSUME NEW p \in due[s], ByInNetwork(s, p) PROVE ByInNetwork(s, p)'
      <4>1. <<u, p>> \in pushed \cup appended
        BY <2>0, <3>1, <3>2 DEF ByInNetwork, u
      <4>2. CASE HotInbox(u) # {}
        BY <1>1, <2>0, <2>1, <3>1, <4>1, <4>2 DEF ByInNetwork, u
      <4>3. CASE HotInbox(u) = {}
        <5>1. <<u, p>> \notin pushed
          <6>1. ASSUME <<u, p>> \in pushed PROVE FALSE
            <7>1. p \in Posts
              BY <1>0, <6>1
            <7>2. ~ InHot(u, p)
              BY <4>3, <7>1 DEF HotInbox
            <7>3. Cardinality(HotInbox(u)) >= MaxItems
              BY <1>0, <6>1, <7>2 DEF PushedOrFull
            <7>4. Cardinality(HotInbox(u)) = 0
              BY <4>3, FS_EmptySet
            <7> QED
              BY <7>3, <7>4, CapAssumption
          <6> QED
            BY <6>1
        <5> QED
          BY <1>1, <2>0, <2>1, <3>1, <4>1, <4>3, <5>1 DEF ByInNetwork, u
      <4> QED
        BY <4>2, <4>3
    <3>3. reading'[s] = "hit" => HotInbox(u) # {}
      BY <3>1
    <3>4. reading'[s] # "promote"
      BY <3>1
    <3>5. ColdHeld(s)'
      BY <1>15, <3>4
    <3> QED
      BY <1>0, <1>1, <1>2, <1>5, <2>0, <2>1, <3>2, <3>3, <3>5 DEF RequestInv, u
  <2>2. CASE Promote(s) /\ UNCHANGED <<running, offered, sourceFailed>>
    <3>1. UNCHANGED <<reading, coldRead>>
      BY <2>2 DEF Promote
    <3> QED
      BY <1>0, <1>1, <1>2, <1>4, <1>5, <2>0, <2>2, <3>1, <1>14, <1>15 DEF RequestInv, u
  <2>3. CASE GetInbox(s) /\ Offer(s, NewestInInbox(UserOf[s])) /\ Done(s, InNetwork) /\ UNCHANGED sourceFailed
    <3>1. /\ reading[s] = "hit" /\ reading'[s] = "idle"
          /\ offered'[s] = offered[s] \cup NewestInInbox(u) /\ running'[s] = running[s] \ {InNetwork}
      BY <1>0, <2>3 DEF GetInbox, Offer, Done, LocalsDomains, u
    <3>2. ASSUME NEW p \in due[s], ByInNetwork(s, p) PROVE ByInNetwork(s, p)'
      <4>1. <<u, p>> \in pushed \cup appended
        BY <2>0, <3>1, <3>2 DEF ByInNetwork, u
      <4>2. p \in Posts /\ HotInbox(u) # {}
        BY <1>0, <3>1, <4>1 DEF RequestInv, u
      <4>3. p \in NewestInInbox(u) \/ Full(u) \/ BeyondLimit(u, p) \/ Hidden(u, p)
        <5>1. CASE <<u, p>> \in appended
          BY <4>2, <5>1 DEF Hidden
        <5>2. CASE <<u, p>> \notin appended
          <6>1. p \in HotInbox(u) \/ Full(u)
            BY <1>0, <4>1, <4>2, <5>2 DEF PushedOrFull, HotInbox, Full
          <6> QED
            BY <1>0, <5>2, <6>1, BehindNewerPushes
        <5> QED
          BY <5>1, <5>2
      <4> QED
        BY <1>2, <3>1, <4>3 DEF ByInNetwork, u
    <3> QED
      BY <1>0, <1>1, <1>2, <1>5, <2>0, <2>3, <3>1, <3>2, <1>3, <1>14, <1>15 DEF RequestInv, u
  <2>4. CASE /\ GetCold(s) /\ UNCHANGED <<offered, sourceFailed>>
             /\ running' = IF cold[UserOf[s]] = <<>>
                           THEN [running EXCEPT ![s] = @ \ {InNetwork}] ELSE running
    <3>1. /\ reading[s] = "miss" /\ coldRead'[s] = cold[u]
          /\ cold[u] = <<>> => reading'[s] = "idle" /\ running'[s] = running[s] \ {InNetwork}
          /\ cold[u] # <<>> => reading'[s] = "promote" /\ running'[s] = running[s]
      BY <1>0, <2>4 DEF GetCold, LocalsDomains, u
    <3>2. ASSUME NEW p \in due[s], ByInNetwork(s, p) PROVE ByInNetwork(s, p)'
      <4>1. <<u, p>> \in appended
        BY <3>1, <3>2 DEF ByInNetwork, u
      <4>2. (\E i \in DOMAIN cold[u] : cold[u][i] = p) \/ Len(cold[u]) = MaxColdTierItems
        BY <1>0, <4>1 DEF TimelineInv, FanoutInv, TierParts, AppendedKept
      <4>3. (\E i \in DOMAIN cold[u] : cold[u][i] = p) \/ Full(u)
        BY <4>2, CapAssumption DEF Full
      <4>4. CASE cold[u] = <<>>
        <5>1. DOMAIN cold[u] = {}
          BY <4>4
        <5> QED
          BY <1>2, <3>1, <4>3, <4>4, <5>1 DEF ByInNetwork, u
      <4>5. CASE cold[u] # <<>>
        BY <1>2, <2>0, <3>1, <4>3, <4>5 DEF ByInNetwork, u
      <4> QED
        BY <4>4, <4>5
    <3>3. ColdHeld(s)'
      <4>1. cold[u] \in Seq(Posts)
        BY <1>0 DEF TimelineInv, TimelineTypeOK, TypeOK
      <4>2. StartsWith(cold[u], cold[u])
        BY <4>1 DEF StartsWith
      <4> QED
        BY <1>1, <3>1, <4>2 DEF ColdHeld, u
    <3> QED
      BY <1>0, <1>1, <1>2, <1>5, <2>0, <2>4, <3>1, <3>2, <3>3, <1>3 DEF RequestInv, u
  <2>5. CASE /\ ReturnCold(s) /\ Offer(s, FirstInCold(coldRead[s]))
             /\ Done(s, InNetwork) /\ UNCHANGED sourceFailed
    <3>1. /\ reading[s] = "promote" /\ reading'[s] = "idle"
          /\ offered'[s] = offered[s] \cup FirstInCold(coldRead[s])
          /\ running'[s] = running[s] \ {InNetwork}
      BY <1>0, <2>5 DEF ReturnCold, DropRead, Offer, Done, LocalsDomains
    <3>2. ASSUME NEW p \in due[s], ByInNetwork(s, p) PROVE ByInNetwork(s, p)'
      <4>1. p \in FirstInCold(coldRead[s]) \/ Full(u) \/ BeyondLimit(u, p)
        <5> SUFFICES ASSUME ~ Full(u), p \notin FirstInCold(coldRead[s]) PROVE BeyondLimit(u, p)
          OBVIOUS
        <5>0. coldRead[s] \in Seq(Posts) /\ cold[u] \in Seq(Posts)
          BY <1>0 DEF TimelineInv, TimelineTypeOK, TypeOK
        <5>1. PICK i \in DOMAIN coldRead[s] : coldRead[s][i] = p
          BY <3>1, <3>2 DEF ByInNetwork, u
        <5>2. Len(coldRead[s]) > InNetworkCandidateLimit
          BY <5>0, <5>1, LimitAssumption DEF FirstInCold
        <5>3. StartsWith(cold[u], coldRead[s])
          BY <1>0, <3>1 DEF RequestInv, ColdHeld, u
        <5> QED
          BY <5>0, <5>2, <5>3, FirstOfPrefix DEF BeyondLimit
      <4> QED
        BY <1>2, <3>1, <3>2, <4>1 DEF ByInNetwork, u
    <3> QED
      BY <1>0, <1>1, <1>2, <1>5, <2>0, <2>5, <3>1, <3>2, <1>3, <1>14, <1>15 DEF RequestInv, u
  <2>6. CASE /\ ReadFails(s) /\ sourceFailed' = [sourceFailed EXCEPT ![s] = TRUE]
             /\ Done(s, InNetwork) /\ UNCHANGED offered
    <3>1. reading'[s] = "idle" /\ sourceFailed'[s] /\ running'[s] = running[s] \ {InNetwork}
      BY <1>0, <2>6 DEF ReadFails, DropRead, Done, LocalsDomains
    <3> QED
      BY <1>0, <1>1, <1>3, <2>0, <3>1, <1>14, <1>15 DEF RequestInv
  <2> QED
    BY <1>7, <2>1, <2>2, <2>3, <2>4, <2>5, <2>6 DEF ReadInNetwork
<1>8. CASE ReadCelebrities(s)
  <2>1. /\ Celebrity \in running[s] /\ readCelebs[s] = {} /\ toFetch[s] = {}
        /\ UNCHANGED <<reading, coldRead, offered, sourceFailed, due>>
    BY <1>8 DEF ReadCelebrities, allVars, readVars
  <2>2. due[s] # {} /\ due[s] \subseteq DOMAIN authorOf
    BY <1>0, <2>1 DEF RequestInv
  <2>3. \/ running'[s] = running[s] \ {Celebrity} /\ UNCHANGED <<toFetch, perCeleb, readCelebs>>
        \/ readCelebs'[s] = toFetch'[s] /\ UNCHANGED running
    BY <1>0, <1>8 DEF ReadCelebrities, Done, LocalsDomains
  <2>4. \A p : ByOutbox(s, p) => ByOutbox(s, p)'
    <3>1. readCelebs'[s] \ toFetch'[s] = {}
      BY <2>1, <2>3
    <3> QED
      BY <1>1, <3>1 DEF ByOutbox
  <2>5. InNetwork \in running'[s] <=> InNetwork \in running[s]
    BY <1>3, <2>3
  <2> QED
    BY <1>0, <1>1, <1>2, <1>4, <2>1, <2>2, <2>3, <2>4, <2>5, <1>14, <1>15 DEF RequestInv, u
<1>9. CASE ReadCelebritiesFails(s)
  <2>1. /\ Celebrity \in running[s] /\ toFetch[s] = {} /\ sourceFailed'[s]
        /\ running'[s] = running[s] \ {Celebrity}
        /\ UNCHANGED <<reading, coldRead, toFetch, due, readCelebs>>
    BY <1>0, <1>9 DEF ReadCelebritiesFails, Done, LocalsDomains, allVars, readVars
  <2> QED
    BY <1>0, <1>1, <1>2, <1>3, <2>1, <1>14, <1>15 DEF RequestInv, u
<1>10. ASSUME NEW a \in Authors, FetchOutbox(s, a) PROVE RequestInv(s)'
  <2>1. /\ a \in toFetch[s] /\ toFetch'[s] = toFetch[s] \ {a}
        /\ offered'[s] = offered[s] \cup NewestInOutbox(a, perCeleb[s])
        /\ UNCHANGED <<reading, coldRead, running, perCeleb, sourceFailed, readCelebs, due>>
    BY <1>0, <1>10 DEF FetchOutbox, Offer, LocalsDomains, allVars, readVars
  <2>2. ASSUME NEW p, ByOutbox(s, p) PROVE ByOutbox(s, p)'
    <3> DEFINE S == {q \in outbox[a] : q > p}
    <3>1. CASE authorOf[p] = a
      <4>1. p \in outbox[a] /\ S \in SUBSET Posts
        BY <1>0, <1>10, <2>2, <3>1 DEF ByOutbox
      <4>2. Cardinality(S) \in Nat /\ perCeleb[s] \in Nat
        BY <1>0, <4>1, PostsFinite DEF LocalsDomains
      <4>3. p \in NewestInOutbox(a, perCeleb[s]) \/ ~ (Cardinality(S) < perCeleb[s])
        BY <4>1 DEF NewestInOutbox
      <4>4. p \in NewestInOutbox(a, perCeleb[s]) \/ Cardinality(S) >= perCeleb[s]
        <5> HIDE DEF S
        <5> QED
          BY <4>2, <4>3
      <4> QED
        BY <1>1, <2>1, <3>1, <4>1, <4>4 DEF ByOutbox
    <3>2. CASE authorOf[p] # a
      BY <1>1, <2>1, <2>2, <3>2 DEF ByOutbox
    <3> QED
      BY <3>1, <3>2
  <2> QED
    BY <1>0, <1>1, <1>2, <1>4, <2>1, <2>2, <1>14, <1>15 DEF RequestInv, u
<1>11. ASSUME NEW a \in Authors, FetchOutboxFails(s, a) PROVE RequestInv(s)'
  <2>1. /\ a \in toFetch[s] /\ toFetch'[s] = toFetch[s] \ {a} /\ sourceFailed'[s]
        /\ UNCHANGED <<reading, coldRead, running, readCelebs, due>>
    BY <1>0, <1>11 DEF FetchOutboxFails, LocalsDomains, allVars, readVars
  <2> QED
    BY <1>0, <1>1, <1>2, <2>1, <1>14, <1>15 DEF RequestInv, u
<1>12. CASE JoinOutboxes(s)
  <2>1. /\ Celebrity \in running[s] /\ toFetch[s] = {} /\ running'[s] = running[s] \ {Celebrity}
        /\ UNCHANGED <<reading, coldRead, toFetch, perCeleb, offered, sourceFailed, readCelebs, due>>
    BY <1>0, <1>12 DEF JoinOutboxes, Done, LocalsDomains, allVars, readVars
  <2>2. due[s] # {} /\ (InNetwork \in running'[s] <=> InNetwork \in running[s])
    BY <1>0, <1>3, <2>1 DEF RequestInv
  <2> QED
    BY <1>0, <1>1, <1>2, <1>4, <1>5, <2>1, <2>2, <1>14, <1>15 DEF RequestInv, u
<1>13. CASE TakeCandidates(s)
  <2>1. /\ running[s] = {} /\ due'[s] = {} /\ readCelebs'[s] = {}
        /\ UNCHANGED <<reading, running, toFetch>>
    BY <1>0, <1>13 DEF TakeCandidates, LocalsDomains, allVars, readVars
  <2> QED
    BY <1>0, <1>1, <1>2, <2>1, <1>14, <1>15 DEF RequestInv, u
<1> QED
  BY <1>6, <1>7, <1>8, <1>9, <1>10, <1>11, <1>12, <1>13 DEF FanIn

\* A request writes only to its own place in the locals.
LEMMA OthersAlone ==
    ASSUME SourcesInv, NEW s \in Sessions, FanIn(s), NEW t \in Sessions, t # s
    PROVE  /\ reading'[t] = reading[t] /\ coldRead'[t] = coldRead[t]
           /\ running'[t] = running[t] /\ toFetch'[t] = toFetch[t] /\ perCeleb'[t] = perCeleb[t]
           /\ offered'[t] = offered[t] /\ sourceFailed'[t] = sourceFailed[t]
           /\ readCelebs'[t] = readCelebs[t] /\ due'[t] = due[t]
<1>1. /\ DOMAIN reading = Sessions /\ DOMAIN coldRead = Sessions /\ LocalsDomains
  BY DEF SourcesInv, TimelineInv, TimelineTypeOK
<1>2. CASE ReadInNetwork(s)
  <2>1. reading'[t] = reading[t] /\ coldRead'[t] = coldRead[t]
    BY <1>1, <1>2 DEF ReadInNetwork, CheckExists, Promote, GetInbox, GetCold, ReturnCold, ReadFails, DropRead
  <2>2. running'[t] = running[t] /\ offered'[t] = offered[t] /\ sourceFailed'[t] = sourceFailed[t]
    BY <1>1, <1>2 DEF ReadInNetwork, Offer, Done, LocalsDomains
  <2>3. UNCHANGED <<toFetch, perCeleb, readCelebs, due>>
    BY <1>2 DEF ReadInNetwork
  <2> QED
    BY <2>1, <2>2, <2>3
<1>3. CASE ~ ReadInNetwork(s)
  <2>1. UNCHANGED <<reading, coldRead>>
    BY <1>3 DEF FanIn, BeginFanIn, ReadCelebrities, ReadCelebritiesFails, FetchOutbox, FetchOutboxFails,
                JoinOutboxes, TakeCandidates, allVars, readVars
  <2>2. /\ running'[t] = running[t] /\ toFetch'[t] = toFetch[t] /\ perCeleb'[t] = perCeleb[t]
        /\ offered'[t] = offered[t] /\ sourceFailed'[t] = sourceFailed[t]
        /\ readCelebs'[t] = readCelebs[t] /\ due'[t] = due[t]
    BY <1>1, <1>3 DEF FanIn, BeginFanIn, ReadCelebrities, ReadCelebritiesFails, FetchOutbox,
                FetchOutboxFails, JoinOutboxes, TakeCandidates, Offer, Done, LocalsDomains
  <2> QED
    BY <2>1, <2>2
<1> QED
  BY <1>2, <1>3

\* The share of each celebrity is a number.
LEMMA SharesAreNumbers ==
    ASSUME SourcesInv, GraphInv, NEW s \in Sessions, FanIn(s)
    PROVE  LocalsDomains'
<1>1. LocalsDomains
  BY DEF SourcesInv
<1>2. CASE ReadCelebrities(s)
  <2> DEFINE celebs == FollowedCelebrities(UserOf[s])
  <2>1. CASE UNCHANGED perCeleb
    BY <1>1, <1>2, <2>1 DEF ReadCelebrities, LocalsDomains, Done
  <2>2. CASE celebs # {} /\ perCeleb' = [perCeleb EXCEPT ![s] = Share(Cardinality(celebs))]
    <3>1. Share(Cardinality(celebs)) \in Nat
      <4>1. IsFiniteSet(celebs)
        <5>1. celebs \subseteq nodes /\ nodes \subseteq Readers \cup Authors /\ IsFiniteSet(Readers \cup Authors)
          BY GraphAssumption
             DEF FollowedCelebrities, SourcesInv, GraphInv, GraphTypeOK, GraphConstants
        <5> QED
          BY <5>1, FS_Subset
      <4>2. Cardinality(celebs) \in Nat /\ Cardinality(celebs) # 0
        BY <2>2, <4>1, FS_CardinalityType, FS_EmptySet
      <4> HIDE DEF celebs
      <4>3. CelebrityCandidateLimit \div Cardinality(celebs) \in Nat
        BY <4>2, LimitAssumption
      <4> QED
        BY <4>3 DEF Share
    <3> HIDE DEF celebs
    <3>2. perCeleb' \in [Sessions -> Nat]
      BY <1>1, <2>2, <3>1 DEF LocalsDomains
    <3> QED
      BY <1>1, <1>2, <3>2 DEF ReadCelebrities, LocalsDomains, Done
  <2> QED
    BY <1>2, <2>1, <2>2 DEF ReadCelebrities
<1>3. CASE TakeCandidates(s)
  BY <1>1, <1>3 DEF TakeCandidates, LocalsDomains
<1>4. CASE FanIn(s) /\ ~ ReadCelebrities(s) /\ ~ TakeCandidates(s)
  BY <1>1, <1>4 DEF FanIn, ReadInNetwork, BeginFanIn, ReadCelebritiesFails, FetchOutbox, FetchOutboxFails,
                    JoinOutboxes, Offer, Done, LocalsDomains
<1> QED
  BY <1>2, <1>3, <1>4

\* Every step of the composition keeps every request's invariant.
LEMMA SourcesStep ==
    ASSUME SourcesInv, GraphInv, [SourcesNext]_sourceVars
    PROVE  SourcesInv'
<1>1. TimelineInv' /\ Grows /\ PushedOrFull' /\ ScoresSound'
  BY SourcesGrow, PushedOrFullKept, ScoresSoundKept DEF SourcesInv
<1>2. outbox' \in [Authors -> SUBSET Posts] /\ cold' \in [Readers -> Seq(Posts)]
  BY <1>1 DEF TimelineInv, TimelineTypeOK, TypeOK
<1>3. ASSUME NEW s \in Sessions, FanIn(s) PROVE SourcesInv'
  <2>1. LocalsDomains'
    BY <1>3, SharesAreNumbers
  <2>2. ASSUME NEW t \in Sessions PROVE RequestInv(t)'
    <3>1. CASE t # s
      BY <1>1, <1>2, <1>3, <3>1, OthersAlone, RequestBystander
    <3>2. CASE t = s /\ UNCHANGED vars
      BY <1>3, <3>2, OwnStep
    <3>3. CASE t = s /\ ~ UNCHANGED vars
      <4>1. ReadInNetwork(s) /\ Promote(s)
        BY <1>3, <3>3 DEF FanIn, BeginFanIn, ReadCelebrities, ReadCelebritiesFails, FetchOutbox,
                          FetchOutboxFails, JoinOutboxes, TakeCandidates, allVars, ReadInNetwork,
                          CheckExists, GetInbox, GetCold, ReturnCold, ReadFails
      <4>2. reading[s] = "promote" /\ UNCHANGED <<reading, coldRead>>
        BY <4>1 DEF Promote
      <4>3. UNCHANGED <<running, offered, sourceFailed, toFetch, perCeleb, readCelebs, due>>
        <5>1. s \in DOMAIN reading
          BY DEF SourcesInv, TimelineInv, TimelineTypeOK
        <5>2. ~ CheckExists(s) /\ ~ GetInbox(s) /\ ~ GetCold(s)
          BY <4>2 DEF CheckExists, GetInbox, GetCold
        <5>3. ~ ReturnCold(s) /\ ~ ReadFails(s)
          BY <4>2, <5>1 DEF ReturnCold, ReadFails, DropRead
        <5> QED
          BY <4>1, <5>2, <5>3 DEF ReadInNetwork
      <4> QED
        BY <1>1, <1>2, <3>3, <4>2, <4>3, RequestBystander
    <3> QED
      BY <3>1, <3>2, <3>3
  <2> QED
    BY <1>1, <2>1, <2>2 DEF SourcesInv
<1>4. ASSUME UNCHANGED <<readVars, locals>> PROVE SourcesInv'
  <2>1. LocalsDomains'
    BY <1>4 DEF SourcesInv, LocalsDomains, locals
  <2>2. ASSUME NEW t \in Sessions PROVE RequestInv(t)'
    BY <1>1, <1>2, <1>4, RequestBystander DEF readVars, locals
  <2> QED
    BY <1>1, <2>1, <2>2 DEF SourcesInv
<1>5. ASSUME SourcesNext, \A s \in Sessions : ~ FanIn(s) PROVE UNCHANGED <<readVars, locals>>
  BY <1>5 DEF SourcesNext, SignUp, FollowOnce, UnfollowOnce, FollowAgain
<1> QED
  BY <1>3, <1>4, <1>5 DEF sourceVars, allVars

\* At first no request runs.
LEMMA SourcesInvInit == SourcesInit => SourcesInv
<1> SUFFICES ASSUME SourcesInit PROVE SourcesInv
  OBVIOUS
<1>1. TimelineInv
  BY TimelineInvInit DEF SourcesInit
<1>2. /\ pushed = {} /\ reading = [s \in Sessions |-> "idle"]
  BY DEF SourcesInit, TimelineInit, Init
<1>3. /\ running = [s \in Sessions |-> {}] /\ toFetch = running /\ offered = running
      /\ readCelebs = running /\ due = running /\ perCeleb = [s \in Sessions |-> 0]
      /\ sourceFailed = [s \in Sessions |-> FALSE]
  BY DEF SourcesInit
<1>4. LocalsDomains
  BY <1>3 DEF LocalsDomains
<1>5. \A s \in Sessions : RequestInv(s)
  BY <1>2, <1>3 DEF RequestInv, ColdHeld
<1>6. ScoresSound
  <2>1. hot = [u \in Readers |-> [p \in Posts |-> 0]]
    BY DEF SourcesInit, TimelineInit, Init
  <2> QED
    BY <2>1, CapAssumption DEF ScoresSound
<1> QED
  BY <1>1, <1>2, <1>4, <1>5, <1>6 DEF SourcesInv, PushedOrFull

\* What a request in which no call failed does not offer, although it was
\* delivered before the request began, it leaves out for one of five reasons;
\* no race of the two sources with the worker and the graph adds another.
THEOREM NothingMissedForNothing == SourcesSpec => []MissedForAReason
<1>1. GraphInv /\ SourcesInv /\ [SourcesNext]_sourceVars => (GraphInv /\ SourcesInv)'
  BY GraphStep, SourcesStep
<1>2. ASSUME SourcesInv, NEW s \in Sessions, running[s] = {}, ~ sourceFailed[s],
             NEW p \in due[s] \ offered[s]
      PROVE  LET u == UserOf[s]
                 a == authorOf[p]
             IN  \/ Cardinality(HotInbox(u)) >= MaxItems
                 \/ Len(cold[u]) >= MaxColdTierItems
                 \/ BeyondLimit(u, p)
                 \/ <<u, p>> \in appended /\ HotInbox(u) # {}
                 \/ /\ p \in outbox[a]
                    /\ \/ a \notin readCelebs[s]
                       \/ Cardinality({q \in outbox[a] : q > p}) >= perCeleb[s]
  <2>1. toFetch[s] = {} /\ (ByInNetwork(s, p) \/ ByOutbox(s, p))
    BY <1>2 DEF SourcesInv, RequestInv
  <2>2. CASE ByInNetwork(s, p)
    BY <1>2, <2>2 DEF ByInNetwork, Full, Hidden
  <2>3. CASE ByOutbox(s, p)
    BY <1>2, <2>1, <2>3 DEF ByOutbox
  <2> QED
    BY <2>1, <2>2, <2>3
<1>3. SourcesInv => MissedForAReason
  BY <1>2 DEF MissedForAReason
<1> QED
  BY <1>1, <1>3, SourcesInitGraph, SourcesInvInit, PTL DEF SourcesSpec
=============================================================================
