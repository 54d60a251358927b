------------------------------ MODULE Hydration ------------------------------
(* Stages 4 and 5 of GetFeed in detail, inside the pipeline of FeedPage: the *)
(* rows come from all shards at once, the counts from Redis, the order from *)
(* ranking-service, which scores one candidate after the other and reads the *)
(* clock for each.  Comments are written and time passes meanwhile.          *)
EXTENDS FeedPage, Ranking

CONSTANTS
    Shards, ShardOf,    \* of the topology; ExtractShardID of each post
    CreatedAt,          \* each post's created_at
    MaxTicks,           \* bound: how far the clock goes
    MaxComments         \* bound: comments written

ASSUME PostsAssumption == IsFiniteSet(Posts)
ASSUME HydrationBounds == MaxTicks \in Nat /\ MaxComments \in Nat
ASSUME CreatedAssumption == CreatedAt \in [Posts -> Int]
ASSUME HydratableAssumption == Hydratable = {p \in Posts : ShardOf[p] \in Shards}

VARIABLES
    asking, results, merged, firstErr,  \* GetBatch of each tab's request
    step,           \* where in hydration the request is
    counts,         \* its local commentCounts
    unscored,       \* ranking-service: candidates of the request to be scored
    scoredAt,       \* ranking-service: what Utc::now() gave for each of the rest
    scoredFrom, scoredTo,   \* history: the first and the last of these times
    commentCount,   \* Redis: comments:count:<post>
    now             \* ranking-service's clock

INSTANCE ScatterGather WITH Calls <- Tabs, Keys <- Posts

gathering == <<asking, results, merged, firstErr>>
scoring == <<unscored, scoredAt, scoredFrom, scoredTo>>
hydrating == <<gathering, step, counts, scoring>>
world == <<commentCount, now>>
allVars == <<vars, hydrating, world>>

NoCounts == [p \in Posts |-> 0]

HydrationInit ==
    /\ Init /\ GatherInit
    /\ step = [t \in Tabs |-> "none"]
    /\ counts = [t \in Tabs |-> NoCounts]
    /\ unscored = [t \in Tabs |-> {}]
    /\ scoredAt = [t \in Tabs |-> [p \in Posts |-> 0]]
    /\ scoredFrom = [t \in Tabs |-> 0] /\ scoredTo = [t \in Tabs |-> 0]
    /\ commentCount = NoCounts /\ now = 0

\* The clock does not go back.
Tick ==
    /\ now < MaxTicks
    /\ now' = now + 1
    /\ UNCHANGED <<vars, hydrating, commentCount>>

\* INCR comments:count:<post>
CommentCreated(p) ==
    /\ FoldFunction(+, 0, commentCount) < MaxComments
    /\ commentCount' = [commentCount EXCEPT ![p] = @ + 1]
    /\ UNCHANGED <<vars, hydrating, now>>

-----------------------------------------------------------------------------
\* GetBatch begins.
BeginGetBatch(t) ==
    /\ stage[t] = "rank" /\ step[t] = "none"
    /\ Scatter(t, gathered[t])
    /\ step' = [step EXCEPT ![t] = "batch"]
    /\ UNCHANGED <<vars, counts, scoring, world>>

\* Every candidate has a row: it was stored before it was published.
QueryPostMeta(t, s) ==
    /\ QueryShard(t, s, asking[t][s])
    /\ UNCHANGED <<vars, step, counts, scoring, world>>

\* A shard does not answer.  The bound counts the requests that will fail.
QueryPostMetaFails(t, s) ==
    /\ Doomed(t) \/ failures + Cardinality({u \in Tabs : Doomed(u)}) < MaxFailures
    /\ QueryFails(t, s)
    /\ UNCHANGED <<vars, step, counts, scoring, world>>

ReceiveMetas(t) ==
    /\ Receive(t)
    /\ UNCHANGED <<vars, step, counts, scoring, world>>

\* BatchGetCounts: a GET that is not answered reads as 0 and is no error.
\* Likes read as 0 always: no service writes the key the feed reads.
BatchGetCounts(t) ==
    /\ step[t] = "batch" /\ Collected(t) /\ ~ firstErr[t]
    /\ \E answered \in SUBSET merged[t] :
          counts' = [counts EXCEPT ![t] =
                        [p \in Posts |-> IF p \in answered THEN commentCount[p] ELSE 0]]
    /\ unscored' = [unscored EXCEPT ![t] = merged[t]]
    /\ step' = [step EXCEPT ![t] = "rank"]
    /\ UNCHANGED <<vars, gathering, scoredAt, scoredFrom, scoredTo, world>>

\* score_candidate of one row that was sent to ranking-service.
ScoreCandidate(t, p) ==
    /\ step[t] = "rank" /\ p \in unscored[t]
    /\ unscored' = [unscored EXCEPT ![t] = @ \ {p}]
    /\ scoredAt' = [scoredAt EXCEPT ![t][p] = now]
    /\ scoredFrom' = IF unscored[t] = merged[t] THEN [scoredFrom EXCEPT ![t] = now] ELSE scoredFrom
    /\ scoredTo' = [scoredTo EXCEPT ![t] = now]
    /\ UNCHANGED <<vars, gathering, step, counts, world>>

\* A candidate of the request, as it is scored at a given time.
CandidateOf(t, p, at) == Candidate(0, counts[t][p], Age(CreatedAt[p], at))

Scored(t, p) == CandidateOf(t, p, scoredAt[t][p])

\* ranked.sort_by: descending.
Sorted(s, t) ==
    \A i, j \in DOMAIN s : i < j => ScoresAtLeast(Scored(t, s[i]), Scored(t, s[j]))

\* The rows come in the order of a Go map, so equal scores are in any order.
RankByScore(t) ==
    /\ step[t] = "rank" /\ unscored[t] = {}
    /\ \E order \in SetToSeqs(merged[t]) :
          /\ Sorted(order, t)
          /\ ranked' = [ranked EXCEPT ![t] = order]
    /\ stage' = [stage EXCEPT ![t] = "mark"]
    /\ gathered' = [gathered EXCEPT ![t] = {}]
    /\ step' = [step EXCEPT ![t] = "none"]
    /\ DropGather(t)
    /\ UNCHANGED <<candidates, seen, offset, client, counters, history, counts, scoring, world>>

\* The locals of the request are gone.
Forget(t) ==
    /\ counts' = [counts EXCEPT ![t] = NoCounts]
    /\ unscored' = [unscored EXCEPT ![t] = {}]
    /\ scoredAt' = [scoredAt EXCEPT ![t] = [p \in Posts |-> 0]]
    /\ scoredFrom' = [scoredFrom EXCEPT ![t] = 0] /\ scoredTo' = [scoredTo EXCEPT ![t] = 0]

\* Rank returned an error, or the process or the connection went.
RequestFails(t) ==
    /\ GetFeedFails(t)
    /\ DropGather(t)
    /\ step' = [step EXCEPT ![t] = "none"]
    /\ Forget(t)
    /\ UNCHANGED world

\* GetBatch returned the first error.
GetBatchFails(t) ==
    /\ step[t] = "batch" /\ Collected(t) /\ firstErr[t]
    /\ RequestFails(t)

\* What Rank stands for in FeedPage.
Hydrate(t) ==
    \/ BeginGetBatch(t)
    \/ \E s \in Shards : QueryPostMeta(t, s) \/ QueryPostMetaFails(t, s)
    \/ ReceiveMetas(t)
    \/ BatchGetCounts(t)
    \/ \E p \in Posts : ScoreCandidate(t, p)
    \/ RankByScore(t)

\* The stages before and after, as they are in FeedPage.
Return(t) ==
    /\ Deliver(t)
    /\ Forget(t)
    /\ UNCHANGED <<gathering, step, world>>

OtherStages ==
    \/ \E c \in Sources, p \in Posts : Arrives(c, p) \/ Leaves(c, p)
    \/ \E p \in Posts : SeenExpires(p)
    \/ ResetSeenState
    \/ \E t \in Tabs : Refresh(t) \/ LoadMore(t) \/ FilterUnseen(t) \/ MarkSeen(t)

HydrationNext ==
    \/ Tick
    \/ \E p \in Hydratable : CommentCreated(p)
    \/ \E t \in Tabs : Hydrate(t) \/ GetBatchFails(t)
    \/ /\ \/ OtherStages /\ UNCHANGED <<hydrating, world>>
          \/ \E t \in Tabs : Return(t) \/ RequestFails(t)
       /\ failures' + Cardinality({u \in Tabs : Doomed(u)'}) <= MaxFailures

HydrationSpec == HydrationInit /\ [][HydrationNext]_allVars

\* The goroutines of a request run, its stages too, and the viewer keeps
\* refreshing.
HydrationFairSpec ==
    /\ HydrationSpec
    /\ \A t \in Tabs :
          /\ WF_allVars(FilterUnseen(t) /\ UNCHANGED <<hydrating, world>>)
          /\ WF_allVars(Hydrate(t) \/ GetBatchFails(t))
          /\ WF_allVars(MarkSeen(t) /\ UNCHANGED <<hydrating, world>>)
          /\ WF_allVars(Return(t))
          /\ SF_allVars(Refresh(t) /\ UNCHANGED <<hydrating, world>>)

-----------------------------------------------------------------------------
\* The pipeline with its shards, goroutines, counts and scores is one of those
\* FeedPage describes: it ranks all candidates whose shard is known, no more and
\* no fewer, or fails as a whole; no shard that errs or is late makes a feed
\* that silently lacks its posts.
ImplementsGetFeed == Spec

\* A post that is fresher and has more comments than another, as they were
\* read, is never ranked behind it, however close their scores come and however
\* the seconds fall between one scoring and the next: it is enough that its age
\* at the last scoring is not above the other's at the first.
DeservingFirst ==
    \A t \in Tabs : \A i, j \in DOMAIN ranked[t] :
        Deserves(CandidateOf(t, ranked[t][i], scoredTo[t]),
                 CandidateOf(t, ranked[t][j], scoredFrom[t])) => i < j
=============================================================================
