# A verification of feed-generation-service

This directory holds TLA+ models of the parts of the repository that carry its
own logic, the TLC runs that check them on small instances, and TLAPS proofs of
what matters most for instances of any size.  `PROJECT.json` lists the runs, the
mutations of the model that each property catches, the source lines behind every
definition, the disagreements found, and the hazards that the properties are for.

## 1. Inventory

Paths are relative to the repository root.  PIS = `services/post-ingestion-service/internal`,
FAS = `services/feed-aggregation-service/internal`, FW =
`services/fanout-worker/src/main/java/com/feed/fanout`.

| Component | State it keeps | Operations | Talks to | What is hard, and what makes it correct |
|---|---|---|---|---|
| ID generators: `pkg/sharding/snowflake.go`, Java and TypeScript twins | per process and shard: `sequence`, `lastTimestamp`; nothing is persisted | `Next`, `ExtractShardID` | the wall clock | sequence exhaustion, restarts, a clock set back, several processes per shard; IDs unique, increasing, self-routing |
| Ring: `pkg/sharding/ring.go`, `ShardRing.java` | none (a function of the topology file) | `ShardForNewEntity` | — | the two languages must agree bit for bit |
| Posts: `PIS/service/post_service.go` | Postgres row, Kafka record | `CreatePost`: insert, then publish | Kafka | the publish may fail or be overtaken |
| Social graph: `PIS/storage/neo4j/graph_repo.go`, its reader `FAS/storage/neo4j/graph_repo.go` | User nodes, FOLLOWS edges, `followerCount`, `isCelebrity` | `EnsureUserNode`, `Follow`, `Unfollow`, `FollowedCelebrities`, `Following` | — | statements are repeated, the fan-out and the feed read while they change; the count is the number of edges |
| Fan-out: `FW/FanoutWorkerApp.java`, `FW/service/FanoutService.java` and its repositories | committed offsets, the batch, `handle`'s locals | poll, handle, commit | Neo4j, Postgres, Redis, the cold tier | crashes, redelivery, partial failure, stale reads; nothing skipped, nobody forgotten, nobody else served |
| Hot and cold inbox: `FAS/storage/redis/hot_inbox_repo.go`, `FAS/storage/badger/cold_inbox_repo.go`, in-network and celebrity source of `FAS/service/feed_service.go` | sorted sets `feed:user:<id>` and `celebrity:outbox:<id>`, Badger list `cold:inbox:<id>` | read, promote; written by the worker | — | promotion races the worker and other requests; caps; what is promoted, when and in which order; two sources side by side; what was delivered is found, or there is a known reason |
| Likes: `PIS/service/engagement_service.go`, `PIS/storage/redis/counter_repo.go`, `like_state_repo.go`, `rate_limiter.go` | Postgres `likes`; Redis sub-counters, cached sum, `user_likes`, rate windows | `Like`, `Unlike` | — | three stores and no transaction; counters exact, or wrong in one direction only |
| Comments: the same service | Postgres `comments`, a Redis counter, the `singleflight.Group` | create, list | — | row and counter may part; a shared fetch shares its errors and gaps too; lists fresh, everybody answered |
| Feed page: `FAS/service/feed_service.go`, `diversity.go`, `cursor.go`, `seen_state_repo.go` | `seen:user:<id>`, the client's cursor | `GetFeed`, `ResetSeenState` | every source, ranking-service | tabs, arrivals and expiry between pages; no duplicates, no skips |
| Scatter-gather reads: `FAS/storage/postgres/post_meta_repo.go`, `PIS/storage/postgres/post_repo.go`, `user_repo.go` | a channel, a WaitGroup, the first error | `GetBatch`, `RecentByAuthors`, `ListRecentByAuthors`, `ListAll` | the shards | one shard errs or is late; the whole read fails, and never hangs |
| Vector source: `FAS/service/feed_service.go`, `FAS/storage/qdrant/vector_repo.go` | none | `vectorCandidates` | Neo4j, the shards, Qdrant | the index lags behind the rows; candidates have rows, the taste comes from all shards |
| ranking-service: `services/ranking-service/src/main.rs` | none | `rank` | — | scores of close values, counts that were not read, ties; whoever deserves more is never behind |
| Signup: `PIS/service/user_service.go` | Postgres row, Redis directory, Neo4j node | `CreateUser` | the ring, the generators | three writes, no transaction, races for a name; one owner per name, and the directory names nobody else |
| notification-service, vector-pipeline | offsets, notifications, vectors | handle `post-created` | the username directory, Postgres, Qdrant | redelivery, commits that pass over a failed record; whoever is mentioned is notified, every post is indexed or its failure logged |
| moderation, uploads, web-ui, scripts, generated code, compose files | — | — | — | stateless, pure I/O, a demo client, or not logic |

How they interact: `CreatePost` writes a row and a record of the topic
`post-created`; three consumer groups read it.  The fan-out worker asks Neo4j who
follows the author and Postgres who is active, and writes the hot tier (Redis),
the cold tier (gRPC to feed-aggregation-service) or the author's celebrity
outbox.  `GetFeed` merges what the tiers, the celebrity outboxes and the vector
index hold, drops what was seen, has it ranked, and cuts a page.  Likes never
touch the fan-out; IDs from the generators name everything.

## 2. Modules

| Module | Models | Extends or instantiates |
|---|---|---|
| `Snowflake` | the generators and the wall clock | |
| `SnowflakeProofs` | proofs about them | `Snowflake`, `TLAPS` |
| `Fanout` | post creation, follows, the topic, the worker and the stores it writes | |
| `AtLeastOnce` | what a consumer that commits after its work promises, abstractly | |
| `FanoutRefines` | the worker implements `AtLeastOnce` | `Fanout`, `INSTANCE AtLeastOnce` |
| `Timeline` | the in-network source of `GetFeed`, composed with the whole of `Fanout` | `Fanout` |
| `FanoutProofs` | proofs about the worker and the two tiers, alone and beside requests | `FanoutRefines`, `Timeline`, `TLAPS` |
| `Engagement` | likes and unlikes of one post | |
| `EngagementProofs` | proofs about rows, counters and answers | `Engagement`, `WellFoundedInduction`, `TLAPS` |
| `FeedPage` | the pipeline of `GetFeed` for one viewer with several tabs | |
| `Ring` | the consistent-hash ring, in Go and in Java | |
| `Accounts` | signup: row, graph node, username directory | `Ring` |
| `Mentions` | notification-service, composed with the whole of `Accounts` | `Accounts`, `INSTANCE AtLeastOnce` |
| `AccountsProofs` | the two rings agree; signup and notifications, proved | `Mentions`, `WellFoundedInduction`, `TLAPS` |
| `VectorPipeline` | the consumer that indexes captions | `INSTANCE AtLeastOnce` |
| `Comments` | creation and shared listing of one post's comments | |
| `CommentsProofs` | the counter and the shared lists, proved | `Comments`, `SequenceTheorems`, `TLAPS` |
| `ScatterGather` | a read of all shards: goroutines, channel, WaitGroup | |
| `Ranking` | the score of ranking-service, in exact fractions | |
| `Hydration` | stages 4 and 5 of `GetFeed` in detail; implements `FeedPage` | `FeedPage`, `Ranking`, `INSTANCE ScatterGather` |
| `HydrationProofs` | the pages of `FeedPage`, the score, the refinement and the order, proved | `Hydration`, `WellFoundedInduction`, `TLAPS` |
| `SocialGraph` | nodes, edges and the two properties kept beside them | |
| `FeedSources` | `fanIn`: inbox and celebrity outboxes, over the fan-out and the graph | `Timeline`, `INSTANCE SocialGraph` |
| `FeedSourcesProofs` | the counts are the degrees; what a request misses has a reason | `FeedSources`, `FanoutProofs` |
| `TasteSource` | the vector source, from `CreatePost` over vector-pipeline to its candidates | `VectorPipeline`, `INSTANCE ScatterGather` |
| `TasteSourceProofs` | the consumer, the candidates and the seeds, proved | `TasteSource`, `FiniteSetTheorems`, `TLAPS` |
| `MC*` | values of the constants and symmetries for TLC | the module they instantiate |

### Snowflake
`sequence[g]` and `lastTimestamp[g]` are the fields of `IDGenerator`; the mutex
makes a call of `Next` one step, but for the loop it spins in while holding the
mutex (`spinning[g]`): `MintInOtherMillisecond` is the else branch,
`MintInSameMillisecond` the increment, `ExhaustSequence` and `LeaveSpin` the
entry to and the exit from the loop.  `now` is milliseconds since `epochMillis`.
`SequenceSpan` and `ShardSpan` are the widths of the two fields (2^14 and 2^8);
`Pack` is the two shifts and ORs, as a sum, since the fields do not overlap.
`Restart` is a new process; `Spec` has a clock that does not go back,
`SteppedSpec` one that does.  `Gens` are generator instances, each of a service (`ServiceOf`) and
seeded with a shard (`ShardOf`); a process keeps one per shard (`OnePerShardAssumption`), and
post-ingestion-service and notification-service both seed theirs with every shard, so that
generators of two services may share one.  The algorithm is the same in Go, Java and
TypeScript, so one model stands for the three.  Not modelled: the 41-bit
timestamp running out (in 69 years).

### Fanout
A post is the number of its `createdAt` among all posts, so equal milliseconds
do not occur; `PushScore` puts `createdAt` above every score a promotion gives,
as epoch milliseconds are above 800.  `log[x]` is a partition, `committed`,
`next` and `fetched` are the group's offset, the record in hand and the end of
the batch.  Each call that `FanoutService.handle` makes is an action:
`CheckCelebrity`, `PushToCelebrityOutbox`, `GetFollowers`, `NoFollowers`,
`FilterActive`, then per follower `PushToInbox` (ZADD) and `TrimInbox`
(ZREMRANGEBYRANK), then `AppendToColdTier` or `AppendSwallowed`.  Between any two
of them users post, follow and unfollow, activity lapses, the worker crashes.
`RecordFails` is an exception that leaves `handle`; the loop logs it and goes on.
`DeadlinePasses` is the stub's one deadline.  `commitSync` failing is `Restart`:
it throws out of `main`.  There is one worker, as in the compose file: no
rebalance.  Followers are pushed to in any order.  `isCelebrity` is set in the
same Cypher statement as the edge; here it is a function of the edges, and `SocialGraph`
shows that the stored flag is that function.

### Timeline
`Sessions` are `GetFeed` requests; `reading[s]` walks through `Exists`,
`GetInbox` or `coldInbox.Get`, the ZADDs of `Promote` one by one (a pipeline is no
transaction), and the return of the cold inbox.  Every action of `Fanout` may come
between two of these.  How many of the entries are returned is modelled in `FeedSources`.

### Engagement
A request is a record that walks through the calls of `Like` or `Unlike`:
limiter (INCR, EXPIRE), row, `user_likes`, counter (INCR or DECR, the clamp),
DEL of the cached sum, GET, MGET, SET.  `FailureIgnored` is a failed command the
code does not look at, `RequestFails` one that ends the request, or the end of the
process.  `SubShardOf` is `counterShard` on the liker's ID; both users share a
sub-counter, the case in which they can disturb each other.  `SerialUsers` is the
client's discipline: `web-ui/app.js` disables the button during the call.
`lostDecrements` and `lostClamps` are history: requests that died after they deleted a row
and before its DECR, and such as failed or died between a DECR and its SET 0.

### FeedPage
`candidates[c]` is what a source would answer now, `seen` the members of
`seen:user:<id>` younger than the TTL.  `Refresh` and `LoadMore` are the two ways
the client asks (`web-ui/app.js`, `loadFeed`); a tab waits for its answer.  Either
is one step with `FanIn`, as before the answers of the sources a request reads only the
tab's own cursor; `FilterUnseen`, `Rank`, `MarkSeen` and `Deliver` follow, each a step, with
other requests between them.  `Deliver` is the answer arriving at the tab, some time after
the mark; `GetFeedFails` may end the request at any stage before, and what was marked by
then stays marked: `lost` is history of posts that were marked for an answer which did not
arrive.  A source that fails gives nothing, a ZSCORE that is not answered counts as unseen, a pipelined ZADD
may be lost, metadata or ranking failing ends the request.  `Rank` allows every
order: scores move with time and counts, and ties come in the order of a Go map; it leaves
out posts that are not `Hydratable`, whose ID names no shard of the topology.  `Hydration`
puts the shards, the counts and the scores in its place.
`Diversified`, `Page`, `NextOffset` and `WithAds` are the pure functions.
`Gathered` lets a failed source answer in part: the celebrities' outboxes fail one by
one.  `Leaves` is a candidate that its source no longer answers with.

### Ring
`Hash` is CRC-32, any function as far as the model goes.  `Nodes` is Go's slice after
`sort.Slice`, of which `NewRing` says what that leaves open: nodes of equal hash stand in
any order.  `PutLast` is the value Java's `TreeMap` holds after the constructor's loop.

### Accounts and Mentions
A signup walks through the three writes of `CreateUser`, each an action; `SignupFails` ends
it at any of them, the write in hand done or not.  `Taken` is the UNIQUE constraint *of one
shard*.  An ID is the number of its minting, with the shard beside it (`shardOf`): what
`Snowflake` shows of IDs is used here, not modelled again.  notification-service takes a
message (`TakeMessage`), looks up one name after the other (`Lookup`), inserts
(`CreateNotification`), and commits the offset of this one message (`CommitMessage`).
`MessageFails` is the `catch` around all of that: the loop goes on, and the next commit of
the partition passes over the message.  The set of names in a caption is what
`extractMentions` returns.

### VectorPipeline
The same topic, but `consumer.commit()` commits the positions of *all* partitions.  An
upsert replaces the point of the same post, so a redelivery leaves no trace.

### Comments
`creation[c]` is how far `CreateComment` got with comment `c`; `flight` is the entry of
the `singleflight.Group` for the post, `call[r]` what a reader waits for.  `LeaderLeaves`
cancels the context of the request that started the fetch; `NameFromUsers` then fails for
everybody who waits, and leaves names blank.  The group itself is a library, modelled from
how `ListComments` calls it: one entry per key, removed when the function returns.

### ScatterGather
A call's goroutines are the shards with something to ask (`asking[c][s]`), the buffered
channel is `results[c]`; a goroutine's send and its `Done` are one step, since the buffer
has room for all of them.  `Collected` is the end of `range results`: every goroutine is
done and nothing is left to receive.  `GetBatch`, `RecentByAuthors` and the two reads of
post-ingestion-service are the same code; only what a shard's query returns differs, and is
given by the module that instantiates this one.  `ListAll` and `ListRecentByAuthors` have no
instance of their own.

### Ranking
`Second` is the ticks of the clock in a second, `Day` the seconds in 24 hours; `Age` is cut to
whole seconds and is 0 for a post from a clock ahead.  The probabilities are fractions with known denominators, so that `ScoresAtLeast` compares
two scores exactly by cross-multiplication, with the default weights (`Weights::from_env`
lets the environment change them).  The code computes in doubles: two scores that differ by
less than their rounding may compare the other way round there, which for posts that differ
in a count or by a second does not happen unless they are centuries old.  `Deserves` is the
reference: a partial order that any sensible score must respect.

### Hydration
`EXTENDS FeedPage` and replaces its one step `Rank` by `BeginGetBatch`, a query and an
answer for every shard, `ReceiveMetas`, `BatchGetCounts`, one `ScoreCandidate` for each row and
`RankByScore`, the sort, with comments and ticks of the clock in between; the other stages are those
of `FeedPage`, unchanged.  `score_candidate` reads `Utc::now()` anew for each candidate:
`scoredAt[t][p]` is what it read, and the candidates are scored in any order, that of a Go map.
`scoredFrom` and `scoredTo` are history, the first and the last of these times; ranking-service's
clock does not go back.
`BatchGetCounts` ignores the error of its pipeline: any subset of the counts is read as 0.
Likes are always 0, because no service writes the key the feed reads.  `MaxFailures` bounds
the requests that fail: one of which a shard has erred (`Doomed`) is counted when the
error is sent.

### SocialGraph and FeedSources
The Cypher statements are the actions, each atomic, each as often as anybody sends it;
`MergeFollow` is `MATCH`, `MERGE` and `ON CREATE` together, so that a repeated follow or one
of an unknown user changes nothing.  `FeedSources` runs the graph's statements together with
what `Fanout` keeps of the graph, the whole worker, and a `GetFeed` request whose in-network
source is that of `Timeline`, while the celebrity source asks for the celebrities, fetches
one outbox per goroutine and appends under the mutex.  The in-network read takes
`InNetworkCandidateLimit` entries: of the hot inbox the newest (`NewestInInbox`), of the cold one
the first, which are the oldest (`FirstInCold`).  `due[s]` is history: what had been
delivered to the reader when the request began.  Requests of readers with nothing delivered
are left out, as they say nothing of what is missed.

### TasteSource
`InsertPost` and `PublishPost` are the two writes of `CreatePost`, in any order among posts;
`Consume` is vector-pipeline, whole.  A request takes its user and whomever he follows (any
set: the graph is read once and used from then on), gathers their recent posts over
`ScatterGather`, needs one with a point for a taste, and searches; which points are nearest
is left open.  `Newest` is the query of one shard: its `LIMIT` is for all authors asked there
together, not for each.

## 3. Runs

Every passing run ends because its bounds do; `CHECK_DEADLOCK FALSE` stands in
the configurations whose instance stops at a bound (clock, calls, posts).

| Run | Shows | Bounds |
|---|---|---|
| `Snowflake_unique` | `UniqueInService`, `MonotonicWithinShard`, `SpinTerminates` under a clock that does not go back | 2 services, one on 2 shards and the other on one of these, 2 sequence numbers, 4 ms, 4 IDs each, restarts at will: exhaustion happens after 2 IDs, and a restart in any millisecond |
| `Fanout_worker` | `NoRecordSkipped`, `StableFollowersServed`, `OnlyFollowersServed`, `AppendedKept`, `RedeliveryHarmless`, `EveryRecordCommitted`, `ConsumesAtLeastOnce` | 2 authors on 2 partitions, 2 readers, one active and one dormant at first, cutoff 1 (both together make a celebrity), 2 posts, 1 crash, 1 change of the graph or of activity: celebrity status can flip between the two reads, and a batch spans partitions; a cold inbox holds 1 entry, so that a second one exceeds it |
| `Timeline_races` | `PushedKept`, `PromotedKept`, `PushesOutrankPromoted` | 2 requests of 1 reader, 3 posts, caps 2, so that a trim drops a post and an inbox is over its cap between ZADD and trim, after a crash there, and after a promotion; 1 crash or failed record, 1 lapse (or none active at first).  The constraint `Steady` leaves out what concerns the deliveries alone and `Fanout_worker` checks: the reader follows throughout, the stub is young, no publish fails |
| `Engagement_failures` | `ExactWithoutFailures`, `OvercountNeedsLostDecrement`, `NegativeAwaitsClamp`, `OwnLikeVisible`, `RefusedUserReleased` | 2 users, 2 requests at once, 3 calls (like, unlike, and a third that interferes or retries), 2 failures, limit 2; a counter goes below zero when the INCR of a like was lost |
| `FeedPage_tabs` | `NotShownTwice`, `BestOfEachAuthor`, `AdsDisplaceNothing` | 2 tabs, 3 posts, cap 1, pages of 1 post + 2 ads, one of them before the post, which is moved by it: lists longer and shorter than a page, offsets beyond the end; 1 expiry or reset, 1 failure.  What follows a failed call to the seen state is not explored (constraint `SeenStateAnswers`), as `NotShownTwice` promises nothing there |
| `Hydration_refresh` | `ImplementsGetFeed`, `DeservingFirst`, `RefreshReachesEveryPost` | 1 tab, 2 posts on 2 shards and a forged ID of no shard, half a second apart, 1 comment, a clock that goes on by 2 half seconds, so that a second begins between two scorings and the ages come out in either order or equal (a day is 1 second); pages of 1, cap 1; 1 expiry, reset or departure, 1 failure, also of an answer after the mark |
| `FeedSources_missed` | `CountIsDegree`, `MissedForAReason` | 1 request of r1, whose followees r2 follows at first, so that either author is a celebrity as soon as r1 follows him (cutoff 1): none, one or two celebrities share a limit of 1; the in-network read takes 1 entry of tiers that hold 3, so that it leaves one out and is not confused with the cap (no tier is full here: that reason is left to the proof); 2 posts, 1 signup, follow or unfollow during the behaviour, from every graph that contains r2's edges.  Users and authors are nodes or not.  No crash: `Timeline_races` has those.  Authors are symmetric (`SwapAuthors`: one partition, and the initial graphs are closed under the swap) |
| `Mentions_notifier` | `UsernameUnique`, `DirectoryTrue`, `MentionsDelivered`, `NotifiedWithReason`, `NotifierAtLeastOnce` | 2 shards of 2 virtual nodes, 2 names on different shards (one wraps around the ring), 3 users by 2 signups at once, so that two race for a name and a failed one is tried again; 2 posts on 2 partitions, 1 failure each of a signup and a message, 1 restart |
| `Taste_vector` | `CandidatesHydrate`, `SeedsFromAllShards`, `SourceAlwaysReturns`, `EveryPostIndexed`, `PipelineAtLeastOnce` | 2 authors on 2 shards and 2 partitions, so that a commit covers messages of both and a shard may be missing; 2 posts, 1 failure, 1 restart; limits of 1, so that a post is crowded out.  Deadlock is checked: requests never end |
| `Comments_shared_list` | `CountAccounted`, `ListIsFresh`, `NameFoundIsKept`, `EveryReaderAnswered` | 2 comments, 3 reads, 1 failure or leader who leaves: a reader joins a fetch that is behind a new comment, and another finds none under way |

Runs that end in a violation each check one sentence of the repository against
what the code does; `PROJECT.json` quotes it.

| Run | What the code does |
|---|---|
| `Fanout_cold_deadline` | the stub's deadline runs out 5 s after the worker's start; every later append is dropped |
| `Engagement_like_uncounted` | a like whose SADD failed is never counted |

`Fanout_cold_deadline` sets `ColdTierReliable`, so that no append is lost for
another reason.

The models have these disagreements with the docs too; no run is kept for them.

* After a wall clock is set back, `Next` mints again in a millisecond already used
  (`pkg/sharding/snowflake.go:58` compares for equality only): `UniqueInService` and
  `GloballyUnique` fail under `SteppedSpec`, against `db/shard-schema.sql:16`, "every ID is globally unique across all 4
  independent databases".
* Promotion gives the first, oldest entry of the cold inbox the highest score
  (`FAS/storage/redis/hot_inbox_repo.go:63`; entries are appended at the end,
  `FAS/storage/badger/cold_inbox_repo.go:77`), against `hot_inbox_repo.go:62`, "most-recent-first, as cold
  entries are appended in that order".
* The cursor's offset is applied to a list that has lost the posts of the pages before
  (`FAS/service/feed_service.go:124`), so it skips as many unseen posts as were just marked seen, against
  `doc/DESIGN.md:243`, which has the cursor avoid "duplicates or skips".
* The feed reads likes from `likes:count:<post>` (`FAS/storage/redis/counter_repo.go:31`), a key that
  post-ingestion-service never writes; it writes the sub-counters and `:sum`.
* `FAS/storage/postgres/post_meta_repo.go:129`, "merges by CreatedAt", of `RecentByAuthors`: the
  merge appends in the order in which shards answer, and nothing is sorted (its twin in
  post-ingestion-service does sort).
* `limitPerAuthor` of the same read limits the authors of a shard together
  (`FAS/storage/postgres/post_meta_repo.go:188`): one of them may take every place.
* `recency_decay` is 1 / (1 + days), which halves once, after a day, and is a third after two, against
  `services/ranking-service/src/main.rs:94`, "halving roughly every 24h".
* notification-service seeds generators for the same shards as post-ingestion-service
  (`services/notification-service/src/storage/postgres/shardedPool.ts:26`): in the instance of
  `Snowflake_unique` itself `GloballyUnique` fails in the first millisecond, against
  `db/shard-schema.sql:16`.  `UniqueInService` is what does hold: no service uses an ID twice, and two
  that share one are those of two services on one shard, which write different tables.
* Posts are marked seen before the answer is written (`FAS/service/feed_service.go:156`): if the
  process or the connection goes in between, they are hidden for `SEEN_STATE_TTL_SECONDS` though nobody was
  shown them.
* A request takes 500 entries of an inbox of up to 800 (`FAS/service/feed_service.go:202`, `:220`): of a
  cold inbox that is longer, it leaves out the newest.
* `rank` reads the clock for each candidate (`services/ranking-service/src/main.rs:102`): when a second
  begins between two scorings, a post that is a little fresher may be ranked behind one with no more
  comments.
* A reader who went dormant while the hot inbox was not empty never reads the cold
  tier again (`FAS/service/feed_service.go:201`), against `doc/DESIGN.md:175`, "the moment they
  open the app, it's promoted back into Redis".
* A promotion leaves `last_active_at` as it is, so that a reader who came back stays
  dormant for the fan-out, against `FAS/service/feed_service.go:212`, "a read means they're
  active again now".
* An answer between a DECR and its SET 0 shows a negative count, against
  `PIS/storage/redis/counter_repo.go:80`, which has them "never leave a negative sub-count visible": after a lost
  INCR, or with two calls of one user at once (`SerialUsers = FALSE`).  `NegativeAwaitsClamp` bounds it.
* A failed EXPIRE leaves a rate window without an end, against
  `PIS/storage/redis/rate_limiter.go:12`, "windows expire themselves".

**Fairness.**  `FairSpec` of `Fanout` assumes only that the worker's thread runs;
crashes are bounded, and nothing is assumed of users or of failures.  `TasteFairSpec`
assumes that vector-pipeline's loop and the goroutines of a request run, and nothing of posts, failures or further requests; of `Comments`, that the goroutines of
requests run, and nothing of clients; of `Snowflake` assumes that time passes and that the spinning thread runs; of
`Engagement`, that request threads run and that Redis drops keys whose TTL is
over.  `HydrationFairSpec` assumes that the goroutines of a request and
its stages run, the scorings, `GetBatchFails` and the delivery of the answer included (a lost
answer is a step of its own, bounded by `MaxFailures`), and that the *viewer keeps refreshing* (strong
fairness of `Refresh`, which is disabled during each request): that is an
assumption about the viewer and part of what `RefreshReachesEveryPost` says.  It also
needs `MaxExpiries`, which bounds expiries and departures of candidates together: posts that come of age over and over could keep their
lead for ever; the TTL is two days.

## 4. Proofs

Every invariant and every action property that a passing run checks is also a theorem, and
so are the refinements; what is left to TLC is the liveness properties.  TLAPS proves them
for all values of the constants that meet the named assumptions in the modules.  The bounds
(`MaxTime`, `MaxPosts` and so on) are arbitrary natural numbers.  Beyond the shapes of the
constants the assumptions are these: users, request threads and sub-counters (`Engagement`),
posts and sources (`Hydration`), ad slots (`FeedPage`) and authors (`TasteSource`) are
finitely many, there are two ad slots and a page has room for more, the topology is
sorted and not empty, in `TasteSource` every author has a shard, the limits of `FeedSources` and
the lengths of a second and a day are positive (`LimitAssumption`, `DayAssumption`), and a service has
one generator per shard (`OnePerShardAssumption`).

In each module the argument is one inductive invariant, whose parts are named; the sections
say what the properties lack to be inductive.

**IDs** (`SnowflakeProofs`).  `PackInjective` and `ShardExtracted`: an ID determines its
three fields, and the shift recovers the shard, for any field widths; the argument is that
of digits in a mixed radix.  `TypeCorrect` and `IdsRouteHome` hold of `SteppedSpec`,
whatever the clock does; `MonotonicIds` and `UniqueIds` of `Spec`.  `MonotonicWithinShard`
says nothing of the generator's own fields.  `IInv` adds `GeneratorAhead`, that each ID
issued lies behind the generator's state: in an earlier process, an earlier millisecond, or
with a smaller sequence unless that is exhausted.  `UniqueIds` says of any number of services on any
shards that two equal IDs are one call's, or of two services on one shard: an ID determines its
shard, a service has one generator there, and the IDs of a generator increase.

**The worker** (`FanoutProofs`).
* `NothingSkipped` by `OffsetsInOrder`: committed, next and fetched never overtake each
  other or the log, and everything below `next` has been handled.  With it,
  `WorkerRefinesConsumer`: every step is a step of `AtLeastOnce` or a stutter, with
  `produced` mapped to the lengths of the partitions.
* `FollowersOnly` ties `handle`'s locals to the history: every edge makes its follower
  eligible for every post of its author (`EdgesEligible`), and the locals hold only eligible
  readers for the post in hand (`TargetsEligible`).
* `FollowersServed` is the converse, by `ServedParts`: at every point of `handle` a follower
  who stayed is in the local the next writes will walk, or was written to, or the post goes
  by the outbox (`StableInHand`); a stable follower is an edge still (`StableFollows`).
* `HotInboxKeepsPushes`, `ColdInboxKeepsAppends` and `RedeliveriesHarmless` by `TierParts`:
  activity lapses for good, so that whoever is appended to is pushed to no more
  (`LapseIsFinal`); a cold inbox is capped and holds what was appended (`ColdCapped`); what
  is in a hot inbox got its score from its push or, if it was appended, from a promotion
  (`HotSound`).  The step that needs work is the trim: the best `MaxItems` members of an
  inbox that is over its cap, with equal scores, are still that many (`LastItemsKeeps`).
* `PushesKeptBesideReads`, `PromotionsKept` and `PushesOutrank`, of `Timeline`, which puts
  any number of requests beside the worker: `TimelineInv` adds that what a request read was
  appended (`ReadsCold`) and that what was promoted stays (`PromotedStays`).

**The sources** (`FeedSourcesProofs`).  `CountsAreDegrees` and
`CountsAreDegreesWhileServing`: the counts are the degrees, under any sequence of
statements, alone and in the composition.  An edge joins nodes only; the step is the
cardinality of the followers with one added or removed, and no step of the worker or of a
request writes the graph (`WorkerLeavesEdges`, `RequestsLeaveGraph`).
`NothingMissedForNothing`: a due post that a request without failures does not offer was
hidden, was crowded out of a capped store, lies behind the limit of the read, or in an outbox the request
did not read that far.
`MissedForAReason` speaks of the end of a request only; `RequestInv` says for each point of
`fanIn` by which of the two sources each due post will still come, or why not.  That a
reason lasts is `Grows` and `FullStays`: what was pushed or appended stays so, and a full
inbox stays full, whatever the worker and the other requests do meanwhile.  That the read takes the
best of the inbox and a due post is behind as many newer ones only needs what the scores mean beside
promotions (`ScoresSound`, `BehindNewerPushes`), and, of the cold inbox, that what the request read is a
prefix of what is there later (`ColdHeld`, `StartsWith`), as nothing leaves one that is not full.

**Likes** (`EngagementProofs`).  `TypeInv` relates stages to fields and bounds the windows
and the lost decrements by calls and failures.  `OwnLikeIsVisible`, by `CallsInv`: no user
has two calls (`OneCallEach`), the row and the set say what the call in progress did to them
(`WritesStand`), and otherwise what the last call did (`OutcomeStands`).  `CountersExact`
and `OvercountIsLostDecrement`, by `CountersRight`: the likers of a sub-counter, less the
requests between row and counter, are its value, but for failures; and only a counter that
was wrong before reaches the clamp (`ClampAfterFailure`).  `NegativesAreRepaired` needs no
more than the types: a DECR that goes below zero leaves its request at the clamp, where it is counted, and
what a SET 0 leaves is zero.  It and the types hold however many calls a user has under way; the other
three assume `SerialUsers`, and say so, as `OneCallEach` is that assumption.

**Accounts and mentions** (`AccountsProofs`).
* `RingsAgree`: for every hash under which no two virtual nodes collide (`NoCollision`), the
  sorted slice with its binary search and the tree map with `tailMap` give the same shard
  for every key; `scripts/verify_shard_parity.sh` compares samples.  The node the search
  finds has the least hash at or after the key's (`SearchSucceeds`, `FirstIsLeast`), and
  where nodes do not collide the map holds that node's shard (`PutOnce`).  Without
  `NoCollision` it is false: Go may find either of two nodes of one hash, Java has the shard
  that comes last in the topology.
* `OneOwnerPerName` and `DirectoryNeverLies`, for any ring and any hash.  A shard's UNIQUE
  constraint says nothing of the other shards; `PlacedByName` adds that every row, written
  or in the making, is on the shard the ring names for its username, which makes a name that
  is free there free everywhere.  `DirectoryTrue` needs `WritesDone`: a signup that is past
  a write has made it; and uniqueness, for a later signup of a name must not move an entry
  away from a welcomed user.  No shard is ever added.
* `MentionsAreDelivered`, `NotifiedOncePerStart` and `NotifierRefinesConsumer`, beside any
  signups.  Of a message in hand, `JobParts` and `DeliveryParts` say that whoever is due a
  notification has it, or has a name still to be looked up, or is the recipient in hand;
  `DirectoryTrue` is what makes the look-up find them.  `CountParts` says why nobody has
  more than one for each start: whoever the job still owes has none since the last restart,
  and that needs `OneName`, that a user is found by one name only.

**Comments** (`CommentsProofs`).  `CountNeverAhead`: the difference between rows and counter
is the creations between the two, whose stages `CreationParts` pins down, and the lost
INCRs.  `SharedListIsFresh`: all readers of one fetch are owed the same (`SharedOwed`),
since whatever becomes known while it is in flight is not owed to those who join it.
`FoundNamesStay`: a name found is in the cache of the fetch (`NamesParts`).  That the query
returns its rows in order, each once, rests on `ByCreatedAtIsTheSet`: a finite set of
numbers has a sorted list.

**The vector source** (`TasteSourceProofs`).  `CandidatesHaveRows`: rows come before events
(`RowsFirst`), and what is indexed was published.  `SeedsComeFromAllShards`: at each step of
the scatter and the gather every seed is in the caller's map, in the channel, or with a
shard not yet asked, unless that shard has as many newer posts as its LIMIT (`Found`,
`CrowdedOut`); goroutines that are late send to a channel nobody reads.
`PipelineRefinesConsumer`: vector-pipeline, in this composition, is an `AtLeastOnce`.

**Pages and ranking** (`HydrationProofs`).
* `DeservingScoresHigher`: what `Deserves` prefers has the strictly higher score, for any
  counts and ages.  The score is a product of a decay and an engagement; each factor is
  monotone (`EngagementMonotone`), one of them strictly, and products of naturals keep that
  (`ProductMonotone`, `ProductStrict`).  This is about exact arithmetic.
* `HydrationRefinesGetFeed` and `DeservingAlwaysFirst`.  `HInv` has four parts: the types;
  `StagesAgree`, which says at which stage of `FeedPage` each step of hydration is;
  `NothingMissing`, that rows asked for, in the channel and merged make up all candidates
  whose shard is known unless an error is on its way; and `RankedSorted`, with `ScoredInTime`: every
  candidate was scored between the times `scoredFrom` and `scoredTo`, and an age only grows
  (`AgeGrows`), so that whoever is not older at the last scoring than another at the first was not older as
  they were scored.  With the third,
  `RankByScore` is a `Rank` of `FeedPage`, and every other new step a stutter.
* `NeverShownTwice`, by `GivenIsMarked`: while the seen state has not failed, what was given
  to a tab is marked, and what a request has filtered or ranked was not given to its tab
  before: other tabs can only mark more.
* `BestAreKept` and `AdsNeverDisplace` are facts about `applyDiversity` and `insertAds`,
  loops that the model writes as folds.  A fold is defined by a function that is chosen for
  its equation; that there is one is `FoldExists`, by a least counterexample
  (`LeastNatural`, `CountUp`), and so the loop can be followed one position at a time
  (`OneAtATime`, `IsRunning`).  `KeptUpTo` says what the first is at each position: the
  output is an order-preserving image of the kept positions so far; `PlacedUpTo` of the
  second: ads at the slots passed, and as many posts as there were other positions.  That no
  post is pushed off the page needs that the page was cut two short (`CutIsOfList`,
  `OrganicRoom`).
* `PagesAsPromised`: the detailed pipeline keeps all three, by the refinement.

Two definitions were put otherwise for the provers' sake: `ByCreatedAt` of `Comments` is a
`CHOOSE`, and `AdsDisplaceNothing` says by positions what it said with `SelectSeq`.

Only model-checked: the liveness properties (`SpinTerminates`, `EveryRecordCommitted`,
`RefusedUserReleased`, `RefreshReachesEveryPost`, `EveryPostIndexed`, `EveryReaderAnswered`,
`SourceAlwaysReturns`), since the prover has no rule for liveness under fairness; and what
the two runs show that end in a violation.

## 5. Not modelled, and why

* `GetProfile`, the lists of users and of an author's posts: they change nothing.  `ScatterGather` is
  the code of the lists, without an instance for them.
* The liked flags of a page (`FAS/storage/redis/liked_repo.go`): a set membership read once;
  what `user_likes` holds is the subject of `Engagement`.
* Two requests of one tab that overlap (`web-ui/app.js:339`): they get the same page, since
  neither sees the other's mark.  The server promises nothing there.
* Start and shutdown of the servers (`cmd/server/main.go` of both Go services).
* CRC-32 itself, and what a change of the topology does to entities already placed.
* Embeddings, distances between them, and floating-point rounding of scores.
* Encryption of the cursor, serialisation, HTTP status codes, logging: no property
  is about them.
* Durations: a TTL, a deadline or a window may end at any time after it started.
* A second fan-out worker and rebalances: the compose file starts one.
* Redis and Postgres themselves: each command or statement is atomic.
* Eviction.  `docker-compose.yml:108` lets Redis drop any key once it holds 512 MB (`allkeys-lru`); in the
  models a key goes only when the code deletes it or its TTL ends.  What is said of Redis holds as
  long as nothing is evicted: without an inbox or an outbox a delivered post is missed for a sixth
  reason, without a counter the likes and comments counted in it are gone, without a seen state posts
  are shown again, without the username directory users cannot be mentioned.
* The characters of names.  `CreateUser` takes any name that is not empty, a mention is a run of
  `[A-Za-z0-9_]` (`services/notification-service/src/service/notificationService.ts`): who has another character in
  his name can never be mentioned.  `MentionsDelivered` speaks of the names `extractMentions` returns.

## 6. Plan

Order of work; the first five came first because they are what the
repository is about.

1. IDs: `Snowflake` and its proofs. *Done.*
2. Fan-out: `Fanout`, `AtLeastOnce`, the refinement and proofs. *Done.*
3. Tiers under concurrent reads: `Timeline`. *Done.*
4. Likes: `Engagement`. *Done.*
5. Pages: `FeedPage`. *Done.*
6. The ring, signup and notifications: `Ring`, `Accounts`, `Mentions` and their proofs. *Done.*
7. `VectorPipeline`, `Comments`. *Done.*
8. `SocialGraph` and `FeedSources` with their proofs. *Done.*
9. The feed's reads: `ScatterGather`, `Hydration` with its proofs, `TasteSource`. *Done.*
10. `Ranking` and the proof that its score is monotone. *Done.*  The ring's stability when a shard is
    added is left.
11. Every invariant and every action property of the runs as a theorem, and the refinements. *Done.*
12. Left: what of `ExactWithoutFailures` and `OvercountNeedsLostDecrement` still holds without
    `SerialUsers`; eviction of Redis keys; that the vector source of
    `TasteSource` and the sources of `FeedSources` implement the `candidates` that `FeedPage` reads.
