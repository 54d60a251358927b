------------------------------- MODULE Fanout -------------------------------
(* The way of a post from CreatePost to the inboxes of its author's         *)
(* followers: post-ingestion-service stores it and publishes post-created   *)
(* to Kafka, keyed by the author; the one fanout-worker polls a batch,      *)
(* handles its records one by one, and commits the offsets of the batch.    *)
(* Followers are read from Neo4j, their activity from Postgres; the post    *)
(* goes to the hot tier (Redis), the cold tier (BadgerDB behind gRPC) or    *)
(* the author's celebrity outbox (Redis).                                   *)
EXTENDS Naturals, Integers, Sequences, FiniteSets

CONSTANTS
    Readers,            \* users who follow
    Authors,            \* users who post
    Partitions,         \* of the topic post-created
    PartitionOf,        \* kafka.Hash of the author's ID
    None,
    CelebrityCutoff,    \* celebrityFollowerCutoff
    MaxItems,           \* FEED_INBOX_MAX_ITEMS
    MaxColdTierItems,
    ColdTierReliable,   \* feed-aggregation-service accepts every append it gets
    MaxPosts,           \* bound: posts created
    MaxCrashes,         \* bound: crashes of the worker
    MaxGraphChanges     \* bound: follows, unfollows and lapses of activity

ASSUME PartitionAssumption == PartitionOf \in [Authors -> Partitions]
ASSUME CapAssumption == MaxItems \in Nat \ {0} /\ MaxColdTierItems \in Nat \ {0}
ASSUME BoundAssumption ==
    /\ CelebrityCutoff \in Nat /\ MaxPosts \in Nat
    /\ MaxCrashes \in Nat /\ MaxGraphChanges \in Nat
    /\ ColdTierReliable \in BOOLEAN

\* Posts are numbered in the order of their createdAt.
Posts == 1 .. MaxPosts

VARIABLES
    authorOf,       \* the posts tables: the author of each stored post
    publishing,     \* posts stored whose WriteMessages has not returned
    log,            \* the topic: the posts of each partition, in order
    follows,        \* Neo4j: the FOLLOWS edges
    active,         \* Postgres: last_active_at lies within ACTIVE_WITHIN_DAYS
    graphChanges, crashes,              \* counters of the bounds
    committed,      \* the group's committed offset of each partition
    fetched,        \* the worker's position: end of its current batch
    next,           \* records of the partition the worker is done with
    stage,          \* where in FanoutService.handle the worker is
    partition,      \* the partition of the record in hand, or None
    followers, activeFollowers, dormantFollowers,   \* handle's locals
    untrimmed,      \* the follower between its zadd and its zremrangeByRank
    stubExpired,    \* the 5 s of the cold-tier stub's deadline are over
    hot,            \* feed:user:<id>: score of each member, 0 if absent
    cold,           \* cold:inbox:<id>
    outbox,         \* celebrity:outbox:<id>
    handled,        \* history: records handled to an end, failed or not
    completed,      \* history: posts handled to an end with no exception
    eligible,       \* history: <<u, p>>: u followed p's author since p exists
    stable,         \* history: <<u, p>>: u never stopped following since then
    pushed,         \* history: <<u, p>> pushed to u's hot inbox
    appended,       \* history: <<u, p>> appended to u's cold inbox
    refused         \* history: <<u, p>> whose append failed and was logged

postVars  == <<authorOf, publishing, log>>
graphVars == <<follows, active, graphChanges>>
offsets   == <<committed, fetched, next>>
job       == <<stage, partition, followers, activeFollowers, dormantFollowers, untrimmed>>
tiers     == <<hot, cold, outbox>>
history   == <<handled, completed, eligible, stable, pushed, appended, refused>>
vars      == <<postVars, graphVars, crashes, offsets, job, stubExpired, tiers, history>>

Stages == {"poll", "isCelebrity", "outbox", "getFollowers", "filterActive",
           "push", "append"}

FollowersOf(a) == {u \in Readers : <<u, a>> \in follows}

\* followee.isCelebrity, set with followerCount in one Cypher statement.
IsCelebrity(a) == Cardinality(FollowersOf(a)) > CelebrityCutoff

\* The post of the record in hand.
Current == log[partition][next[partition] + 1]

\* createdAt in epoch milliseconds: above every score Promote ever gives.
PushScore(p) == MaxColdTierItems + p

InHot(u, p) == hot[u][p] > 0
HotInbox(u) == {p \in Posts : InHot(u, p)}

\* The order of a sorted set: by score, then by member.
Outranks(z, p, q) == z[p] > z[q] \/ (z[p] = z[q] /\ p > q)

\* The n highest members of a sorted set.
TopOf(z, n) ==
    {p \in Posts : z[p] > 0 /\ Cardinality({q \in Posts : Outranks(z, q, p)}) < n}

\* Mutant of LastItems: off by one.
LastItemsButOne(s) ==
    IF Len(s) > MaxColdTierItems
    THEN SubSeq(s, Len(s) - MaxColdTierItems + 2, Len(s))
    ELSE s

\* existing[len(existing)-maxColdTierItems:] after the append.
LastItems(s) ==
    IF Len(s) > MaxColdTierItems
    THEN SubSeq(s, Len(s) - MaxColdTierItems + 1, Len(s))
    ELSE s

-----------------------------------------------------------------------------
Init ==
    /\ authorOf = <<>> /\ publishing = {}
    /\ log = [x \in Partitions |-> <<>>]
    /\ follows \in SUBSET (Readers \X Authors)
    /\ active \in [Readers -> BOOLEAN]
    /\ graphChanges = 0 /\ crashes = 0
    /\ committed = [x \in Partitions |-> 0]
    /\ fetched = committed /\ next = committed
    /\ stage = "poll" /\ partition = None
    /\ followers = {} /\ activeFollowers = {} /\ dormantFollowers = {} /\ untrimmed = {}
    /\ stubExpired = FALSE
    /\ hot = [u \in Readers |-> [p \in Posts |-> 0]]
    /\ cold = [u \in Readers |-> <<>>]
    /\ outbox = [a \in Authors |-> {}]
    /\ handled = [x \in Partitions |-> {}] /\ completed = {}
    /\ eligible = {} /\ stable = {}
    /\ pushed = {} /\ appended = {} /\ refused = {}

-----------------------------------------------------------------------------
(* post-ingestion-service: posts, follows, activity                         *)

\* CreatePost's first write: the row on the author's shard.
InsertPost(a) ==
    /\ Len(authorOf) < MaxPosts
    /\ LET p == Len(authorOf) + 1
           since == FollowersOf(a) \X {p}
       IN  /\ authorOf' = Append(authorOf, a)
           /\ publishing' = publishing \cup {p}
           /\ eligible' = eligible \cup since
           /\ stable' = stable \cup since
    /\ UNCHANGED <<log, graphVars, crashes, offsets, job, stubExpired, tiers,
                   handled, completed, pushed, appended, refused>>

\* CreatePost's second write.  Requests run concurrently: two posts of one
\* author may reach the log in either order.
PublishPost(p) ==
    /\ p \in publishing
    /\ publishing' = publishing \ {p}
    /\ log' = [log EXCEPT ![PartitionOf[authorOf[p]]] = Append(@, p)]
    /\ UNCHANGED <<authorOf, graphVars, crashes, offsets, job, stubExpired, tiers, history>>

\* WriteMessages fails, or the process dies before it: the post stays stored.
PublishFails(p) ==
    /\ p \in publishing
    /\ publishing' = publishing \ {p}
    /\ UNCHANGED <<authorOf, log, graphVars, crashes, offsets, job, stubExpired, tiers, history>>

Follow(u, a) ==
    /\ graphChanges < MaxGraphChanges
    /\ <<u, a>> \notin follows
    /\ graphChanges' = graphChanges + 1
    /\ follows' = follows \cup {<<u, a>>}
    /\ eligible' = eligible \cup {<<u, p>> : p \in {q \in DOMAIN authorOf : authorOf[q] = a}}
    /\ UNCHANGED <<postVars, active, crashes, offsets, job, stubExpired, tiers,
                   handled, completed, stable, pushed, appended, refused>>

Unfollow(u, a) ==
    /\ graphChanges < MaxGraphChanges
    /\ <<u, a>> \in follows
    /\ graphChanges' = graphChanges + 1
    /\ follows' = follows \ {<<u, a>>}
    /\ stable' = {s \in stable : s[1] # u \/ authorOf[s[2]] # a}
    /\ UNCHANGED <<postVars, active, crashes, offsets, job, stubExpired, tiers,
                   handled, completed, eligible, pushed, appended, refused>>

\* ACTIVE_WITHIN_DAYS after signup.  There is no action back: last_active_at
\* is written by the INSERT of a user and by nothing else.
ActivityLapses(u) ==
    /\ graphChanges < MaxGraphChanges
    /\ active[u]
    /\ graphChanges' = graphChanges + 1
    /\ active' = [active EXCEPT ![u] = FALSE]
    /\ UNCHANGED <<postVars, follows, crashes, offsets, job, stubExpired, tiers, history>>

-----------------------------------------------------------------------------
(* fanout-worker: the consumer loop                                         *)

\* consumer.poll: up to some record of each partition, one at least.
Poll ==
    /\ stage = "poll"
    /\ fetched = committed
    /\ \E upTo \in [Partitions -> 0 .. MaxPosts] :
        /\ \A x \in Partitions : upTo[x] \in committed[x] .. Len(log[x])
        /\ upTo # committed
        /\ fetched' = upTo
    /\ UNCHANGED <<postVars, graphVars, crashes, committed, next, job, stubExpired, tiers, history>>

\* The for loop takes the next record of a partition of the batch.
TakeRecord(x) ==
    /\ stage = "poll"
    /\ next[x] < fetched[x]
    /\ partition' = x
    /\ stage' = "isCelebrity"
    /\ UNCHANGED <<postVars, graphVars, crashes, offsets, followers, activeFollowers,
                   dormantFollowers, untrimmed, stubExpired, tiers, history>>

\* Mutant of CommitSync: commits what was polled, handled or not.
CommitPolled ==
    /\ stage = "poll"
    /\ fetched # committed
    /\ committed' = fetched
    /\ UNCHANGED <<postVars, graphVars, crashes, fetched, next, job, stubExpired, tiers, history>>

\* commitSync, once all of a batch that is not empty has been handled.
CommitSync ==
    /\ stage = "poll"
    /\ next = fetched /\ fetched # committed
    /\ committed' = fetched
    /\ UNCHANGED <<postVars, graphVars, crashes, fetched, next, job, stubExpired, tiers, history>>

\* The locals of handle are gone.
DropJob ==
    /\ stage' = "poll" /\ partition' = None
    /\ followers' = {} /\ activeFollowers' = {} /\ dormantFollowers' = {} /\ untrimmed' = {}

\* The record in hand is dealt with: on to the next one.
FinishRecord ==
    /\ next' = [next EXCEPT ![partition] = @ + 1]
    /\ handled' = [handled EXCEPT ![partition] = @ \cup {next[partition] + 1}]
    /\ DropJob
    /\ UNCHANGED <<postVars, graphVars, crashes, committed, fetched, stubExpired,
                   eligible, stable>>

\* The process dies, or commitSync throws out of the loop; a new process
\* starts at the committed offsets with a stub built anew.
Restart ==
    /\ crashes < MaxCrashes
    /\ crashes' = crashes + 1
    /\ fetched' = committed /\ next' = committed
    /\ DropJob
    /\ stubExpired' = FALSE
    /\ UNCHANGED <<postVars, graphVars, committed, tiers, history>>

-----------------------------------------------------------------------------
(* fanout-worker: FanoutService.handle                                      *)

CheckCelebrity ==
    /\ stage = "isCelebrity"
    /\ stage' = IF IsCelebrity(authorOf[Current]) THEN "outbox" ELSE "getFollowers"
    /\ UNCHANGED <<postVars, graphVars, crashes, offsets, partition, followers,
                   activeFollowers, dormantFollowers, untrimmed, stubExpired, tiers, history>>

\* The outbox is never trimmed.
PushToCelebrityOutbox ==
    /\ stage = "outbox"
    /\ outbox' = [outbox EXCEPT ![authorOf[Current]] = @ \cup {Current}]
    /\ completed' = completed \cup {Current}
    /\ FinishRecord
    /\ UNCHANGED <<hot, cold, pushed, appended, refused>>

\* Mutant of GetFollowers: the query does not bind the author.
GetAllReaders ==
    /\ stage = "getFollowers"
    /\ FollowersOf(authorOf[Current]) # {}
    /\ followers' = Readers
    /\ stage' = "filterActive"
    /\ UNCHANGED <<postVars, graphVars, crashes, offsets, partition, activeFollowers,
                   dormantFollowers, untrimmed, stubExpired, tiers, history>>

GetFollowers ==
    /\ stage = "getFollowers"
    /\ FollowersOf(authorOf[Current]) # {}
    /\ followers' = FollowersOf(authorOf[Current])
    /\ stage' = "filterActive"
    /\ UNCHANGED <<postVars, graphVars, crashes, offsets, partition, activeFollowers,
                   dormantFollowers, untrimmed, stubExpired, tiers, history>>

\* No followers to fan out to: the early return.
NoFollowers ==
    /\ stage = "getFollowers"
    /\ FollowersOf(authorOf[Current]) = {}
    /\ completed' = completed \cup {Current}
    /\ FinishRecord
    /\ UNCHANGED <<tiers, pushed, appended, refused>>

\* Mutant of FilterActive: drops the followers who are not active.
FilterActiveOnly ==
    /\ stage = "filterActive"
    /\ activeFollowers' = {u \in followers : active[u]}
    /\ dormantFollowers' = {}
    /\ followers' = {}
    /\ stage' = "push"
    /\ UNCHANGED <<postVars, graphVars, crashes, offsets, partition, untrimmed, stubExpired,
                   tiers, history>>

FilterActive ==
    /\ stage = "filterActive"
    /\ activeFollowers' = {u \in followers : active[u]}
    /\ dormantFollowers' = followers \ activeFollowers'
    /\ followers' = {}                  \* not read again
    /\ stage' = "push"
    /\ UNCHANGED <<postVars, graphVars, crashes, offsets, partition, untrimmed, stubExpired,
                   tiers, history>>

\* Mutant of PushToInbox: replaces the inbox.
PushReplacesInbox(u) ==
    /\ stage = "push"
    /\ u \in activeFollowers /\ untrimmed = {}
    /\ hot' = [hot EXCEPT ![u] = [p \in Posts |-> IF p = Current THEN PushScore(p) ELSE 0]]
    /\ pushed' = pushed \cup {<<u, Current>>}
    /\ untrimmed' = {u}
    /\ UNCHANGED <<postVars, graphVars, crashes, offsets, stage, partition, followers,
                   activeFollowers, dormantFollowers, stubExpired, cold, outbox,
                   handled, completed, eligible, stable, appended, refused>>

\* zadd feed:user:<u>
PushToInbox(u) ==
    /\ stage = "push"
    /\ u \in activeFollowers /\ untrimmed = {}
    /\ hot' = [hot EXCEPT ![u][Current] = PushScore(Current)]
    /\ pushed' = pushed \cup {<<u, Current>>}
    /\ untrimmed' = {u}
    /\ UNCHANGED <<postVars, graphVars, crashes, offsets, stage, partition, followers,
                   activeFollowers, dormantFollowers, stubExpired, cold, outbox,
                   handled, completed, eligible, stable, appended, refused>>

\* zremrangeByRank feed:user:<u> 0 -(maxItems + 1)
TrimInbox(u) ==
    /\ stage = "push"
    /\ u \in untrimmed
    /\ hot' = [hot EXCEPT ![u] =
                  [p \in Posts |-> IF p \in TopOf(@, MaxItems) THEN @[p] ELSE 0]]
    /\ activeFollowers' = activeFollowers \ {u}
    /\ untrimmed' = {}
    /\ UNCHANGED <<postVars, graphVars, crashes, offsets, stage, partition, followers,
                   dormantFollowers, stubExpired, cold, outbox, history>>

\* The first loop has ended, the second one starts.
BeginAppends ==
    /\ stage = "push"
    /\ activeFollowers = {}
    /\ stage' = "append"
    /\ UNCHANGED <<postVars, graphVars, crashes, offsets, partition, followers,
                   activeFollowers, dormantFollowers, untrimmed, stubExpired, tiers, history>>

\* The gRPC call reaches ColdInboxRepo.Append, one Badger transaction.
AppendToColdTier(u) ==
    /\ stage = "append"
    /\ u \in dormantFollowers
    /\ ~ stubExpired
    /\ cold' = [cold EXCEPT ![u] = LastItems(Append(@, Current))]
    /\ appended' = appended \cup {<<u, Current>>}
    /\ dormantFollowers' = dormantFollowers \ {u}
    /\ UNCHANGED <<postVars, graphVars, crashes, offsets, stage, partition, followers,
                   activeFollowers, untrimmed, stubExpired, hot, outbox,
                   handled, completed, eligible, stable, pushed, refused>>

\* The call fails (always, once the stub's deadline has passed; a Badger
\* conflict or an unreachable server, before) and the client only logs it.
AppendSwallowed(u) ==
    /\ stage = "append"
    /\ u \in dormantFollowers
    /\ stubExpired \/ ~ ColdTierReliable
    /\ refused' = refused \cup {<<u, Current>>}
    /\ dormantFollowers' = dormantFollowers \ {u}
    /\ UNCHANGED <<postVars, graphVars, crashes, offsets, stage, partition, followers,
                   activeFollowers, untrimmed, stubExpired, tiers,
                   handled, completed, eligible, stable, pushed, appended>>

FinishFanout ==
    /\ stage = "append"
    /\ dormantFollowers = {}
    /\ completed' = completed \cup {Current}
    /\ FinishRecord
    /\ UNCHANGED <<tiers, pushed, appended, refused>>

\* Mutant of RecordFails: the record is tried again until it succeeds.
RecordRetried ==
    /\ stage \in {"isCelebrity", "outbox", "getFollowers", "filterActive", "push"}
    /\ stage = "push" => activeFollowers # {}
    /\ DropJob
    /\ UNCHANGED <<postVars, graphVars, crashes, offsets, stubExpired, tiers, history>>

\* handle throws (Neo4j, Postgres or Redis fails, or the author has no node):
\* the loop logs it and goes on; the record is not tried again.
RecordFails ==
    /\ stage \in {"isCelebrity", "outbox", "getFollowers", "filterActive", "push"}
    /\ stage = "push" => activeFollowers # {}
    /\ FinishRecord
    /\ UNCHANGED <<tiers, completed, pushed, appended, refused>>

\* withDeadlineAfter was called once, in the constructor: its 5 s run out
\* whatever the worker does.
DeadlinePasses ==
    /\ ~ stubExpired
    /\ stubExpired' = TRUE
    /\ UNCHANGED <<postVars, graphVars, crashes, offsets, job, tiers, history>>

-----------------------------------------------------------------------------
Handle ==
    \/ CheckCelebrity
    \/ PushToCelebrityOutbox
    \/ GetFollowers
    \/ NoFollowers
    \/ FilterActive
    \/ \E u \in Readers : PushToInbox(u) \/ TrimInbox(u)
    \/ BeginAppends
    \/ \E u \in Readers : AppendToColdTier(u) \/ AppendSwallowed(u)
    \/ FinishFanout
    \/ RecordFails

Worker ==
    \/ Poll
    \/ \E x \in Partitions : TakeRecord(x)
    \/ CommitSync
    \/ Handle

Ingestion ==
    \/ \E a \in Authors : InsertPost(a)
    \/ \E p \in Posts : PublishPost(p) \/ PublishFails(p)
    \/ \E u \in Readers, a \in Authors : Follow(u, a) \/ Unfollow(u, a)
    \/ \E u \in Readers : ActivityLapses(u)

Next == Ingestion \/ Worker \/ Restart \/ DeadlinePasses

Spec == Init /\ [][Next]_vars

\* The worker's thread runs; nothing is assumed of users, of the graph or of
\* failures, and the worker crashes only finitely often.
FairSpec == Spec /\ WF_vars(Worker)

-----------------------------------------------------------------------------
(* What the worker promises.                                                *)

\* Types of the stores, of the worker's offsets and of handle's locals: offsets
\* are natural numbers and inboxes hold posts, also after a restart.
TypeOK ==
    /\ authorOf \in Seq(Authors) /\ Len(authorOf) <= MaxPosts
    /\ publishing \subseteq Posts
    /\ log \in [Partitions -> Seq(Posts)]
    /\ follows \subseteq Readers \X Authors /\ active \in [Readers -> BOOLEAN]
    /\ graphChanges \in 0 .. MaxGraphChanges /\ crashes \in 0 .. MaxCrashes
    /\ {committed, fetched, next} \subseteq [Partitions -> Nat]
    /\ stage \in Stages /\ partition \in Partitions \cup {None}
    /\ followers \subseteq Readers /\ activeFollowers \subseteq Readers
    /\ dormantFollowers \subseteq Readers /\ untrimmed \subseteq Readers
    /\ stubExpired \in BOOLEAN
    /\ hot \in [Readers -> [Posts -> Nat]]
    /\ cold \in [Readers -> Seq(Posts)]
    /\ outbox \in [Authors -> SUBSET Posts]
    /\ handled \in [Partitions -> SUBSET Nat] /\ completed \subseteq Posts
    /\ eligible \subseteq Readers \X Posts /\ stable \subseteq Readers \X Posts
    /\ pushed \subseteq Readers \X Posts /\ appended \subseteq Readers \X Posts
    /\ refused \subseteq Readers \X Posts

\* Commits never run ahead of the work: whatever crashes come, no record below
\* a committed offset was left without being handled to an end.
NoRecordSkipped ==
    \A x \in Partitions : 1 .. committed[x] \subseteq handled[x]

\* A follower who followed the author from the creation of a post until the
\* worker was done with it has been served: by a push, by an append, by the
\* celebrity outbox, or at least by an append that was logged as failed.  No
\* interleaving of follows, lapses, a change of celebrity status between
\* isCelebrity and getFollowers, or a redelivery leaves one out.
StableFollowersServed ==
    \A s \in stable :
        s[2] \in completed =>
            \/ s \in pushed \cup appended \cup refused
            \/ s[2] \in outbox[authorOf[s[2]]]

\* Nobody gets a post into an inbox without having followed its author at some
\* moment since the post exists, whatever is redelivered when.
OnlyFollowersServed == pushed \cup appended \subseteq eligible

\* A hot inbox loses a post only to MaxItems newer pushes: trims, redeliveries
\* and posts that arrive out of order never push out a newer one.
PushedKept ==
    \A s \in pushed :
        \/ InHot(s[1], s[2])
        \/ Cardinality({p \in Posts : p > s[2] /\ <<s[1], p>> \in pushed}) >= MaxItems

\* A cold inbox loses a post only when it is full.
AppendedKept ==
    \A s \in appended :
        \/ \E i \in DOMAIN cold[s[1]] : cold[s[1]][i] = s[2]
        \/ Len(cold[s[1]]) = MaxColdTierItems

\* Serving a record again (after a crash, or a partial failure) never takes
\* anything out of an inbox that had room, nor reorders it.
RedeliveryHarmless ==
    [][\A u \in Readers : \A p \in Posts :
          InHot(u, p) /\ Cardinality(HotInbox(u)) < MaxItems
              => hot'[u][p] = hot[u][p]]_vars

\* Every record that reaches the topic is handled to an end and its offset
\* committed, in spite of crashes and of handlers that fail.
EveryRecordCommitted ==
    \A x \in Partitions : \A i \in Posts :
        Len(log[x]) >= i ~> committed[x] >= i

\* What FanoutService says of the second loop: the entry of a dormant follower
\* "goes to the cold tier instead, so it isn't lost".
DormantNotLost ==
    \A s \in stable :
        s[2] \in completed =>
            \/ s \in pushed \cup appended
            \/ s[2] \in outbox[authorOf[s[2]]]

-----------------------------------------------------------------------------
(* Why they hold: the strengthening that FanoutProofs shows inductive.      *)

\* Offsets never overtake each other, the record in hand is one of the batch,
\* and everything before the next record has been handled.
OffsetsInOrder ==
    /\ \A x \in Partitions :
          /\ committed[x] <= next[x] /\ next[x] <= fetched[x] /\ fetched[x] <= Len(log[x])
          /\ 1 .. next[x] \subseteq handled[x]
    /\ stage # "poll" => partition \in Partitions /\ next[partition] < fetched[partition]

\* Only stored posts are published, and every edge of the graph makes its
\* follower eligible for every post of its author.
EdgesEligible ==
    /\ publishing \subseteq DOMAIN authorOf
    /\ \A x \in Partitions : \A i \in DOMAIN log[x] : log[x][i] \in DOMAIN authorOf
    /\ \A e \in follows : \A p \in DOMAIN authorOf :
          authorOf[p] = e[2] => <<e[1], p>> \in eligible

\* handle's locals hold only followers eligible for the post in hand.
TargetsEligible ==
    \A u \in followers \cup activeFollowers \cup dormantFollowers :
        /\ stage # "poll"
        /\ <<u, Current>> \in eligible

IInv == TypeOK /\ OffsetsInOrder /\ EdgesEligible /\ TargetsEligible /\ OnlyFollowersServed
=============================================================================
