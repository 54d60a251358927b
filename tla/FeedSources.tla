---------------------------- MODULE FeedSources ----------------------------
(* fanIn of GetFeed on top of the fan-out: the in-network source of Timeline *)
(* and the celebrity source run side by side, while users sign up, follow    *)
(* and unfollow, and the worker delivers.                                    *)
EXTENDS Timeline

CONSTANTS InNetworkCandidateLimit, CelebrityCandidateLimit

ASSUME LimitAssumption ==
    InNetworkCandidateLimit \in Nat \ {0} /\ CelebrityCandidateLimit \in Nat \ {0}

VARIABLES
    nodes, followerCount, isCelebrity,  \* the rest of the social graph
    running,        \* the WaitGroup of fanIn: sources of the request not done
    toFetch,        \* celebrities whose outbox the request has yet to fetch
    perCeleb,       \* how many posts it takes of each
    offered,        \* candidates gathered so far
    sourceFailed,   \* history: a call of the request has failed
    readCelebs,     \* history: the celebrities it found
    due             \* history: posts delivered to its user before it began

INSTANCE SocialGraph WITH Users <- Readers \cup Authors

ASSUME GraphAssumption == GraphConstants

graphFields == <<nodes, followerCount, isCelebrity>>
locals == <<running, toFetch, perCeleb, offered, sourceFailed, readCelebs, due>>
sourceVars == <<allVars, graphFields, locals>>

InNetwork == "inNetwork"
Celebrity == "celebrity"

\* Delivered to reader u, who has followed the author since: stored, handled
\* without an exception, and not only refused by the cold tier.
DeliveredTo(u) ==
    {p \in completed : /\ <<u, p>> \in stable
                       /\ <<u, p>> \in pushed \cup appended \/ p \in outbox[authorOf[p]]}

SourcesInit ==
    /\ TimelineInit
    /\ nodes \in SUBSET (Readers \cup Authors)
    /\ follows \subseteq nodes \X nodes
    /\ followerCount = [u \in Readers \cup Authors |-> Cardinality(FollowersIn(follows, u))]
    /\ isCelebrity = [u \in Readers \cup Authors |-> followerCount[u] > CelebrityCutoff]
    /\ running = [s \in Sessions |-> {}] /\ toFetch = running
    /\ offered = running /\ readCelebs = running /\ due = running
    /\ perCeleb = [s \in Sessions |-> 0]
    /\ sourceFailed = [s \in Sessions |-> FALSE]

-----------------------------------------------------------------------------
(* The social graph: the statements, with what Fanout keeps of them.        *)

SignUp(u) ==
    /\ u \notin nodes
    /\ graphChanges < MaxGraphChanges
    /\ graphChanges' = graphChanges + 1
    /\ EnsureUserNode(u)
    /\ UNCHANGED <<postVars, active, crashes, offsets, job, stubExpired, tiers, history,
                   readVars, locals>>

FollowOnce(u, a) ==
    /\ Follow(u, a) /\ MergeFollow(u, a)
    /\ UNCHANGED <<readVars, locals>>

UnfollowOnce(u, a) ==
    /\ Unfollow(u, a) /\ DeleteFollow(u, a)
    /\ UNCHANGED <<readVars, locals>>

\* A repeated statement finds the edge.
FollowAgain(u, a) ==
    /\ <<u, a>> \in follows /\ MergeFollow(u, a)
    /\ UNCHANGED <<postVars, active, graphChanges, crashes, offsets, job, stubExpired, tiers,
                   history, readVars, locals>>

-----------------------------------------------------------------------------
(* fanIn                                                                    *)

BeginFanIn(s) ==
    /\ running[s] = {} /\ due[s] = {}
    /\ DeliveredTo(UserOf[s]) # {}      \* other requests say nothing of what is missed
    /\ running' = [running EXCEPT ![s] = {InNetwork, Celebrity}]
    /\ due' = [due EXCEPT ![s] = DeliveredTo(UserOf[s])]
    /\ UNCHANGED <<allVars, graphFields, toFetch, perCeleb, offered, sourceFailed, readCelebs>>

Offer(s, posts) == offered' = [offered EXCEPT ![s] = @ \cup posts]

Done(s, source) == running' = [running EXCEPT ![s] = @ \ {source}]

\* ZREVRANGE feed:user:<u> 0 limit-1
NewestInInbox(u) == TopOf(hot[u], InNetworkCandidateLimit)

\* cold[:limit]: an append goes to the end, so these are the oldest entries.
FirstInCold(entries) ==
    {entries[i] : i \in DOMAIN entries \cap 1 .. InNetworkCandidateLimit}

\* inNetworkCandidates, as in Timeline; its answer is kept.
ReadInNetwork(s) ==
    /\ InNetwork \in running[s]
    /\ \/ /\ CheckExists(s) \/ Promote(s)
          /\ UNCHANGED <<running, offered, sourceFailed>>
       \/ /\ GetInbox(s)
          /\ Offer(s, NewestInInbox(UserOf[s])) /\ Done(s, InNetwork)
          /\ UNCHANGED sourceFailed
       \/ /\ GetCold(s)
          /\ running' = IF cold[UserOf[s]] = <<>>
                        THEN [running EXCEPT ![s] = @ \ {InNetwork}] ELSE running
          /\ UNCHANGED <<offered, sourceFailed>>
       \/ /\ ReturnCold(s)
          /\ Offer(s, FirstInCold(coldRead[s])) /\ Done(s, InNetwork)
          /\ UNCHANGED sourceFailed
       \/ /\ ReadFails(s)
          /\ sourceFailed' = [sourceFailed EXCEPT ![s] = TRUE] /\ Done(s, InNetwork)
          /\ UNCHANGED offered
    /\ UNCHANGED <<graphFields, toFetch, perCeleb, readCelebs, due>>

\* The division rounds down; no celebrity gets less than one place.
Share(n) ==
    LET each == CelebrityCandidateLimit \div n
    IN  IF each < 1 THEN 1 ELSE each

\* graph.FollowedCelebrities: one goroutine is started for each.
ReadCelebrities(s) ==
    /\ Celebrity \in running[s] /\ readCelebs[s] = {} /\ toFetch[s] = {}
    /\ LET celebs == FollowedCelebrities(UserOf[s])
       IN  IF celebs = {}
           THEN Done(s, Celebrity) /\ UNCHANGED <<toFetch, perCeleb, readCelebs>>
           ELSE /\ readCelebs' = [readCelebs EXCEPT ![s] = celebs]
                /\ toFetch' = [toFetch EXCEPT ![s] = celebs]
                /\ perCeleb' = [perCeleb EXCEPT ![s] = Share(Cardinality(celebs))]
                /\ UNCHANGED running
    /\ UNCHANGED <<allVars, graphFields, offered, sourceFailed, due>>

\* ZREVRANGE celebrity:outbox:<a> 0 n-1; the score is createdAt.
NewestInOutbox(a, n) ==
    {p \in outbox[a] : Cardinality({q \in outbox[a] : q > p}) < n}

\* Mutant of FetchOutbox: the goroutines share the slice without the mutex.
FetchOutboxUnlocked(s, a) ==
    /\ a \in toFetch[s]
    /\ offered' = [offered EXCEPT ![s] = NewestInOutbox(a, perCeleb[s])]
    /\ toFetch' = [toFetch EXCEPT ![s] = @ \ {a}]
    /\ UNCHANGED <<allVars, graphFields, running, perCeleb, sourceFailed, readCelebs, due>>

\* One goroutine: its outbox is appended under the mutex.
FetchOutbox(s, a) ==
    /\ a \in toFetch[s]
    /\ Offer(s, NewestInOutbox(a, perCeleb[s]))
    /\ toFetch' = [toFetch EXCEPT ![s] = @ \ {a}]
    /\ UNCHANGED <<allVars, graphFields, running, perCeleb, sourceFailed, readCelebs, due>>

\* One outbox fails and is left out; the others stay.
FetchOutboxFails(s, a) ==
    /\ a \in toFetch[s]
    /\ toFetch' = [toFetch EXCEPT ![s] = @ \ {a}]
    /\ sourceFailed' = [sourceFailed EXCEPT ![s] = TRUE]
    /\ UNCHANGED <<allVars, graphFields, running, perCeleb, offered, readCelebs, due>>

\* wg.Wait of celebrityCandidates.
JoinOutboxes(s) ==
    /\ Celebrity \in running[s] /\ readCelebs[s] # {} /\ toFetch[s] = {}
    /\ Done(s, Celebrity)
    /\ UNCHANGED <<allVars, graphFields, toFetch, perCeleb, offered, sourceFailed, readCelebs, due>>

\* Neo4j fails: no celebrity candidates.
ReadCelebritiesFails(s) ==
    /\ Celebrity \in running[s] /\ readCelebs[s] = {} /\ toFetch[s] = {}
    /\ Done(s, Celebrity)
    /\ sourceFailed' = [sourceFailed EXCEPT ![s] = TRUE]
    /\ UNCHANGED <<allVars, graphFields, toFetch, perCeleb, offered, readCelebs, due>>

\* wg.Wait of fanIn has returned, and the request goes on with its candidates.
TakeCandidates(s) ==
    /\ running[s] = {} /\ due[s] # {}
    /\ due' = [due EXCEPT ![s] = {}] /\ offered' = [offered EXCEPT ![s] = {}]
    /\ readCelebs' = [readCelebs EXCEPT ![s] = {}]
    /\ perCeleb' = [perCeleb EXCEPT ![s] = 0]
    /\ sourceFailed' = [sourceFailed EXCEPT ![s] = FALSE]
    /\ UNCHANGED <<allVars, graphFields, running, toFetch>>

FanIn(s) ==
    \/ BeginFanIn(s)
    \/ ReadInNetwork(s)
    \/ ReadCelebrities(s) \/ ReadCelebritiesFails(s)
    \/ \E a \in Authors : FetchOutbox(s, a) \/ FetchOutboxFails(s, a)
    \/ JoinOutboxes(s)
    \/ TakeCandidates(s)

-----------------------------------------------------------------------------
\* The steps of Fanout that leave the graph alone.
PostsAndWorker ==
    \/ \E a \in Authors : InsertPost(a)
    \/ \E p \in Posts : PublishPost(p) \/ PublishFails(p)
    \/ \E u \in Readers : ActivityLapses(u)
    \/ Worker \/ Restart \/ DeadlinePasses

SourcesNext ==
    \/ \E u \in Readers \cup Authors : SignUp(u)
    \/ \E u \in Readers, a \in Authors : FollowOnce(u, a) \/ UnfollowOnce(u, a) \/ FollowAgain(u, a)
    \/ PostsAndWorker /\ UNCHANGED <<readVars, graphFields, locals>>
    \/ \E s \in Sessions : FanIn(s)

SourcesSpec == SourcesInit /\ [][SourcesNext]_sourceVars

-----------------------------------------------------------------------------
\* Post p lies behind the limit of u's in-network read: in the hot inbox behind
\* as many newer pushes, in the cold one behind as many older appends.
BeyondLimit(u, p) ==
    \/ Cardinality({q \in Posts : q > p /\ <<u, q>> \in pushed}) >= InNetworkCandidateLimit
    \/ Len(cold[u]) > InNetworkCandidateLimit /\ p \notin FirstInCold(cold[u])

\* A post the worker delivered, by push, append or outbox, to a reader who has
\* followed its author ever since, is among the candidates of a request in
\* which no call failed.  If it is not, there is one of five reasons, and no
\* race between the two sources, the worker and the graph adds a sixth: the
\* inbox is full, so that newer pushes or later appends may have pushed it out;
\* or the read takes fewer entries than there are; or it is in a cold inbox
\* that a hot one hides; or behind perCeleb newer posts of its author's outbox;
\* or the author was no celebrity when the request asked.
MissedForAReason ==
    \A s \in Sessions : running[s] = {} /\ ~ sourceFailed[s] =>
        \A p \in due[s] \ offered[s] :
            LET u == UserOf[s]
                a == authorOf[p]
            IN  <<u, p>> \in stable =>
                \/ Cardinality(HotInbox(u)) >= MaxItems
                \/ Len(cold[u]) >= MaxColdTierItems
                \/ BeyondLimit(u, p)
                \/ <<u, p>> \in appended /\ HotInbox(u) # {}
                \/ /\ p \in outbox[a]
                   /\ \/ a \notin readCelebs[s]
                      \/ Cardinality({q \in outbox[a] : q > p}) >= perCeleb[s]
=============================================================================
