---------------------------- MODULE TasteSource ----------------------------
(* The vector source of GetFeed, from CreatePost to its candidates: posts   *)
(* are stored on the author's shard, then published; vector-pipeline indexes *)
(* them; a request gathers seed posts of its user and of those he follows   *)
(* from all shards, averages their vectors and searches around that.        *)
EXTENDS VectorPipeline, FiniteSets, FiniteSetsExt

CONSTANTS
    Authors, PartitionOf,   \* kafka.Hash of the author's ID
    Shards, ShardOf,        \* of the topology; ExtractShardID of each author
    Requests, UserOf,       \* GetFeed requests, and the user of each
    TasteSeedPostLimit,
    VectorCandidateLimit

ASSUME TasteAssumption ==
    /\ PartitionOf \in [Authors -> Partitions] /\ ShardOf \in [Authors -> Shards]
    /\ UserOf \in [Requests -> Authors]
    /\ IsFiniteSet(Authors)
    /\ TasteSeedPostLimit \in Nat \ {0} /\ VectorCandidateLimit \in Nat \ {0}

VARIABLES
    stored,         \* the posts tables: posts, numbered by created_at
    authorOf,       \* user_id of each, chosen in advance
    asking, results, merged, firstErr,  \* RecentByAuthors of each request
    step,           \* where in vectorCandidates the request is
    candidates,     \* what it returned
    seedAuthors,    \* its local: the user and those he follows
    before          \* history: posts stored when it began

INSTANCE ScatterGather WITH Calls <- Requests, Keys <- Authors

rows == <<stored, authorOf>>
gather == <<asking, results, merged, firstErr>>
request == <<gather, step, candidates, seedAuthors, before>>
allVars == <<vars, rows, request>>

TasteInit ==
    /\ Init /\ GatherInit
    /\ stored = {} /\ authorOf \in [PostIds -> Authors]
    /\ step = [r \in Requests |-> "idle"]
    /\ candidates = [r \in Requests |-> {}] /\ seedAuthors = candidates
    /\ before = candidates

-----------------------------------------------------------------------------
(* CreatePost and the pipeline                                              *)

\* The row.  createdAt is taken before the INSERT: of two requests at once the
\* later one may be stored first.
InsertPost(p) ==
    /\ stored' = stored \cup {p}
    /\ p \notin stored
    /\ UNCHANGED <<vars, authorOf, request>>

\* Mutant of PublishPost: publishes without waiting for the row.
PublishAtOnce(p) ==
    /\ Publish(PartitionOf[authorOf[p]], p)
    /\ UNCHANGED <<rows, request>>

\* After the row.  If it fails nothing changes and no retry follows: a post that
\* is never published is one of those.
PublishPost(p) ==
    /\ p \in stored
    /\ Publish(PartitionOf[authorOf[p]], p)
    /\ UNCHANGED <<rows, request>>

Consume == Pipeline /\ UNCHANGED <<rows, request>>

ConsumeBadly == (MessageFails \/ Restart) /\ UNCHANGED <<rows, request>>

-----------------------------------------------------------------------------
(* vectorCandidates                                                         *)

\* graph.Following has answered, and RecentByAuthors begins.
BeginTaste(r) ==
    /\ step[r] = "idle"
    /\ \E followees \in SUBSET (Authors \ {UserOf[r]}) :
          /\ seedAuthors' = [seedAuthors EXCEPT ![r] = {UserOf[r]} \cup followees]
          /\ Scatter(r, seedAuthors'[r])
    /\ step' = [step EXCEPT ![r] = "seeds"]
    /\ candidates' = [candidates EXCEPT ![r] = {}]
    /\ before' = [before EXCEPT ![r] = stored]
    /\ UNCHANGED <<vars, rows>>

\* The n newest posts of the given authors.
Newest(authors, n) ==
    LET theirs == {p \in stored : authorOf[p] \in authors}
    IN  {p \in theirs : Quantify(theirs, LAMBDA q : q > p) < n}

\* queryRecentPosts: LIMIT limitPerAuthor * len(authorIDs), whoever they are of.
QueryRecentPosts(r, s) ==
    /\ QueryShard(r, s, Newest(asking[r][s], TasteSeedPostLimit * Cardinality(asking[r][s])))
    /\ UNCHANGED <<vars, rows, step, candidates, seedAuthors, before>>

QueryRecentPostsFails(r, s) ==
    /\ QueryFails(r, s)
    /\ UNCHANGED <<vars, rows, step, candidates, seedAuthors, before>>

ReceiveSeeds(r) ==
    /\ Receive(r)
    /\ UNCHANGED <<vars, rows, step, candidates, seedAuthors, before>>

\* The channel is closed: no error, and at least one seed.
HaveSeeds(r) ==
    /\ step[r] = "seeds" /\ Collected(r)
    /\ ~ firstErr[r] /\ merged[r] # {}
    /\ step' = [step EXCEPT ![r] = "taste"]
    /\ UNCHANGED <<vars, rows, gather, candidates, seedAuthors, before>>

\* The source is done.
Done(r) ==
    /\ step' = [step EXCEPT ![r] = "idle"]
    /\ DropGather(r)
    /\ seedAuthors' = [seedAuthors EXCEPT ![r] = {}]
    /\ before' = [before EXCEPT ![r] = {}]

\* DeriveTasteVector: the average of the seeds that have a point.
DeriveTasteVector(r) ==
    /\ step[r] = "taste"
    /\ merged[r] \cap indexed # {}
    /\ step' = [step EXCEPT ![r] = "search"]
    /\ UNCHANGED <<vars, rows, gather, candidates, seedAuthors, before>>

\* The nearest points, seeds among them; which are nearest is left open.
Search(r) ==
    /\ step[r] = "search"
    /\ \E found \in SUBSET indexed :
          /\ Cardinality(found) <= VectorCandidateLimit
          /\ found # indexed => Cardinality(found) = VectorCandidateLimit
          /\ candidates' = [candidates EXCEPT ![r] = found]
    /\ Done(r)
    /\ UNCHANGED <<vars, rows>>

\* No candidates: a shard or Qdrant failed, there are no seeds, or none of them
\* has a point yet.
NoTaste(r) ==
    /\ \/ step[r] = "seeds" /\ Collected(r) /\ (firstErr[r] \/ merged[r] = {})
       \/ step[r] \in {"taste", "search"}
    /\ Done(r)
    /\ UNCHANGED <<vars, rows, candidates>>

VectorCandidates(r) ==
    \/ \E s \in Shards : QueryRecentPosts(r, s) \/ QueryRecentPostsFails(r, s)
    \/ ReceiveSeeds(r) \/ HaveSeeds(r)
    \/ DeriveTasteVector(r) \/ Search(r) \/ NoTaste(r)

-----------------------------------------------------------------------------
TasteNext ==
    \/ \E p \in PostIds : InsertPost(p) \/ PublishPost(p)
    \/ Consume \/ ConsumeBadly
    \/ \E r \in Requests : BeginTaste(r) \/ VectorCandidates(r)

TasteSpec == TasteInit /\ [][TasteNext]_allVars

\* The consumer's loop and the goroutines of a request run; nothing is assumed
\* of posts, of failures or of further requests.
TasteFairSpec ==
    /\ TasteSpec
    /\ WF_allVars(Consume)
    /\ \A r \in Requests : WF_allVars(VectorCandidates(r))

-----------------------------------------------------------------------------
\* Every candidate of the vector source has a row for the stages that follow:
\* whatever the consumer replays or fails at, nothing gets into the index that
\* is not in Postgres.
CandidatesHydrate == \A r \in Requests : candidates[r] \subseteq stored

\* A taste is never made of some shards only: a post stored before the request
\* began is a seed unless its shard returned as many newer ones as its limit.
\* (Of all authors asked there together: one of them may take every place.)
SeedsFromAllShards ==
    \A r \in Requests : step[r] \in {"taste", "search"} =>
        \A p \in before[r] \ merged[r] :
            LET there == {a \in seedAuthors[r] : ShardOf[a] = ShardOf[authorOf[p]]}
            IN  authorOf[p] \in there =>
                    Quantify(stored, LAMBDA q : q > p /\ authorOf[q] \in there)
                        >= TasteSeedPostLimit * Cardinality(there)

\* A request always gets past this source: a shard or Qdrant that fails never
\* leaves its channel open and fanIn waiting.
SourceAlwaysReturns ==
    \A r \in Requests : step[r] # "idle" ~> step[r] = "idle"
=============================================================================
