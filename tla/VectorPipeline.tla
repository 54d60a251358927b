--------------------------- MODULE VectorPipeline ---------------------------
(* The consumer of post-created that embeds each caption and upserts it into *)
(* Qdrant under the ID of the post.  It commits after every message, and     *)
(* goes on after one that fails.                                            *)
EXTENDS Naturals, Sequences

CONSTANTS
    Partitions,
    None,
    MaxPosts,       \* bound: posts published
    MaxFailures,    \* bound: messages that fail
    MaxRestarts     \* bound: restarts of the consumer

ASSUME VectorBounds == MaxPosts \in Nat /\ MaxFailures \in Nat /\ MaxRestarts \in Nat

VARIABLES
    published,      \* the IDs of the posts published
    log,            \* post-created: post IDs, per partition
    position,       \* where the iterator stands, per partition
    committed,      \* the offsets of group "vector-pipeline"
    job,            \* the message in hand
    indexed,        \* Qdrant: post IDs with a point
    failures, restarts,     \* counters of the bounds
    handled,        \* history: messages dealt with, per partition
    failed          \* history: posts with a logged failure

vars == <<published, log, position, committed, job, indexed, failures, restarts, handled, failed>>

PostIds == 1 .. MaxPosts

NoJob == [stage |-> "idle", partition |-> None]

Init ==
    /\ published = {} /\ log = [x \in Partitions |-> <<>>]
    /\ position = [x \in Partitions |-> 0] /\ committed = position
    /\ job = NoJob
    /\ indexed = {} /\ failed = {}
    /\ failures = 0 /\ restarts = 0
    /\ handled = [x \in Partitions |-> {}]

Publish(x, p) ==
    /\ p \notin published
    /\ published' = published \cup {p}
    /\ log' = [log EXCEPT ![x] = Append(@, p)]
    /\ UNCHANGED <<position, committed, job, indexed, failures, restarts, handled, failed>>

-----------------------------------------------------------------------------
\* The iterator moves past a message as it yields it.
NextMessage(x) ==
    /\ job = NoJob
    /\ position[x] < Len(log[x])
    /\ position' = [position EXCEPT ![x] = @ + 1]
    /\ job' = [stage |-> "upsert", partition |-> x]
    /\ UNCHANGED <<published, log, committed, indexed, failures, restarts, handled, failed>>

Message == log[job.partition][position[job.partition]]

Deal == handled' = [handled EXCEPT ![job.partition] = @ \cup {position[job.partition]}]

\* encode and upsert: a point that exists is replaced.
Upsert ==
    /\ job.stage = "upsert"
    /\ indexed' = indexed \cup {Message}
    /\ job' = [job EXCEPT !.stage = "commit"]
    /\ Deal
    /\ UNCHANGED <<published, log, position, committed, failures, restarts, failed>>

\* Mutant of CommitPositions: commits what was fetched, not what was yielded.
CommitFetched ==
    /\ job.stage = "commit"
    /\ committed' = [x \in Partitions |-> Len(log[x])]
    /\ job' = NoJob
    /\ UNCHANGED <<published, log, position, indexed, failures, restarts, handled, failed>>

\* consumer.commit() without offsets: the positions of all partitions.
CommitPositions ==
    /\ job.stage = "commit"
    /\ committed' = position
    /\ job' = NoJob
    /\ UNCHANGED <<published, log, position, indexed, failures, restarts, handled, failed>>

\* The model, Qdrant or the commit raises: logged, and on to the next message.
\* What was asked of Qdrant or Kafka may have been done all the same.
MessageFails ==
    /\ job # NoJob
    /\ failures < MaxFailures /\ failures' = failures + 1
    /\ indexed' \in {indexed, indexed \cup {Message}}
    /\ committed' \in IF job.stage = "commit" THEN {committed, position} ELSE {committed}
    /\ failed' = failed \cup {Message}
    /\ Deal
    /\ job' = NoJob
    /\ UNCHANGED <<published, log, position, restarts>>

\* Mutant of Restart: starts where new messages will come.
RestartAtLatest ==
    /\ restarts < MaxRestarts
    /\ restarts' = restarts + 1
    /\ position' = [x \in Partitions |-> Len(log[x])]
    /\ job' = NoJob
    /\ UNCHANGED <<published, log, committed, indexed, failures, handled, failed>>

\* The process starts again at the committed offsets.
Restart ==
    /\ restarts < MaxRestarts
    /\ restarts' = restarts + 1
    /\ position' = committed
    /\ job' = NoJob
    /\ UNCHANGED <<published, log, committed, indexed, failures, handled, failed>>

Pipeline ==
    \/ \E x \in Partitions : NextMessage(x)
    \/ Upsert
    \/ CommitPositions

Next ==
    \/ \E x \in Partitions, p \in PostIds : Publish(x, p)
    \/ Pipeline \/ MessageFails \/ Restart

Spec == Init /\ [][Next]_vars

\* The loop runs; nothing is assumed of posts, failures or restarts.
FairSpec == Spec /\ WF_vars(Pipeline)

-----------------------------------------------------------------------------
TypeOK ==
    /\ published \subseteq PostIds
    /\ log \in [Partitions -> Seq(PostIds)]
    /\ {position, committed} \subseteq [Partitions -> 0 .. MaxPosts]
    /\ \A x \in Partitions : position[x] <= Len(log[x]) /\ committed[x] <= Len(log[x])
    /\ job \in [stage : {"idle", "upsert", "commit"}, partition : Partitions \cup {None}]
    /\ indexed \subseteq PostIds /\ failed \subseteq PostIds
    /\ failures \in 0 .. MaxFailures /\ restarts \in 0 .. MaxRestarts
    /\ handled \in [Partitions -> SUBSET PostIds]

\* Every published post gets into the index in the end, unless its failure was
\* logged, in spite of restarts between the upsert and the commit.
EveryPostIndexed ==
    \A p \in PostIds : p \in published ~> p \in indexed \cup failed

Consumer == INSTANCE AtLeastOnce
    WITH produced <- [x \in Partitions |-> Len(log[x])]

\* The pipeline keeps the promise of the other consumers of the topic.
PipelineAtLeastOnce == Consumer!Spec
=============================================================================
