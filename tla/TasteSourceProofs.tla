------------------------- MODULE TasteSourceProofs -------------------------
(* The vector source and the pipeline that feeds it: what a request is given *)
(* has rows, its taste is made of all shards, and the consumer behind the    *)
(* index keeps the promise of every consumer of the topic.  For any authors, *)
(* shards, partitions and requests, any failures and restarts.               *)
EXTENDS TasteSource, FiniteSetTheorems, TLAPS

-----------------------------------------------------------------------------
(* The invariants                                                           *)

PipelineTypes ==
    /\ published \subseteq PostIds
    /\ log \in [Partitions -> Seq(PostIds)]
    /\ position \in [Partitions -> Nat] /\ committed \in [Partitions -> Nat]
    /\ job \in [stage : {"idle", "upsert", "commit"}, partition : Partitions \cup {None}]
    /\ handled \in [Partitions -> SUBSET Nat]

\* The consumer asks Qdrant for x's message at its position.
AtUpsert(x) == job.stage = "upsert" /\ job.partition = x

\* Committed, yielded and produced never overtake each other; what is behind
\* either of the first two was dealt with, but for the message in hand.
OffsetParts ==
    \A x \in Partitions :
        /\ committed[x] <= position[x] /\ position[x] <= Len(log[x])
        /\ 1 .. committed[x] \subseteq handled[x]
        /\ \A k \in 1 .. position[x] : k \in handled[x] \/ (k = position[x] /\ AtUpsert(x))

\* The message in hand is one of the log, and everything indexed came from it.
MessageParts ==
    /\ job # NoJob => job.partition \in Partitions /\ position[job.partition] > 0
                      /\ job.stage # "idle"
    /\ \A x \in Partitions : \A k \in 1 .. Len(log[x]) : log[x][k] \in published
    /\ indexed \subseteq published

PipelineInv == PipelineTypes /\ OffsetParts /\ MessageParts

Results == [rows : SUBSET PostIds, err : BOOLEAN]

TasteTypes ==
    /\ stored \subseteq PostIds /\ authorOf \in [PostIds -> Authors]
    /\ asking \in [Requests -> [Shards -> SUBSET Authors]]
    /\ results \in [Requests -> Seq(Results)]
    /\ merged \in [Requests -> SUBSET PostIds]
    /\ firstErr \in [Requests -> BOOLEAN]
    /\ step \in [Requests -> {"idle", "seeds", "taste", "search"}]
    /\ candidates \in [Requests -> SUBSET PostIds]
    /\ seedAuthors \in [Requests -> SUBSET Authors]
    /\ before \in [Requests -> SUBSET PostIds]

RowsIn(channel) == UNION {channel[i].rows : i \in DOMAIN channel}

\* The authors a request asks the shard of author a for.
Together(r, a) == {b \in seedAuthors[r] : ShardOf[b] = ShardOf[a]}

\* A shard returned as many posts newer than p as it was asked for.
CrowdedOut(r, p) ==
    Cardinality({q \in stored : q > p /\ authorOf[q] \in Together(r, authorOf[p])})
        >= TasteSeedPostLimit * Cardinality(Together(r, authorOf[p]))

\* A post that should be a seed is in the caller's map or the channel, or its
\* shard was not asked yet, or had newer ones.
Found(r, p) ==
    \/ asking[r][ShardOf[authorOf[p]]] # {}
    \/ p \in merged[r] \cup RowsIn(results[r])
    \/ CrowdedOut(r, p)

\* Of one request: rows are never deleted; goroutines run and send only while
\* the caller collects; one that has not sent asks for all authors of its shard;
\* no request goes on after an error, and every seed is found unless it will
\* fail.
RequestParts(r) ==
    /\ before[r] \cup candidates[r] \subseteq stored
    /\ step[r] # "seeds" => asking[r] = Nothing /\ results[r] = <<>>
    /\ \A s \in Shards :
          asking[r][s] # {} => asking[r][s] = {b \in seedAuthors[r] : ShardOf[b] = s}
    /\ step[r] \in {"taste", "search"} => ~ firstErr[r]
    /\ step[r] # "idle" /\ ~ Doomed(r) =>
          \A p \in before[r] : authorOf[p] \in seedAuthors[r] => Found(r, p)

\* The row is written before its event is published.
RowsFirst == published \subseteq stored

TasteInv ==
    PipelineInv /\ TasteTypes /\ RowsFirst /\ \A r \in Requests : RequestParts(r)

-----------------------------------------------------------------------------
(* The consumer                                                             *)

LEMMA PipelineInit == Init => PipelineInv
<1> SUFFICES ASSUME Init PROVE PipelineInv
  OBVIOUS
<1>1. PipelineTypes
  BY DEF Init, PipelineTypes, NoJob
<1>2. OffsetParts
  <2>1. \A x \in Partitions : committed[x] = 0 /\ position[x] = 0 /\ Len(log[x]) = 0
    BY DEF Init
  <2>2. ASSUME NEW x \in Partitions
        PROVE  /\ committed[x] <= position[x] /\ position[x] <= Len(log[x])
               /\ 1 .. committed[x] = {} /\ 1 .. position[x] = {}
    BY <2>1
  <2> QED
    BY <2>2 DEF OffsetParts
<1>3. MessageParts
  BY DEF Init, MessageParts
<1> QED
  BY <1>1, <1>2, <1>3 DEF PipelineInv

\* The message in hand.
LEMMA HeldMessage ==
    ASSUME PipelineInv, job # NoJob
    PROVE  /\ job.partition \in Partitions /\ position[job.partition] \in Nat
           /\ position[job.partition] \in 1 .. Len(log[job.partition])
           /\ Message \in published /\ Message \in PostIds
<1>1. job.partition \in Partitions /\ position[job.partition] > 0
  BY DEF PipelineInv, MessageParts
<1>2. position[job.partition] \in Nat /\ log[job.partition] \in Seq(PostIds)
      /\ position[job.partition] <= Len(log[job.partition])
  BY <1>1 DEF PipelineInv, PipelineTypes, OffsetParts
<1>3. position[job.partition] \in 1 .. Len(log[job.partition])
  BY <1>1, <1>2
<1> QED
  BY <1>1, <1>2, <1>3 DEF Message, PipelineInv, MessageParts, PipelineTypes

LEMMA PublishKeeps ==
    ASSUME PipelineInv, NEW x \in Partitions, NEW p \in PostIds, Publish(x, p)
    PROVE  PipelineInv'
<1>1. /\ log \in [Partitions -> Seq(PostIds)] /\ published' = published \cup {p}
      /\ log' = [log EXCEPT ![x] = Append(log[x], p)]
      /\ UNCHANGED <<position, committed, job, indexed, handled>>
  BY DEF Publish, PipelineInv, PipelineTypes
<1>2. log'[x] = Append(log[x], p) /\ \A y \in Partitions : y # x => log'[y] = log[y]
  BY <1>1
<1>3. \A y \in Partitions : Len(log[y]) \in Nat /\ Len(log[y]) <= Len(log'[y])
  BY <1>1, <1>2
<1>4. PipelineTypes'
  BY <1>1 DEF PipelineInv, PipelineTypes
<1>5. OffsetParts'
  <2> SUFFICES ASSUME NEW y \in Partitions PROVE position[y] <= Len(log'[y])
    BY <1>1 DEF PipelineInv, OffsetParts, AtUpsert
  <2>1. position[y] <= Len(log[y]) /\ position[y] \in Nat /\ Len(log[y]) \in Nat /\ Len(log'[y]) \in Nat
    BY <1>1, <1>4 DEF PipelineInv, OffsetParts, PipelineTypes
  <2> QED
    BY <1>3, <2>1
<1>6. MessageParts'
  <2>1. ASSUME NEW y \in Partitions, NEW k \in 1 .. Len(log'[y]) PROVE log'[y][k] \in published'
    <3>1. \A j \in 1 .. Len(log[y]) : log[y][j] \in published
      BY DEF PipelineInv, MessageParts
    <3>2. log[y] \in Seq(PostIds)
      BY <1>1
    <3> QED
      BY <1>1, <1>2, <2>1, <3>1, <3>2
  <2> QED
    BY <1>1, <2>1 DEF PipelineInv, MessageParts
<1> QED
  BY <1>4, <1>5, <1>6 DEF PipelineInv

LEMMA NextMessageKeeps ==
    ASSUME PipelineInv, NEW x \in Partitions, NextMessage(x)
    PROVE  PipelineInv'
<1>1. /\ job = NoJob /\ position[x] < Len(log[x])
      /\ position' = [position EXCEPT ![x] = position[x] + 1]
      /\ job' = [stage |-> "upsert", partition |-> x]
      /\ UNCHANGED <<published, log, committed, indexed, handled>>
  BY DEF NextMessage
<1>2. /\ position[x] \in Nat /\ position'[x] = position[x] + 1
      /\ \A y \in Partitions : y # x => position'[y] = position[y]
  BY <1>1 DEF PipelineInv, PipelineTypes
<1>3. PipelineTypes'
  BY <1>1, <1>2 DEF PipelineInv, PipelineTypes
<1>4. OffsetParts'
  <2> SUFFICES ASSUME NEW y \in Partitions
               PROVE  /\ committed[y] <= position'[y] /\ position'[y] <= Len(log[y])
                      /\ \A k \in 1 .. position'[y] :
                            k \in handled[y] \/ (k = position'[y] /\ y = x)
    BY <1>1 DEF PipelineInv, OffsetParts, AtUpsert
  <2>1. /\ committed[y] \in Nat /\ position[y] \in Nat /\ Len(log[y]) \in Nat
        /\ committed[y] <= position[y] /\ position[y] <= Len(log[y])
    BY DEF PipelineInv, PipelineTypes, OffsetParts
  <2>2. \A k \in 1 .. position[y] : k \in handled[y]
    BY <1>1 DEF PipelineInv, OffsetParts, AtUpsert, NoJob
  <2> QED
    BY <1>1, <1>2, <2>1, <2>2
<1>5. MessageParts'
  BY <1>1, <1>2 DEF PipelineInv, MessageParts
<1> QED
  BY <1>3, <1>4, <1>5 DEF PipelineInv

\* The message in hand is dealt with, and the consumer is at its commit or free.
LEMMA DealKeeps ==
    ASSUME PipelineInv, job # NoJob, Deal,
           \/ job' = [job EXCEPT !.stage = "commit"]
           \/ job' = NoJob,
           indexed' \in {indexed, indexed \cup {Message}},
           \/ committed' = committed
           \/ job.stage = "commit" /\ committed' = position,
           UNCHANGED <<published, log, position>>
    PROVE  PipelineInv'
<1> DEFINE x == job.partition
<1>1. /\ x \in Partitions /\ position[x] \in Nat /\ position[x] > 0
      /\ Message \in published
  BY HeldMessage
<1>2. /\ handled' = [handled EXCEPT ![x] = handled[x] \cup {position[x]}]
      /\ handled'[x] = handled[x] \cup {position[x]}
      /\ \A y \in Partitions : y # x => handled'[y] = handled[y]
  BY <1>1 DEF Deal, PipelineInv, PipelineTypes
<1>3. job' \in [stage : {"idle", "upsert", "commit"}, partition : Partitions \cup {None}]
      /\ job'.stage # "upsert"
      /\ (job' # NoJob => job'.partition = x /\ job'.stage # "idle")
  BY <1>1 DEF NoJob, PipelineInv, PipelineTypes
<1>4. PipelineTypes'
  <2>1. handled' \in [Partitions -> SUBSET Nat]
    BY <1>1, <1>2 DEF PipelineInv, PipelineTypes
  <2>2. committed' \in [Partitions -> Nat]
    BY DEF PipelineInv, PipelineTypes
  <2> QED
    BY <1>3, <2>1, <2>2 DEF PipelineInv, PipelineTypes
<1>5. OffsetParts'
  <2> SUFFICES ASSUME NEW y \in Partitions
               PROVE  /\ committed'[y] <= position[y]
                      /\ 1 .. committed'[y] \subseteq handled'[y]
                      /\ 1 .. position[y] \subseteq handled'[y]
    BY DEF PipelineInv, OffsetParts
  <2>1. handled[y] \subseteq handled'[y] /\ position[y] \in Nat
    BY <1>2 DEF PipelineInv, PipelineTypes
  <2>2. /\ committed[y] <= position[y] /\ 1 .. committed[y] \subseteq handled[y]
        /\ \A k \in 1 .. position[y] : k \in handled[y] \/ (k = position[y] /\ y = x)
    BY DEF PipelineInv, OffsetParts, AtUpsert
  <2>3. 1 .. position[y] \subseteq handled'[y]
    BY <1>2, <2>1, <2>2
  <2> QED
    BY <2>1, <2>2, <2>3
<1>6. MessageParts'
  <2>1. job' # NoJob => /\ job'.partition \in Partitions /\ position'[job'.partition] > 0
                        /\ job'.stage # "idle"
    BY <1>1, <1>3
  <2>2. indexed' \subseteq published
    BY <1>1 DEF PipelineInv, MessageParts
  <2> QED
    BY <2>1, <2>2 DEF PipelineInv, MessageParts
<1> QED
  BY <1>4, <1>5, <1>6 DEF PipelineInv

LEMMA CommitKeeps ==
    ASSUME PipelineInv, CommitPositions
    PROVE  PipelineInv'
<1>1. /\ job.stage = "commit" /\ committed' = position /\ job' = NoJob
      /\ UNCHANGED <<published, log, position, indexed, handled>>
  BY DEF CommitPositions
<1>2. PipelineTypes'
  BY <1>1 DEF PipelineInv, PipelineTypes, NoJob
<1>3. OffsetParts'
  <2> SUFFICES ASSUME NEW y \in Partitions
               PROVE  /\ position[y] <= position[y] /\ position[y] <= Len(log[y])
                      /\ \A k \in 1 .. position[y] : k \in handled[y]
    BY <1>1 DEF OffsetParts
  <2>1. position[y] \in Nat
    BY DEF PipelineInv, PipelineTypes
  <2> QED
    BY <1>1, <2>1 DEF PipelineInv, OffsetParts, AtUpsert
<1>4. MessageParts'
  BY <1>1 DEF PipelineInv, MessageParts
<1> QED
  BY <1>2, <1>3, <1>4 DEF PipelineInv

LEMMA RestartKeeps ==
    ASSUME PipelineInv, Restart
    PROVE  PipelineInv'
<1>1. /\ position' = committed /\ job' = NoJob
      /\ UNCHANGED <<published, log, committed, indexed, handled>>
  BY DEF Restart
<1>2. PipelineTypes'
  BY <1>1 DEF PipelineInv, PipelineTypes, NoJob
<1>3. OffsetParts'
  <2> SUFFICES ASSUME NEW y \in Partitions
               PROVE  /\ committed[y] <= committed[y] /\ committed[y] <= Len(log[y])
                      /\ 1 .. committed[y] \subseteq handled[y]
    BY <1>1 DEF OffsetParts
  <2>1. committed[y] \in Nat /\ position[y] \in Nat /\ Len(log[y]) \in Nat
    BY DEF PipelineInv, PipelineTypes
  <2> QED
    BY <2>1 DEF PipelineInv, OffsetParts
<1>4. MessageParts'
  BY <1>1 DEF PipelineInv, MessageParts
<1> QED
  BY <1>2, <1>3, <1>4 DEF PipelineInv

LEMMA PipelineKeeps == PipelineInv /\ [Next]_vars => PipelineInv'
<1> SUFFICES ASSUME PipelineInv, [Next]_vars PROVE PipelineInv'
  OBVIOUS
<1>1. CASE Upsert
  <2>1. job # NoJob
    BY <1>1 DEF Upsert, NoJob
  <2> QED
    BY <1>1, <2>1, DealKeeps DEF Upsert
<1>2. CASE MessageFails
  BY <1>2, DealKeeps DEF MessageFails
<1>3. CASE UNCHANGED vars
  BY <1>3 DEF vars, PipelineInv, PipelineTypes, OffsetParts, AtUpsert, MessageParts
<1> QED
  BY <1>1, <1>2, <1>3, PublishKeeps, NextMessageKeeps, CommitKeeps, RestartKeeps DEF Next, Pipeline

-----------------------------------------------------------------------------
(* The consumer refines AtLeastOnce                                         *)

\* The predecessors of the message in hand were dealt with.
LEMMA DealtInOrder ==
    ASSUME PipelineInv, job # NoJob, Deal, UNCHANGED <<log, committed>>
    PROVE  Consumer!Next
<1> DEFINE x == job.partition  k == position[x]
<1>1. x \in Partitions /\ k \in 1 .. Len(log[x]) /\ k \in Nat
  BY HeldMessage
<1>2. 1 .. k - 1 \subseteq handled[x]
  BY <1>1 DEF PipelineInv, OffsetParts
<1>3. handled' = [handled EXCEPT ![x] = @ \cup {k}]
  BY DEF Deal
<1> HIDE DEF k, x
<1>4. Consumer!Deal(x, k)
  BY <1>2, <1>3 DEF Consumer!Deal
<1>5. k \in 1 .. [y \in Partitions |-> Len(log[y])][x]
  BY <1>1
<1> QED
  BY <1>1, <1>4, <1>5 DEF Consumer!Next

\* The positions of all partitions are behind messages that were dealt with.
LEMMA CommittedInOrder ==
    ASSUME PipelineInv, job.stage = "commit", committed' = position, UNCHANGED <<log, handled>>
    PROVE  Consumer!Next
<1>1. committed' \in [Partitions -> Nat]
  BY DEF PipelineInv, PipelineTypes
<1>2. ASSUME NEW x \in Partitions
      PROVE  committed[x] <= committed'[x] /\ 1 .. committed'[x] \subseteq handled[x]
  BY DEF PipelineInv, OffsetParts, AtUpsert
<1>3. Consumer!Commit
  BY <1>1, <1>2 DEF Consumer!Commit
<1> QED
  BY <1>3 DEF Consumer!Next

\* A step of the consumer or of a publisher is one of AtLeastOnce, or a stutter.
LEMMA PipelineRefines ==
    ASSUME PipelineInv, [Next]_vars
    PROVE  [Consumer!Next]_Consumer!vars
<1>1. CASE UNCHANGED <<log, handled, committed>>
  BY <1>1 DEF Consumer!vars
<1>2. ASSUME NEW z \in Partitions, NEW p \in PostIds, Publish(z, p)
      PROVE  Consumer!Next
  <2>1. /\ log' = [log EXCEPT ![z] = Append(log[z], p)] /\ UNCHANGED <<handled, committed>>
        /\ log \in [Partitions -> Seq(PostIds)]
    BY <1>2 DEF Publish, PipelineInv, PipelineTypes
  <2>2. log'[z] = Append(log[z], p) /\ \A x \in Partitions \ {z} : log'[x] = log[x]
    BY <2>1
  <2>3. Len(log'[z]) = Len(log[z]) + 1
    <3>1. log[z] \in Seq(PostIds)
      BY <2>1
    <3> QED
      BY <2>2, <3>1
  <2>4. [x \in Partitions |-> Len(log'[x])]
            = [[x \in Partitions |-> Len(log[x])] EXCEPT ![z] = @ + 1]
    BY <2>2, <2>3
  <2>5. Consumer!Produce(z)
    BY <2>1, <2>4 DEF Consumer!Produce
  <2> QED
    BY <2>5 DEF Consumer!Next
<1>3. CASE Upsert
  BY <1>3, DealtInOrder DEF Upsert, NoJob
<1>4. CASE CommitPositions
  BY <1>4, CommittedInOrder DEF CommitPositions
<1>5. CASE MessageFails
  <2>1. job # NoJob /\ Deal /\ log' = log
        /\ (committed' = committed \/ (job.stage = "commit" /\ committed' = position))
    BY <1>5 DEF MessageFails
  <2>2. CASE job.stage = "commit"
    <3>1. job.partition \in Partitions /\ position[job.partition] \in 1 .. position[job.partition]
      BY <2>1, HeldMessage
    <3>2. position[job.partition] \in handled[job.partition]
      BY <2>2, <3>1 DEF PipelineInv, OffsetParts, AtUpsert
    <3>3. handled[job.partition] \cup {position[job.partition]} = handled[job.partition]
      BY <3>2
    <3>4. handled' = handled
      BY <2>1, <3>1, <3>3 DEF Deal, PipelineInv, PipelineTypes
    <3> QED
      BY <2>1, <2>2, <3>4, DealtInOrder, CommittedInOrder
  <2> QED
    BY <2>1, <2>2, DealtInOrder
<1>6. CASE \/ UNCHANGED vars \/ Restart \/ \E x \in Partitions : NextMessage(x)
  BY <1>1, <1>6 DEF vars, Restart, NextMessage
<1> QED
  BY <1>2, <1>3, <1>4, <1>5, <1>6 DEF Next, Pipeline

LEMMA PipelineInitRefines == Init => Consumer!Init
<1> SUFFICES ASSUME Init PROVE Consumer!Init
  OBVIOUS
<1>1. [x \in Partitions |-> Len(log[x])] = [x \in Partitions |-> 0]
  BY DEF Init
<1> QED
  BY <1>1 DEF Init, Consumer!Init

-----------------------------------------------------------------------------
(* The channel and the rows                                                 *)

LEMMA RowsAppended ==
    ASSUME NEW q \in Seq(Results), NEW r \in Results
    PROVE  RowsIn(Append(q, r)) = RowsIn(q) \cup r.rows
<1>1. /\ DOMAIN Append(q, r) = 1 .. Len(q) + 1 /\ DOMAIN q = 1 .. Len(q) /\ Len(q) \in Nat
      /\ Append(q, r)[Len(q) + 1] = r
      /\ \A i \in 1 .. Len(q) : Append(q, r)[i] = q[i]
  OBVIOUS
<1>2. RowsIn(q) \subseteq RowsIn(Append(q, r)) /\ r.rows \subseteq RowsIn(Append(q, r))
  BY <1>1 DEF RowsIn
<1>3. ASSUME NEW p \in RowsIn(Append(q, r)) PROVE p \in RowsIn(q) \cup r.rows
  <2>1. PICK i \in DOMAIN Append(q, r) : p \in Append(q, r)[i].rows
    BY DEF RowsIn
  <2>2. CASE i = Len(q) + 1
    BY <1>1, <2>1, <2>2
  <2>3. CASE i \in 1 .. Len(q)
    BY <1>1, <2>1, <2>3 DEF RowsIn
  <2> QED
    BY <1>1, <2>1, <2>2, <2>3
<1> QED
  BY <1>2, <1>3

LEMMA RowsReceived ==
    ASSUME NEW q \in Seq(Results), q # <<>>
    PROVE  /\ Head(q) \in Results /\ Tail(q) \in Seq(Results)
           /\ RowsIn(q) \subseteq Head(q).rows \cup RowsIn(Tail(q))
           /\ (\E i \in DOMAIN q : q[i].err)
                  => Head(q).err \/ \E i \in DOMAIN Tail(q) : Tail(q)[i].err
<1>1. /\ DOMAIN q = 1 .. Len(q) /\ Len(q) \in Nat \ {0} /\ Head(q) = q[1]
      /\ Tail(q) \in Seq(Results) /\ DOMAIN Tail(q) = 1 .. Len(q) - 1
      /\ \A i \in 1 .. Len(q) - 1 : Tail(q)[i] = q[i + 1]
  OBVIOUS
<1>2. ASSUME NEW i \in DOMAIN q, i # 1 PROVE i - 1 \in DOMAIN Tail(q) /\ Tail(q)[i - 1] = q[i]
  BY <1>1, <1>2
<1>3. ASSUME NEW p \in RowsIn(q) PROVE p \in Head(q).rows \cup RowsIn(Tail(q))
  <2>1. PICK i \in DOMAIN q : p \in q[i].rows
    BY DEF RowsIn
  <2> QED
    BY <1>1, <1>2, <2>1 DEF RowsIn
<1>4. Head(q) \in Results
  BY <1>1
<1> QED
  BY <1>1, <1>2, <1>3, <1>4

LEMMA PostsFinite == IsFiniteSet(PostIds)
BY VectorBounds, FS_Interval DEF PostIds

\* Posts are stored and never deleted: a crowded shard stays crowded.
LEMMA StaysCrowded ==
    ASSUME TasteTypes, TasteTypes', stored \subseteq stored', authorOf' = authorOf,
           NEW r \in Requests, NEW p \in PostIds, seedAuthors'[r] = seedAuthors[r], CrowdedOut(r, p)
    PROVE  CrowdedOut(r, p)'
<1> DEFINE there == Together(r, authorOf[p])
           newer == {q \in stored : q > p /\ authorOf[q] \in there}
           newerThen == {q \in stored' : q > p /\ authorOf[q] \in there}
           most == TasteSeedPostLimit * Cardinality(there)
<1>1. there' = there
  BY DEF Together
<1>2. IsFiniteSet(there)
  <2>1. there \subseteq Authors
    BY DEF Together, TasteTypes
  <2> QED
    BY <2>1, TasteAssumption, FS_Subset
<1>3. most \in Nat
  <2>1. Cardinality(there) \in Nat /\ TasteSeedPostLimit \in Nat
    BY <1>2, TasteAssumption, FS_CardinalityType
  <2> HIDE DEF there
  <2> QED
    BY <2>1
<1>4. newer \subseteq newerThen /\ newerThen \subseteq PostIds
  BY DEF TasteTypes
<1>5. IsFiniteSet(newerThen)
  BY <1>4, PostsFinite, FS_Subset
<1>6. Cardinality(newer) <= Cardinality(newerThen)
      /\ Cardinality(newer) \in Nat /\ Cardinality(newerThen) \in Nat
  BY <1>4, <1>5, FS_Subset, FS_CardinalityType
<1>7. Cardinality(newer) >= most
  BY DEF CrowdedOut
<1>8. Cardinality(newerThen) >= most
  <2> HIDE DEF newer, newerThen, most
  <2> QED
    BY <1>3, <1>6, <1>7
<1> QED
  BY <1>1, <1>8 DEF CrowdedOut

\* What the shard of an author returns has each post of his, or more newer ones
\* of those asked for with him than its limit.
LEMMA ShardAnswers ==
    ASSUME TasteTypes, NEW r \in Requests, NEW p \in stored,
           NEW authors, authors = Together(r, authorOf[p]), authorOf[p] \in authors
    PROVE  \/ p \in Newest(authors, TasteSeedPostLimit * Cardinality(authors))
           \/ CrowdedOut(r, p)
<1> DEFINE newer == {q \in {z \in stored : authorOf[z] \in authors} : q > p}
           most == TasteSeedPostLimit * Cardinality(authors)
<1>1. IsFiniteSet(authors)
  <2>1. authors \subseteq Authors
    BY DEF Together, TasteTypes
  <2> QED
    BY <2>1, TasteAssumption, FS_Subset
<1>2. most \in Nat
  <2>1. Cardinality(authors) \in Nat /\ TasteSeedPostLimit \in Nat
    BY <1>1, TasteAssumption, FS_CardinalityType
  <2> QED
    BY <2>1
<1>3. Cardinality(newer) \in Nat
  <2>1. newer \subseteq PostIds
    BY DEF TasteTypes
  <2> QED
    BY <2>1, PostsFinite, FS_Subset, FS_CardinalityType
<1>4. CASE Cardinality(newer) < most
  BY <1>4 DEF Newest, Quantify
<1>5. CASE Cardinality(newer) >= most
  <2>1. newer = {q \in stored : q > p /\ authorOf[q] \in authors}
    OBVIOUS
  <2> QED
    BY <1>5, <2>1 DEF CrowdedOut
<1> QED
  <2> HIDE DEF newer, most
  <2> QED
    BY <1>2, <1>3, <1>4, <1>5 DEF newer, most

-----------------------------------------------------------------------------
(* Requests                                                                 *)

\* Nothing of request r changes.
SameRequest(r) ==
    /\ asking'[r] = asking[r] /\ results'[r] = results[r]
    /\ merged'[r] = merged[r] /\ firstErr'[r] = firstErr[r]
    /\ step'[r] = step[r] /\ candidates'[r] = candidates[r]
    /\ seedAuthors'[r] = seedAuthors[r] /\ before'[r] = before[r]

LEMMA IdleRequestKeeps ==
    ASSUME TasteTypes, TasteTypes', stored \subseteq stored', authorOf' = authorOf,
           NEW r \in Requests, SameRequest(r), RequestParts(r)
    PROVE  RequestParts(r)'
<1>1. ASSUME NEW p \in before[r], Found(r, p) PROVE Found(r, p)'
  <2>1. p \in PostIds
    BY DEF TasteTypes
  <2>2. CASE CrowdedOut(r, p)
    BY <2>1, <2>2, StaysCrowded DEF SameRequest, Found
  <2>3. CASE ~ CrowdedOut(r, p)
    BY <1>1, <2>3 DEF SameRequest, Found, RowsIn
  <2> QED
    BY <2>2, <2>3
<1>2. Doomed(r)' = Doomed(r) /\ Nothing' = Nothing
  BY DEF Doomed, SameRequest, Nothing
<1> QED
  BY <1>1, <1>2 DEF RequestParts, SameRequest

\* Posts are stored and published, and messages consumed, beside all requests.
LEMMA BesideKeeps ==
    ASSUME TasteInv, PipelineInv', published' \subseteq stored', stored \subseteq stored',
           stored' \subseteq PostIds, UNCHANGED <<authorOf, request>>
    PROVE  TasteInv'
<1>1. TasteTypes'
  BY DEF TasteInv, TasteTypes, request, gather
<1>2. ASSUME NEW r \in Requests PROVE RequestParts(r)'
  BY <1>1, IdleRequestKeeps DEF TasteInv, SameRequest, request, gather
<1> QED
  BY <1>1, <1>2 DEF TasteInv, RowsFirst

\* A step of one request leaves the others, the rows and the pipeline alone.
LEMMA RequestStepKeeps ==
    ASSUME TasteInv, NEW r \in Requests, TasteTypes', RequestParts(r)',
           UNCHANGED <<vars, rows>>, \A o \in Requests \ {r} : SameRequest(o)
    PROVE  TasteInv'
<1>1. PipelineInv'
  BY PipelineKeeps DEF TasteInv
<1>2. RowsFirst' /\ stored' = stored /\ authorOf' = authorOf
  BY DEF TasteInv, RowsFirst, vars, rows
<1>3. ASSUME NEW o \in Requests \ {r} PROVE RequestParts(o)'
  BY <1>2, IdleRequestKeeps DEF TasteInv
<1> QED
  BY <1>1, <1>2, <1>3 DEF TasteInv

LEMMA BeginKeeps ==
    ASSUME TasteInv, NEW r \in Requests, BeginTaste(r)
    PROVE  TasteInv'
<1>1. PICK followees \in SUBSET (Authors \ {UserOf[r]}) :
          /\ seedAuthors' = [seedAuthors EXCEPT ![r] = {UserOf[r]} \cup followees]
          /\ Scatter(r, seedAuthors'[r])
  BY DEF BeginTaste
<1>2. /\ step[r] = "idle" /\ step' = [step EXCEPT ![r] = "seeds"]
      /\ candidates' = [candidates EXCEPT ![r] = {}]
      /\ before' = [before EXCEPT ![r] = stored]
      /\ UNCHANGED <<vars, rows>>
  BY DEF BeginTaste
<1> DEFINE seeds == {UserOf[r]} \cup followees
<1>3. seeds \in SUBSET Authors
  BY TasteAssumption
<1>4. /\ asking' = [asking EXCEPT ![r] = GroupByShard(seeds)]
      /\ merged' = [merged EXCEPT ![r] = {}] /\ firstErr' = [firstErr EXCEPT ![r] = FALSE]
      /\ results' = results /\ seedAuthors'[r] = seeds
  BY <1>1 DEF Scatter, TasteInv, TasteTypes
<1>5. GroupByShard(seeds) \in [Shards -> SUBSET Authors]
  BY <1>3 DEF GroupByShard
<1>6. TasteTypes'
  BY <1>1, <1>2, <1>3, <1>4, <1>5 DEF TasteInv, TasteTypes, rows
<1>7. \A o \in Requests \ {r} : SameRequest(o)
  BY <1>1, <1>2, <1>4 DEF TasteInv, TasteTypes, SameRequest
<1>8. RequestParts(r)'
  <2>1. /\ asking'[r] = GroupByShard(seeds) /\ step'[r] = "seeds" /\ before'[r] = stored
        /\ candidates'[r] = {} /\ stored' = stored /\ authorOf' = authorOf
    BY <1>2, <1>4 DEF TasteInv, TasteTypes, rows
  <2>2. \A s \in Shards : asking'[r][s] = {b \in seeds : ShardOf[b] = s}
    BY <2>1 DEF GroupByShard
  <2>3. ASSUME NEW p \in stored, authorOf[p] \in seeds PROVE asking'[r][ShardOf[authorOf[p]]] # {}
    <3>1. authorOf[p] \in Authors /\ ShardOf[authorOf[p]] \in Shards
      BY TasteAssumption DEF TasteInv, TasteTypes
    <3> QED
      BY <2>2, <2>3, <3>1
  <2> HIDE DEF seeds
  <2> QED
    BY <1>4, <2>1, <2>2, <2>3 DEF RequestParts, Found
<1> QED
  BY <1>2, <1>6, <1>7, <1>8, RequestStepKeeps

\* A goroutine sends its rows or an error.
LEMMA SendTypes ==
    ASSUME TasteInv, NEW r \in Requests, NEW s \in Shards, NEW res \in Results, Send(r, s, res),
           UNCHANGED <<vars, rows, step, candidates, seedAuthors, before>>
    PROVE  /\ TasteTypes' /\ \A o \in Requests \ {r} : SameRequest(o)
           /\ results'[r] = Append(results[r], res) /\ results[r] \in Seq(Results)
           /\ asking[r][s] # {} /\ asking'[r][s] = {}
           /\ \A z \in Shards \ {s} : asking'[r][z] = asking[r][z]
           /\ UNCHANGED <<merged, firstErr>>
<1>1. /\ asking \in [Requests -> [Shards -> SUBSET Authors]]
      /\ results \in [Requests -> Seq(Results)]
  BY DEF TasteInv, TasteTypes
<1>2. /\ asking[r][s] # {} /\ asking' = [asking EXCEPT ![r][s] = {}]
      /\ results' = [results EXCEPT ![r] = Append(results[r], res)]
      /\ UNCHANGED <<merged, firstErr>>
  BY DEF Send
<1>3. asking' \in [Requests -> [Shards -> SUBSET Authors]] /\ results' \in [Requests -> Seq(Results)]
  BY <1>1, <1>2
<1>4. TasteTypes'
  BY <1>2, <1>3 DEF TasteInv, TasteTypes, rows
<1>5. \A o \in Requests \ {r} : SameRequest(o)
  BY <1>1, <1>2 DEF SameRequest
<1> QED
  BY <1>1, <1>2, <1>4, <1>5

LEMMA QueryKeeps ==
    ASSUME TasteInv, NEW r \in Requests, NEW s \in Shards, QueryRecentPosts(r, s)
    PROVE  TasteInv'
<1> DEFINE found == Newest(asking[r][s], TasteSeedPostLimit * Cardinality(asking[r][s]))
           res == [rows |-> found, err |-> FALSE]
<1>1. Send(r, s, res) /\ UNCHANGED <<vars, rows, step, candidates, seedAuthors, before>>
  BY DEF QueryRecentPosts, QueryShard
<1>2. res \in Results /\ res.rows = found /\ ~ res.err
  BY DEF Newest, Results, TasteInv, TasteTypes
<1> HIDE DEF res, found
<1>3. /\ TasteTypes' /\ \A o \in Requests \ {r} : SameRequest(o)
      /\ results'[r] = Append(results[r], res) /\ results[r] \in Seq(Results)
      /\ asking[r][s] # {} /\ asking'[r][s] = {}
      /\ \A z \in Shards \ {s} : asking'[r][z] = asking[r][z]
      /\ UNCHANGED <<merged, firstErr>>
  BY <1>1, <1>2, SendTypes
<1>4. RequestParts(r) /\ TasteTypes
  BY DEF TasteInv
<1>5. step[r] = "seeds"
  BY <1>3, <1>4 DEF RequestParts, Nothing
<1>6. /\ step' = step /\ stored' = stored /\ authorOf' = authorOf /\ before' = before
      /\ candidates' = candidates /\ seedAuthors' = seedAuthors
  BY <1>1 DEF rows
<1>7. RowsIn(results'[r]) = RowsIn(results[r]) \cup found
  BY <1>2, <1>3, RowsAppended
<1>8. ~ Doomed(r)' => ~ Doomed(r)
  <2>1. \A i \in DOMAIN results[r] : i \in DOMAIN results'[r] /\ results'[r][i] = results[r][i]
    BY <1>3
  <2> QED
    BY <1>3, <2>1 DEF Doomed
<1>9. ASSUME NEW p \in before[r], authorOf[p] \in seedAuthors[r], Found(r, p) PROVE Found(r, p)'
  <2>1. CrowdedOut(r, p)' = CrowdedOut(r, p)
    BY <1>6 DEF CrowdedOut, Together
  <2>2. CASE ShardOf[authorOf[p]] = s
    <3>1. asking[r][s] = Together(r, authorOf[p]) /\ authorOf[p] \in asking[r][s] /\ p \in stored
      BY <1>3, <1>4, <1>9, <2>2 DEF RequestParts, Together
    <3>2. p \in found \/ CrowdedOut(r, p)
      BY <1>4, <3>1, ShardAnswers DEF found
    <3> QED
      BY <1>7, <2>1, <3>2 DEF Found, RowsIn
  <2>3. CASE ShardOf[authorOf[p]] # s
    <3>1. ShardOf[authorOf[p]] \in Shards
      BY <1>4, TasteAssumption DEF TasteTypes
    <3>2. asking'[r][ShardOf[authorOf[p]]] = asking[r][ShardOf[authorOf[p]]]
      BY <1>3, <2>3, <3>1
    <3> QED
      BY <1>3, <1>6, <1>7, <1>9, <2>1, <3>2 DEF Found, RowsIn
  <2> QED
    BY <2>2, <2>3
<1>10. RequestParts(r)'
  <2>1. \A z \in Shards : asking'[r][z] # {} => asking'[r][z] = {b \in seedAuthors[r] : ShardOf[b] = z}
    BY <1>3, <1>4 DEF RequestParts
  <2> QED
    BY <1>3, <1>4, <1>5, <1>6, <1>8, <1>9, <2>1 DEF RequestParts
<1> QED
  BY <1>1, <1>3, <1>10, RequestStepKeeps

LEMMA QueryFailsKeeps ==
    ASSUME TasteInv, NEW r \in Requests, NEW s \in Shards, QueryRecentPostsFails(r, s)
    PROVE  TasteInv'
<1>1. Send(r, s, NoRows) /\ UNCHANGED <<vars, rows, step, candidates, seedAuthors, before>>
  BY DEF QueryRecentPostsFails, QueryFails
<1>2. NoRows \in Results /\ NoRows.err
  BY DEF NoRows, Results
<1>3. /\ TasteTypes' /\ \A o \in Requests \ {r} : SameRequest(o)
      /\ results'[r] = Append(results[r], NoRows) /\ results[r] \in Seq(Results)
      /\ asking[r][s] # {} /\ asking'[r][s] = {}
      /\ \A z \in Shards \ {s} : asking'[r][z] = asking[r][z]
      /\ UNCHANGED <<merged, firstErr>>
  BY <1>1, <1>2, SendTypes
<1>4. RequestParts(r)
  BY DEF TasteInv
<1>5. step[r] = "seeds"
  BY <1>3, <1>4 DEF RequestParts, Nothing
<1>6. Doomed(r)'
  <2>1. Len(results[r]) + 1 \in DOMAIN results'[r] /\ results'[r][Len(results[r]) + 1] = NoRows
    BY <1>3
  <2> QED
    BY <1>2, <2>1 DEF Doomed
<1>7. RequestParts(r)'
  <2>1. /\ step' = step /\ stored' = stored /\ before' = before
        /\ candidates' = candidates /\ seedAuthors' = seedAuthors
    BY <1>1 DEF rows
  <2>2. \A z \in Shards : asking'[r][z] # {} => asking'[r][z] = {b \in seedAuthors[r] : ShardOf[b] = z}
    BY <1>3, <1>4 DEF RequestParts
  <2> QED
    BY <1>3, <1>4, <1>5, <1>6, <2>1, <2>2 DEF RequestParts
<1> QED
  BY <1>1, <1>3, <1>7, RequestStepKeeps

\* The caller takes a result out of the channel and into its map.
LEMMA ReceiveKeeps ==
    ASSUME TasteInv, NEW r \in Requests, ReceiveSeeds(r)
    PROVE  TasteInv'
<1>1. /\ results[r] # <<>>
      /\ results' = [results EXCEPT ![r] = Tail(results[r])]
      /\ merged' = [merged EXCEPT ![r] = merged[r] \cup Head(results[r]).rows]
      /\ firstErr' = [firstErr EXCEPT ![r] = firstErr[r] \/ Head(results[r]).err]
      /\ asking' = asking
      /\ UNCHANGED <<vars, rows, step, candidates, seedAuthors, before>>
  BY DEF ReceiveSeeds, Receive
<1>2. TasteTypes /\ RequestParts(r) /\ results[r] \in Seq(Results)
  BY DEF TasteInv, TasteTypes
<1>3. /\ Head(results[r]) \in Results /\ Tail(results[r]) \in Seq(Results)
      /\ RowsIn(results[r]) \subseteq Head(results[r]).rows \cup RowsIn(Tail(results[r]))
      /\ (\E i \in DOMAIN results[r] : results[r][i].err)
             => Head(results[r]).err \/ \E i \in DOMAIN Tail(results[r]) : Tail(results[r])[i].err
  BY <1>1, <1>2, RowsReceived
<1>4. Head(results[r]).rows \in SUBSET PostIds /\ Head(results[r]).err \in BOOLEAN
  BY <1>3 DEF Results
<1>5. TasteTypes'
  <2>1. merged' \in [Requests -> SUBSET PostIds]
    BY <1>1, <1>2, <1>4 DEF TasteTypes
  <2>2. firstErr' \in [Requests -> BOOLEAN]
    BY <1>1, <1>2, <1>4 DEF TasteTypes
  <2>3. results' \in [Requests -> Seq(Results)]
    BY <1>1, <1>2, <1>3 DEF TasteTypes
  <2> QED
    BY <1>1, <1>2, <2>1, <2>2, <2>3 DEF TasteTypes, rows
<1>6. \A o \in Requests \ {r} : SameRequest(o)
  BY <1>1, <1>2 DEF SameRequest, TasteTypes
<1>7. /\ results'[r] = Tail(results[r]) /\ merged'[r] = merged[r] \cup Head(results[r]).rows
      /\ firstErr'[r] = (firstErr[r] \/ Head(results[r]).err)
      /\ step' = step /\ stored' = stored /\ authorOf' = authorOf /\ before' = before
      /\ candidates' = candidates /\ seedAuthors' = seedAuthors
  BY <1>1, <1>2 DEF TasteTypes, rows
<1>8. step[r] = "seeds"
  BY <1>1, <1>2 DEF RequestParts
<1>9. ~ Doomed(r)' => ~ Doomed(r)
  BY <1>3, <1>7 DEF Doomed
<1>10. ASSUME NEW p \in before[r], Found(r, p) PROVE Found(r, p)'
  <2>1. CrowdedOut(r, p)' = CrowdedOut(r, p)
    BY <1>7 DEF CrowdedOut, Together
  <2>2. merged[r] \cup RowsIn(results[r]) \subseteq merged'[r] \cup RowsIn(results'[r])
    BY <1>3, <1>7
  <2>3. RowsIn(results[r])' = RowsIn(results'[r])
    BY DEF RowsIn
  <2> QED
    BY <1>1, <1>7, <1>10, <2>1, <2>2, <2>3 DEF Found
<1>11. RequestParts(r)'
  BY <1>1, <1>2, <1>7, <1>8, <1>9, <1>10 DEF RequestParts
<1> QED
  BY <1>1, <1>5, <1>6, <1>11, RequestStepKeeps

\* The caller goes on with all rows it asked for.
LEMMA TasteStepKeeps ==
    ASSUME TasteInv, NEW r \in Requests, HaveSeeds(r) \/ DeriveTasteVector(r)
    PROVE  TasteInv'
<1>1. /\ UNCHANGED <<vars, rows, gather, candidates, seedAuthors, before>>
      /\ \/ step[r] = "seeds" /\ Collected(r) /\ ~ firstErr[r] /\ step' = [step EXCEPT ![r] = "taste"]
         \/ step[r] = "taste" /\ step' = [step EXCEPT ![r] = "search"]
  BY DEF HaveSeeds, DeriveTasteVector
<1>2. TasteTypes /\ RequestParts(r)
  BY DEF TasteInv
<1>3. TasteTypes' /\ \A o \in Requests \ {r} : SameRequest(o)
  BY <1>1, <1>2 DEF TasteTypes, SameRequest, rows, gather
<1>4. /\ step[r] \in {"seeds", "taste"} /\ step'[r] \in {"taste", "search"}
      /\ asking[r] = Nothing /\ results[r] = <<>> /\ ~ firstErr[r]
  BY <1>1, <1>2 DEF TasteTypes, RequestParts, Collected, WaitGroupDone
<1>5. /\ UNCHANGED <<stored, authorOf, asking, results, merged, firstErr>>
      /\ UNCHANGED <<candidates, seedAuthors, before>>
  BY <1>1 DEF rows, gather
<1>6. Doomed(r)' = Doomed(r) /\ \A p : Found(r, p)' = Found(r, p)
  BY <1>5 DEF Doomed, Found, RowsIn, CrowdedOut, Together
<1>7. RequestParts(r)'
  BY <1>2, <1>4, <1>5, <1>6 DEF RequestParts, Nothing
<1> QED
  BY <1>1, <1>3, <1>7, RequestStepKeeps

\* The source is done, with what the index holds or nothing.
LEMMA DoneKeeps ==
    ASSUME TasteInv, NEW r \in Requests, Search(r) \/ NoTaste(r)
    PROVE  TasteInv'
<1>1. /\ UNCHANGED <<vars, rows>> /\ step' = [step EXCEPT ![r] = "idle"]
      /\ asking' = [asking EXCEPT ![r] = Nothing] /\ results' = [results EXCEPT ![r] = <<>>]
      /\ merged' = [merged EXCEPT ![r] = {}] /\ firstErr' = [firstErr EXCEPT ![r] = FALSE]
      /\ seedAuthors' = [seedAuthors EXCEPT ![r] = {}] /\ before' = [before EXCEPT ![r] = {}]
  BY DEF Search, NoTaste, Done, DropGather
<1>2. TasteTypes /\ RequestParts(r)
  BY DEF TasteInv
<1>3. PICK found \in SUBSET stored : candidates' = [candidates EXCEPT ![r] = found]
  <2>1. CASE Search(r)
    <3>1. indexed \subseteq stored
      BY DEF TasteInv, RowsFirst, PipelineInv, MessageParts
    <3> QED
      BY <2>1, <3>1 DEF Search
  <2>2. CASE NoTaste(r)
    <3>1. candidates[r] \in SUBSET stored /\ candidates' = [candidates EXCEPT ![r] = candidates[r]]
      BY <1>2, <2>2 DEF NoTaste, RequestParts, TasteTypes
    <3> QED
      BY <3>1
  <2> QED
    BY <2>1, <2>2
<1>4. /\ <<>> \in Seq(Results) /\ Nothing \in [Shards -> SUBSET Authors] /\ found \in SUBSET PostIds
      /\ Nothing' = Nothing
  BY <1>2 DEF Nothing, TasteTypes
<1>5. TasteTypes'
  BY <1>1, <1>2, <1>3, <1>4 DEF TasteTypes, rows
<1>6. \A o \in Requests \ {r} : SameRequest(o)
  BY <1>1, <1>2, <1>3 DEF TasteTypes, SameRequest
<1>7. /\ asking'[r] = Nothing /\ results'[r] = <<>> /\ step'[r] = "idle" /\ before'[r] = {}
      /\ candidates'[r] = found /\ stored' = stored
  BY <1>1, <1>2, <1>3 DEF TasteTypes, rows
<1>8. RequestParts(r)'
  BY <1>4, <1>7 DEF RequestParts, Nothing
<1> QED
  BY <1>1, <1>5, <1>6, <1>8, RequestStepKeeps

-----------------------------------------------------------------------------
(* The composition                                                          *)

LEMMA TasteInitHolds == TasteInit => TasteInv
<1> SUFFICES ASSUME TasteInit PROVE TasteInv
  OBVIOUS
<1>1. PipelineInv
  BY PipelineInit DEF TasteInit
<1>2. TasteTypes
  BY DEF TasteInit, GatherInit, TasteTypes, Nothing
<1>3. RowsFirst
  BY DEF TasteInit, Init, RowsFirst
<1>4. ASSUME NEW r \in Requests PROVE RequestParts(r)
  <2>1. /\ step[r] = "idle" /\ before[r] = {} /\ candidates[r] = {}
        /\ asking[r] = Nothing /\ results[r] = <<>>
    BY DEF TasteInit, GatherInit
  <2> QED
    BY <2>1 DEF RequestParts, Nothing
<1> QED
  BY <1>1, <1>2, <1>3, <1>4 DEF TasteInv

\* What the composition does to the pipeline is what the pipeline may do.
LEMMA StepsOfPipeline ==
    ASSUME TasteInv, [TasteNext]_allVars
    PROVE  [Next]_vars
<1>1. ASSUME NEW p \in PostIds, PublishPost(p) PROVE Next
  <2>1. PartitionOf[authorOf[p]] \in Partitions
    BY TasteAssumption DEF TasteInv, TasteTypes
  <2> QED
    BY <1>1, <2>1 DEF PublishPost, Next
<1>2. ASSUME NEW p \in PostIds, InsertPost(p) PROVE UNCHANGED vars
  BY <1>2 DEF InsertPost
<1>3. CASE Consume \/ ConsumeBadly
  BY <1>3 DEF Consume, ConsumeBadly, Next
<1>4. ASSUME NEW r \in Requests, BeginTaste(r) \/ VectorCandidates(r) PROVE UNCHANGED vars
  BY <1>4 DEF BeginTaste, VectorCandidates, QueryRecentPosts, QueryRecentPostsFails, ReceiveSeeds,
              HaveSeeds, DeriveTasteVector, Search, NoTaste
<1> QED
  BY <1>1, <1>2, <1>3, <1>4 DEF TasteNext, allVars

LEMMA TasteKeeps == TasteInv /\ [TasteNext]_allVars => TasteInv'
<1> SUFFICES ASSUME TasteInv, [TasteNext]_allVars PROVE TasteInv'
  OBVIOUS
<1>0. PipelineInv'
  BY StepsOfPipeline, PipelineKeeps DEF TasteInv
<1>1. published \subseteq stored /\ stored \subseteq PostIds
  BY DEF TasteInv, RowsFirst, TasteTypes
<1>2. ASSUME NEW p \in PostIds, InsertPost(p) PROVE TasteInv'
  <2>1. stored' = stored \cup {p} /\ published' = published /\ UNCHANGED <<authorOf, request>>
    BY <1>2 DEF InsertPost, vars
  <2> QED
    BY <1>0, <1>1, <2>1, BesideKeeps
<1>3. ASSUME NEW p \in PostIds, PublishPost(p) PROVE TasteInv'
  <2>1. p \in stored /\ published' = published \cup {p} /\ UNCHANGED <<stored, authorOf, request>>
    BY <1>3 DEF PublishPost, Publish, rows
  <2> QED
    BY <1>0, <1>1, <2>1, BesideKeeps
<1>4. CASE Consume \/ ConsumeBadly
  <2>1. published' = published
    BY <1>4 DEF Consume, ConsumeBadly, Pipeline, NextMessage, Upsert, CommitPositions, MessageFails, Restart
  <2>2. UNCHANGED <<stored, authorOf, request>>
    BY <1>4 DEF Consume, ConsumeBadly, rows
  <2> QED
    BY <1>0, <1>1, <2>1, <2>2, BesideKeeps
<1>5. ASSUME NEW r \in Requests, BeginTaste(r) \/ VectorCandidates(r) PROVE TasteInv'
  BY <1>5, BeginKeeps, QueryKeeps, QueryFailsKeeps, ReceiveKeeps, TasteStepKeeps, DoneKeeps
     DEF VectorCandidates
<1>6. CASE UNCHANGED allVars
  <2>1. UNCHANGED <<published, stored, authorOf, request>>
    BY <1>6 DEF allVars, vars, rows
  <2> QED
    BY <1>0, <1>1, <2>1, BesideKeeps
<1> QED
  BY <1>2, <1>3, <1>4, <1>5, <1>6 DEF TasteNext

\* Whatever the consumer replays or fails at, in whichever order posts are
\* stored and published, and however many requests run: what the vector source
\* returns has rows.
THEOREM CandidatesHaveRows == TasteSpec => []CandidatesHydrate
<1>1. TasteInv => CandidatesHydrate
  BY DEF TasteInv, RequestParts, CandidatesHydrate
<1> QED
  BY <1>1, TasteInitHolds, TasteKeeps, PTL DEF TasteSpec

\* A request that gets to its taste has collected every post that was stored
\* before it began, but for those its shard had too many newer ones for: no
\* shard that erred, or answers late, leaves the others to make the taste.
THEOREM SeedsComeFromAllShards == TasteSpec => []SeedsFromAllShards
<1>1. ASSUME TasteInv, NEW r \in Requests, step[r] \in {"taste", "search"},
             NEW p \in before[r] \ merged[r],
             authorOf[p] \in {a \in seedAuthors[r] : ShardOf[a] = ShardOf[authorOf[p]]}
      PROVE  CrowdedOut(r, p)
  <2>1. /\ asking[r] = Nothing /\ results[r] = <<>> /\ ~ firstErr[r]
        /\ step[r] # "idle" /\ step[r] # "seeds" /\ RequestParts(r)
    BY <1>1 DEF TasteInv, RequestParts
  <2>2. ~ Doomed(r) /\ RowsIn(results[r]) = {}
    BY <2>1 DEF Doomed, RowsIn
  <2>3. Found(r, p)
    BY <1>1, <2>1, <2>2 DEF RequestParts
  <2>4. ShardOf[authorOf[p]] \in Shards
    BY <1>1, TasteAssumption DEF TasteInv, TasteTypes
  <2> QED
    BY <1>1, <2>1, <2>2, <2>3, <2>4 DEF Found, Nothing
<1>2. TasteInv => SeedsFromAllShards
  BY <1>1 DEF SeedsFromAllShards, CrowdedOut, Together, Quantify
<1> QED
  BY <1>2, TasteInitHolds, TasteKeeps, PTL DEF TasteSpec

\* vector-pipeline commits the positions of all its partitions after every
\* message, and goes on after one that failed: whatever CreatePost stores and
\* publishes meanwhile, it is an at-least-once consumer all the same.
THEOREM PipelineRefinesConsumer == TasteSpec => PipelineAtLeastOnce
<1>1. TasteInit => Consumer!Init
  BY PipelineInitRefines DEF TasteInit
<1>2. TasteInv /\ [TasteNext]_allVars => [Consumer!Next]_Consumer!vars
  BY StepsOfPipeline, PipelineRefines DEF TasteInv
<1> QED
  BY <1>1, <1>2, TasteInitHolds, TasteKeeps, PTL DEF TasteSpec, PipelineAtLeastOnce, Consumer!Spec
=============================================================================
