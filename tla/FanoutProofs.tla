---------------------------- MODULE FanoutProofs ----------------------------
(* The fan-out worker never commits past a record it did not handle, is an  *)
(* at-least-once consumer, serves followers only and every stable one, and  *)
(* the tiers keep what they are given, also beside the requests of Timeline *)
(* that promote: for every number of readers, authors, partitions, posts    *)
(* and requests, every interleaving, every failure and every crash.         *)
EXTENDS FanoutRefines, Timeline, SequenceTheorems, FiniteSetTheorems, TLAPS

\* The record in hand is a record of the log.
LEMMA CurrentInLog ==
    ASSUME TypeOK, OffsetsInOrder, stage # "poll"
    PROVE  /\ partition \in Partitions
           /\ next[partition] + 1 \in DOMAIN log[partition]
           /\ Current \in Posts
<1>1. partition \in Partitions /\ next[partition] < fetched[partition]
      /\ fetched[partition] <= Len(log[partition])
    BY DEF OffsetsInOrder
<1>2. next \in [Partitions -> Nat] /\ fetched \in [Partitions -> Nat]
      /\ log[partition] \in Seq(Posts)
    BY <1>1 DEF TypeOK
<1>3. next[partition] + 1 \in 1 .. Len(log[partition])
    BY <1>1, <1>2
<1>. QED BY <1>1, <1>2, <1>3 DEF Current

\* A step that finishes the record in hand keeps the types of what
\* FinishRecord changes, and the offsets in order.
LEMMA FinishType ==
    ASSUME TypeOK, OffsetsInOrder, stage # "poll", FinishRecord,
           UNCHANGED <<hot, cold, pushed, appended, refused>>,
           outbox' \in [Authors -> SUBSET Posts], completed' \subseteq Posts
    PROVE  TypeOK' /\ OffsetsInOrder'
<1>1. /\ partition \in Partitions /\ next[partition] < fetched[partition]
      /\ next \in [Partitions -> Nat] /\ handled \in [Partitions -> SUBSET Nat]
      /\ fetched \in [Partitions -> Nat] /\ committed \in [Partitions -> Nat]
    BY DEF OffsetsInOrder, TypeOK
<1>2. /\ next'[partition] = next[partition] + 1
      /\ handled'[partition] = handled[partition] \cup {next[partition] + 1}
      /\ \A x \in Partitions \ {partition} : next'[x] = next[x] /\ handled'[x] = handled[x]
    BY <1>1 DEF FinishRecord
<1>3. next' \in [Partitions -> Nat] /\ handled' \in [Partitions -> SUBSET Nat]
    BY <1>1 DEF FinishRecord
<1>4. UNCHANGED <<committed, fetched, log>> /\ stage' = "poll"
    BY DEF FinishRecord, DropJob, postVars
<1>5. ASSUME NEW x \in Partitions
      PROVE  /\ committed[x] <= next'[x] /\ next'[x] <= fetched[x]
             /\ 1 .. next'[x] \subseteq handled'[x]
    <2>1. committed[x] <= next[x] /\ next[x] <= fetched[x] /\ 1 .. next[x] \subseteq handled[x]
        BY DEF OffsetsInOrder
    <2>2. CASE x = partition
        <3>1. next[x] \in Nat /\ fetched[x] \in Nat /\ committed[x] \in Nat
            BY <1>1
        <3>2. 1 .. next[x] + 1 = (1 .. next[x]) \cup {next[x] + 1}
            BY <3>1
        <3>. QED BY <1>1, <1>2, <2>1, <2>2, <3>1, <3>2
    <2>. QED BY <1>2, <2>1, <2>2
<1>6. OffsetsInOrder'
    BY <1>4, <1>5 DEF OffsetsInOrder
<1>7. TypeOK'
    <2>1. UNCHANGED <<postVars, graphVars, crashes, stubExpired, eligible, stable>>
        BY DEF FinishRecord
    <2>2. /\ stage' \in Stages /\ partition' \in Partitions \cup {None}
          /\ followers' \subseteq Readers /\ activeFollowers' \subseteq Readers
          /\ dormantFollowers' \subseteq Readers /\ untrimmed' \subseteq Readers
        BY DEF FinishRecord, DropJob, Stages
    <2>. QED BY <1>3, <1>4, <2>1, <2>2 DEF TypeOK, postVars, graphVars
<1>. QED BY <1>6, <1>7

\* A step that does not touch the log, the offsets or the record in hand.
LEMMA OffsetsBystander ==
    ASSUME OffsetsInOrder, UNCHANGED <<log, offsets, handled>>,
           \/ UNCHANGED <<stage, partition>>
           \/ stage # "poll" /\ UNCHANGED partition
    PROVE  OffsetsInOrder'
    BY DEF OffsetsInOrder, offsets

\* The initial states have their types, and no offset is ahead of another.
LEMMA InitType == Init => TypeOK /\ OffsetsInOrder
<1> SUFFICES ASSUME Init PROVE TypeOK /\ OffsetsInOrder
    OBVIOUS
<1>1. /\ \A x \in Partitions : committed[x] = 0 /\ fetched[x] = 0 /\ next[x] = 0 /\ log[x] = <<>>
      /\ committed \in [Partitions -> Nat] /\ fetched = committed /\ next = committed
      /\ log \in [Partitions -> Seq(Posts)]
    BY DEF Init
<1>2. TypeOK
    <2>1. authorOf = <<>> /\ authorOf \in Seq(Authors) /\ Len(authorOf) <= MaxPosts
        BY BoundAssumption DEF Init
    <2>2. /\ hot \in [Readers -> [Posts -> Nat]] /\ cold \in [Readers -> Seq(Posts)]
          /\ outbox \in [Authors -> SUBSET Posts] /\ handled \in [Partitions -> SUBSET Nat]
        BY DEF Init
    <2>3. graphChanges \in 0 .. MaxGraphChanges /\ crashes \in 0 .. MaxCrashes
        BY BoundAssumption DEF Init
    <2>. QED BY <1>1, <2>1, <2>2, <2>3 DEF Init, TypeOK, Stages
<1>3. Len(<<>>) = 0 /\ 1 .. 0 = {}
    OBVIOUS
<1>. QED BY <1>1, <1>2, <1>3 DEF Init, OffsetsInOrder

\* The posts tables number at most MaxPosts posts.
LEMMA DomainInPosts ==
    ASSUME TypeOK
    PROVE  DOMAIN authorOf \subseteq Posts
    BY BoundAssumption DEF TypeOK, Posts

\* The cap on a cold inbox leaves a sequence of posts.
LEMMA LastItemsType ==
    ASSUME NEW s \in Seq(Posts)
    PROVE  LastItems(s) \in Seq(Posts)
<1>1. CASE Len(s) > MaxColdTierItems
    <2>1. Len(s) - MaxColdTierItems + 1 \in 1 .. Len(s) + 1
        BY <1>1, CapAssumption
    <2>2. SubSeq(s, Len(s) - MaxColdTierItems + 1, Len(s)) \in Seq(Posts)
        BY <2>1, SubSeqProperties
    <2>. QED BY <1>1, <2>2 DEF LastItems
<1>2. CASE ~ (Len(s) > MaxColdTierItems)
    BY <1>2 DEF LastItems
<1>. QED BY <1>1, <1>2

\* Posts, follows and lapses keep types and offsets.
LEMMA IngestionType ==
    ASSUME TypeOK, OffsetsInOrder, Ingestion
    PROVE  TypeOK' /\ OffsetsInOrder'
<1> USE DEF postVars, graphVars, offsets, job, tiers, history
<1>1. ASSUME NEW a \in Authors, InsertPost(a) PROVE TypeOK' /\ OffsetsInOrder'
    <2>1. Len(authorOf) + 1 \in Posts /\ authorOf' \in Seq(Authors) /\ Len(authorOf') <= MaxPosts
        BY <1>1, BoundAssumption DEF InsertPost, TypeOK, Posts
    <2>2. FollowersOf(a) \X {Len(authorOf) + 1} \subseteq Readers \X Posts
        BY <2>1 DEF FollowersOf
    <2>3. TypeOK'
        BY <1>1, <2>1, <2>2 DEF InsertPost, TypeOK
    <2>. QED BY <1>1, <2>3, OffsetsBystander DEF InsertPost
<1>2. ASSUME NEW p \in Posts, PublishPost(p) PROVE TypeOK' /\ OffsetsInOrder'
    <2> DEFINE y == PartitionOf[authorOf[p]]
    <2>1. ASSUME NEW x \in Partitions
          PROVE  log'[x] \in Seq(Posts) /\ Len(log[x]) <= Len(log'[x])
        <3>1. log[x] \in Seq(Posts) /\ Append(log[x], p) \in Seq(Posts)
              /\ Len(Append(log[x], p)) = Len(log[x]) + 1 /\ Len(log[x]) \in Nat
            BY <1>2 DEF TypeOK
        <3>2. log'[x] = log[x] \/ log'[x] = Append(log[x], p)
            <4>1. log' = [log EXCEPT ![y] = Append(log[y], p)] /\ DOMAIN log = Partitions
                BY <1>2 DEF PublishPost, TypeOK
            <4> HIDE DEF y
            <4>. QED BY <4>1
        <3>3. CASE log'[x] = log[x]
            BY <3>1, <3>3
        <3>4. CASE log'[x] = Append(log[x], p)
            BY <3>1, <3>4
        <3>. QED BY <3>2, <3>3, <3>4
    <2>2. log' \in [Partitions -> Seq(Posts)]
        <3>1. DOMAIN log' = Partitions /\ log' = [x \in Partitions |-> log'[x]]
            BY <1>2 DEF PublishPost, TypeOK
        <3>. QED BY <2>1, <3>1
    <2>3. TypeOK'
        BY <1>2, <2>2 DEF PublishPost, TypeOK
    <2>4. OffsetsInOrder'
        <3>1. UNCHANGED <<committed, fetched, next, stage, partition, handled>>
            BY <1>2 DEF PublishPost
        <3>2. ASSUME NEW x \in Partitions PROVE fetched[x] <= Len(log'[x])
            <4>1. fetched[x] <= Len(log[x]) /\ fetched[x] \in Nat
                BY DEF OffsetsInOrder, TypeOK
            <4>2. Len(log[x]) \in Nat /\ Len(log'[x]) \in Nat
                BY <2>1 DEF TypeOK
            <4>. QED BY <2>1, <4>1, <4>2
        <3>. QED BY <3>1, <3>2 DEF OffsetsInOrder
    <2>. QED BY <2>3, <2>4
<1>3. ASSUME NEW p \in Posts, PublishFails(p) PROVE TypeOK' /\ OffsetsInOrder'
    <2>1. TypeOK'
        BY <1>3 DEF PublishFails, TypeOK
    <2>. QED BY <1>3, <2>1, OffsetsBystander DEF PublishFails
<1>4. ASSUME NEW u \in Readers, NEW a \in Authors, Follow(u, a)
      PROVE  TypeOK' /\ OffsetsInOrder'
    <2>1. DOMAIN authorOf \subseteq Posts
        BY DomainInPosts
    <2>2. {<<u, p>> : p \in {q \in DOMAIN authorOf : authorOf[q] = a}} \subseteq Readers \X Posts
        BY <2>1
    <2>3. graphChanges + 1 \in 0 .. MaxGraphChanges
        BY <1>4, BoundAssumption DEF Follow, TypeOK
    <2>4. TypeOK'
        <3>1. follows' \subseteq Readers \X Authors /\ eligible' \subseteq Readers \X Posts
            BY <1>4, <2>2 DEF Follow, TypeOK
        <3>. QED BY <1>4, <2>3, <3>1 DEF Follow, TypeOK
    <2>. QED BY <1>4, <2>4, OffsetsBystander DEF Follow
<1>5. ASSUME NEW u \in Readers, NEW a \in Authors, Unfollow(u, a)
      PROVE  TypeOK' /\ OffsetsInOrder'
    <2>1. graphChanges + 1 \in 0 .. MaxGraphChanges
        BY <1>5, BoundAssumption DEF Unfollow, TypeOK
    <2>2. TypeOK'
        BY <1>5, <2>1 DEF Unfollow, TypeOK
    <2>. QED BY <1>5, <2>2, OffsetsBystander DEF Unfollow
<1>6. ASSUME NEW u \in Readers, ActivityLapses(u) PROVE TypeOK' /\ OffsetsInOrder'
    <2>1. graphChanges + 1 \in 0 .. MaxGraphChanges
        BY <1>6, BoundAssumption DEF ActivityLapses, TypeOK
    <2>2. TypeOK'
        BY <1>6, <2>1 DEF ActivityLapses, TypeOK
    <2>. QED BY <1>6, <2>2, OffsetsBystander DEF ActivityLapses
<1>. QED BY <1>1, <1>2, <1>3, <1>4, <1>5, <1>6 DEF Ingestion

\* The actions that move between the stages of handle, or deliver.
LEMMA HandleType ==
    ASSUME TypeOK, OffsetsInOrder, Handle
    PROVE  TypeOK' /\ OffsetsInOrder'
<1> USE DEF postVars, graphVars, offsets, job, tiers, history
<1>1. CASE CheckCelebrity
    <2>1. TypeOK'
        BY <1>1 DEF CheckCelebrity, TypeOK, Stages
    <2>. QED BY <1>1, <2>1, OffsetsBystander DEF CheckCelebrity
<1>2. CASE PushToCelebrityOutbox
    <2>1. Current \in Posts /\ stage # "poll" /\ FinishRecord
        BY <1>2, CurrentInLog DEF PushToCelebrityOutbox
    <2>2. outbox' \in [Authors -> SUBSET Posts] /\ completed' \subseteq Posts
        BY <1>2, <2>1 DEF PushToCelebrityOutbox, TypeOK
    <2>. QED BY <1>2, <2>1, <2>2, FinishType DEF PushToCelebrityOutbox
<1>3. CASE GetFollowers
    <2>1. TypeOK'
        BY <1>3 DEF GetFollowers, FollowersOf, TypeOK, Stages
    <2>. QED BY <1>3, <2>1, OffsetsBystander DEF GetFollowers
<1>4. CASE NoFollowers
    <2>1. Current \in Posts /\ stage # "poll" /\ FinishRecord
        BY <1>4, CurrentInLog DEF NoFollowers
    <2>2. completed' \subseteq Posts /\ outbox' \in [Authors -> SUBSET Posts]
        BY <1>4, <2>1 DEF NoFollowers, TypeOK
    <2>. QED BY <1>4, <2>1, <2>2, FinishType DEF NoFollowers
<1>5. CASE FilterActive
    <2>1. TypeOK'
        BY <1>5 DEF FilterActive, TypeOK, Stages
    <2>. QED BY <1>5, <2>1, OffsetsBystander DEF FilterActive
<1>6. ASSUME NEW u \in Readers, PushToInbox(u) PROVE TypeOK' /\ OffsetsInOrder'
    <2>1. Current \in Posts
        BY <1>6, CurrentInLog DEF PushToInbox
    <2>2. PushScore(Current) \in Nat
        BY <2>1, CapAssumption DEF PushScore, Posts
    <2>3. hot' \in [Readers -> [Posts -> Nat]]
        BY <1>6, <2>1, <2>2 DEF PushToInbox, TypeOK
    <2>4. TypeOK'
        <3>1. pushed' \subseteq Readers \X Posts /\ untrimmed' \subseteq Readers
            BY <1>6, <2>1 DEF PushToInbox, TypeOK
        <3>. QED BY <1>6, <2>3, <3>1 DEF PushToInbox, TypeOK
    <2>. QED BY <1>6, <2>4, OffsetsBystander DEF PushToInbox
<1>7. ASSUME NEW u \in Readers, TrimInbox(u) PROVE TypeOK' /\ OffsetsInOrder'
    <2>1. hot' \in [Readers -> [Posts -> Nat]]
        BY <1>7 DEF TrimInbox, TypeOK
    <2>2. TypeOK'
        BY <1>7, <2>1 DEF TrimInbox, TypeOK
    <2>. QED BY <1>7, <2>2, OffsetsBystander DEF TrimInbox
<1>8. CASE BeginAppends
    <2>1. TypeOK'
        BY <1>8 DEF BeginAppends, TypeOK, Stages
    <2>. QED BY <1>8, <2>1, OffsetsBystander DEF BeginAppends
<1>9. ASSUME NEW u \in Readers, AppendToColdTier(u) PROVE TypeOK' /\ OffsetsInOrder'
    <2>1. Current \in Posts
        BY <1>9, CurrentInLog DEF AppendToColdTier
    <2>2. LastItems(Append(cold[u], Current)) \in Seq(Posts)
        <3>1. Append(cold[u], Current) \in Seq(Posts)
            BY <2>1 DEF TypeOK
        <3>. QED BY <3>1, LastItemsType
    <2>3. cold' \in [Readers -> Seq(Posts)]
        BY <1>9, <2>2 DEF AppendToColdTier, TypeOK
    <2>4. TypeOK'
        <3>1. appended' \subseteq Readers \X Posts /\ dormantFollowers' \subseteq Readers
            BY <1>9, <2>1 DEF AppendToColdTier, TypeOK
        <3>. QED BY <1>9, <2>3, <3>1 DEF AppendToColdTier, TypeOK
    <2>. QED BY <1>9, <2>4, OffsetsBystander DEF AppendToColdTier
<1>10. ASSUME NEW u \in Readers, AppendSwallowed(u) PROVE TypeOK' /\ OffsetsInOrder'
    <2>1. Current \in Posts
        BY <1>10, CurrentInLog DEF AppendSwallowed
    <2>2. TypeOK'
        <3>1. refused' \subseteq Readers \X Posts /\ dormantFollowers' \subseteq Readers
            BY <1>10, <2>1 DEF AppendSwallowed, TypeOK
        <3>. QED BY <1>10, <3>1 DEF AppendSwallowed, TypeOK
    <2>. QED BY <1>10, <2>2, OffsetsBystander DEF AppendSwallowed
<1>11. CASE FinishFanout
    <2>1. Current \in Posts /\ stage # "poll" /\ FinishRecord
        BY <1>11, CurrentInLog DEF FinishFanout
    <2>2. completed' \subseteq Posts /\ outbox' \in [Authors -> SUBSET Posts]
        BY <1>11, <2>1 DEF FinishFanout, TypeOK
    <2>. QED BY <1>11, <2>1, <2>2, FinishType DEF FinishFanout
<1>12. CASE RecordFails
    <2>1. stage # "poll" /\ FinishRecord
        BY <1>12 DEF RecordFails
    <2>2. completed' \subseteq Posts /\ outbox' \in [Authors -> SUBSET Posts]
        BY <1>12 DEF RecordFails, TypeOK
    <2>. QED BY <1>12, <2>1, <2>2, FinishType DEF RecordFails
<1>. QED BY <1>1, <1>2, <1>3, <1>4, <1>5, <1>6, <1>7, <1>8, <1>9, <1>10, <1>11, <1>12
         DEF Handle

\* The consumer loop, the restart and the stub's clock.
LEMMA LoopType ==
    ASSUME TypeOK, OffsetsInOrder,
           \/ Poll \/ CommitSync \/ Restart \/ DeadlinePasses
           \/ \E x \in Partitions : TakeRecord(x)
    PROVE  TypeOK' /\ OffsetsInOrder'
<1> USE DEF postVars, graphVars, offsets, job, tiers, history
<1>0. /\ committed \in [Partitions -> Nat] /\ fetched \in [Partitions -> Nat]
      /\ next \in [Partitions -> Nat] /\ handled \in [Partitions -> SUBSET Nat]
      /\ \A x \in Partitions : Len(log[x]) \in Nat
    BY DEF TypeOK
<1>1. CASE Poll
    <2>1. PICK upTo \in [Partitions -> 0 .. MaxPosts] :
              /\ \A x \in Partitions : upTo[x] \in committed[x] .. Len(log[x])
              /\ fetched' = upTo
        BY <1>1 DEF Poll
    <2>2. fetched' \in [Partitions -> Nat]
        BY <2>1
    <2>3. TypeOK'
        BY <1>1, <2>2 DEF Poll, TypeOK
    <2>4. ASSUME NEW x \in Partitions
          PROVE  next[x] <= fetched'[x] /\ fetched'[x] <= Len(log[x])
        <3>1. next[x] = committed[x]
            <4>1. committed[x] <= next[x] /\ next[x] <= committed[x]
                BY <1>1 DEF Poll, OffsetsInOrder
            <4>. QED BY <1>0, <4>1
        <3>. QED BY <1>0, <2>1, <3>1
    <2>5. OffsetsInOrder'
        BY <1>1, <2>4 DEF Poll, OffsetsInOrder
    <2>. QED BY <2>3, <2>5
<1>2. CASE CommitSync
    <2>1. TypeOK'
        BY <1>2 DEF CommitSync, TypeOK
    <2>2. OffsetsInOrder'
        BY <1>0, <1>2 DEF CommitSync, OffsetsInOrder
    <2>. QED BY <2>1, <2>2
<1>3. CASE Restart
    <2>1. crashes' \in 0 .. MaxCrashes
        BY <1>3, BoundAssumption DEF Restart, TypeOK
    <2>2. TypeOK'
        BY <1>3, <2>1 DEF Restart, DropJob, TypeOK, Stages
    <2>3. ASSUME NEW x \in Partitions
          PROVE  committed[x] <= Len(log[x]) /\ 1 .. committed[x] \subseteq handled[x]
        <3>1. /\ committed[x] <= next[x] /\ next[x] <= fetched[x] /\ fetched[x] <= Len(log[x])
              /\ 1 .. next[x] \subseteq handled[x]
            BY DEF OffsetsInOrder
        <3>2. 1 .. committed[x] \subseteq 1 .. next[x]
            BY <1>0, <3>1
        <3>. QED BY <1>0, <3>1, <3>2
    <2>4. OffsetsInOrder'
        BY <1>0, <1>3, <2>3 DEF Restart, DropJob, OffsetsInOrder
    <2>. QED BY <2>2, <2>4
<1>4. CASE DeadlinePasses
    <2>1. TypeOK'
        BY <1>4 DEF DeadlinePasses, TypeOK
    <2>. QED BY <1>4, <2>1, OffsetsBystander DEF DeadlinePasses
<1>5. ASSUME NEW x \in Partitions, TakeRecord(x) PROVE TypeOK' /\ OffsetsInOrder'
    <2>1. TypeOK'
        BY <1>5 DEF TakeRecord, TypeOK, Stages
    <2>2. OffsetsInOrder'
        BY <1>5 DEF TakeRecord, OffsetsInOrder
    <2>. QED BY <2>1, <2>2
<1>. QED BY <1>1, <1>2, <1>3, <1>4, <1>5

\* Types and the order of the offsets are inductive.
LEMMA NextType == TypeOK /\ OffsetsInOrder /\ [Next]_vars => TypeOK' /\ OffsetsInOrder'
<1> SUFFICES ASSUME TypeOK, OffsetsInOrder, [Next]_vars PROVE TypeOK' /\ OffsetsInOrder'
    OBVIOUS
<1>1. CASE UNCHANGED vars
    <2>1. TypeOK'
        BY <1>1 DEF vars, postVars, graphVars, offsets, job, tiers, history, TypeOK
    <2>. QED BY <1>1, <2>1, OffsetsBystander DEF vars, postVars, job, history
<1>. QED BY <1>1, IngestionType, HandleType, LoopType DEF Next, Worker

\* The worker's state and the stores keep their types, and the offsets their
\* order, in every behaviour.
THEOREM TypeCorrect == Spec => []TypeOK
<1>1. Spec => [](TypeOK /\ OffsetsInOrder)
    BY InitType, NextType, PTL DEF Spec
<1>. QED BY <1>1, PTL

\* No record below a committed offset was left unhandled.
THEOREM NothingSkipped == Spec => []NoRecordSkipped
<1>1. Spec => [](TypeOK /\ OffsetsInOrder)
    BY InitType, NextType, PTL DEF Spec
<1>2. TypeOK /\ OffsetsInOrder => NoRecordSkipped
    <2> SUFFICES ASSUME TypeOK, OffsetsInOrder, NEW x \in Partitions
                 PROVE  1 .. committed[x] \subseteq handled[x]
        BY DEF NoRecordSkipped
    <2>1. committed[x] <= next[x] /\ 1 .. next[x] \subseteq handled[x]
        BY DEF OffsetsInOrder
    <2>2. committed[x] \in Nat /\ next[x] \in Nat
        BY DEF TypeOK
    <2>3. 1 .. committed[x] \subseteq 1 .. next[x]
        BY <2>1, <2>2
    <2>. QED BY <2>1, <2>3
<1>. QED BY <1>1, <1>2, PTL

-----------------------------------------------------------------------------
(* Refinement.                                                              *)

\* Every step of the worker is a step of the abstract consumer, or a stutter.
LEMMA ConsumerStep ==
    ASSUME TypeOK, OffsetsInOrder, [Next]_vars
    PROVE  [Consumer!Next]_Consumer!vars
<1> USE DEF postVars, graphVars, offsets, job, tiers, history
<1> DEFINE Quiet == UNCHANGED <<log, handled, committed>>
<1>1. Quiet => UNCHANGED Consumer!vars
    BY DEF Consumer!vars
<1>2. ASSUME NEW p \in Posts, PublishPost(p) PROVE [Consumer!Next]_Consumer!vars
    <2> DEFINE y == PartitionOf[authorOf[p]]
    <2>1. DOMAIN log = Partitions /\ log' = [log EXCEPT ![y] = Append(log[y], p)]
          /\ UNCHANGED <<handled, committed>>
        BY <1>2 DEF PublishPost, TypeOK
    <2>2. CASE y \in Partitions
        <3>1. PICK z \in Partitions : log' = [log EXCEPT ![z] = Append(log[z], p)]
            BY <2>1, <2>2
        <3>2. log[z] \in Seq(Posts) /\ DOMAIN log = Partitions
            BY DEF TypeOK
        <3>3. Len(log'[z]) = Len(log[z]) + 1
              /\ \A x \in Partitions \ {z} : log'[x] = log[x]
            BY <3>1, <3>2
        <3>4. [x \in Partitions |-> Len(log'[x])]
                 = [[x \in Partitions |-> Len(log[x])] EXCEPT ![z] = Len(log[z]) + 1]
            BY <3>3
        <3>5. Consumer!Produce(z)
            BY <2>1, <3>4 DEF Consumer!Produce
        <3>. QED BY <3>5 DEF Consumer!Next
    <2>3. CASE y \notin Partitions
        <3>1. log' = log
            <4>1. log \in [Partitions -> Seq(Posts)]
                BY DEF TypeOK
            <4> HIDE DEF y
            <4>. QED BY <2>1, <2>3, <4>1
        <3>. QED BY <1>1, <2>1, <3>1
    <2>. QED BY <2>2, <2>3
<1>3. ASSUME stage # "poll", FinishRecord PROVE [Consumer!Next]_Consumer!vars
    <2> DEFINE i == next[partition] + 1
    <2>1. /\ partition \in Partitions /\ i \in DOMAIN log[partition]
          /\ 1 .. next[partition] \subseteq handled[partition]
        BY <1>3, CurrentInLog DEF OffsetsInOrder
    <2>2. log[partition] \in Seq(Posts) /\ next[partition] \in Nat
        BY <2>1 DEF TypeOK
    <2>3. i \in 1 .. Len(log[partition]) /\ i - 1 = next[partition]
        BY <2>1, <2>2
    <2>4. /\ handled' = [handled EXCEPT ![partition] = handled[partition] \cup {i}]
          /\ UNCHANGED <<log, committed>>
        BY <1>3 DEF FinishRecord
    <2>5. Consumer!Deal(partition, i)
        BY <2>1, <2>3, <2>4 DEF Consumer!Deal
    <2>6. i \in 1 .. [x \in Partitions |-> Len(log[x])][partition]
        BY <2>1, <2>3
    <2>. QED BY <2>1, <2>5, <2>6 DEF Consumer!Next
<1>4. CASE CommitSync
    <2>1. committed' = fetched /\ fetched = next /\ UNCHANGED <<log, handled>>
        BY <1>4 DEF CommitSync
    <2>2. fetched \in [Partitions -> Nat]
        BY DEF TypeOK
    <2>3. \A x \in Partitions : committed[x] <= next[x] /\ 1 .. next[x] \subseteq handled[x]
        BY DEF OffsetsInOrder
    <2>4. Consumer!Commit
        BY <2>1, <2>2, <2>3 DEF Consumer!Commit
    <2>. QED BY <2>4 DEF Consumer!Next
<1>5. ASSUME Ingestion, \A p \in Posts : ~ PublishPost(p) PROVE Quiet
    BY <1>5 DEF Ingestion, InsertPost, PublishFails, Follow, Unfollow, ActivityLapses
<1>6. ASSUME Handle, ~ (stage # "poll" /\ FinishRecord) PROVE Quiet
    BY <1>6 DEF Handle, CheckCelebrity, PushToCelebrityOutbox, GetFollowers, NoFollowers,
                FilterActive, PushToInbox, TrimInbox, BeginAppends, AppendToColdTier,
                AppendSwallowed, FinishFanout, RecordFails
<1>7. ASSUME \/ Poll \/ Restart \/ DeadlinePasses \/ UNCHANGED vars
             \/ \E x \in Partitions : TakeRecord(x)
      PROVE  Quiet
    BY <1>7 DEF Poll, Restart, DeadlinePasses, TakeRecord, vars
<1>. QED BY <1>1, <1>2, <1>3, <1>4, <1>5, <1>6, <1>7 DEF Next, Worker

\* The poll loop with its batches, swallowed failures and restarts implements
\* an at-least-once consumer of the topic.
THEOREM WorkerRefinesConsumer == Spec => ConsumesAtLeastOnce
<1>1. Init => Consumer!Init
    <2> SUFFICES ASSUME Init PROVE Consumer!Init
        OBVIOUS
    <2>1. [x \in Partitions |-> Len(log[x])] = [x \in Partitions |-> 0]
        BY DEF Init
    <2>. QED BY <2>1 DEF Init, Consumer!Init
<1>2. TypeOK /\ OffsetsInOrder /\ [Next]_vars => [Consumer!Next]_Consumer!vars
    BY ConsumerStep
<1>. QED BY <1>1, <1>2, InitType, NextType, PTL
         DEF Spec, ConsumesAtLeastOnce, Consumer!Spec

-----------------------------------------------------------------------------
(* Followers only.                                                          *)

\* At the start nobody has been served.
LEMMA InitServed == Init => EdgesEligible /\ TargetsEligible /\ OnlyFollowersServed
    BY DEF Init, EdgesEligible, TargetsEligible, OnlyFollowersServed

\* The worker's own steps change none of the graph, the posts or the log.
LEMMA EdgesBystander ==
    ASSUME EdgesEligible, UNCHANGED <<postVars, graphVars, eligible>>
    PROVE  EdgesEligible'
    BY DEF EdgesEligible, postVars, graphVars

\* Posts arrive behind the record in hand.
LEMMA CurrentStays ==
    ASSUME IInv, Ingestion, stage # "poll"
    PROVE  Current' = Current
<1> USE DEF postVars, graphVars, offsets, job, tiers, history
<1>0. UNCHANGED <<partition, next>>
    BY DEF Ingestion, InsertPost, PublishPost, PublishFails, Follow, Unfollow, ActivityLapses
<1>1. partition \in Partitions /\ next[partition] + 1 \in DOMAIN log[partition]
    BY CurrentInLog DEF IInv
<1>2. log[partition] \in Seq(Posts) /\ DOMAIN log = Partitions
    BY <1>1 DEF IInv, TypeOK
<1>3. ASSUME NEW p \in Posts, PublishPost(p) PROVE Current' = Current
    <2> DEFINE y == PartitionOf[authorOf[p]]
    <2>1. log' = [log EXCEPT ![y] = Append(log[y], p)] /\ UNCHANGED <<partition, next>>
        BY <1>3 DEF PublishPost
    <2>2. log'[partition] = log[partition] \/ log'[partition] = Append(log[partition], p)
        <3> HIDE DEF y
        <3>. QED BY <1>1, <1>2, <2>1
    <2>3. log'[partition][next[partition] + 1] = log[partition][next[partition] + 1]
        <3>1. CASE log'[partition] = log[partition]
            BY <3>1
        <3>2. CASE log'[partition] = Append(log[partition], p)
            BY <1>1, <1>2, <3>2
        <3>. QED BY <2>2, <3>1, <3>2
    <2>. QED BY <2>1, <2>3 DEF Current
<1>4. CASE UNCHANGED log
    BY <1>0, <1>4 DEF Current
<1>. QED BY <1>3, <1>4
     DEF Ingestion, InsertPost, PublishFails, Follow, Unfollow, ActivityLapses

\* A follow makes its follower eligible, and an unfollow takes nothing back.
LEMMA ServedByIngestion ==
    ASSUME IInv, Ingestion
    PROVE  EdgesEligible' /\ TargetsEligible' /\ OnlyFollowersServed'
<1> USE DEF postVars, graphVars, offsets, job, tiers, history
<1>1. eligible \subseteq eligible' /\ UNCHANGED <<pushed, appended, job, next>>
    BY DEF Ingestion, InsertPost, PublishPost, PublishFails, Follow, Unfollow, ActivityLapses
<1>2. OnlyFollowersServed'
    BY <1>1 DEF IInv, OnlyFollowersServed
<1>3. stage # "poll" => UNCHANGED Current
    BY CurrentStays
<1>4. TargetsEligible'
    BY <1>1, <1>3 DEF IInv, TargetsEligible
<1>5. EdgesEligible'
    <2>1. ASSUME NEW a \in Authors, InsertPost(a) PROVE EdgesEligible'
        <3> DEFINE q == Len(authorOf) + 1
        <3>1. authorOf \in Seq(Authors) /\ follows \subseteq Readers \X Authors
            BY DEF IInv, TypeOK
        <3>2. /\ DOMAIN authorOf' = DOMAIN authorOf \cup {q} /\ q \notin DOMAIN authorOf
              /\ authorOf'[q] = a
              /\ \A p \in DOMAIN authorOf : authorOf'[p] = authorOf[p]
            BY <2>1, <3>1 DEF InsertPost
        <3>3. UNCHANGED <<log, follows>> /\ publishing' = publishing \cup {q}
              /\ eligible' = eligible \cup (FollowersOf(a) \X {q})
            BY <2>1 DEF InsertPost
        <3>4. ASSUME NEW e \in follows, NEW p \in DOMAIN authorOf', authorOf'[p] = e[2]
              PROVE  <<e[1], p>> \in eligible'
            <4>1. CASE p = q
                <5>1. e[1] \in Readers /\ e = <<e[1], a>>
                    BY <3>1, <3>2, <3>4, <4>1
                <5>2. e[1] \in FollowersOf(a)
                    BY <5>1 DEF FollowersOf
                <5>. QED BY <3>3, <4>1, <5>2
            <4>2. CASE p # q
                <5>1. p \in DOMAIN authorOf /\ authorOf[p] = e[2]
                    BY <3>2, <3>4, <4>2
                <5>. QED BY <3>3, <5>1 DEF IInv, EdgesEligible
            <4>. QED BY <4>1, <4>2
        <3> HIDE DEF q
        <3>. QED BY <3>2, <3>3, <3>4 DEF IInv, EdgesEligible
    <2>2. ASSUME NEW p \in Posts, PublishPost(p) PROVE EdgesEligible'
        <3> DEFINE y == PartitionOf[authorOf[p]]
        <3>1. p \in DOMAIN authorOf /\ UNCHANGED <<authorOf, follows, eligible>>
              /\ publishing' \subseteq publishing
              /\ log' = [log EXCEPT ![y] = Append(log[y], p)]
            BY <2>2 DEF PublishPost, IInv, EdgesEligible
        <3>2. ASSUME NEW x \in Partitions, NEW i \in DOMAIN log'[x]
              PROVE  log'[x][i] \in DOMAIN authorOf
            <4>1. log[x] \in Seq(Posts) /\ DOMAIN log = Partitions
                BY DEF IInv, TypeOK
            <4>2. log'[x] = log[x] \/ log'[x] = Append(log[x], p)
                <5> HIDE DEF y
                <5>. QED BY <3>1, <4>1
            <4>3. \A j \in DOMAIN log[x] : log[x][j] \in DOMAIN authorOf
                BY DEF IInv, EdgesEligible
            <4>4. CASE log'[x] = log[x]
                BY <3>2, <4>3, <4>4
            <4>5. CASE log'[x] = Append(log[x], p)
                BY <3>1, <3>2, <4>1, <4>3, <4>5
            <4>. QED BY <4>2, <4>4, <4>5
        <3>. QED BY <3>1, <3>2 DEF IInv, EdgesEligible
    <2>3. ASSUME NEW p \in Posts, PublishFails(p) PROVE EdgesEligible'
        BY <2>3 DEF PublishFails, IInv, EdgesEligible
    <2>4. ASSUME NEW u \in Readers, NEW a \in Authors, Follow(u, a) PROVE EdgesEligible'
        BY <2>4 DEF Follow, IInv, EdgesEligible
    <2>5. ASSUME NEW u \in Readers, NEW a \in Authors, Unfollow(u, a) PROVE EdgesEligible'
        BY <2>5 DEF Unfollow, IInv, EdgesEligible
    <2>6. ASSUME NEW u \in Readers, ActivityLapses(u) PROVE EdgesEligible'
        BY <2>6 DEF ActivityLapses, IInv, EdgesEligible
    <2>. QED BY <2>1, <2>2, <2>3, <2>4, <2>5, <2>6 DEF Ingestion
<1>. QED BY <1>2, <1>4, <1>5

\* The worker serves only those whom its locals hold, and these are eligible.
LEMMA ServedByWorker ==
    ASSUME IInv, Worker \/ Restart \/ DeadlinePasses \/ UNCHANGED vars
    PROVE  EdgesEligible' /\ TargetsEligible' /\ OnlyFollowersServed'
<1> USE DEF postVars, graphVars, offsets, job, tiers, history
<1>1. UNCHANGED <<postVars, graphVars, eligible>>
    BY DEF Worker, Handle, Poll, TakeRecord, CommitSync, CheckCelebrity, PushToCelebrityOutbox,
           GetFollowers, NoFollowers, FilterActive, PushToInbox, TrimInbox, BeginAppends,
           AppendToColdTier, AppendSwallowed, FinishFanout, RecordFails, FinishRecord,
           Restart, DeadlinePasses, vars
<1>2. EdgesEligible'
    BY <1>1, EdgesBystander DEF IInv
<1>3. ASSUME FinishRecord \/ Restart, UNCHANGED <<pushed, appended>>
      PROVE  TargetsEligible' /\ OnlyFollowersServed'
    BY <1>1, <1>3 DEF FinishRecord, Restart, DropJob, TargetsEligible, IInv, OnlyFollowersServed
<1>4. ASSUME UNCHANGED <<partition, next>>, stage' # "poll" \/ UNCHANGED stage,
             followers' \subseteq followers,
             activeFollowers' \cup dormantFollowers'
                 \subseteq followers \cup activeFollowers \cup dormantFollowers
      PROVE  TargetsEligible'
    <2>1. UNCHANGED Current /\ UNCHANGED eligible
        BY <1>1, <1>4 DEF Current
    <2>. QED BY <1>4, <2>1 DEF IInv, TargetsEligible
<1>5. CASE Poll \/ CommitSync \/ DeadlinePasses \/ UNCHANGED vars
    <2>1. UNCHANGED <<stage, partition, next, followers, activeFollowers, dormantFollowers>>
          /\ UNCHANGED <<pushed, appended>>
        BY <1>5 DEF Poll, CommitSync, DeadlinePasses, vars
    <2>2. TargetsEligible'
        BY <1>4, <2>1
    <2>3. OnlyFollowersServed'
        BY <1>1, <2>1 DEF IInv, OnlyFollowersServed
    <2>. QED BY <1>2, <2>2, <2>3
<1>6. ASSUME NEW x \in Partitions, TakeRecord(x) PROVE TargetsEligible' /\ OnlyFollowersServed'
    BY <1>1, <1>6 DEF TakeRecord, IInv, TargetsEligible, OnlyFollowersServed
<1>7. CASE GetFollowers
    <2>1. /\ partition \in Partitions /\ next[partition] + 1 \in DOMAIN log[partition]
        BY <1>7, CurrentInLog DEF GetFollowers, IInv
    <2>2. Current \in DOMAIN authorOf
        BY <2>1 DEF Current, IInv, EdgesEligible
    <2>3. \A u \in FollowersOf(authorOf[Current]) : <<u, Current>> \in eligible
        BY <2>2 DEF FollowersOf, IInv, EdgesEligible
    <2>4. UNCHANGED Current
        BY <1>7 DEF GetFollowers, Current
    <2>5. /\ followers' = FollowersOf(authorOf[Current]) /\ stage' = "filterActive"
          /\ stage # "poll"
          /\ UNCHANGED <<activeFollowers, dormantFollowers, eligible, pushed, appended>>
        BY <1>7 DEF GetFollowers
    <2>6. TargetsEligible
        BY DEF IInv
    <2>7. TargetsEligible'
        BY <2>3, <2>4, <2>5, <2>6 DEF TargetsEligible
    <2>8. OnlyFollowersServed'
        BY <2>5 DEF IInv, OnlyFollowersServed
    <2>. QED BY <1>2, <2>7, <2>8
<1>8. CASE CheckCelebrity \/ FilterActive \/ BeginAppends
           \/ \E u \in Readers : TrimInbox(u) \/ AppendSwallowed(u)
    <2>1. UNCHANGED <<partition, next, pushed, appended>>
          /\ (stage' # "poll" \/ UNCHANGED stage) /\ followers' \subseteq followers
        BY <1>8 DEF CheckCelebrity, FilterActive, BeginAppends, TrimInbox, AppendSwallowed
    <2>2. activeFollowers' \cup dormantFollowers'
              \subseteq followers \cup activeFollowers \cup dormantFollowers
        BY <1>8 DEF CheckCelebrity, FilterActive, BeginAppends, TrimInbox, AppendSwallowed
    <2>3. TargetsEligible'
        BY <1>4, <2>1, <2>2
    <2>4. OnlyFollowersServed'
        BY <1>1, <2>1 DEF IInv, OnlyFollowersServed
    <2>. QED BY <1>2, <2>3, <2>4
<1>9. ASSUME NEW u \in Readers, PushToInbox(u) PROVE TargetsEligible' /\ OnlyFollowersServed'
    <2>1. <<u, Current>> \in eligible
        BY <1>9 DEF PushToInbox, IInv, TargetsEligible
    <2>2. UNCHANGED <<followers, activeFollowers, dormantFollowers, stage, partition, next, appended>>
          /\ pushed' = pushed \cup {<<u, Current>>}
        BY <1>9 DEF PushToInbox
    <2>. QED BY <1>1, <1>4, <2>1, <2>2 DEF IInv, OnlyFollowersServed
<1>10. ASSUME NEW u \in Readers, AppendToColdTier(u) PROVE TargetsEligible' /\ OnlyFollowersServed'
    <2>1. <<u, Current>> \in eligible
        BY <1>10 DEF AppendToColdTier, IInv, TargetsEligible
    <2>2. UNCHANGED <<followers, activeFollowers, stage, partition, next, pushed>>
          /\ dormantFollowers' \subseteq dormantFollowers
          /\ appended' = appended \cup {<<u, Current>>}
        BY <1>10 DEF AppendToColdTier
    <2>. QED BY <1>1, <1>4, <2>1, <2>2 DEF IInv, OnlyFollowersServed
<1>11. CASE PushToCelebrityOutbox \/ NoFollowers \/ FinishFanout \/ RecordFails \/ Restart
    <2>1. FinishRecord \/ Restart
        BY <1>11 DEF PushToCelebrityOutbox, NoFollowers, FinishFanout, RecordFails
    <2>2. UNCHANGED <<pushed, appended>>
        BY <1>11 DEF PushToCelebrityOutbox, NoFollowers, FinishFanout, RecordFails, Restart
    <2>. QED BY <1>2, <1>3, <2>1, <2>2
<1>. QED BY <1>2, <1>5, <1>6, <1>7, <1>8, <1>9, <1>10, <1>11 DEF Worker, Handle

\* No inbox ever gets a post of an author whom its owner did not follow while
\* the post existed, however stale the worker's copy of the followers is.
THEOREM FollowersOnly == Spec => []OnlyFollowersServed
<1>1. Init => IInv
    BY InitType, InitServed DEF IInv
<1>2. IInv /\ [Next]_vars => IInv'
    BY NextType, ServedByIngestion, ServedByWorker DEF IInv, Next
<1>3. IInv => OnlyFollowersServed
    BY DEF IInv
<1>. QED BY <1>1, <1>2, <1>3, PTL DEF Spec

\* The whole invariant is kept, and holds at first.
LEMMA IInvHolds == (Init => IInv) /\ (IInv /\ [Next]_vars => IInv')
<1>1. Init => IInv
    BY InitType, InitServed DEF IInv
<1>2. IInv /\ [Next]_vars => IInv'
    BY NextType, ServedByIngestion, ServedByWorker DEF IInv, Next
<1>. QED BY <1>1, <1>2

\* The post in hand is a stored one.
LEMMA CurrentStored ==
    ASSUME IInv, stage # "poll"
    PROVE  Current \in DOMAIN authorOf /\ Current \in Posts
<1>1. partition \in Partitions /\ next[partition] + 1 \in DOMAIN log[partition] /\ Current \in Posts
    BY CurrentInLog DEF IInv
<1>. QED BY <1>1 DEF Current, IInv, EdgesEligible

\* handle empties its sets one after the other: followers before the first
\* loop, activeFollowers before the second; nobody is in both loops, and the
\* follower to be trimmed has been pushed to.
LocalsInOrder ==
    /\ stage \in {"isCelebrity", "outbox", "getFollowers", "filterActive"}
          => activeFollowers \cup dormantFollowers = {}
    /\ stage \in {"push", "append"} => followers = {}
    /\ stage = "append" => activeFollowers = {}
    /\ activeFollowers \cap dormantFollowers = {}
    /\ untrimmed \subseteq activeFollowers
    /\ \A u \in untrimmed : <<u, Current>> \in pushed

\* A stable follower still follows the author of the post.
StableFollows ==
    \A s \in stable : s[2] \in DOMAIN authorOf /\ <<s[1], authorOf[s[2]]>> \in follows

\* From getFollowers on, a stable follower of the post in hand is in one of the
\* sets, or has been served.
StableInHand ==
    stage \in {"filterActive", "push", "append"} =>
        \A s \in stable :
            s[2] = Current =>
                \/ s[1] \in followers \cup activeFollowers \cup dormantFollowers
                \/ s \in pushed \cup appended \cup refused

\* Between two records the worker's locals are empty.
LEMMA NoLocals ==
    ASSUME IInv, LocalsInOrder, stage = "poll"
    PROVE  followers = {} /\ activeFollowers = {} /\ dormantFollowers = {} /\ untrimmed = {}
    BY DEF IInv, TargetsEligible, LocalsInOrder

-----------------------------------------------------------------------------
(* Stable followers are served.                                             *)

\* What ServedInv adds to IInv.
ServedParts ==
    /\ LocalsInOrder /\ StableFollows /\ StableInHand
    /\ completed \subseteq DOMAIN authorOf
    /\ StableFollowersServed

\* At first no post is stable, completed or in hand.
LEMMA ServedInit == Init => ServedParts
BY DEF Init, ServedParts, LocalsInOrder, StableFollows, StableInHand, StableFollowersServed

\* Posts, follows and lapses: only an unfollow takes followers away, and it
\* takes them out of the stable ones.
LEMMA StableIngestion ==
    ASSUME IInv, ServedParts, Ingestion
    PROVE  ServedParts'
<1> USE DEF postVars, graphVars, offsets, job, tiers, history
<1>1. UNCHANGED <<job, next, pushed, appended, refused, completed, outbox>>
    BY DEF Ingestion, InsertPost, PublishPost, PublishFails, Follow, Unfollow, ActivityLapses
<1>2. stage # "poll" => Current' = Current /\ Current \in DOMAIN authorOf
    BY CurrentStays, CurrentStored
<1>3. LocalsInOrder'
    <2>1. CASE stage = "poll"
        <3>1. activeFollowers' = {} /\ untrimmed' = {} /\ followers' = {} /\ dormantFollowers' = {}
            BY <1>1, <2>1, NoLocals DEF ServedParts
        <3>. QED BY <3>1 DEF LocalsInOrder
    <2>2. CASE stage # "poll"
        BY <1>1, <1>2, <2>2 DEF ServedParts, LocalsInOrder
    <2>. QED BY <2>1, <2>2
<1>4. ASSUME UNCHANGED authorOf, stable' \subseteq stable,
             \A s \in stable' : <<s[1], authorOf[s[2]]>> \in follows => <<s[1], authorOf[s[2]]>> \in follows'
      PROVE  ServedParts'
    <2>1. StableFollows'
        BY <1>4 DEF ServedParts, StableFollows
    <2>2. StableInHand'
        BY <1>1, <1>2, <1>4 DEF ServedParts, StableInHand
    <2>3. StableFollowersServed'
        BY <1>1, <1>4 DEF ServedParts, StableFollowersServed
    <2>. QED BY <1>1, <1>3, <1>4, <2>1, <2>2, <2>3 DEF ServedParts
<1>5. ASSUME NEW a \in Authors, InsertPost(a) PROVE ServedParts'
    <2> DEFINE p == Len(authorOf) + 1
    <2>1. /\ authorOf' = Append(authorOf, a) /\ stable' = stable \cup (FollowersOf(a) \X {p})
          /\ UNCHANGED follows /\ authorOf \in Seq(Authors)
        BY <1>5 DEF InsertPost, IInv, TypeOK
    <2>2. /\ DOMAIN authorOf' = DOMAIN authorOf \cup {p} /\ p \notin DOMAIN authorOf
          /\ authorOf'[p] = a /\ \A q \in DOMAIN authorOf : authorOf'[q] = authorOf[q]
        BY <2>1
    <2> HIDE DEF p
    <2>3. StableFollows'
        BY <2>1, <2>2 DEF ServedParts, StableFollows, FollowersOf
    <2>4. StableInHand'
        BY <1>1, <1>2, <2>1, <2>2 DEF ServedParts, StableInHand
    <2>5. StableFollowersServed'
        <3>1. \A s \in stable' : s[2] \in completed => s \in stable
            BY <2>1, <2>2 DEF ServedParts
        <3>. QED BY <1>1, <2>2, <3>1 DEF ServedParts, StableFollowersServed
    <2>. QED BY <1>1, <1>3, <2>2, <2>3, <2>4, <2>5 DEF ServedParts
<1>6. ASSUME NEW p \in Posts, PublishPost(p) \/ PublishFails(p) PROVE ServedParts'
    BY <1>4, <1>6 DEF PublishPost, PublishFails
<1>7. ASSUME NEW u \in Readers, NEW a \in Authors, Follow(u, a) PROVE ServedParts'
    BY <1>4, <1>7 DEF Follow
<1>8. ASSUME NEW u \in Readers, NEW a \in Authors, Unfollow(u, a) PROVE ServedParts'
    BY <1>4, <1>8 DEF Unfollow
<1>9. ASSUME NEW u \in Readers, ActivityLapses(u) PROVE ServedParts'
    BY <1>4, <1>9 DEF ActivityLapses
<1>. QED BY <1>5, <1>6, <1>7, <1>8, <1>9 DEF Ingestion

\* The worker: nobody falls out between the two loops.
LEMMA StableWorker ==
    ASSUME IInv, ServedParts, Worker \/ Restart \/ DeadlinePasses \/ UNCHANGED vars
    PROVE  ServedParts'
<1> USE DEF postVars, graphVars, offsets, job, tiers, history
<1>1. UNCHANGED <<authorOf, follows, stable, log>>
    BY DEF Worker, Handle, Poll, TakeRecord, CommitSync, CheckCelebrity, PushToCelebrityOutbox,
           GetFollowers, NoFollowers, FilterActive, PushToInbox, TrimInbox, BeginAppends,
           AppendToColdTier, AppendSwallowed, FinishFanout, RecordFails, FinishRecord,
           Restart, DeadlinePasses, vars
<1>2. StableFollows'
    BY <1>1 DEF ServedParts, StableFollows
\* A step within a record that takes no service back.
<1>3. ASSUME UNCHANGED <<completed, outbox, refused>>, pushed \subseteq pushed', appended \subseteq appended'
      PROVE  completed' \subseteq DOMAIN authorOf' /\ StableFollowersServed'
    BY <1>1, <1>3 DEF ServedParts, StableFollowersServed
\* The end of a record with its job done.
<1>4. ASSUME stage # "poll", completed' = completed \cup {Current},
             UNCHANGED <<pushed, appended, refused>>,
             \A a \in Authors : outbox[a] \subseteq outbox'[a],
             \/ Current \in outbox'[authorOf[Current]]
             \/ \A s \in stable : s[2] = Current => s \in pushed \cup appended \cup refused
      PROVE  completed' \subseteq DOMAIN authorOf' /\ StableFollowersServed'
    <2>1. Current \in DOMAIN authorOf
        BY <1>4, CurrentStored
    <2>2. \A s \in stable : authorOf[s[2]] \in Authors
        BY DEF ServedParts, StableFollows, IInv, TypeOK
    <2>. QED BY <1>1, <1>4, <2>1, <2>2 DEF ServedParts, StableFollowersServed
<1>5. ASSUME DropJob PROVE LocalsInOrder' /\ StableInHand'
    BY <1>5 DEF DropJob, LocalsInOrder, StableInHand
<1>6. CASE Poll \/ CommitSync \/ DeadlinePasses \/ UNCHANGED vars
    <2>1. UNCHANGED <<job, next, completed, outbox, pushed, appended, refused>>
        BY <1>6 DEF Poll, CommitSync, DeadlinePasses, vars
    <2>2. Current' = Current
        BY <1>1, <2>1 DEF Current
    <2>3. LocalsInOrder' /\ StableInHand'
        BY <1>1, <2>1, <2>2 DEF ServedParts, LocalsInOrder, StableInHand
    <2>. QED BY <1>2, <1>3, <2>1, <2>3 DEF ServedParts
<1>7. ASSUME NEW x \in Partitions, TakeRecord(x) PROVE ServedParts'
    <2>1. UNCHANGED <<completed, outbox, pushed, appended, refused, followers, activeFollowers,
                      dormantFollowers, untrimmed>> /\ stage = "poll" /\ stage' = "isCelebrity"
        BY <1>7 DEF TakeRecord
    <2>2. followers' = {} /\ activeFollowers' = {} /\ dormantFollowers' = {} /\ untrimmed' = {}
        BY <2>1, NoLocals DEF ServedParts
    <2>3. LocalsInOrder' /\ StableInHand'
        BY <2>1, <2>2 DEF LocalsInOrder, StableInHand
    <2>. QED BY <1>2, <1>3, <2>1, <2>3 DEF ServedParts
<1>8. CASE CheckCelebrity
    <2>1. UNCHANGED <<completed, outbox, pushed, appended, refused, followers, activeFollowers,
                      dormantFollowers, untrimmed, partition, next>>
          /\ stage = "isCelebrity" /\ stage' \in {"outbox", "getFollowers"}
        BY <1>8 DEF CheckCelebrity
    <2>2. Current' = Current
        BY <1>1, <2>1 DEF Current
    <2>3. LocalsInOrder' /\ StableInHand'
        BY <2>1, <2>2 DEF ServedParts, LocalsInOrder, StableInHand
    <2>. QED BY <1>2, <1>3, <2>1, <2>3 DEF ServedParts
<1>9. CASE GetFollowers
    <2>1. /\ UNCHANGED <<completed, outbox, pushed, appended, refused, activeFollowers,
                         dormantFollowers, untrimmed, partition, next>>
          /\ stage = "getFollowers" /\ stage' = "filterActive"
          /\ followers' = FollowersOf(authorOf[Current])
        BY <1>9 DEF GetFollowers
    <2>2. Current' = Current
        BY <1>1, <2>1 DEF Current
    <2>3. LocalsInOrder'
        BY <2>1, <2>2 DEF ServedParts, LocalsInOrder
    <2>4. ASSUME NEW s \in stable, s[2] = Current PROVE s[1] \in followers'
        <3>1. <<s[1], authorOf[Current]>> \in follows /\ s[1] \in Readers
            BY <2>4 DEF ServedParts, StableFollows, IInv, TypeOK
        <3>. QED BY <2>1, <3>1 DEF FollowersOf
    <2>5. StableInHand'
        BY <1>1, <2>2, <2>4 DEF StableInHand
    <2>. QED BY <1>2, <1>3, <2>1, <2>3, <2>5 DEF ServedParts
<1>10. CASE FilterActive
    <2>1. /\ UNCHANGED <<completed, outbox, pushed, appended, refused, untrimmed, partition, next>>
          /\ stage = "filterActive" /\ stage' = "push"
          /\ activeFollowers' = {u \in followers : active[u]}
          /\ dormantFollowers' = followers \ activeFollowers' /\ followers' = {}
        BY <1>10 DEF FilterActive
    <2>2. Current' = Current
        BY <1>1, <2>1 DEF Current
    <2>3. activeFollowers = {} /\ dormantFollowers = {}
        BY <2>1 DEF ServedParts, LocalsInOrder
    <2>4. untrimmed = {}
        BY <2>3 DEF ServedParts, LocalsInOrder
    <2>5. LocalsInOrder'
        BY <2>1, <2>4 DEF LocalsInOrder
    <2>6. StableInHand'
        BY <1>1, <2>1, <2>2, <2>3 DEF ServedParts, StableInHand
    <2>. QED BY <1>2, <1>3, <2>1, <2>5, <2>6 DEF ServedParts
<1>11. ASSUME NEW u \in Readers, PushToInbox(u) PROVE ServedParts'
    <2>1. /\ UNCHANGED <<completed, outbox, appended, refused, stage, partition, next, followers,
                         activeFollowers, dormantFollowers>>
          /\ stage = "push" /\ u \in activeFollowers /\ untrimmed' = {u}
          /\ pushed' = pushed \cup {<<u, Current>>}
        BY <1>11 DEF PushToInbox
    <2>2. Current' = Current
        BY <1>1, <2>1 DEF Current
    <2>3. LocalsInOrder' /\ StableInHand'
        BY <1>1, <2>1, <2>2 DEF ServedParts, LocalsInOrder, StableInHand
    <2>. QED BY <1>2, <1>3, <2>1, <2>3 DEF ServedParts
<1>12. ASSUME NEW u \in Readers, TrimInbox(u) PROVE ServedParts'
    <2>1. /\ UNCHANGED <<completed, outbox, pushed, appended, refused, stage, partition, next, followers,
                         dormantFollowers>>
          /\ stage = "push" /\ u \in untrimmed /\ untrimmed' = {} /\ activeFollowers' = activeFollowers \ {u}
        BY <1>12 DEF TrimInbox
    <2>2. Current' = Current
        BY <1>1, <2>1 DEF Current
    <2>3. <<u, Current>> \in pushed
        BY <2>1 DEF ServedParts, LocalsInOrder
    <2>4. LocalsInOrder'
        BY <2>1, <2>2 DEF ServedParts, LocalsInOrder
    <2>5. ASSUME NEW s \in stable, s[2] = Current, s[1] = u PROVE s \in pushed
        <3>1. s = <<u, Current>>
            BY <2>5 DEF IInv, TypeOK
        <3>. QED BY <2>3, <3>1
    <2>6. StableInHand'
        BY <1>1, <2>1, <2>2, <2>5 DEF ServedParts, StableInHand
    <2>. QED BY <1>2, <1>3, <2>1, <2>4, <2>6 DEF ServedParts
<1>13. CASE BeginAppends
    <2>1. /\ UNCHANGED <<completed, outbox, pushed, appended, refused, partition, next, followers,
                         activeFollowers, dormantFollowers, untrimmed>>
          /\ stage = "push" /\ activeFollowers = {} /\ stage' = "append"
        BY <1>13 DEF BeginAppends
    <2>2. Current' = Current
        BY <1>1, <2>1 DEF Current
    <2>3. LocalsInOrder' /\ StableInHand'
        BY <1>1, <2>1, <2>2 DEF ServedParts, LocalsInOrder, StableInHand
    <2>. QED BY <1>2, <1>3, <2>1, <2>3 DEF ServedParts
<1>14. ASSUME NEW u \in Readers, AppendToColdTier(u) \/ AppendSwallowed(u) PROVE ServedParts'
    <2>1. /\ UNCHANGED <<completed, outbox, pushed, stage, partition, next, followers,
                         activeFollowers, untrimmed>>
          /\ stage = "append" /\ dormantFollowers' = dormantFollowers \ {u}
          /\ appended \subseteq appended' /\ refused \subseteq refused'
          /\ <<u, Current>> \in appended' \cup refused'
        BY <1>14 DEF AppendToColdTier, AppendSwallowed
    <2>2. Current' = Current
        BY <1>1, <2>1 DEF Current
    <2>3. LocalsInOrder'
        BY <2>1, <2>2 DEF ServedParts, LocalsInOrder
    <2>4. ASSUME NEW s \in stable, s[2] = Current, s[1] = u PROVE s \in appended' \cup refused'
        <3>1. s = <<u, Current>>
            BY <2>4 DEF IInv, TypeOK
        <3>. QED BY <2>1, <3>1
    <2>5. StableInHand'
        BY <1>1, <2>1, <2>2, <2>4 DEF ServedParts, StableInHand
    <2>6. completed' \subseteq DOMAIN authorOf' /\ StableFollowersServed'
        BY <1>1, <2>1 DEF ServedParts, StableFollowersServed
    <2>. QED BY <1>2, <2>3, <2>5, <2>6 DEF ServedParts
<1>15. CASE PushToCelebrityOutbox
    <2>1. /\ stage # "poll" /\ completed' = completed \cup {Current} /\ FinishRecord
          /\ outbox' = [outbox EXCEPT ![authorOf[Current]] = @ \cup {Current}]
          /\ UNCHANGED <<pushed, appended, refused>>
        BY <1>15 DEF PushToCelebrityOutbox
    <2>2. Current \in DOMAIN authorOf /\ authorOf[Current] \in Authors /\ outbox \in [Authors -> SUBSET Posts]
        <3>1. Current \in DOMAIN authorOf
            BY <2>1, CurrentStored
        <3>2. authorOf \in Seq(Authors) /\ outbox \in [Authors -> SUBSET Posts]
            BY DEF IInv, TypeOK
        <3> HIDE DEF Current
        <3>. QED BY <3>1, <3>2
    <2>3. Current \in outbox'[authorOf[Current]] /\ \A a \in Authors : outbox[a] \subseteq outbox'[a]
        BY <2>1, <2>2
    <2>. QED BY <1>2, <1>4, <1>5, <2>1, <2>3 DEF ServedParts, FinishRecord
<1>16. CASE NoFollowers
    <2>1. /\ stage # "poll" /\ completed' = completed \cup {Current} /\ FinishRecord
          /\ FollowersOf(authorOf[Current]) = {} /\ UNCHANGED <<outbox, pushed, appended, refused>>
        BY <1>16 DEF NoFollowers
    <2>2. ASSUME NEW s \in stable, s[2] = Current PROVE FALSE
        <3>1. <<s[1], authorOf[Current]>> \in follows /\ s[1] \in Readers
            BY <2>2 DEF ServedParts, StableFollows, IInv, TypeOK
        <3>. QED BY <2>1, <3>1 DEF FollowersOf
    <2>. QED BY <1>2, <1>4, <1>5, <2>1, <2>2 DEF ServedParts, FinishRecord
<1>17. CASE FinishFanout
    <2>1. /\ stage = "append" /\ dormantFollowers = {} /\ completed' = completed \cup {Current} /\ FinishRecord
          /\ UNCHANGED <<outbox, pushed, appended, refused>>
        BY <1>17 DEF FinishFanout
    <2>2. followers = {} /\ activeFollowers = {}
        BY <2>1 DEF ServedParts, LocalsInOrder
    <2>3. \A s \in stable : s[2] = Current => s \in pushed \cup appended \cup refused
        BY <2>1, <2>2 DEF ServedParts, StableInHand
    <2>. QED BY <1>2, <1>4, <1>5, <2>1, <2>3 DEF ServedParts, FinishRecord
<1>18. CASE RecordFails \/ Restart
    <2>1. UNCHANGED <<completed, outbox, pushed, appended, refused>> /\ DropJob
        BY <1>18 DEF RecordFails, Restart, FinishRecord
    <2>. QED BY <1>2, <1>3, <1>5, <2>1 DEF ServedParts
<1>. QED BY <1>6, <1>7, <1>8, <1>9, <1>10, <1>11, <1>12, <1>13, <1>14, <1>15, <1>16, <1>17, <1>18
         DEF Worker, Handle

\* A follower who follows from the creation of a post until the worker is done
\* with it is served, in whatever order the graph, the activity, the celebrity
\* status and the worker's crashes interleave with the two loops.
THEOREM FollowersServed == Spec => []StableFollowersServed
<1>1. Init => IInv /\ ServedParts
    BY IInvHolds, ServedInit
<1>2. IInv /\ ServedParts /\ [Next]_vars => (IInv /\ ServedParts)'
    BY IInvHolds, StableIngestion, StableWorker DEF Next
<1>3. ServedParts => StableFollowersServed
    BY DEF ServedParts
<1>. QED BY <1>1, <1>2, <1>3, PTL DEF Spec

-----------------------------------------------------------------------------
(* The tiers keep what they were given.                                     *)

\* Activity lapses for good: who has an entry in the cold tier, or is about to
\* get one, is pushed to no more.
LapseIsFinal ==
    /\ \A u \in dormantFollowers : ~ active[u]
    /\ \A s \in appended : ~ active[s[1]] /\ s[1] \notin activeFollowers

\* A cold inbox is capped and holds what was appended.
ColdCapped ==
    \A u \in Readers : /\ Len(cold[u]) <= MaxColdTierItems
                       /\ \A i \in DOMAIN cold[u] : <<u, cold[u][i]>> \in appended

\* Members of a hot inbox were pushed or appended; only what was appended can
\* have another score than its push gave it.
HotSound ==
    \A u \in Readers : \A p \in Posts :
        /\ InHot(u, p) => <<u, p>> \in pushed \cup appended
        /\ <<u, p>> \notin appended => hot[u][p] \in {0, PushScore(p)}
        /\ <<u, p>> \notin pushed => hot[u][p] <= MaxColdTierItems

\* The invariant of the two tiers.
TierParts == LapseIsFinal /\ ColdCapped /\ AppendedKept /\ HotSound /\ PushedKept

\* The cap keeps all of an inbox, or fills it.
LEMMA LastItemsKeeps ==
    ASSUME NEW s \in Seq(Posts)
    PROVE  /\ Len(LastItems(s)) <= MaxColdTierItems
           /\ LastItems(s) = s \/ Len(LastItems(s)) = MaxColdTierItems
           /\ \A i \in DOMAIN LastItems(s) : \E j \in DOMAIN s : LastItems(s)[i] = s[j]
<1>0. Len(s) \in Nat /\ MaxColdTierItems \in Nat \ {0} /\ DOMAIN s = 1 .. Len(s)
    BY CapAssumption
<1>1. CASE Len(s) > MaxColdTierItems
    <2> DEFINE m == Len(s) - MaxColdTierItems + 1
               t == SubSeq(s, m, Len(s))
    <2>1. m \in 1 .. Len(s) + 1 /\ Len(s) - m + 1 = MaxColdTierItems /\ m <= Len(s) + 1 /\ m \in Nat
        BY <1>0, <1>1
    <2>2. Len(t) = Len(s) - m + 1 /\ \A i \in 1 .. Len(s) - m + 1 : t[i] = s[m + i - 1]
        BY <1>0, <2>1, SubSeqProperties
    <2>3. t \in Seq(Posts)
        BY <2>1, SubSeqProperties
    <2>4. DOMAIN t = 1 .. MaxColdTierItems
        BY <2>1, <2>2, <2>3
    <2>5. LastItems(s) = t
        BY <1>1 DEF LastItems
    <2>6. ASSUME NEW i \in DOMAIN t PROVE \E j \in DOMAIN s : t[i] = s[j]
        <3>1. m + i - 1 \in DOMAIN s
            BY <1>0, <2>1, <2>4
        <3>. QED BY <2>1, <2>2, <2>4, <3>1
    <2> HIDE DEF t
    <2>. QED BY <1>0, <2>1, <2>2, <2>5, <2>6
<1>2. CASE ~ (Len(s) > MaxColdTierItems)
    <2>1. LastItems(s) = s
        BY <1>2 DEF LastItems
    <2>. QED BY <1>0, <1>2, <2>1
<1>. QED BY <1>1, <1>2

\* Posts are finitely many, and so is every set of them.
LEMMA PostsFinite ==
    ASSUME NEW S \in SUBSET Posts
    PROVE  IsFiniteSet(S) /\ Cardinality(S) \in Nat
<1>1. IsFiniteSet(Posts)
    BY BoundAssumption, FS_Interval DEF Posts
<1>2. IsFiniteSet(S)
    BY <1>1, FS_Subset
<1>. QED BY <1>2, FS_CardinalityType

\* A larger set of posts has no fewer.
LEMMA MorePosts ==
    ASSUME NEW T \in SUBSET Posts, NEW S \in SUBSET T
    PROVE  Cardinality(S) <= Cardinality(T)
BY PostsFinite, FS_Subset

\* Both tiers are empty at first.
LEMMA TierInit == Init => TierParts
<1> SUFFICES ASSUME Init PROVE TierParts
    OBVIOUS
<1>1. \A u \in Readers : cold[u] = <<>> /\ \A p \in Posts : hot[u][p] = 0
    BY DEF Init
<1>2. Len(<<>>) = 0 /\ DOMAIN <<>> = {} /\ MaxColdTierItems \in Nat
    BY CapAssumption
<1>3. LapseIsFinal /\ AppendedKept /\ PushedKept
    BY DEF Init, LapseIsFinal, AppendedKept, PushedKept
<1>4. ColdCapped
    BY <1>1, <1>2 DEF ColdCapped
<1>5. HotSound
    BY <1>1, <1>2 DEF HotSound, InHot
<1>. QED BY <1>3, <1>4, <1>5 DEF TierParts

\* A step that writes neither tier.
LEMMA TierBystander ==
    ASSUME IInv, TierParts, UNCHANGED <<hot, cold, pushed, appended>>,
           \A u \in Readers : active'[u] => active[u],
           activeFollowers' \subseteq activeFollowers,
           dormantFollowers' \subseteq dormantFollowers
    PROVE  TierParts'
<1>1. /\ appended \subseteq Readers \X Posts /\ dormantFollowers \subseteq Readers
    BY DEF IInv, TypeOK
<1>2. LapseIsFinal'
    BY <1>1 DEF TierParts, LapseIsFinal
<1>3. ColdCapped' /\ AppendedKept'
    BY DEF TierParts, ColdCapped, AppendedKept
<1>4. HotSound' /\ PushedKept'
    BY DEF TierParts, HotSound, PushedKept, InHot
<1>. QED BY <1>2, <1>3, <1>4 DEF TierParts

\* A push puts its post in, and takes nothing out.
LEMMA TierPush ==
    ASSUME IInv, ServedParts, TierParts, NEW u \in Readers, PushToInbox(u)
    PROVE  /\ TierParts'
           /\ \A v \in Readers : \A p \in Posts :
                 InHot(v, p) => hot'[v][p] = hot[v][p]
<1> USE DEF graphVars
<1>0. /\ stage = "push" /\ u \in activeFollowers /\ UNCHANGED <<cold, active, appended, activeFollowers, dormantFollowers>>
      /\ hot' = [hot EXCEPT ![u][Current] = PushScore(Current)] /\ pushed' = pushed \cup {<<u, Current>>}
    BY DEF PushToInbox
<1>1. Current \in Posts
    BY <1>0, CurrentStored
<1>2. /\ appended \subseteq Readers \X Posts /\ pushed \subseteq Readers \X Posts
      /\ hot \in [Readers -> [Posts -> Nat]]
    BY DEF IInv, TypeOK
<1>3. PushScore(Current) \in Nat /\ PushScore(Current) > 0
    BY <1>1, CapAssumption DEF PushScore, Posts
<1>4. \A p \in Posts : <<u, p>> \notin appended
    BY <1>0 DEF TierParts, LapseIsFinal
<1>5. ASSUME NEW v \in Readers, NEW p \in Posts
      PROVE  hot'[v][p] = IF v = u /\ p = Current THEN PushScore(p) ELSE hot[v][p]
    <2> DEFINE c == Current
    <2> HIDE DEF c
    <2>1. hot' = [hot EXCEPT ![u][c] = PushScore(c)]
        BY <1>0 DEF c
    <2>2. c \in Posts
        BY <1>1 DEF c
    <2>3. hot'[v][p] = IF v = u /\ p = c THEN PushScore(p) ELSE hot[v][p]
        BY <1>2, <2>1, <2>2
    <2>. QED BY <2>3 DEF c
<1>6. LapseIsFinal' /\ ColdCapped' /\ AppendedKept'
    BY <1>0 DEF TierParts, LapseIsFinal, ColdCapped, AppendedKept
<1>7. ASSUME NEW v \in Readers, NEW p \in Posts
      PROVE  /\ hot'[v][p] > 0 => <<v, p>> \in pushed' \cup appended'
             /\ <<v, p>> \notin appended' => hot'[v][p] \in {0, PushScore(p)}
             /\ <<v, p>> \notin pushed' => hot'[v][p] <= MaxColdTierItems
             /\ InHot(v, p) => hot'[v][p] = hot[v][p] /\ hot'[v][p] > 0
    <2>1. /\ InHot(v, p) => <<v, p>> \in pushed \cup appended
          /\ <<v, p>> \notin appended => hot[v][p] \in {0, PushScore(p)}
          /\ <<v, p>> \notin pushed => hot[v][p] <= MaxColdTierItems
        BY DEF TierParts, HotSound
    <2>2. hot[v][p] \in Nat
        BY <1>2
    <2>3. CASE v = u /\ p = Current
        <3>1. hot'[v][p] = PushScore(p) /\ <<v, p>> \in pushed' /\ <<v, p>> \notin appended
            BY <1>0, <1>4, <1>5, <2>3
        <3>2. PushScore(p) \in Nat /\ PushScore(p) > 0
            BY <1>3, <2>3
        <3>3. InHot(v, p) => hot[v][p] = PushScore(p)
            BY <2>1, <2>2, <3>1 DEF InHot
        <3>. QED BY <3>1, <3>2, <3>3
    <2>4. CASE ~ (v = u /\ p = Current)
        <3>1. hot'[v][p] = hot[v][p]
            BY <1>5, <2>4
        <3>. QED BY <1>0, <2>1, <2>2, <3>1 DEF InHot
    <2>. QED BY <2>3, <2>4
<1>8. HotSound'
    BY <1>7 DEF HotSound, InHot
<1>9. PushedKept'
    <2> SUFFICES ASSUME NEW s \in pushed'
                 PROVE  \/ hot'[s[1]][s[2]] > 0
                        \/ Cardinality({p \in Posts : p > s[2] /\ <<s[1], p>> \in pushed'}) >= MaxItems
        BY DEF PushedKept, InHot
    <2>1. CASE s = <<u, Current>>
        BY <1>1, <1>3, <1>5, <2>1
    <2>2. CASE s \in pushed
        <3> DEFINE S == {p \in Posts : p > s[2] /\ <<s[1], p>> \in pushed}
                   T == {p \in Posts : p > s[2] /\ <<s[1], p>> \in pushed'}
        <3>1. InHot(s[1], s[2]) \/ Cardinality(S) >= MaxItems
            BY <2>2 DEF TierParts, PushedKept
        <3>2. CASE InHot(s[1], s[2])
            BY <1>2, <1>7, <2>2, <3>2
        <3>3. CASE Cardinality(S) >= MaxItems
            <4>1. T \in SUBSET Posts /\ S \in SUBSET T
                BY <1>0
            <4>2. Cardinality(S) \in Nat /\ Cardinality(T) \in Nat
                BY <4>1, PostsFinite
            <4>3. Cardinality(S) <= Cardinality(T)
                BY <4>1, MorePosts
            <4> HIDE DEF S, T
            <4>4. Cardinality(T) >= MaxItems
                BY <3>3, <4>2, <4>3, CapAssumption
            <4>. QED BY <4>4 DEF T
        <3>. QED BY <3>1, <3>2, <3>3
    <2>. QED BY <1>0, <2>1, <2>2
<1>. QED BY <1>6, <1>7, <1>8, <1>9 DEF TierParts

\* A trim takes out only what MaxItems newer pushes outrank, and nothing from
\* an inbox with room.
LEMMA TierTrim ==
    ASSUME IInv, ServedParts, TierParts, NEW u \in Readers, TrimInbox(u)
    PROVE  /\ TierParts'
           /\ u \in activeFollowers
           /\ \A v \in Readers \ {u} : hot'[v] = hot[v]
           /\ \A v \in Readers : \A p \in Posts :
                 InHot(v, p) /\ Cardinality(HotInbox(v)) < MaxItems => hot'[v][p] = hot[v][p]
<1> USE DEF graphVars, history
<1>0. /\ u \in untrimmed
      /\ hot' = [hot EXCEPT ![u] = [p \in Posts |-> IF p \in TopOf(hot[u], MaxItems) THEN hot[u][p] ELSE 0]]
      /\ activeFollowers' = activeFollowers \ {u}
      /\ UNCHANGED <<cold, active, pushed, appended, dormantFollowers>>
    BY DEF TrimInbox
<1>1. u \in activeFollowers
    BY <1>0 DEF ServedParts, LocalsInOrder
<1>2. /\ appended \subseteq Readers \X Posts /\ pushed \subseteq Readers \X Posts
      /\ hot \in [Readers -> [Posts -> Nat]]
    BY DEF IInv, TypeOK
<1>3. \A p \in Posts : <<u, p>> \notin appended
    BY <1>1 DEF TierParts, LapseIsFinal
<1>4. /\ \A v \in Readers \ {u} : hot'[v] = hot[v]
      /\ \A p \in Posts : hot'[u][p] = IF p \in TopOf(hot[u], MaxItems) THEN hot[u][p] ELSE 0
    BY <1>0, <1>2
<1>5. LapseIsFinal' /\ ColdCapped' /\ AppendedKept'
    BY <1>0 DEF TierParts, LapseIsFinal, ColdCapped, AppendedKept
<1>6. ASSUME NEW v \in Readers, NEW p \in Posts
      PROVE  hot'[v][p] \in {0, hot[v][p]}
    BY <1>4
<1>7. HotSound'
    <2> SUFFICES ASSUME NEW v \in Readers, NEW p \in Posts
                 PROVE  /\ hot'[v][p] > 0 => <<v, p>> \in pushed \cup appended
                        /\ <<v, p>> \notin appended => hot'[v][p] \in {0, PushScore(p)}
                        /\ <<v, p>> \notin pushed => hot'[v][p] <= MaxColdTierItems
        BY <1>0 DEF HotSound, InHot
    <2>1. /\ InHot(v, p) => <<v, p>> \in pushed \cup appended
          /\ <<v, p>> \notin appended => hot[v][p] \in {0, PushScore(p)}
          /\ <<v, p>> \notin pushed => hot[v][p] <= MaxColdTierItems
        BY DEF TierParts, HotSound
    <2>2. CASE hot'[v][p] = 0
        BY <2>2, CapAssumption
    <2>3. CASE hot'[v][p] = hot[v][p]
        BY <2>1, <2>3 DEF InHot
    <2>. QED BY <1>6, <2>2, <2>3
\* What a trim takes out is outranked by MaxItems others.
<1>8. ASSUME NEW p \in Posts, InHot(u, p), hot'[u][p] # hot[u][p]
      PROVE  Cardinality({q \in Posts : Outranks(hot[u], q, p)}) >= MaxItems
    <2> DEFINE S == {q \in Posts : Outranks(hot[u], q, p)}
    <2>1. p \notin TopOf(hot[u], MaxItems)
        BY <1>4, <1>8
    <2>2. ~ (Cardinality(S) < MaxItems)
        BY <1>8, <2>1 DEF TopOf, InHot
    <2>3. S \in SUBSET Posts
        OBVIOUS
    <2>4. Cardinality(S) \in Nat
        BY <2>3, PostsFinite
    <2> HIDE DEF S
    <2>5. Cardinality(S) >= MaxItems
        BY <2>2, <2>4, CapAssumption
    <2>. QED BY <2>5 DEF S
<1>9. ASSUME NEW p \in Posts, InHot(u, p), NEW q \in Posts, Outranks(hot[u], q, p)
      PROVE  InHot(u, q) /\ q > p /\ <<u, q>> \in pushed
    <2>1. hot[u][p] \in Nat /\ hot[u][q] \in Nat /\ p \in Nat /\ q \in Nat /\ MaxColdTierItems \in Nat
        <3>1. hot[u] \in [Posts -> Nat]
            BY <1>2
        <3>2. hot[u][p] \in Nat /\ hot[u][q] \in Nat
            BY <3>1
        <3>3. p \in Nat /\ q \in Nat
            BY BoundAssumption DEF Posts
        <3>. QED BY <3>2, <3>3, CapAssumption
    <2>2. hot[u][q] > 0
        BY <1>9, <2>1 DEF Outranks, InHot
    <2>3. hot[u][p] = PushScore(p) /\ hot[u][q] = PushScore(q)
        <3>1. hot[u][p] \in {0, PushScore(p)} /\ hot[u][q] \in {0, PushScore(q)}
            BY <1>3 DEF TierParts, HotSound
        <3>. QED BY <1>9, <2>1, <2>2, <3>1 DEF InHot
    <2>4. q > p
        BY <1>9, <2>1, <2>3 DEF Outranks, PushScore
    <2>5. <<u, q>> \in pushed
        BY <1>3, <2>2 DEF TierParts, HotSound, InHot
    <2>. QED BY <2>2, <2>4, <2>5 DEF InHot
<1>10. PushedKept'
    <2> SUFFICES ASSUME NEW s \in pushed
                 PROVE  \/ hot'[s[1]][s[2]] > 0
                        \/ Cardinality({p \in Posts : p > s[2] /\ <<s[1], p>> \in pushed}) >= MaxItems
        BY <1>0 DEF PushedKept, InHot
    <2> DEFINE T == {p \in Posts : p > s[2] /\ <<s[1], p>> \in pushed}
    <2>0. s[1] \in Readers /\ s[2] \in Posts /\ (InHot(s[1], s[2]) \/ Cardinality(T) >= MaxItems)
        BY <1>2 DEF TierParts, PushedKept
    <2>1. CASE InHot(s[1], s[2]) /\ hot'[s[1]][s[2]] = hot[s[1]][s[2]]
        BY <2>1 DEF InHot
    <2>2. CASE InHot(s[1], s[2]) /\ hot'[s[1]][s[2]] # hot[s[1]][s[2]]
        <3> DEFINE S == {q \in Posts : Outranks(hot[u], q, s[2])}
        <3>1. s[1] = u
            BY <1>4, <2>0, <2>2
        <3>2. Cardinality(S) >= MaxItems
            BY <1>8, <2>0, <2>2, <3>1
        <3>3. T \in SUBSET Posts /\ S \in SUBSET T
            BY <1>9, <2>0, <2>2, <3>1
        <3>4. Cardinality(S) \in Nat /\ Cardinality(T) \in Nat
            BY <3>3, PostsFinite
        <3>5. Cardinality(S) <= Cardinality(T)
            BY <3>3, MorePosts
        <3> HIDE DEF S, T
        <3>6. Cardinality(T) >= MaxItems
            BY <3>2, <3>4, <3>5, CapAssumption
        <3>. QED BY <3>6 DEF T
    <2>3. CASE Cardinality(T) >= MaxItems
        BY <2>3
    <2>. QED BY <2>0, <2>1, <2>2, <2>3
<1>11. ASSUME NEW v \in Readers, NEW p \in Posts, InHot(v, p), Cardinality(HotInbox(v)) < MaxItems,
              hot'[v][p] # hot[v][p]
       PROVE  FALSE
    <2> DEFINE S == {q \in Posts : Outranks(hot[u], q, p)}
    <2>1. v = u
        BY <1>4, <1>11
    <2>2. Cardinality(S) >= MaxItems
        BY <1>8, <1>11, <2>1
    <2>3. HotInbox(u) \in SUBSET Posts /\ S \in SUBSET HotInbox(u)
        BY <1>9, <1>11, <2>1 DEF HotInbox
    <2>4. Cardinality(S) \in Nat /\ Cardinality(HotInbox(u)) \in Nat
        BY <2>3, PostsFinite
    <2>5. Cardinality(S) <= Cardinality(HotInbox(u))
        BY <2>3, MorePosts
    <2> HIDE DEF S
    <2>. QED BY <1>11, <2>1, <2>2, <2>4, <2>5, CapAssumption
<1>. QED BY <1>1, <1>4, <1>5, <1>7, <1>10, <1>11 DEF TierParts

\* An append: the newest entries stay, the cap takes the oldest.
LEMMA TierAppend ==
    ASSUME IInv, ServedParts, TierParts, NEW u \in Readers, AppendToColdTier(u)
    PROVE  TierParts'
<1> USE DEF graphVars
<1>0. /\ stage = "append" /\ u \in dormantFollowers
      /\ cold' = [cold EXCEPT ![u] = LastItems(Append(cold[u], Current))]
      /\ appended' = appended \cup {<<u, Current>>} /\ dormantFollowers' = dormantFollowers \ {u}
      /\ UNCHANGED <<hot, active, pushed, activeFollowers>>
    BY DEF AppendToColdTier
<1>1. Current \in Posts
    BY <1>0, CurrentStored
<1>2. cold \in [Readers -> Seq(Posts)] /\ appended \subseteq Readers \X Posts
    BY DEF IInv, TypeOK
<1> DEFINE c == Current
           t == Append(cold[u], c)
<1>3. t \in Seq(Posts) /\ Len(t) = Len(cold[u]) + 1 /\ t[Len(cold[u]) + 1] = c
      /\ DOMAIN t = DOMAIN cold[u] \cup {Len(cold[u]) + 1}
      /\ \A i \in DOMAIN cold[u] : t[i] = cold[u][i]
    <2> HIDE DEF c
    <2>1. c \in Posts /\ cold[u] \in Seq(Posts)
        BY <1>1, <1>2 DEF c
    <2>. QED BY <2>1
<1> HIDE DEF t
<1>4. cold'[u] = LastItems(t) /\ \A v \in Readers \ {u} : cold'[v] = cold[v]
    BY <1>0, <1>2 DEF t
<1>5. /\ Len(LastItems(t)) <= MaxColdTierItems
      /\ LastItems(t) = t \/ Len(LastItems(t)) = MaxColdTierItems
      /\ \A i \in DOMAIN LastItems(t) : \E j \in DOMAIN t : LastItems(t)[i] = t[j]
    BY <1>3, LastItemsKeeps
<1>6. LapseIsFinal'
    <2>1. ~ active[u] /\ u \notin activeFollowers
        BY <1>0 DEF TierParts, LapseIsFinal, ServedParts, LocalsInOrder
    <2>. QED BY <1>0, <2>1 DEF TierParts, LapseIsFinal
<1>7. ColdCapped'
    <2>1. ASSUME NEW j \in DOMAIN t PROVE <<u, t[j]>> \in appended'
        <3>1. CASE j \in DOMAIN cold[u]
            BY <1>0, <1>3, <3>1 DEF TierParts, ColdCapped
        <3>2. CASE j = Len(cold[u]) + 1
            BY <1>0, <1>3, <3>2
        <3>. QED BY <1>3, <2>1, <3>1, <3>2
    <2>2. \A i \in DOMAIN cold'[u] : <<u, cold'[u][i]>> \in appended'
        BY <1>4, <1>5, <2>1
    <2>3. \A v \in Readers \ {u} : /\ Len(cold'[v]) <= MaxColdTierItems
                                   /\ \A i \in DOMAIN cold'[v] : <<v, cold'[v][i]>> \in appended'
        BY <1>0, <1>4 DEF TierParts, ColdCapped
    <2>. QED BY <1>4, <1>5, <2>2, <2>3 DEF ColdCapped
<1>8. AppendedKept'
    <2> SUFFICES ASSUME NEW s \in appended'
                 PROVE  \/ \E i \in DOMAIN cold'[s[1]] : cold'[s[1]][i] = s[2]
                        \/ Len(cold'[s[1]]) = MaxColdTierItems
        BY DEF AppendedKept
    <2>1. s[1] \in Readers /\ s = <<s[1], s[2]>>
        BY <1>0, <1>1, <1>2
    <2>2. CASE s[1] # u
        <3>1. s \in appended /\ cold'[s[1]] = cold[s[1]]
            BY <1>0, <1>4, <2>1, <2>2
        <3>. QED BY <3>1 DEF TierParts, AppendedKept
    <2>3. CASE s[1] = u /\ Len(LastItems(t)) = MaxColdTierItems
        BY <1>4, <2>3
    <2>4. CASE s[1] = u /\ LastItems(t) = t /\ s \in appended
        <3>1. CASE \E i \in DOMAIN cold[u] : cold[u][i] = s[2]
            BY <1>3, <1>4, <2>4, <3>1
        <3>2. CASE Len(cold[u]) = MaxColdTierItems
            <4>1. Len(t) = MaxColdTierItems + 1
                BY <1>3, <3>2
            <4>. QED BY <1>5, <2>4, <4>1, CapAssumption
        <3>. QED BY <2>4, <3>1, <3>2 DEF TierParts, AppendedKept
    <2>5. CASE s[1] = u /\ LastItems(t) = t /\ s = <<u, c>>
        BY <1>3, <1>4, <2>5
    <2>. QED BY <1>0, <1>5, <2>2, <2>3, <2>4, <2>5
<1>9. HotSound' /\ PushedKept'
    BY <1>0 DEF TierParts, HotSound, PushedKept, InHot
<1>. QED BY <1>6, <1>7, <1>8, <1>9 DEF TierParts

\* The steps that write to no tier.
LEMMA TierOthers ==
    ASSUME IInv, ServedParts, TierParts, Next \/ UNCHANGED vars,
           \A u \in Readers : ~ PushToInbox(u) /\ ~ TrimInbox(u) /\ ~ AppendToColdTier(u)
    PROVE  TierParts' /\ UNCHANGED hot
<1> USE DEF postVars, graphVars, offsets, job, tiers, history
<1>1. CASE Ingestion
    <2>1. UNCHANGED <<hot, cold, pushed, appended, activeFollowers, dormantFollowers>>
        BY <1>1 DEF Ingestion, InsertPost, PublishPost, PublishFails, Follow, Unfollow, ActivityLapses
    <2>2. \A u \in Readers : active'[u] => active[u]
        <3>1. UNCHANGED active \/ \E u \in Readers : ActivityLapses(u)
            BY <1>1 DEF Ingestion, InsertPost, PublishPost, PublishFails, Follow, Unfollow
        <3>2. active \in [Readers -> BOOLEAN]
            BY DEF IInv, TypeOK
        <3>3. ASSUME NEW v \in Readers, ActivityLapses(v), NEW u \in Readers, active'[u] PROVE active[u]
            <4>1. active' = [active EXCEPT ![v] = FALSE]
                BY <3>3 DEF ActivityLapses
            <4>2. CASE u = v
                BY <3>2, <3>3, <4>1, <4>2
            <4>3. CASE u # v
                BY <3>2, <3>3, <4>1, <4>3
            <4>. QED BY <4>2, <4>3
        <3>. QED BY <3>1, <3>3
    <2>. QED BY <2>1, <2>2, TierBystander
<1>2. CASE FilterActive
    <2>1. /\ UNCHANGED <<hot, cold, pushed, appended, active>>
          /\ activeFollowers' = {u \in followers : active[u]}
          /\ dormantFollowers' = followers \ activeFollowers'
        BY <1>2 DEF FilterActive
    <2>2. LapseIsFinal'
        BY <2>1 DEF TierParts, LapseIsFinal
    <2>3. ColdCapped' /\ AppendedKept' /\ HotSound' /\ PushedKept'
        BY <2>1 DEF TierParts, ColdCapped, AppendedKept, HotSound, PushedKept, InHot
    <2>. QED BY <2>1, <2>2, <2>3 DEF TierParts
<1>3. ASSUME Handle, ~ FilterActive PROVE TierParts' /\ UNCHANGED hot
    <2>1. /\ UNCHANGED <<hot, cold, pushed, appended, active>>
          /\ activeFollowers' \subseteq activeFollowers /\ dormantFollowers' \subseteq dormantFollowers
        BY <1>3 DEF Handle, CheckCelebrity, PushToCelebrityOutbox, GetFollowers, NoFollowers,
                    BeginAppends, AppendSwallowed, FinishFanout, RecordFails, FinishRecord, DropJob
    <2>. QED BY <2>1, TierBystander
<1>4. CASE Poll \/ CommitSync \/ Restart \/ DeadlinePasses \/ UNCHANGED vars \/ \E x \in Partitions : TakeRecord(x)
    <2>1. /\ UNCHANGED <<hot, cold, pushed, appended, active>>
          /\ activeFollowers' \subseteq activeFollowers /\ dormantFollowers' \subseteq dormantFollowers
        BY <1>4 DEF Poll, CommitSync, Restart, DropJob, DeadlinePasses, TakeRecord, vars
    <2>. QED BY <2>1, TierBystander
<1>. QED BY <1>1, <1>2, <1>3, <1>4 DEF Next, Worker

\* The tiers' invariant is kept by every step of the fan-out.
LEMMA TierNext ==
    ASSUME IInv, ServedParts, TierParts, [Next]_vars
    PROVE  TierParts'
BY TierPush, TierTrim, TierAppend, TierOthers

\* The fan-out's invariant, which the requests of Timeline keep, too.
FanoutInv == IInv /\ ServedParts /\ TierParts

\* The three invariants together hold at first and are kept.
LEMMA FanoutInvHolds == (Init => FanoutInv) /\ (FanoutInv /\ [Next]_vars => FanoutInv')
<1>1. Init => FanoutInv
    BY IInvHolds, ServedInit, TierInit DEF FanoutInv
<1>2. FanoutInv /\ [Next]_vars => FanoutInv'
    BY IInvHolds, StableIngestion, StableWorker, TierNext DEF FanoutInv, Next
<1>. QED BY <1>1, <1>2

\* A hot inbox loses a post only to MaxItems newer pushes, whatever trims,
\* redeliveries and late posts come between.
THEOREM HotInboxKeepsPushes == Spec => []PushedKept
<1>1. FanoutInv => PushedKept
    BY DEF FanoutInv, TierParts
<1>. QED BY <1>1, FanoutInvHolds, PTL DEF Spec

\* A cold inbox loses a post only when it is full.
THEOREM ColdInboxKeepsAppends == Spec => []AppendedKept
<1>1. FanoutInv => AppendedKept
    BY DEF FanoutInv, TierParts
<1>. QED BY <1>1, FanoutInvHolds, PTL DEF Spec

\* Serving a record again takes nothing out of an inbox that had room, nor
\* reorders it.
THEOREM RedeliveriesHarmless == Spec => RedeliveryHarmless
<1>1. ASSUME FanoutInv, [Next]_vars, NEW u \in Readers, NEW p \in Posts,
             InHot(u, p), Cardinality(HotInbox(u)) < MaxItems
      PROVE  hot'[u][p] = hot[u][p]
    <2>1. IInv /\ ServedParts /\ TierParts
        BY <1>1 DEF FanoutInv
    <2>2. ASSUME NEW v \in Readers, PushToInbox(v) PROVE hot'[u][p] = hot[u][p]
        BY <1>1, <2>1, <2>2, TierPush
    <2>3. ASSUME NEW v \in Readers, TrimInbox(v) PROVE hot'[u][p] = hot[u][p]
        BY <1>1, <2>1, <2>3, TierTrim
    <2>4. ASSUME NEW v \in Readers, AppendToColdTier(v) PROVE hot'[u][p] = hot[u][p]
        BY <2>4 DEF AppendToColdTier
    <2>. QED BY <1>1, <2>1, <2>2, <2>3, <2>4, TierOthers
<1>2. FanoutInv /\ [Next]_vars
          => [\A u \in Readers : \A p \in Posts :
                 InHot(u, p) /\ Cardinality(HotInbox(u)) < MaxItems
                     => hot'[u][p] = hot[u][p]]_vars
    BY <1>1
<1>. QED BY <1>2, FanoutInvHolds, PTL DEF Spec, RedeliveryHarmless

-----------------------------------------------------------------------------
(* Readers beside the fan-out: Timeline.                                    *)

\* What a request copies was in its user's cold inbox.
ReadsCold ==
    \A s \in Sessions :
        /\ zadds[s] <= Len(coldRead[s]) /\ Len(coldRead[s]) <= MaxColdTierItems
        /\ \A i \in DOMAIN coldRead[s] : <<UserOf[s], coldRead[s][i]>> \in appended
        /\ reading[s] # "promote" => zadds[s] = 0

\* What was promoted stays: its reader is pushed to and trimmed no more.
PromotedStays == \A s \in promoted : s \in appended /\ InHot(s[1], s[2])

\* The invariant of the fan-out and the requests beside it.
TimelineInv == TimelineTypeOK /\ FanoutInv /\ ReadsCold /\ PromotedStays

\* At first no request runs.
LEMMA TimelineInvInit == TimelineInit => TimelineInv
<1> SUFFICES ASSUME TimelineInit PROVE TimelineInv
    OBVIOUS
<1>1. FanoutInv
    BY FanoutInvHolds DEF TimelineInit
<1>2. TypeOK
    BY <1>1 DEF FanoutInv, IInv
<1>3. /\ reading = [s \in Sessions |-> "idle"] /\ coldRead = [s \in Sessions |-> <<>>]
      /\ zadds = [s \in Sessions |-> 0] /\ promoted = {}
    BY DEF TimelineInit
<1>4. MaxColdTierItems \in Nat /\ Len(<<>>) = 0 /\ DOMAIN <<>> = {}
    BY CapAssumption
<1>5. TimelineTypeOK
    <2>1. zadds \in [Sessions -> 0 .. MaxColdTierItems]
        BY <1>3, <1>4
    <2>2. coldRead \in [Sessions -> Seq(Posts)]
        BY <1>3
    <2>. QED BY <1>2, <1>3, <2>1, <2>2 DEF TimelineTypeOK, ReadStages
<1>6. ReadsCold
    BY <1>3, <1>4 DEF ReadsCold
<1>. QED BY <1>1, <1>3, <1>5, <1>6 DEF TimelineInv, PromotedStays

\* The fan-out goes on beside a request: nothing appended is unsaid, and no
\* push or trim reaches a reader with entries in the cold tier.
LEMMA FanoutBeside ==
    ASSUME TimelineInv, Next, UNCHANGED readVars
    PROVE  TimelineInv'
<1> USE DEF readVars
<1>1. FanoutInv'
    BY FanoutInvHolds DEF TimelineInv
<1>2. TimelineTypeOK'
    BY <1>1 DEF TimelineInv, TimelineTypeOK, FanoutInv, IInv
<1>3. appended \subseteq appended'
    BY DEF Next, Ingestion, InsertPost, PublishPost, PublishFails, Follow, Unfollow, ActivityLapses,
           Worker, Handle, Poll, TakeRecord, CommitSync, CheckCelebrity, PushToCelebrityOutbox,
           GetFollowers, NoFollowers, FilterActive, PushToInbox, TrimInbox, BeginAppends,
           AppendToColdTier, AppendSwallowed, FinishFanout, RecordFails, FinishRecord,
           Restart, DeadlinePasses, history, tiers
<1>4. ReadsCold'
    BY <1>3 DEF TimelineInv, ReadsCold
<1>5. ASSUME NEW s \in promoted PROVE s \in appended' /\ InHot(s[1], s[2])'
    <2>1. s \in appended /\ InHot(s[1], s[2]) /\ s[1] \in Readers /\ s[2] \in Posts
        BY DEF TimelineInv, PromotedStays, TimelineTypeOK
    <2>2. s[1] \notin activeFollowers
        BY <2>1 DEF TimelineInv, FanoutInv, TierParts, LapseIsFinal
    <2>3. hot'[s[1]][s[2]] = hot[s[1]][s[2]]
        <3>1. IInv /\ ServedParts /\ TierParts
            BY DEF TimelineInv, FanoutInv
        <3>2. ASSUME NEW u \in Readers, PushToInbox(u) PROVE hot'[s[1]][s[2]] = hot[s[1]][s[2]]
            BY <2>1, <3>1, <3>2, TierPush
        <3>3. ASSUME NEW u \in Readers, TrimInbox(u) PROVE hot'[s[1]][s[2]] = hot[s[1]][s[2]]
            BY <2>1, <2>2, <3>1, <3>3, TierTrim
        <3>4. ASSUME NEW u \in Readers, AppendToColdTier(u) PROVE hot'[s[1]][s[2]] = hot[s[1]][s[2]]
            BY <3>4 DEF AppendToColdTier
        <3>. QED BY <3>1, <3>2, <3>3, <3>4, TierOthers
    <2>. QED BY <1>3, <2>1, <2>3 DEF InHot
<1>6. PromotedStays'
    BY <1>5 DEF PromotedStays
<1>. QED BY <1>1, <1>2, <1>4, <1>6 DEF TimelineInv

\* One ZADD of a promotion: a score that no push has, for a member whose reader
\* is pushed to no more.
LEMMA PromoteBeside ==
    ASSUME TimelineInv, NEW s \in Sessions, Promote(s)
    PROVE  /\ TimelineInv'
           /\ \A v \in Readers, p \in Posts : InHot(v, p) => hot'[v][p] > 0
<1> USE DEF fanoutVars, postVars, graphVars, offsets, job, history
<1> DEFINE u == UserOf[s]
           i == zadds[s] + 1
           c == coldRead[s][i]
           score == PromotedScore(coldRead[s], i)
<1>1. /\ hot' = [hot EXCEPT ![UserOf[s]] = Promoted(hot[UserOf[s]], coldRead[s], zadds[s] + 1)]
      /\ promoted' = promoted \cup {<<u, c>>} /\ zadds' = [zadds EXCEPT ![s] = zadds[s] + 1]
      /\ zadds[s] < Len(coldRead[s]) /\ UNCHANGED <<reading, coldRead>>
      /\ reading[s] = "promote"
    BY DEF Promote
<1>2. /\ u \in Readers /\ hot \in [Readers -> [Posts -> Nat]] /\ coldRead \in [Sessions -> Seq(Posts)]
      /\ zadds \in [Sessions -> 0 .. MaxColdTierItems] /\ MaxColdTierItems \in Nat
      /\ promoted \subseteq Readers \X Posts
    BY SessionAssumption, CapAssumption DEF TimelineInv, TimelineTypeOK, TypeOK
<1>3. /\ coldRead[s] \in Seq(Posts) /\ i \in 1 .. Len(coldRead[s]) /\ i \in DOMAIN coldRead[s]
      /\ Len(coldRead[s]) <= MaxColdTierItems /\ Len(coldRead[s]) \in Nat
    BY <1>1, <1>2 DEF TimelineInv, ReadsCold
<1>4. c \in Posts /\ <<u, c>> \in appended
    <2>1. <<u, c>> \in appended
        BY <1>3 DEF TimelineInv, ReadsCold
    <2>2. appended \subseteq Readers \X Posts
        BY DEF TimelineInv, TimelineTypeOK, TypeOK
    <2> HIDE DEF c, u
    <2>. QED BY <2>1, <2>2
<1>5. score \in Nat /\ score > 0 /\ score <= MaxColdTierItems
    BY <1>2, <1>3 DEF PromotedScore
<1>6. ASSUME NEW v \in Readers, NEW p \in Posts
      PROVE  hot'[v][p] = IF v = u /\ p = c THEN score ELSE hot[v][p]
    <2>1. hot' = [hot EXCEPT ![u] = [hot[u] EXCEPT ![c] = score]]
        BY <1>1 DEF Promoted
    <2> HIDE DEF u, c, score
    <2>. QED BY <1>2, <1>4, <2>1
<1>7. hot' \in [Readers -> [Posts -> Nat]]
    <2>1. hot' = [hot EXCEPT ![u] = [hot[u] EXCEPT ![c] = score]]
        BY <1>1 DEF Promoted
    <2> HIDE DEF u, c, score
    <2>. QED BY <1>2, <1>4, <1>5, <2>1
<1> HIDE DEF u, i, c, score
<1>8. UNCHANGED <<postVars, graphVars, crashes, offsets, job, stubExpired, cold, outbox, history>>
    BY DEF Promote
<1>9. TypeOK'
    BY <1>7, <1>8 DEF TimelineInv, TimelineTypeOK, TypeOK
<1>10. IInv'
    <2>1. Current' = Current
        BY <1>8 DEF Current
    <2>. QED BY <1>8, <1>9, <2>1
         DEF TimelineInv, FanoutInv, IInv, OffsetsInOrder, EdgesEligible, TargetsEligible, OnlyFollowersServed
<1>11. ServedParts'
    <2>1. Current' = Current
        BY <1>8 DEF Current
    <2>. QED BY <1>8, <2>1 DEF TimelineInv, FanoutInv, ServedParts, LocalsInOrder, StableFollows,
                               StableInHand, StableFollowersServed
<1>12. HotSound'
    <2> SUFFICES ASSUME NEW v \in Readers, NEW p \in Posts
                 PROVE  /\ hot'[v][p] > 0 => <<v, p>> \in pushed \cup appended
                        /\ <<v, p>> \notin appended => hot'[v][p] \in {0, PushScore(p)}
                        /\ <<v, p>> \notin pushed => hot'[v][p] <= MaxColdTierItems
        BY <1>8 DEF HotSound, InHot
    <2>1. CASE v = u /\ p = c
        BY <1>4, <1>5, <1>6, <2>1
    <2>2. CASE ~ (v = u /\ p = c)
        <3>1. hot'[v][p] = hot[v][p]
            BY <1>6, <2>2
        <3>. QED BY <3>1 DEF TimelineInv, FanoutInv, TierParts, HotSound, InHot
    <2>. QED BY <2>1, <2>2
<1>13. \A v \in Readers, p \in Posts : InHot(v, p) => hot'[v][p] > 0
    BY <1>5, <1>6 DEF InHot
<1>14. PushedKept'
    <2>1. pushed \subseteq Readers \X Posts
        BY DEF TimelineInv, TimelineTypeOK, TypeOK
    <2>2. ASSUME NEW x \in pushed, InHot(x[1], x[2]) PROVE hot'[x[1]][x[2]] > 0
        BY <1>13, <2>1, <2>2
    <2>. QED BY <1>8, <2>2 DEF TimelineInv, FanoutInv, TierParts, PushedKept, InHot
<1>15. TierParts'
    BY <1>8, <1>12, <1>14 DEF TimelineInv, FanoutInv, TierParts, LapseIsFinal, ColdCapped, AppendedKept
<1>16. TimelineTypeOK'
    <2>1. zadds' \in [Sessions -> 0 .. MaxColdTierItems]
        <3>1. zadds[s] + 1 \in 0 .. MaxColdTierItems
            BY <1>2, <1>3 DEF i
        <3>. QED BY <1>1, <1>2, <3>1
    <2>2. promoted' \subseteq Readers \X Posts
        BY <1>1, <1>2, <1>4
    <2>. QED BY <1>1, <1>9, <2>1, <2>2 DEF TimelineInv, TimelineTypeOK
<1>17. ReadsCold'
    <2>1. ASSUME NEW t \in Sessions PROVE zadds'[t] <= Len(coldRead[t])
        <3>1. CASE t = s
            <4>1. zadds'[s] = i
                BY <1>1, <1>2 DEF i
            <4>. QED BY <1>3, <3>1, <4>1
        <3>2. CASE t # s
            BY <1>1, <1>2, <3>2 DEF TimelineInv, ReadsCold
        <3>. QED BY <3>1, <3>2
    <2>2. ASSUME NEW t \in Sessions, reading[t] # "promote" PROVE zadds'[t] = 0
        BY <1>1, <1>2, <2>2 DEF TimelineInv, ReadsCold
    <2>. QED BY <1>1, <1>8, <2>1, <2>2 DEF TimelineInv, ReadsCold
<1>18. PromotedStays'
    <2> SUFFICES ASSUME NEW x \in promoted' PROVE x \in appended' /\ hot'[x[1]][x[2]] > 0
        BY DEF PromotedStays, InHot
    <2>1. CASE x = <<u, c>>
        BY <1>2, <1>4, <1>5, <1>6, <1>8, <2>1
    <2>2. CASE x \in promoted
        <3>1. x \in appended /\ InHot(x[1], x[2]) /\ x[1] \in Readers /\ x[2] \in Posts
            BY <1>2, <2>2 DEF TimelineInv, PromotedStays
        <3>. QED BY <1>8, <1>13, <3>1
    <2>. QED BY <1>1, <2>1, <2>2
<1>. QED BY <1>10, <1>11, <1>13, <1>15, <1>16, <1>17, <1>18 DEF TimelineInv, FanoutInv

\* The other steps of a request write to no store.
LEMMA ReadBeside ==
    ASSUME TimelineInv, NEW s \in Sessions, Read(s), ~ Promote(s)
    PROVE  TimelineInv'
<1>1. UNCHANGED <<vars, promoted>>
    BY DEF Read, CheckExists, GetInbox, GetCold, ReturnCold, ReadFails
<1>2. UNCHANGED <<cold, appended, hot>>
    BY <1>1 DEF vars, tiers, history
<1>3. FanoutInv'
    BY <1>1, FanoutInvHolds DEF TimelineInv
<1>4. /\ coldRead \in [Sessions -> Seq(Posts)] /\ zadds \in [Sessions -> 0 .. MaxColdTierItems]
      /\ reading \in [Sessions -> ReadStages] /\ promoted \subseteq Readers \X Posts
      /\ cold \in [Readers -> Seq(Posts)] /\ UserOf[s] \in Readers /\ MaxColdTierItems \in Nat
    BY SessionAssumption, CapAssumption DEF TimelineInv, TimelineTypeOK, TypeOK
<1>5. PromotedStays'
    BY <1>1, <1>2 DEF TimelineInv, PromotedStays, InHot
<1>6. reading' \in [Sessions -> ReadStages]
    <2>1. \E r \in ReadStages : reading' = [reading EXCEPT ![s] = r]
        BY DEF Read, CheckExists, GetInbox, GetCold, ReturnCold, ReadFails, DropRead, ReadStages
    <2>. QED BY <1>4, <2>1
<1>7. ASSUME NEW t \in Sessions, t # s PROVE reading'[t] = reading[t]
    BY <1>4, <1>7 DEF Read, CheckExists, GetInbox, GetCold, ReturnCold, ReadFails, DropRead
<1>8. CASE UNCHANGED <<coldRead, zadds>> /\ reading[s] # "promote"
    <2>1. ReadsCold'
        BY <1>2, <1>8, <1>7 DEF TimelineInv, ReadsCold
    <2>. QED BY <1>1, <1>3, <1>4, <1>5, <1>6, <1>8, <2>1
             DEF TimelineInv, TimelineTypeOK, FanoutInv, IInv
<1>9. CASE GetCold(s)
    <2>1. coldRead' = [coldRead EXCEPT ![s] = cold[UserOf[s]]] /\ UNCHANGED zadds
          /\ reading[s] = "miss"
        BY <1>9 DEF GetCold
    <2>2. coldRead' \in [Sessions -> Seq(Posts)]
        BY <1>4, <2>1
    <2>3. Len(cold[UserOf[s]]) <= MaxColdTierItems
          /\ \A i \in DOMAIN cold[UserOf[s]] : <<UserOf[s], cold[UserOf[s]][i]>> \in appended
        BY <1>4 DEF TimelineInv, FanoutInv, TierParts, ColdCapped
    <2>4. zadds[s] = 0 /\ Len(cold[UserOf[s]]) \in Nat
        BY <1>4, <2>1 DEF TimelineInv, ReadsCold
    <2>5. ReadsCold'
        <3> SUFFICES ASSUME NEW t \in Sessions
                     PROVE  /\ zadds[t] <= Len(coldRead'[t]) /\ Len(coldRead'[t]) <= MaxColdTierItems
                            /\ \A i \in DOMAIN coldRead'[t] : <<UserOf[t], coldRead'[t][i]>> \in appended
                            /\ reading'[t] # "promote" => zadds[t] = 0
            BY <1>2, <2>1 DEF ReadsCold
        <3>1. CASE t = s
            BY <1>4, <2>1, <2>3, <2>4, <3>1
        <3>2. CASE t # s
            BY <1>4, <1>7, <2>1, <3>2 DEF TimelineInv, ReadsCold
        <3>. QED BY <3>1, <3>2
    <2>. QED BY <1>1, <1>3, <1>4, <1>5, <1>6, <2>1, <2>2, <2>5 DEF TimelineInv, TimelineTypeOK, FanoutInv, IInv
<1>10. CASE DropRead(s)
    <2>1. coldRead' = [coldRead EXCEPT ![s] = <<>>] /\ zadds' = [zadds EXCEPT ![s] = 0]
        BY <1>10 DEF DropRead
    <2>2. /\ coldRead'[s] = <<>> /\ zadds'[s] = 0
          /\ \A t \in Sessions \ {s} : coldRead'[t] = coldRead[t] /\ zadds'[t] = zadds[t]
          /\ coldRead' \in [Sessions -> Seq(Posts)] /\ zadds' \in [Sessions -> 0 .. MaxColdTierItems]
        BY <1>4, <2>1
    <2>3. Len(<<>>) = 0 /\ DOMAIN <<>> = {}
        OBVIOUS
    <2>4. ReadsCold'
        <3> SUFFICES ASSUME NEW t \in Sessions
                     PROVE  /\ zadds'[t] <= Len(coldRead'[t]) /\ Len(coldRead'[t]) <= MaxColdTierItems
                            /\ \A i \in DOMAIN coldRead'[t] : <<UserOf[t], coldRead'[t][i]>> \in appended
                            /\ reading'[t] # "promote" => zadds'[t] = 0
            BY <1>2 DEF ReadsCold
        <3>1. CASE t = s
            BY <1>4, <2>2, <2>3, <3>1
        <3>2. CASE t # s
            BY <1>7, <2>2, <3>2 DEF TimelineInv, ReadsCold
        <3>. QED BY <3>1, <3>2
    <2>. QED BY <1>1, <1>3, <1>4, <1>5, <1>6, <2>2, <2>4 DEF TimelineInv, TimelineTypeOK, FanoutInv, IInv
<1>. QED BY <1>8, <1>9, <1>10 DEF Read, CheckExists, GetInbox, ReturnCold, ReadFails

\* Fan-out and requests together keep the invariant.
LEMMA TimelineStep ==
    ASSUME TimelineInv, TimelineNext \/ UNCHANGED allVars
    PROVE  TimelineInv'
<1>1. ASSUME NEW s \in Sessions, Read(s) PROVE TimelineInv'
    BY <1>1, PromoteBeside, ReadBeside
<1>2. CASE UNCHANGED allVars
    <2>1. UNCHANGED <<vars, readVars, cold, appended, hot>>
        BY <1>2 DEF allVars, vars, tiers, history
    <2>2. FanoutInv'
        BY <2>1, FanoutInvHolds DEF TimelineInv
    <2>. QED BY <2>1, <2>2 DEF TimelineInv, TimelineTypeOK, ReadsCold, PromotedStays, InHot,
                               readVars, FanoutInv, IInv
<1>. QED BY <1>1, <1>2, FanoutBeside DEF TimelineNext

\* It holds of every behaviour of both.
LEMMA TimelineInvHolds == TimelineSpec => []TimelineInv
<1>1. TimelineInv /\ [TimelineNext]_allVars => TimelineInv'
    BY TimelineStep
<1>. QED BY <1>1, TimelineInvInit, PTL DEF TimelineSpec

\* Types beside concurrent reads: no promotion runs past the cold inbox.
THEOREM TimelineTypes == TimelineSpec => []TimelineTypeOK
<1>1. TimelineInv => TimelineTypeOK
    BY DEF TimelineInv
<1>. QED BY <1>1, TimelineInvHolds, PTL

\* The promise about pushes survives any number of concurrent promotions.
THEOREM PushesKeptBesideReads == TimelineSpec => []PushedKept
<1>1. TimelineInv => PushedKept
    BY DEF TimelineInv, FanoutInv, TierParts
<1>. QED BY <1>1, TimelineInvHolds, PTL

\* What was promoted stays: no second promotion, push under way or redelivery
\* takes it out.
THEOREM PromotionsKept == TimelineSpec => []PromotedKept
<1>1. TimelineInv => PromotedKept
    BY DEF TimelineInv, PromotedStays, PromotedKept
<1>. QED BY <1>1, TimelineInvHolds, PTL

\* No promoted post is ever ranked above one that was pushed.
THEOREM PushesOutrank == TimelineSpec => []PushesOutrankPromoted
<1>1. ASSUME TimelineInv, NEW s \in pushed \ appended, NEW t \in promoted \ pushed,
             s[1] = t[1], InHot(s[1], s[2])
      PROVE  Outranks(hot[s[1]], s[2], t[2])
    <2>1. /\ s[1] \in Readers /\ s[2] \in Posts /\ t[2] \in Posts
          /\ s = <<s[1], s[2]>> /\ t = <<t[1], t[2]>> /\ hot \in [Readers -> [Posts -> Nat]]
        BY <1>1 DEF TimelineInv, TimelineTypeOK, TypeOK
    <2>2. <<s[1], s[2]>> \notin appended /\ <<s[1], t[2]>> \notin pushed
        BY <1>1, <2>1
    <2>3. hot[s[1]][s[2]] = PushScore(s[2])
        <3>1. hot[s[1]][s[2]] \in {0, PushScore(s[2])}
            BY <1>1, <2>1, <2>2 DEF TimelineInv, FanoutInv, TierParts, HotSound
        <3>. QED BY <1>1, <3>1 DEF InHot
    <2>4. hot[s[1]][t[2]] <= MaxColdTierItems
        BY <1>1, <2>1, <2>2 DEF TimelineInv, FanoutInv, TierParts, HotSound
    <2>5. hot[s[1]][t[2]] \in Nat /\ PushScore(s[2]) > MaxColdTierItems /\ PushScore(s[2]) \in Nat
        BY <2>1, CapAssumption, BoundAssumption DEF PushScore, Posts
    <2>. QED BY <2>3, <2>4, <2>5, CapAssumption DEF Outranks
<1>2. TimelineInv => PushesOutrankPromoted
    BY <1>1 DEF PushesOutrankPromoted
<1>. QED BY <1>2, TimelineInvHolds, PTL

=============================================================================
