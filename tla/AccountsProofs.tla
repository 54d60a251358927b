--------------------------- MODULE AccountsProofs ---------------------------
(* From the placement of a username to a notification: the two rings agree;  *)
(* a username has one owner and the directory tells the truth, whatever      *)
(* signups race or fail halfway; and who is mentioned by that name hears of  *)
(* it, at least once and with a reason, whatever the consumer fails at.      *)
EXTENDS Mentions, FiniteSetTheorems, WellFoundedInduction, TLAPS

-----------------------------------------------------------------------------
(* The two rings agree on every placement, unless two virtual nodes collide. *)
\* No two virtual nodes have the same hash.
NoCollision == \A u, v \in VNodes : Hash[u] = Hash[v] => u = v

\* A set of numbers that is not empty has a least element.
LEMMA LeastNatural ==
    ASSUME NEW S \in SUBSET Nat, S # {}
    PROVE  \E m \in S : \A k \in S : m <= k
<1>1. PICK m \in S : \A k \in S : ~ (<<k, m>> \in OpToRel(<, Nat))
    BY WFMin, NatLessThanWellFounded, Zenon
<1>2. ASSUME NEW k \in S PROVE ~ k < m
    BY <1>1 DEF OpToRel
<1>3. ASSUME NEW k \in S PROVE m <= k
    BY <1>2, <1>3
<1> QED
    BY <1>3

\* The slice is not empty: there is a shard, and it has a node.
LEMMA SomeNode == 1 \in DOMAIN Nodes /\ DOMAIN Nodes = 1 .. Len(Nodes) /\ Len(Nodes) \in Nat
<1>1. Topology[1] \in Shards /\ 0 \in 0 .. VirtualNodesPerShard - 1
    BY TopologyAssumption DEF Shards
<1>2. <<0, Topology[1]>> \in VNodes
    BY <1>1 DEF VNodes
<1>3. PICK i \in DOMAIN Nodes : Nodes[i] = <<0, Topology[1]>>
    BY <1>2, NodesAssumption DEF NewRing
<1> QED
    BY <1>3, NodesAssumption DEF NewRing

\* Nodes are virtual nodes, and hashes are numbers.
LEMMA NodeTypes ==
    /\ \A i \in DOMAIN Nodes : Nodes[i] \in VNodes
    /\ \A v \in VNodes : Hash[v] \in Nat /\ v[2] \in Shards
    /\ \A key \in Keys : Hash[key] \in Nat
<1>1. \A i \in DOMAIN Nodes : Nodes[i] \in VNodes
    BY NodesAssumption DEF NewRing
<1>2. \A v \in VNodes : v[2] \in Shards
    BY DEF VNodes
<1> QED
    BY <1>1, <1>2, HashAssumption

\* A new entity is always placed on a shard of the topology.
THEOREM PlacedOnShard ==
    ASSUME NEW key \in Keys
    PROVE  ShardForNewEntity(key) \in Shards
<1>1. CASE \E i \in DOMAIN Nodes : Found(key, i)
    <2>1. PICK i \in DOMAIN Nodes : ShardForNewEntity(key) = Nodes[i][2]
        BY <1>1 DEF ShardForNewEntity
    <2> QED
        BY <2>1, NodeTypes
<1>2. CASE ~ \E i \in DOMAIN Nodes : Found(key, i)
    BY <1>2, SomeNode, NodeTypes DEF ShardForNewEntity
<1> QED
    BY <1>1, <1>2

-----------------------------------------------------------------------------
\* Where nodes do not collide, the map holds the shard of the one node there.
LEMMA PutOnce ==
    ASSUME NoCollision, NEW v \in VNodes
    PROVE  PutLast(Hash[v]) = v[2]
<1> DEFINE Here(i) == \E u \in VNodes : u[2] = Topology[i] /\ Hash[u] = Hash[v]
           Last(i) == Here(i) /\ \A j \in DOMAIN Topology : Here(j) => j <= i
           N == Len(Topology)
           S == {n \in Nat : \E i \in DOMAIN Topology : Here(i) /\ n = N - i}
<1>1. DOMAIN Topology = 1 .. N /\ N \in Nat
    BY TopologyAssumption
<1>2. \A i \in DOMAIN Topology : Here(i) => Topology[i] = v[2]
    BY DEF NoCollision
<1>3. S # {}
    <2>1. PICK i \in DOMAIN Topology : v[2] = Topology[i]
        BY NodeTypes DEF Shards
    <2>2. Here(i)
        BY <2>1
    <2>3. N - i \in Nat
        BY <1>1
    <2> QED
        BY <2>2, <2>3
<1> HIDE DEF Here
<1>4. PICK n \in S : \A m \in S : n <= m
    <2>1. S \in SUBSET Nat
        OBVIOUS
    <2> QED
        BY <1>3, <2>1, LeastNatural
<1>5. PICK i \in DOMAIN Topology : Here(i) /\ n = N - i
    BY <1>4
<1>6. ASSUME NEW j \in DOMAIN Topology, Here(j) PROVE j <= i
    <2>1. N - j \in Nat
        BY <1>1
    <2>2. N - j \in S
        BY <1>6, <2>1
    <2>3. n <= N - j
        BY <1>4, <2>2
    <2> QED
        BY <1>1, <1>5, <2>3
<1>7. Last(i)
    BY <1>5, <1>6
<1>8. PutLast(Hash[v]) = Topology[CHOOSE k \in DOMAIN Topology : Last(k)]
    BY DEF PutLast, Here
<1> QED
    BY <1>2, <1>7, <1>8

\* The first key of a map is its least.
LEMMA FirstIsLeast ==
    ASSUME NEW K \in SUBSET Nat, NEW m \in K, \A l \in K : m <= l
    PROVE  FirstKey(K) = m
<1>1. FirstKey(K) \in K /\ \A l \in K : FirstKey(K) <= l
    BY DEF FirstKey
<1>2. ASSUME NEW n \in K, n <= m PROVE n = m
    <2>1. m <= n /\ m \in Nat /\ n \in Nat
        OBVIOUS
    <2> QED
        BY <1>2, <2>1
<1>3. FirstKey(K) <= m
    BY <1>1
<1> QED
    BY <1>1, <1>2, <1>3

\* If some node is at or after the key, the search finds the first such node.
LEMMA SearchSucceeds ==
    ASSUME NEW key \in Keys, NEW v \in VNodes, Hash[v] >= Hash[key]
    PROVE  \E i \in DOMAIN Nodes : Found(key, i)
<1> DEFINE S == {i \in DOMAIN Nodes : Hash[Nodes[i]] >= Hash[key]}
<1>1. PICK i \in DOMAIN Nodes : Nodes[i] = v
    BY NodesAssumption DEF NewRing
<1>2. S # {} /\ S \in SUBSET Nat
    BY <1>1, SomeNode
<1>3. PICK m \in S : \A k \in S : m <= k
    BY <1>2, LeastNatural
<1>4. ASSUME NEW j \in 1 .. m - 1 PROVE Hash[Nodes[j]] < Hash[key]
    <2>1. j \in DOMAIN Nodes /\ ~ m <= j
        BY SomeNode, <1>3
    <2>2. ~ Hash[Nodes[j]] >= Hash[key]
        BY <2>1, <1>3
    <2> QED
        BY <2>1, <2>2, NodeTypes
<1> QED
    BY <1>3, <1>4 DEF Found

\* Whatever the hashes are, as long as no two nodes collide, Go's sorted slice
\* and Java's map place every key on the same shard: what
\* scripts/verify_shard_parity.sh tests for samples of keys.
THEOREM RingsAgree ==
    ASSUME NoCollision, NEW key \in Keys
    PROVE  ShardForNewEntity(key) = JavaShardForNewEntity(key)
<1> DEFINE h == Hash[key]
           tail == TailMap(h)
<1>0. RingKeys \in SUBSET Nat /\ tail \in SUBSET RingKeys /\ h \in Nat
    BY NodeTypes DEF RingKeys, TailMap
<1>1. CASE tail = {}
    <2>1. ~ \E i \in DOMAIN Nodes : Found(key, i)
        BY <1>1, NodeTypes DEF Found, TailMap, RingKeys
    <2>2. ShardForNewEntity(key) = Nodes[1][2]
        BY <2>1 DEF ShardForNewEntity
    <2>3. Hash[Nodes[1]] \in RingKeys
        BY SomeNode, NodeTypes DEF RingKeys
    <2>4. \A k \in RingKeys : Hash[Nodes[1]] <= k
        <3> SUFFICES ASSUME NEW v \in VNodes PROVE Hash[Nodes[1]] <= Hash[v]
            BY DEF RingKeys
        <3>1. PICK i \in DOMAIN Nodes : Nodes[i] = v
            BY NodesAssumption DEF NewRing
        <3>2. CASE i = 1
            BY <3>1, <3>2, NodeTypes
        <3>3. CASE i # 1
            BY <3>1, <3>3, SomeNode, NodesAssumption DEF NewRing
        <3> QED
            BY <3>2, <3>3
    <2>5. FirstKey(RingKeys) = Hash[Nodes[1]]
        BY <1>0, <2>3, <2>4, FirstIsLeast
    <2>6. PutLast(Hash[Nodes[1]]) = Nodes[1][2]
        BY PutOnce, SomeNode, NodeTypes
    <2> QED
        BY <1>1, <2>2, <2>5, <2>6 DEF JavaShardForNewEntity
<1>2. CASE tail # {}
    <2>1. PICK v \in VNodes : Hash[v] >= Hash[key]
        BY <1>2 DEF TailMap, RingKeys
    <2>2. \E i \in DOMAIN Nodes : Found(key, i)
        BY <2>1, SearchSucceeds
    <2>3. PICK i \in DOMAIN Nodes : Found(key, i) /\ ShardForNewEntity(key) = Nodes[i][2]
        BY <2>2 DEF ShardForNewEntity
    <2>4. Hash[Nodes[i]] \in tail
        BY <2>3, NodeTypes DEF Found, TailMap, RingKeys
    <2>5. ASSUME NEW u \in VNodes, Hash[u] >= h PROVE Hash[Nodes[i]] <= Hash[u]
        <3>1. PICK j \in DOMAIN Nodes : Nodes[j] = u
            BY NodesAssumption DEF NewRing
        <3>2. CASE j < i
            <4>1. j \in 1 .. i - 1
                BY <3>2, SomeNode
            <4> QED
                BY <4>1, <3>1, <2>3, <2>5, <1>0, NodeTypes DEF Found
        <3>3. CASE j = i
            BY <3>1, <3>3, NodeTypes
        <3>4. CASE i < j
            BY <3>1, <3>4, <2>3, NodesAssumption DEF NewRing
        <3> QED
            BY <3>2, <3>3, <3>4, SomeNode
    <2>6. \A k \in tail : Hash[Nodes[i]] <= k
        BY <2>5 DEF TailMap, RingKeys
    <2>7. FirstKey(tail) = Hash[Nodes[i]]
        <3>1. tail \in SUBSET Nat
            BY <1>0
        <3> HIDE DEF tail
        <3> QED
            BY <2>4, <2>6, <3>1, FirstIsLeast
    <2>8. PutLast(Hash[Nodes[i]]) = Nodes[i][2]
        BY PutOnce, NodeTypes
    <2> QED
        BY <1>2, <2>3, <2>7, <2>8 DEF JavaShardForNewEntity
<1> QED
    BY <1>1, <1>2

-----------------------------------------------------------------------------

\* A row is on the shard of its username, and so will be the row in the making.
PlacedByName ==
    /\ \A u \in users : shardOf[u[1]] = ShardForNewEntity(u[2])
    /\ \A s \in Signups : signup[s] # NoSignup =>
          shardOf[signup[s].id] = ShardForNewEntity(signup[s].name)

\* A signup past a write has made it.
WritesDone ==
    \A s \in Signups :
        /\ signup[s].stage \in {"node", "directory"} => <<signup[s].id, signup[s].name>> \in users
        /\ signup[s].stage = "directory" => signup[s].id \in nodes

AccountsInv == AccountsTypeOK /\ PlacedByName /\ WritesDone /\ UsernameUnique /\ DirectoryTrue

-----------------------------------------------------------------------------
\* Nobody has signed up yet.
LEMMA AccountsInit == InitAccounts => AccountsInv
<1> SUFFICES ASSUME InitAccounts PROVE AccountsInv
    OBVIOUS
<1>1. AccountsTypeOK
    BY AccountBounds DEF InitAccounts, AccountsTypeOK
<1>2. PlacedByName /\ WritesDone /\ UsernameUnique
    BY DEF InitAccounts, PlacedByName, WritesDone, UsernameUnique, NoSignup
<1>3. DirectoryTrue
    BY DEF InitAccounts, DirectoryTrue
<1> QED
    BY <1>1, <1>2, <1>3 DEF AccountsInv

\* Only signups touch the stores of accounts.
LEMMA OthersKeepAccounts ==
    ASSUME [Next]_vars
    PROVE  AccountsNext \/ UNCHANGED accountVars
BY DEF Next, vars, Publish, NotifierStep, TakeMessage, Lookup, CreateNotification, FinishMentions,
       CommitMessage, MessageFails, RestartNotifier

\* What an unfinished signup is.
LEMMA ActiveSignup ==
    ASSUME AccountsTypeOK, NEW s \in Signups, signup[s] # NoSignup
    PROVE  /\ signup[s] \in [stage : {"row", "node", "directory"}, name : Names, id : 1 .. Len(shardOf)]
           /\ signup[s].stage \in {"row", "node", "directory"}
           /\ signup[s].name \in Names /\ signup[s].id \in 1 .. Len(shardOf)
BY DEF AccountsTypeOK

\* A signup that begins is a new element of the ring's choice of shard.
LEMMA BeginStep ==
    ASSUME AccountsInv, NEW s \in Signups, NEW n \in Names, BeginSignup(s, n)
    PROVE  AccountsInv'
<1> DEFINE id == Len(shardOf) + 1
           shard == ShardForNewEntity(n)
           new == [stage |-> "row", name |-> n, id |-> id]
<1>1. /\ shardOf' = Append(shardOf, shard)
      /\ signup' = [signup EXCEPT ![s] = new]
      /\ UNCHANGED <<users, nodes, directory, signupFailures, welcomed>>
      /\ Len(shardOf) < MaxUsers
    BY DEF BeginSignup, StartSignup
<1>2. shard \in Shards
    BY PlacedOnShard DEF Names
<1> HIDE DEF shard
<1>3. shardOf \in Seq(Shards) /\ Len(shardOf) \in Nat /\ MaxUsers \in Nat
    BY AccountBounds DEF AccountsInv, AccountsTypeOK
<1>4. /\ shardOf' \in Seq(Shards) /\ Len(shardOf') = Len(shardOf) + 1
      /\ \A i \in 1 .. Len(shardOf) : shardOf'[i] = shardOf[i]
      /\ shardOf'[id] = shard
    BY <1>1, <1>2, <1>3
<1>5. 1 .. Len(shardOf) \subseteq 1 .. Len(shardOf') /\ id \in 1 .. Len(shardOf')
      /\ Len(shardOf') <= MaxUsers
    BY <1>1, <1>3, <1>4
<1>6. signup \in [Signups -> {NoSignup} \cup [stage : {"row", "node", "directory"}, name : Names, id : 1 .. Len(shardOf)]]
    BY DEF AccountsInv, AccountsTypeOK
<1>7. new \in [stage : {"row", "node", "directory"}, name : Names, id : 1 .. Len(shardOf')]
    BY <1>5
<1>8. AccountsTypeOK'
    <2>1. signup' \in [Signups -> {NoSignup} \cup [stage : {"row", "node", "directory"}, name : Names, id : 1 .. Len(shardOf')]]
        BY <1>1, <1>5, <1>6, <1>7
    <2>2. users' \subseteq (1 .. Len(shardOf')) \X Names /\ nodes' \subseteq 1 .. Len(shardOf')
          /\ welcomed' \subseteq 1 .. Len(shardOf')
        BY <1>1, <1>5 DEF AccountsInv, AccountsTypeOK
    <2>3. directory' \in [Names -> 1 .. Len(shardOf') \cup {None}]
        BY <1>1, <1>5 DEF AccountsInv, AccountsTypeOK
    <2>4. signupFailures' \in 0 .. MaxSignupFailures
        BY <1>1 DEF AccountsInv, AccountsTypeOK
    <2> QED
        BY <1>4, <1>5, <2>1, <2>2, <2>3, <2>4 DEF AccountsTypeOK
<1>9. PlacedByName'
    <2>1. ASSUME NEW u \in users PROVE shardOf'[u[1]] = ShardForNewEntity(u[2])
        BY <1>4 DEF AccountsInv, AccountsTypeOK, PlacedByName
    <2>2. ASSUME NEW t \in Signups, signup'[t] # NoSignup
          PROVE  shardOf'[signup'[t].id] = ShardForNewEntity(signup'[t].name)
        <3>1. CASE t = s
            BY <1>1, <1>4, <1>6, <3>1 DEF shard
        <3>2. CASE t # s
            <4>1. signup'[t] = signup[t]
                BY <1>1, <1>6, <3>2
            <4>2. signup[t].id \in 1 .. Len(shardOf)
                BY <2>2, <4>1, ActiveSignup DEF AccountsInv
            <4> QED
                BY <1>4, <2>2, <4>1, <4>2 DEF AccountsInv, PlacedByName
        <3> QED
            BY <3>1, <3>2
    <2> QED
        BY <1>1, <2>1, <2>2 DEF PlacedByName
<1>10. WritesDone'
    BY <1>1, <1>6 DEF AccountsInv, WritesDone
<1>11. UsernameUnique' /\ DirectoryTrue'
    BY <1>1 DEF AccountsInv, UsernameUnique, DirectoryTrue
<1> QED
    BY <1>8, <1>9, <1>10, <1>11 DEF AccountsInv

\* Signup s ends, or moves on; nothing is minted.
Moves(s, next) ==
    /\ signup[s] # NoSignup
    /\ next \in {NoSignup} \cup {[signup[s] EXCEPT !.stage = st] : st \in {"node", "directory"}}
    /\ signup' = [signup EXCEPT ![s] = next]
    /\ shardOf' = shardOf
    /\ signupFailures' \in 0 .. MaxSignupFailures

\* Then types and placements of signups stay as they were.
LEMMA MovedOn ==
    ASSUME AccountsInv, NEW s \in Signups, NEW next, Moves(s, next)
    PROVE  /\ signup' \in [Signups -> {NoSignup} \cup
                 [stage : {"row", "node", "directory"}, name : Names, id : 1 .. Len(shardOf)]]
           /\ \A t \in Signups : signup'[t] # NoSignup =>
                 shardOf'[signup'[t].id] = ShardForNewEntity(signup'[t].name)
           /\ signup'[s] = next
           /\ \A t \in Signups \ {s} : signup'[t] = signup[t]
           /\ next # NoSignup => next.id = signup[s].id /\ next.name = signup[s].name
<1> USE DEF Moves
<1>1. signup \in [Signups -> {NoSignup} \cup [stage : {"row", "node", "directory"}, name : Names, id : 1 .. Len(shardOf)]]
    BY DEF AccountsInv, AccountsTypeOK
<1>2. signup[s] \in [stage : {"row", "node", "directory"}, name : Names, id : 1 .. Len(shardOf)]
    BY ActiveSignup DEF AccountsInv
<1>3. next \in {NoSignup} \cup [stage : {"row", "node", "directory"}, name : Names, id : 1 .. Len(shardOf)]
    BY <1>2
<1>4. next # NoSignup => next.id = signup[s].id /\ next.name = signup[s].name
    BY <1>2
<1>5. signup'[s] = next /\ \A t \in Signups \ {s} : signup'[t] = signup[t]
    BY <1>1
<1>6. ASSUME NEW t \in Signups, signup'[t] # NoSignup
      PROVE  shardOf'[signup'[t].id] = ShardForNewEntity(signup'[t].name)
    BY <1>4, <1>5, <1>6 DEF AccountsInv, PlacedByName
<1> QED
    BY <1>1, <1>3, <1>4, <1>5, <1>6

\* INSERT of a row whose name is not taken on its shard, whether it is answered
\* or not: the name is not taken on any shard.
LEMMA InsertKeeps ==
    ASSUME AccountsInv, NEW s \in Signups, NEW next, Moves(s, next),
           next = NoSignup \/ next.stage = "node",
           ~ Taken(signup[s].name, shardOf[signup[s].id]),
           users' = users \cup {<<signup[s].id, signup[s].name>>},
           UNCHANGED <<nodes, directory, welcomed>>
    PROVE  AccountsInv'
<1> DEFINE id == signup[s].id
           name == signup[s].name
<1>1. id \in 1 .. Len(shardOf) /\ name \in Names
    BY ActiveSignup DEF AccountsInv, Moves
<1>2. shardOf' = shardOf /\ signupFailures' \in 0 .. MaxSignupFailures
    BY DEF Moves
<1>3. AccountsTypeOK'
    BY <1>1, <1>2, MovedOn DEF AccountsInv, AccountsTypeOK
<1>4. shardOf[id] = ShardForNewEntity(name)
    BY DEF AccountsInv, PlacedByName, Moves
<1>5. PlacedByName'
    BY <1>2, <1>4, MovedOn DEF AccountsInv, PlacedByName
<1>6. WritesDone'
    <2>1. ASSUME NEW t \in Signups, t # s
          PROVE  /\ signup'[t].stage \in {"node", "directory"} => <<signup'[t].id, signup'[t].name>> \in users'
                 /\ signup'[t].stage = "directory" => signup'[t].id \in nodes'
        BY <2>1, MovedOn DEF AccountsInv, WritesDone
    <2>2. /\ signup'[s].stage \in {"node", "directory"} => <<signup'[s].id, signup'[s].name>> \in users'
          /\ signup'[s].stage = "directory" => signup'[s].id \in nodes'
        BY MovedOn DEF NoSignup
    <2> QED
        BY <2>1, <2>2 DEF WritesDone
<1>7. ASSUME NEW u \in users PROVE u[2] # name
    <2>1. shardOf[u[1]] = ShardForNewEntity(u[2])
        BY DEF AccountsInv, PlacedByName
    <2> QED
        BY <2>1, <1>4 DEF Taken
<1>8. UsernameUnique'
    BY <1>7 DEF AccountsInv, UsernameUnique
<1>9. DirectoryTrue'
    BY DEF AccountsInv, DirectoryTrue
<1> QED
    BY <1>3, <1>5, <1>6, <1>8, <1>9 DEF AccountsInv

\* MERGE of the node, whether it is answered or not.
LEMMA NodeKeeps ==
    ASSUME AccountsInv, NEW s \in Signups, NEW next, Moves(s, next),
           signup[s].stage = "node", next = NoSignup \/ next.stage = "directory",
           nodes' = nodes \cup {signup[s].id},
           UNCHANGED <<users, directory, welcomed>>
    PROVE  AccountsInv'
<1>1. signup[s].id \in 1 .. Len(shardOf) /\ signup[s].name \in Names
    BY ActiveSignup DEF AccountsInv, Moves
<1>2. shardOf' = shardOf /\ signupFailures' \in 0 .. MaxSignupFailures
    BY DEF Moves
<1>3. AccountsTypeOK'
    BY <1>1, <1>2, MovedOn DEF AccountsInv, AccountsTypeOK
<1>4. PlacedByName'
    BY <1>2, MovedOn DEF AccountsInv, PlacedByName
<1>5. WritesDone'
    <2>1. ASSUME NEW t \in Signups, t # s
          PROVE  /\ signup'[t].stage \in {"node", "directory"} => <<signup'[t].id, signup'[t].name>> \in users'
                 /\ signup'[t].stage = "directory" => signup'[t].id \in nodes'
        BY <2>1, MovedOn DEF AccountsInv, WritesDone
    <2>2. /\ signup'[s].stage \in {"node", "directory"} => <<signup'[s].id, signup'[s].name>> \in users'
          /\ signup'[s].stage = "directory" => signup'[s].id \in nodes'
        BY MovedOn DEF NoSignup, AccountsInv, WritesDone
    <2> QED
        BY <2>1, <2>2 DEF WritesDone
<1>6. UsernameUnique' /\ DirectoryTrue'
    BY DEF AccountsInv, UsernameUnique, DirectoryTrue
<1> QED
    BY <1>3, <1>4, <1>5, <1>6 DEF AccountsInv

\* SET of the directory entry, whether the user hears of it or not.
LEMMA DirectoryKeeps ==
    ASSUME AccountsInv, NEW s \in Signups, Moves(s, NoSignup),
           signup[s].stage = "directory",
           directory' = [directory EXCEPT ![signup[s].name] = signup[s].id],
           welcomed' \in {welcomed, welcomed \cup {signup[s].id}},
           UNCHANGED <<users, nodes>>
    PROVE  AccountsInv'
<1> DEFINE id == signup[s].id
           name == signup[s].name
<1>1. id \in 1 .. Len(shardOf) /\ name \in Names
    BY ActiveSignup DEF AccountsInv, Moves
<1>2. shardOf' = shardOf /\ signupFailures' \in 0 .. MaxSignupFailures
    BY DEF Moves
<1>3. AccountsTypeOK'
    BY <1>1, <1>2, MovedOn DEF AccountsInv, AccountsTypeOK
<1>4. PlacedByName'
    BY <1>2, MovedOn DEF AccountsInv, PlacedByName
<1>5. WritesDone'
    <2>1. ASSUME NEW t \in Signups, t # s
          PROVE  /\ signup'[t].stage \in {"node", "directory"} => <<signup'[t].id, signup'[t].name>> \in users'
                 /\ signup'[t].stage = "directory" => signup'[t].id \in nodes'
        BY <2>1, MovedOn DEF AccountsInv, WritesDone
    <2>2. signup'[s].stage = "idle"
        BY MovedOn DEF NoSignup
    <2> QED
        BY <2>1, <2>2 DEF WritesDone
<1>6. UsernameUnique'
    BY DEF AccountsInv, UsernameUnique
<1>7. <<id, name>> \in users /\ id \in nodes
    BY DEF AccountsInv, WritesDone
<1>8. directory \in [Names -> 1 .. Len(shardOf) \cup {None}]
    BY DEF AccountsInv, AccountsTypeOK
<1>9. directory'[name] = id /\ \A n \in Names \ {name} : directory'[n] = directory[n]
    BY <1>1, <1>8
<1>10. \A n \in Names : directory'[n] # None => <<directory'[n], n>> \in users'
    BY <1>7, <1>9 DEF AccountsInv, DirectoryTrue
<1>11. ASSUME NEW i \in welcomed
       PROVE  i \in nodes' /\ \E n \in Names : <<i, n>> \in users' /\ directory'[n] = i
    <2>1. PICK n \in Names : <<i, n>> \in users /\ directory[n] = i
        BY DEF AccountsInv, DirectoryTrue
    <2>2. n = name => i = id
        BY <1>7, <2>1 DEF AccountsInv, UsernameUnique
    <2>3. directory'[n] = i
        BY <1>9, <2>1, <2>2
    <2> QED
        BY <2>1, <2>3 DEF AccountsInv, DirectoryTrue
<1>12. id \in nodes' /\ \E n \in Names : <<id, n>> \in users' /\ directory'[n] = id
    BY <1>1, <1>7, <1>9
<1>13. DirectoryTrue'
    BY <1>10, <1>11, <1>12 DEF DirectoryTrue
<1> QED
    BY <1>3, <1>4, <1>5, <1>6, <1>13 DEF AccountsInv

\* A signup that ends with nothing written.
LEMMA EndKeeps ==
    ASSUME AccountsInv, NEW s \in Signups, Moves(s, NoSignup),
           UNCHANGED <<users, nodes, directory, welcomed>>
    PROVE  AccountsInv'
<1>1. shardOf' = shardOf /\ signupFailures' \in 0 .. MaxSignupFailures
    BY DEF Moves
<1>2. AccountsTypeOK' /\ PlacedByName'
    BY <1>1, MovedOn DEF AccountsInv, AccountsTypeOK, PlacedByName
<1>3. WritesDone'
    <2>1. ASSUME NEW t \in Signups, t # s
          PROVE  /\ signup'[t].stage \in {"node", "directory"} => <<signup'[t].id, signup'[t].name>> \in users'
                 /\ signup'[t].stage = "directory" => signup'[t].id \in nodes'
        BY <2>1, MovedOn DEF AccountsInv, WritesDone
    <2>2. signup'[s].stage = "idle"
        BY MovedOn DEF NoSignup
    <2> QED
        BY <2>1, <2>2 DEF WritesDone
<1>4. UsernameUnique' /\ DirectoryTrue'
    BY DEF AccountsInv, UsernameUnique, DirectoryTrue
<1> QED
    BY <1>2, <1>3, <1>4 DEF AccountsInv

-----------------------------------------------------------------------------
\* The INSERT that is answered, or refused.
LEMMA InsertStep ==
    ASSUME AccountsInv, NEW s \in Signups, InsertUser(s)
    PROVE  AccountsInv'
<1>1. /\ signup[s].stage = "row" /\ shardOf' = shardOf /\ signupFailures' = signupFailures
      /\ UNCHANGED <<nodes, directory, welcomed>>
    BY DEF InsertUser, AtStage
<1>2. signup[s] # NoSignup /\ signupFailures' \in 0 .. MaxSignupFailures
    BY <1>1 DEF NoSignup, AccountsInv, AccountsTypeOK
<1>3. CASE Taken(signup[s].name, shardOf[signup[s].id])
    <2>1. Moves(s, NoSignup) /\ UNCHANGED users
        BY <1>1, <1>2, <1>3 DEF InsertUser, EndSignup, Moves
    <2> QED
        BY <1>1, <2>1, EndKeeps
<1>4. CASE ~ Taken(signup[s].name, shardOf[signup[s].id])
    <2> DEFINE next == [signup[s] EXCEPT !.stage = "node"]
    <2>1. /\ signup' = [signup EXCEPT ![s] = next]
          /\ users' = users \cup {<<signup[s].id, signup[s].name>>}
        BY <1>4 DEF InsertUser
    <2>2. Moves(s, next)
        BY <1>1, <1>2, <2>1 DEF Moves
    <2>3. next.stage = "node"
        BY <1>2, ActiveSignup DEF AccountsInv
    <2> HIDE DEF next
    <2> QED
        BY <1>1, <1>4, <2>1, <2>2, <2>3, InsertKeeps
<1> QED
    BY <1>3, <1>4

\* The MERGE that is answered.
LEMMA NodeStep ==
    ASSUME AccountsInv, NEW s \in Signups, EnsureUserNode(s)
    PROVE  AccountsInv'
<1> DEFINE next == [signup[s] EXCEPT !.stage = "directory"]
<1>1. /\ signup[s].stage = "node" /\ shardOf' = shardOf /\ signupFailures' = signupFailures
      /\ signup' = [signup EXCEPT ![s] = next]
      /\ nodes' = nodes \cup {signup[s].id}
      /\ UNCHANGED <<users, directory, welcomed>>
    BY DEF EnsureUserNode, AtStage
<1>2. signup[s] # NoSignup /\ signupFailures' \in 0 .. MaxSignupFailures
    BY <1>1 DEF NoSignup, AccountsInv, AccountsTypeOK
<1>3. next.stage = "directory"
    BY <1>2, ActiveSignup DEF AccountsInv
<1>4. Moves(s, next)
    BY <1>1, <1>2 DEF Moves
<1> HIDE DEF next
<1> QED
    BY <1>1, <1>3, <1>4, NodeKeeps

\* The SET that is answered, and the answer to the user.
LEMMA DirectoryStep ==
    ASSUME AccountsInv, NEW s \in Signups, SetUsername(s)
    PROVE  AccountsInv'
<1>1. /\ signup[s].stage = "directory" /\ shardOf' = shardOf /\ signupFailures' = signupFailures
      /\ signup' = [signup EXCEPT ![s] = NoSignup]
      /\ directory' = [directory EXCEPT ![signup[s].name] = signup[s].id]
      /\ welcomed' = welcomed \cup {signup[s].id}
      /\ UNCHANGED <<users, nodes>>
    BY DEF SetUsername, AtStage, EndSignup
<1>2. signup[s] # NoSignup /\ signupFailures' \in 0 .. MaxSignupFailures
    BY <1>1 DEF NoSignup, AccountsInv, AccountsTypeOK
<1>3. Moves(s, NoSignup)
    BY <1>1, <1>2 DEF Moves
<1> QED
    BY <1>1, <1>3, DirectoryKeeps

\* Each failure is a write that was done without being answered, or none.
LEMMA FailStep ==
    ASSUME AccountsInv, NEW s \in Signups, SignupFails(s)
    PROVE  AccountsInv'
<1>1. /\ signup' = [signup EXCEPT ![s] = NoSignup]
      /\ shardOf' = shardOf /\ welcomed' = welcomed
    BY DEF SignupFails, EndSignup
<1>2. signupFailures' \in 0 .. MaxSignupFailures
    BY AccountBounds DEF SignupFails, AccountsInv, AccountsTypeOK
<1>3. ASSUME signup[s] # NoSignup PROVE Moves(s, NoSignup)
    BY <1>1, <1>2, <1>3 DEF Moves
<1>4. CASE signup[s] # NoSignup /\ UNCHANGED <<users, nodes, directory>>
    BY <1>1, <1>3, <1>4, EndKeeps
<1>5. CASE /\ AtStage(s, "row") /\ ~ Taken(signup[s].name, shardOf[signup[s].id])
           /\ users' = users \cup {<<signup[s].id, signup[s].name>>}
           /\ UNCHANGED <<nodes, directory>>
    <2>1. Moves(s, NoSignup)
        BY <1>3, <1>5 DEF AtStage, NoSignup
    <2> QED
        BY <1>1, <1>5, <2>1, InsertKeeps
<1>6. CASE /\ AtStage(s, "node") /\ nodes' = nodes \cup {signup[s].id}
           /\ UNCHANGED <<users, directory>>
    <2>1. Moves(s, NoSignup) /\ signup[s].stage = "node"
        BY <1>3, <1>6 DEF AtStage, NoSignup
    <2> QED
        BY <1>1, <1>6, <2>1, NodeKeeps
<1>7. CASE /\ AtStage(s, "directory")
           /\ directory' = [directory EXCEPT ![signup[s].name] = signup[s].id]
           /\ UNCHANGED <<users, nodes>>
    <2>1. Moves(s, NoSignup) /\ signup[s].stage = "directory"
        BY <1>3, <1>7 DEF AtStage, NoSignup
    <2> QED
        BY <1>1, <1>7, <2>1, DirectoryKeeps
<1> QED
    BY <1>4, <1>5, <1>6, <1>7 DEF SignupFails

\* Every step of a signup keeps the invariant, and no other step touches it.
LEMMA AccountsStep == AccountsInv /\ [Next]_vars => AccountsInv'
<1> SUFFICES ASSUME AccountsInv, [Next]_vars PROVE AccountsInv'
    OBVIOUS
<1>1. CASE AccountsNext
    <2>1. PICK s \in Signups : CreateUser(s)
        BY <1>1 DEF AccountsNext
    <2>2. CASE \E n \in Names : BeginSignup(s, n)
        BY <2>2, BeginStep
    <2>3. CASE InsertUser(s)
        BY <2>3, InsertStep
    <2>4. CASE EnsureUserNode(s)
        BY <2>4, NodeStep
    <2>5. CASE SetUsername(s)
        BY <2>5, DirectoryStep
    <2>6. CASE SignupFails(s)
        BY <2>6, FailStep
    <2> QED
        BY <2>1, <2>2, <2>3, <2>4, <2>5, <2>6 DEF CreateUser
<1>2. CASE UNCHANGED accountVars
    BY <1>2 DEF accountVars, AccountsInv, AccountsTypeOK, PlacedByName, WritesDone,
                UsernameUnique, DirectoryTrue
<1> QED
    BY <1>1, <1>2, OthersKeepAccounts

\* The invariant of signup: the properties, and what makes them inductive.
THEOREM AccountsInvariant == Spec => []AccountsInv
<1>1. Init => AccountsInv
    BY AccountsInit DEF Init
<1> QED
    BY <1>1, AccountsStep, PTL DEF Spec

\* However many signups race for a name, over however many shards, each of
\* which checks its own rows only, at most one of them gets it.
THEOREM OneOwnerPerName == Spec => []UsernameUnique
<1>1. AccountsInv => UsernameUnique
    BY DEF AccountsInv
<1> QED
    BY <1>1, AccountsInvariant, PTL

\* However signups race or fail between two of their writes, the directory
\* names the owner of a row, and what a user was told "created" of is there.
THEOREM DirectoryNeverLies == Spec => []DirectoryTrue
<1>1. AccountsInv => DirectoryTrue
    BY DEF AccountsInv
<1> QED
    BY <1>1, AccountsInvariant, PTL

-----------------------------------------------------------------------------
(* Mentions: from a name to a notification.                                  *)

\* A user has one name, whose row only its own signup inserts.
OneName ==
    /\ \A u, v \in users : u[1] = v[1] => u = v
    /\ \A s \in Signups : signup[s].stage = "row" => \A u \in users : u[1] # signup[s].id
    /\ \A s, t \in Signups :
          signup[s] # NoSignup /\ signup[t] # NoSignup /\ signup[s].id = signup[t].id => s = t

\* Every post is in one place of one partition, and whoever is due a
\* notification of it was welcomed before and is mentioned by name.
TopicParts ==
    /\ \A x \in Partitions : Len(log[x]) <= Len(posts)
    /\ \A x \in Partitions : \A k \in 1 .. Len(log[x]) : log[x][k] \in DOMAIN posts
    /\ \A x, y \in Partitions : \A k \in 1 .. Len(log[x]), l \in 1 .. Len(log[y]) :
          log[x][k] = log[y][l] => x = y /\ k = l
    /\ \A p \in DOMAIN posts : \A i \in posts[p].due :
          /\ i \in welcomed /\ i # posts[p].author
          /\ \E n \in posts[p].mentions : <<i, n>> \in users

\* A message of partition x is in hand and not dealt with.
InHand(x) == job.stage \in {"lookup", "create"} /\ job.partition = x

\* Only the last message taken can be in hand; the others have been handled.
OffsetParts ==
    \A x \in Partitions :
        /\ committed[x] <= position[x] /\ position[x] <= Len(log[x])
        /\ handled[x] \subseteq 1 .. Len(log[x])
        /\ 1 .. committed[x] \subseteq handled[x]
        /\ \A k \in 1 .. position[x] : k \in handled[x] \/ (k = position[x] /\ InHand(x))

\* What handlePostCreated has in hand: a recipient is a user found by a name it
\* has looked up.
JobParts ==
    \/ job = NoJob
    \/ /\ job.stage \in {"lookup", "create", "commit"} /\ job.partition \in Partitions
       /\ position[job.partition] > 0
       /\ job.todo \subseteq Post.mentions
       /\ job.stage = "commit" => job.todo = {}
       /\ job.stage # "create" => job.recipient = None
       /\ job.stage = "create" =>
             /\ job.recipient \in Ids /\ job.recipient # Post.author
             /\ \E n \in Post.mentions \ job.todo : <<job.recipient, n>> \in users

\* The job in hand will still look up a name of user i, or insert its row.
Owes(i) == job # NoJob /\ (job.recipient = i \/ \E n \in job.todo : <<i, n>> \in users)

\* The message of post p was taken since the last restart, or before it.
Reached(p) == \E x \in Partitions : \E k \in 1 .. position[x] : log[x][k] = p

\* A notification is of a post that mentions its recipient, by somebody else.
Mentioned ==
    \A i \in Ids, p \in PostIds : notifications[<<i, p>>] > 0 =>
        /\ p \in DOMAIN posts /\ posts[p].author # i
        /\ \E n \in posts[p].mentions : <<i, n>> \in users

\* A user who is still owed something by the job in hand, or whose message was
\* not taken yet, has at most one notification of each earlier start.
CountParts ==
    \A i \in Ids, p \in PostIds :
        /\ notifications[<<i, p>>] <= restarts + 1
        /\ ~ Reached(p) => notifications[<<i, p>>] <= restarts
        /\ Owes(i) /\ p = Message => notifications[<<i, p>>] <= restarts

\* Whoever is due a notification has it, or the job in hand owes it, or the
\* message failed.
DeliveryParts ==
    /\ job # NoJob => \A i \in Post.due : notifications[<<i, Message>>] > 0 \/ Owes(i)
    /\ \A x \in Partitions : \A k \in handled[x] :
          log[x][k] \in failed \/ \A i \in posts[log[x][k]].due : notifications[<<i, log[x][k]>>] > 0

MentionsInv ==
    /\ AccountsInv /\ TypeOK
    /\ OneName /\ TopicParts /\ OffsetParts /\ JobParts
    /\ Mentioned /\ CountParts /\ DeliveryParts

-----------------------------------------------------------------------------
\* Nothing is published and nobody owed anything.
LEMMA MentionsInit == Init => MentionsInv
<1> SUFFICES ASSUME Init PROVE MentionsInv
    OBVIOUS
<1>1. /\ AccountsInv /\ users = {} /\ signup = [s \in Signups |-> NoSignup]
      /\ posts = <<>> /\ log = [x \in Partitions |-> <<>>]
      /\ position = [x \in Partitions |-> 0] /\ committed = position
      /\ job = NoJob /\ notifications = [r \in Ids \X PostIds |-> 0]
      /\ failures = 0 /\ restarts = 0
      /\ handled = [x \in Partitions |-> {}] /\ failed = {}
    BY AccountsInit DEF Init, InitAccounts
<1>2. TypeOK
    BY <1>1, MentionBounds DEF TypeOK, NoJob, AccountsInv, PostIds
<1>3. OneName
    BY <1>1 DEF OneName, NoSignup
<1>4. TopicParts /\ OffsetParts /\ JobParts
    BY <1>1 DEF TopicParts, OffsetParts, JobParts
<1>5. Mentioned /\ CountParts
    <2>1. \A i \in Ids, p \in PostIds : notifications[<<i, p>>] = 0
        BY <1>1
    <2> QED
        BY <1>1, <2>1 DEF Mentioned, CountParts
<1>6. DeliveryParts
    BY <1>1 DEF DeliveryParts
<1> QED
    BY <1>1, <1>2, <1>3, <1>4, <1>5, <1>6 DEF MentionsInv

\* A signup that moves on, and inserts its own row at most, leaves one name.
LEMMA OneNameMoves ==
    ASSUME AccountsInv, OneName, NEW s \in Signups, NEW next, Moves(s, next),
           \/ users' = users
           \/ signup[s].stage = "row" /\ users' = users \cup {<<signup[s].id, signup[s].name>>}
    PROVE  OneName' /\ users \subseteq users'
<1> DEFINE id == signup[s].id
           row == <<id, signup[s].name>>
<1>1. /\ signup'[s] = next /\ \A t \in Signups \ {s} : signup'[t] = signup[t]
      /\ next # NoSignup => next.id = id
    BY MovedOn
<1>2. next.stage # "row" /\ signup[s] # NoSignup
    <2>1. signup[s] \in [stage : {"row", "node", "directory"}, name : Names, id : 1 .. Len(shardOf)]
        BY ActiveSignup DEF Moves, AccountsInv
    <2> QED
        BY <2>1 DEF Moves, NoSignup
<1>3. \A u \in users' : u \in users \/ (signup[s].stage = "row" /\ u = row)
    OBVIOUS
<1>4. signup[s].stage = "row" => \A u \in users : u[1] # id
    BY DEF OneName
<1>5. ASSUME NEW u \in users', NEW v \in users', u[1] = v[1] PROVE u = v
    <2>1. CASE u \in users /\ v \in users
        BY <1>5, <2>1 DEF OneName
    <2>2. CASE u = row /\ v = row
        BY <2>2
    <2>3. CASE signup[s].stage = "row" /\ u \in users /\ v = row
        BY <1>4, <1>5, <2>3
    <2>4. CASE signup[s].stage = "row" /\ v \in users /\ u = row
        BY <1>4, <1>5, <2>4
    <2> QED
        BY <1>3, <2>1, <2>2, <2>3, <2>4
<1>6. ASSUME NEW t \in Signups, signup'[t].stage = "row", NEW u \in users'
      PROVE  u[1] # signup'[t].id
    <2>1. t # s /\ signup'[t] = signup[t] /\ signup[t].stage = "row"
        BY <1>1, <1>2, <1>6
    <2>2. signup[t] # NoSignup
        BY <2>1 DEF NoSignup
    <2>3. signup[t].id # id
        BY <1>2, <2>1, <2>2 DEF OneName
    <2>4. CASE u \in users
        BY <2>1, <2>4 DEF OneName
    <2>5. CASE u = row
        BY <2>1, <2>3, <2>5
    <2> QED
        BY <1>3, <2>4, <2>5
<1>7. ASSUME NEW q \in Signups, NEW t \in Signups,
             signup'[q] # NoSignup, signup'[t] # NoSignup, signup'[q].id = signup'[t].id
      PROVE  q = t
    <2>1. /\ signup[q] # NoSignup /\ signup[q].id = signup'[q].id
          /\ signup[t] # NoSignup /\ signup[t].id = signup'[t].id
        BY <1>1, <1>2, <1>7
    <2> QED
        BY <1>7, <2>1 DEF OneName
<1> QED
    BY <1>5, <1>6, <1>7 DEF OneName

\* A signup that begins has an ID of its own.
LEMMA OneNameBegins ==
    ASSUME AccountsInv, OneName, NEW s \in Signups, NEW n \in Names, BeginSignup(s, n)
    PROVE  OneName' /\ users \subseteq users'
<1> DEFINE id == Len(shardOf) + 1
           new == [stage |-> "row", name |-> n, id |-> id]
<1>1. signup' = [signup EXCEPT ![s] = new] /\ users' = users /\ signup[s] = NoSignup
    BY DEF BeginSignup, StartSignup
<1>2. /\ Len(shardOf) \in Nat /\ users \subseteq (1 .. Len(shardOf)) \X Names
      /\ DOMAIN signup = Signups
    BY DEF AccountsInv, AccountsTypeOK
<1>3. \A t \in Signups : signup[t] # NoSignup => signup[t].id # id
    <2> SUFFICES ASSUME NEW t \in Signups, signup[t] # NoSignup PROVE signup[t].id # id
        OBVIOUS
    <2>1. signup[t].id \in 1 .. Len(shardOf)
        BY ActiveSignup DEF AccountsInv
    <2> QED
        BY <1>2, <2>1
<1>4. \A u \in users : u[1] # id
    BY <1>2
<1>5. signup'[s] = new /\ new.id = id /\ \A t \in Signups \ {s} : signup'[t] = signup[t]
    BY <1>1, <1>2
<1> HIDE DEF id, new
<1>6. ASSUME NEW t \in Signups, signup'[t].stage = "row", NEW u \in users'
      PROVE  u[1] # signup'[t].id
    BY <1>1, <1>4, <1>5, <1>6 DEF OneName
<1>7. ASSUME NEW q \in Signups, NEW t \in Signups,
             signup'[q] # NoSignup, signup'[t] # NoSignup, signup'[q].id = signup'[t].id
      PROVE  q = t
    <2>1. CASE q = s \/ t = s
        BY <1>3, <1>5, <1>7, <2>1
    <2>2. CASE q # s /\ t # s
        BY <1>5, <1>7, <2>2 DEF OneName
    <2> QED
        BY <2>1, <2>2
<1> QED
    BY <1>1, <1>6, <1>7 DEF OneName

\* Every step of a signup leaves one name for each user, and every row.
LEMMA OneNameStep ==
    ASSUME AccountsInv, OneName, [Next]_vars
    PROVE  OneName' /\ users \subseteq users'
<1>1. CASE UNCHANGED accountVars
    BY <1>1 DEF accountVars, OneName
<1>2. CASE AccountsNext
    <2>1. PICK s \in Signups : CreateUser(s)
        BY <1>2 DEF AccountsNext
    <2>2. CASE \E n \in Names : BeginSignup(s, n)
        BY <2>2, OneNameBegins
    <2>3. CASE InsertUser(s) \/ EnsureUserNode(s) \/ SetUsername(s) \/ SignupFails(s)
        <3>1. signup[s] # NoSignup
            BY <2>3 DEF InsertUser, EnsureUserNode, SetUsername, SignupFails, AtStage, NoSignup
        <3>2. signup[s] \in [stage : {"row", "node", "directory"}, name : Names, id : 1 .. Len(shardOf)]
            BY <3>1, ActiveSignup DEF AccountsInv
        <3>3. shardOf' = shardOf /\ signupFailures' \in 0 .. MaxSignupFailures
            BY <2>3, AccountBounds
               DEF InsertUser, EnsureUserNode, SetUsername, SignupFails, AccountsInv, AccountsTypeOK
        <3>4. PICK next \in {NoSignup} \cup {[signup[s] EXCEPT !.stage = st] : st \in {"node", "directory"}} :
                  signup' = [signup EXCEPT ![s] = next]
            BY <2>3 DEF InsertUser, EnsureUserNode, SetUsername, SignupFails, EndSignup
        <3>5. Moves(s, next)
            BY <3>1, <3>3, <3>4 DEF Moves
        <3>6. \/ users' = users
              \/ signup[s].stage = "row" /\ users' = users \cup {<<signup[s].id, signup[s].name>>}
            BY <2>3 DEF InsertUser, EnsureUserNode, SetUsername, SignupFails, AtStage
        <3> QED
            BY <3>5, <3>6, OneNameMoves
    <2> QED
        BY <2>1, <2>2, <2>3 DEF CreateUser
<1> QED
    BY <1>1, <1>2, OthersKeepAccounts

\* Nobody who was welcomed is forgotten.
LEMMA WelcomedStay ==
    ASSUME [Next]_vars
    PROVE  welcomed \subseteq welcomed'
<1>1. CASE AccountsNext
    BY <1>1 DEF AccountsNext, CreateUser, BeginSignup, StartSignup, InsertUser, EnsureUserNode,
                SetUsername, SignupFails
<1>2. CASE UNCHANGED accountVars
    BY <1>2 DEF accountVars
<1> QED
    BY <1>1, <1>2, OthersKeepAccounts

\* The directory leads from the name of a welcomed user to that user.
LEMMA DirectoryFinds ==
    ASSUME AccountsInv, OneName, NEW i \in welcomed, NEW n, <<i, n>> \in users
    PROVE  directory[n] = i
<1>1. PICK m \in Names : <<i, m>> \in users /\ directory[m] = i
    BY DEF AccountsInv, DirectoryTrue
<1>2. <<i, m>> = <<i, n>>
    BY <1>1 DEF OneName
<1> QED
    BY <1>1, <1>2

-----------------------------------------------------------------------------
\* The types of the notification-service's state.
LEMMA MentionTypes ==
    ASSUME MentionsInv
    PROVE  /\ posts \in Seq([author : Ids, mentions : SUBSET Names, due : SUBSET Ids])
           /\ Len(posts) \in 0 .. MaxPosts /\ DOMAIN posts = 1 .. Len(posts) /\ DOMAIN posts \subseteq PostIds
           /\ \A p \in DOMAIN posts :
                 /\ posts[p] = [author |-> posts[p].author, mentions |-> posts[p].mentions, due |-> posts[p].due]
                 /\ posts[p].author \in Ids /\ posts[p].mentions \subseteq Names /\ posts[p].due \subseteq Ids
           /\ log \in [Partitions -> Seq(PostIds)]
           /\ \A x \in Partitions : Len(log[x]) \in Nat
           /\ position \in [Partitions -> 0 .. MaxPosts] /\ committed \in [Partitions -> 0 .. MaxPosts]
           /\ \A x \in Partitions : position[x] \in 0 .. MaxPosts /\ committed[x] \in 0 .. MaxPosts
           /\ job \in [stage : {"idle", "lookup", "create", "commit"}, partition : Partitions \cup {None},
                       todo : SUBSET Names, recipient : Ids \cup {None}]
           /\ notifications \in [Ids \X PostIds -> Nat]
           /\ \A i \in Ids, p \in PostIds : notifications[<<i, p>>] \in Nat
           /\ failed \subseteq PostIds /\ handled \in [Partitions -> SUBSET PostIds]
           /\ failures \in 0 .. MaxFailures /\ restarts \in 0 .. MaxRestarts
           /\ MaxPosts \in Nat /\ MaxFailures \in Nat /\ MaxRestarts \in Nat
           /\ restarts \in Nat
<1>1. /\ posts \in Seq([author : Ids, mentions : SUBSET Names, due : SUBSET Ids])
      /\ Len(posts) <= MaxPosts /\ Len(posts) \in Nat /\ DOMAIN posts = 1 .. Len(posts)
      /\ MaxPosts \in Nat /\ MaxFailures \in Nat /\ MaxRestarts \in Nat
    BY MentionBounds DEF MentionsInv, TypeOK
<1>2. \A p \in DOMAIN posts : posts[p] \in [author : Ids, mentions : SUBSET Names, due : SUBSET Ids]
    <2> DEFINE R == [author : Ids, mentions : SUBSET Names, due : SUBSET Ids]
    <2>1. posts \in Seq(R) /\ DOMAIN posts = 1 .. Len(posts)
        BY <1>1
    <2> HIDE DEF R
    <2>2. \A p \in DOMAIN posts : posts[p] \in R
        BY <2>1
    <2> QED
        BY <2>2 DEF R
<1>3. \A p \in DOMAIN posts :
         /\ posts[p] = [author |-> posts[p].author, mentions |-> posts[p].mentions, due |-> posts[p].due]
         /\ posts[p].author \in Ids /\ posts[p].mentions \subseteq Names /\ posts[p].due \subseteq Ids
    BY <1>2
<1>4. Len(posts) \in 0 .. MaxPosts /\ DOMAIN posts \subseteq PostIds
    BY <1>1 DEF PostIds
<1>5. log \in [Partitions -> Seq(PostIds)] /\ \A x \in Partitions : Len(log[x]) \in Nat
    BY DEF MentionsInv, TypeOK
<1>6. position \in [Partitions -> 0 .. MaxPosts] /\ committed \in [Partitions -> 0 .. MaxPosts]
    BY DEF MentionsInv, TypeOK
<1>7. \A x \in Partitions : position[x] \in 0 .. MaxPosts /\ committed[x] \in 0 .. MaxPosts
    BY <1>6
<1>8. /\ notifications \in [Ids \X PostIds -> Nat]
      /\ \A i \in Ids, p \in PostIds : notifications[<<i, p>>] \in Nat
    BY DEF MentionsInv, TypeOK
<1>9. /\ failed \subseteq PostIds /\ handled \in [Partitions -> SUBSET PostIds]
      /\ failures \in 0 .. MaxFailures /\ restarts \in 0 .. MaxRestarts /\ restarts \in Nat
      /\ job \in [stage : {"idle", "lookup", "create", "commit"}, partition : Partitions \cup {None},
                       todo : SUBSET Names, recipient : Ids \cup {None}]
    BY DEF MentionsInv, TypeOK
<1> QED
    BY <1>1, <1>3, <1>4, <1>5, <1>6, <1>7, <1>8, <1>9

\* What a job in progress has in hand.
LEMMA HeldMessage ==
    ASSUME MentionsInv, job # NoJob
    PROVE  /\ job.stage \in {"lookup", "create", "commit"} /\ job.partition \in Partitions
           /\ position[job.partition] \in 1 .. Len(log[job.partition])
           /\ position[job.partition] \in PostIds
           /\ Message \in DOMAIN posts /\ Message \in PostIds
           /\ Post.mentions \subseteq Names /\ Post.due \subseteq Ids /\ Post.author \in Ids
           /\ job.todo \subseteq Post.mentions
           /\ job.stage = "commit" => job.todo = {}
           /\ job.stage # "create" => job.recipient = None
           /\ job.stage = "create" =>
                 /\ job.recipient \in Ids /\ job.recipient # Post.author
                 /\ \E n \in Post.mentions \ job.todo : <<job.recipient, n>> \in users
<1>1. /\ job.stage \in {"lookup", "create", "commit"} /\ job.partition \in Partitions
      /\ position[job.partition] > 0
      /\ job.todo \subseteq Post.mentions
      /\ job.stage = "commit" => job.todo = {}
      /\ job.stage # "create" => job.recipient = None
      /\ job.stage = "create" =>
             /\ job.recipient \in Ids /\ job.recipient # Post.author
             /\ \E n \in Post.mentions \ job.todo : <<job.recipient, n>> \in users
    BY DEF MentionsInv, JobParts
<1>2. position[job.partition] <= Len(log[job.partition])
    BY <1>1 DEF MentionsInv, OffsetParts
<1>3. position[job.partition] \in 1 .. Len(log[job.partition]) /\ position[job.partition] \in PostIds
    BY <1>1, <1>2, MentionTypes DEF PostIds
<1>4. Message \in DOMAIN posts
    BY <1>1, <1>3 DEF MentionsInv, TopicParts, Message
<1> QED
    BY <1>1, <1>3, <1>4, MentionTypes DEF Post

\* A step of the consumer: the topic, the users and the directory stay.
ConsumerStep == NotifierStep \/ MessageFails \/ RestartNotifier

\* Which leaves the accounts and the topic alone.
LEMMA ConsumerKeeps ==
    ASSUME ConsumerStep
    PROVE  UNCHANGED accountVars /\ UNCHANGED topicVars
BY DEF ConsumerStep, NotifierStep, TakeMessage, Lookup, CreateNotification, FinishMentions,
       CommitMessage, MessageFails, RestartNotifier

-----------------------------------------------------------------------------
\* A step of a signup, or none: only rows and welcomes are added.
LEMMA SignupKeeps ==
    ASSUME MentionsInv, AccountsInv', OneName', users \subseteq users', welcomed \subseteq welcomed',
           UNCHANGED <<topicVars, notifyVars>>
    PROVE  MentionsInv'
<1> USE DEF topicVars, notifyVars
<1>1. TypeOK'
    BY DEF MentionsInv, TypeOK, AccountsInv
<1>2. TopicParts'
    BY DEF MentionsInv, TopicParts
<1>3. OffsetParts'
    BY DEF MentionsInv, OffsetParts, InHand
<1>4. JobParts'
    <2>1. Message' = Message /\ Post' = Post
        BY DEF Message, Post
    <2> QED
        BY <2>1 DEF MentionsInv, JobParts
<1>5. Mentioned'
    BY DEF MentionsInv, Mentioned
<1>6. Message' = Message /\ Post' = Post
    BY DEF Message, Post
<1>7. \A i : Owes(i) => Owes(i)'
    BY DEF Owes
<1>8. ASSUME NEW i \in Ids, NEW p \in PostIds, Owes(i)', p = Message, notifications[<<i, p>>] > 0
      PROVE  Owes(i)
    <2>1. CASE job.recipient = i
        BY <1>8, <2>1 DEF Owes
    <2>2. CASE \E n \in job.todo : <<i, n>> \in users'
        <3>1. PICK n \in job.todo : <<i, n>> \in users'
            BY <2>2
        <3>2. PICK m \in posts[p].mentions : <<i, m>> \in users
            BY <1>8 DEF MentionsInv, Mentioned
        <3>3. <<i, n>> = <<i, m>>
            BY <3>1, <3>2 DEF OneName
        <3> QED
            BY <1>8, <3>1, <3>2, <3>3 DEF Owes
    <2> QED
        BY <1>8, <2>1, <2>2 DEF Owes
<1>9. CountParts'
    <2> SUFFICES ASSUME NEW i \in Ids, NEW p \in PostIds
                 PROVE  /\ notifications[<<i, p>>] <= restarts + 1
                        /\ ~ Reached(p)' => notifications[<<i, p>>] <= restarts
                        /\ Owes(i)' /\ p = Message => notifications[<<i, p>>] <= restarts
        BY <1>6 DEF CountParts
    <2>1. /\ notifications[<<i, p>>] <= restarts + 1
          /\ ~ Reached(p) => notifications[<<i, p>>] <= restarts
          /\ Owes(i) /\ p = Message => notifications[<<i, p>>] <= restarts
        BY DEF MentionsInv, CountParts
    <2>2. Reached(p)' = Reached(p)
        BY DEF Reached
    <2>3. notifications[<<i, p>>] \in Nat /\ restarts \in Nat
        BY MentionTypes
    <2> QED
        BY <1>8, <2>1, <2>2, <2>3
<1>10. DeliveryParts'
    BY <1>6, <1>7 DEF MentionsInv, DeliveryParts
<1> QED
    BY <1>1, <1>2, <1>3, <1>4, <1>5, <1>9, <1>10 DEF MentionsInv

\* A post that is published changes nothing of the earlier ones.
LEMMA PublishKeeps ==
    ASSUME MentionsInv, NEW author \in welcomed, NEW mentions \in SUBSET Names,
           Publish(author, mentions)
    PROVE  MentionsInv'
<1> DEFINE new == Len(posts) + 1
           due == {i \in welcomed \ {author} : \E n \in mentions : <<i, n>> \in users}
           post == [author |-> author, mentions |-> mentions, due |-> due]
           at == PartitionOf[author]
           end == Len(log[at]) + 1
           R == [author : Ids, mentions : SUBSET Names, due : SUBSET Ids]
<1>1. /\ Len(posts) < MaxPosts /\ posts' = Append(posts, post)
      /\ log' = [log EXCEPT ![at] = Append(log[at], new)]
      /\ UNCHANGED <<accountVars, notifyVars>>
    BY DEF Publish
<1>2. UNCHANGED <<users, welcomed, position, committed, job, notifications, failures, restarts, handled, failed>>
    BY <1>1 DEF accountVars, notifyVars
<1>3. AccountsInv' /\ OneName'
    BY <1>1 DEF accountVars, MentionsInv, AccountsInv, AccountsTypeOK, PlacedByName, WritesDone,
                UsernameUnique, DirectoryTrue, OneName
<1>4. author \in Ids /\ due \subseteq Ids /\ at \in Partitions
    <2>1. welcomed \subseteq 1 .. Len(shardOf) /\ Len(shardOf) \in Nat /\ Len(shardOf) <= MaxUsers
        BY DEF MentionsInv, AccountsInv, AccountsTypeOK
    <2>2. welcomed \subseteq Ids
        BY <2>1, AccountBounds DEF Ids
    <2> QED
        BY <2>2, MentionPartitions DEF Ids
<1>5. post \in R
    BY <1>4
<1>6. /\ posts' \in Seq(R) /\ Len(posts') = new /\ DOMAIN posts' = 1 .. new
      /\ posts'[new] = post /\ \A p \in DOMAIN posts : posts'[p] = posts[p]
    <2>1. posts \in Seq(R)
        BY MentionTypes
    <2> HIDE DEF R, post
    <2> QED
        BY <1>1, <1>5, <2>1
<1>7. /\ new \in PostIds /\ new \notin DOMAIN posts /\ Len(posts') <= MaxPosts
      /\ DOMAIN posts' = DOMAIN posts \cup {new}
    BY <1>1, <1>6, MentionTypes DEF PostIds
<1>8. /\ log' \in [Partitions -> Seq(PostIds)]
      /\ log'[at] = Append(log[at], new) /\ \A x \in Partitions \ {at} : log'[x] = log[x]
    <2>1. log[at] \in Seq(PostIds) /\ log \in [Partitions -> Seq(PostIds)]
        BY <1>4, MentionTypes
    <2>2. Append(log[at], new) \in Seq(PostIds)
        BY <2>1, <1>7
    <2> HIDE DEF new
    <2> QED
        BY <1>1, <1>4, <2>1, <2>2
<1>9. /\ Len(log'[at]) = end /\ log'[at][end] = new /\ Len(log[at]) \in Nat
      /\ \A x \in Partitions : Len(log[x]) <= Len(log'[x]) /\ Len(log[x]) \in Nat
      /\ \A x \in Partitions : \A k \in 1 .. Len(log[x]) : log'[x][k] = log[x][k]
    <2>1. /\ Len(Append(log[at], new)) = end /\ Append(log[at], new)[end] = new
          /\ \A k \in 1 .. Len(log[at]) : Append(log[at], new)[k] = log[at][k]
        <3>1. log[at] \in Seq(PostIds)
            BY <1>4, MentionTypes
        <3> HIDE DEF new
        <3> QED
            BY <3>1, <1>7
    <2>2. ASSUME NEW x \in Partitions
          PROVE  /\ Len(log[x]) <= Len(log'[x]) /\ Len(log[x]) \in Nat
                 /\ \A k \in 1 .. Len(log[x]) : log'[x][k] = log[x][k]
        <3>1. Len(log[x]) \in Nat
            BY MentionTypes
        <3>2. CASE x = at
            BY <1>8, <2>1, <3>1, <3>2
        <3>3. CASE x # at
            BY <1>8, <3>1, <3>3
        <3> QED
            BY <3>2, <3>3
    <2> QED
        BY <1>4, <1>8, <2>1, <2>2
<1>10. \A x \in Partitions : \A k \in 1 .. Len(log'[x]) :
          k \in 1 .. Len(log[x]) \/ (x = at /\ k = end)
    <2> SUFFICES ASSUME NEW x \in Partitions, NEW k \in 1 .. Len(log'[x])
                 PROVE  k \in 1 .. Len(log[x]) \/ (x = at /\ k = end)
        OBVIOUS
    <2>1. CASE x = at
        BY <1>9, <2>1
    <2>2. CASE x # at
        BY <1>8, <2>2
    <2> QED
        BY <2>1, <2>2
<1>11. TypeOK'
    BY <1>2, <1>3, <1>6, <1>7, <1>8, MentionTypes DEF TypeOK, AccountsInv
<1> HIDE DEF new, post, at, end, R
<1>12. \A x \in Partitions : \A k \in 1 .. Len(log[x]) : log[x][k] \in DOMAIN posts
    BY DEF MentionsInv, TopicParts
<1>13. TopicParts'
    <2>1. ASSUME NEW x \in Partitions, NEW k \in 1 .. Len(log'[x])
          PROVE  log'[x][k] \in DOMAIN posts'
        BY <1>7, <1>9, <1>10, <1>12
    <2>2. ASSUME NEW x \in Partitions, NEW y \in Partitions,
                 NEW k \in 1 .. Len(log'[x]), NEW l \in 1 .. Len(log'[y]), log'[x][k] = log'[y][l]
          PROVE  x = y /\ k = l
        <3>1. CASE k \in 1 .. Len(log[x]) /\ l \in 1 .. Len(log[y])
            BY <2>2, <3>1, <1>9 DEF MentionsInv, TopicParts
        <3>2. CASE k \in 1 .. Len(log[x]) /\ y = at /\ l = end
            BY <2>2, <3>2, <1>7, <1>9, <1>12
        <3>3. CASE l \in 1 .. Len(log[y]) /\ x = at /\ k = end
            BY <2>2, <3>3, <1>7, <1>9, <1>12
        <3> QED
            BY <3>1, <3>2, <3>3, <1>10
    <2>3. ASSUME NEW p \in DOMAIN posts', NEW i \in posts'[p].due
          PROVE  /\ i \in welcomed' /\ i # posts'[p].author
                 /\ \E n \in posts'[p].mentions : <<i, n>> \in users'
        <3>1. CASE p \in DOMAIN posts
            <4>1. posts'[p] = posts[p]
                BY <3>1, <1>6
            <4> QED
                BY <2>3, <3>1, <4>1, <1>2 DEF MentionsInv, TopicParts
        <3>2. CASE p = new
            BY <2>3, <3>2, <1>2, <1>6 DEF post
        <3> QED
            BY <3>1, <3>2, <1>7
    <2>4. ASSUME NEW x \in Partitions PROVE Len(log'[x]) <= Len(posts')
        <3>1. Len(log[x]) <= Len(posts) /\ Len(log[x]) \in Nat /\ Len(posts) \in Nat
            BY MentionTypes DEF MentionsInv, TopicParts
        <3>2. CASE x = at
            BY <1>6, <1>9, <3>1, <3>2 DEF new, end
        <3>3. CASE x # at
            BY <1>6, <1>8, <3>1, <3>3 DEF new
        <3> QED
            BY <3>2, <3>3
    <2> QED
        BY <2>1, <2>2, <2>3, <2>4 DEF TopicParts
<1>14. OffsetParts'
    <2> SUFFICES ASSUME NEW x \in Partitions
                 PROVE  /\ committed[x] <= position[x] /\ position[x] <= Len(log'[x])
                        /\ handled[x] \subseteq 1 .. Len(log'[x])
                        /\ 1 .. committed[x] \subseteq handled[x]
                        /\ \A k \in 1 .. position[x] : k \in handled[x] \/ (k = position[x] /\ InHand(x))
        BY <1>2 DEF OffsetParts, InHand
    <2>1. /\ committed[x] <= position[x] /\ position[x] <= Len(log[x])
          /\ handled[x] \subseteq 1 .. Len(log[x])
          /\ 1 .. committed[x] \subseteq handled[x]
          /\ \A k \in 1 .. position[x] : k \in handled[x] \/ (k = position[x] /\ InHand(x))
        BY DEF MentionsInv, OffsetParts
    <2>2. Len(log[x]) <= Len(log'[x]) /\ Len(log[x]) \in Nat /\ Len(log'[x]) \in Nat /\ position[x] \in Nat
        BY <1>9, <1>8, MentionTypes
    <2>3. position[x] <= Len(log'[x]) /\ 1 .. Len(log[x]) \subseteq 1 .. Len(log'[x])
        BY <2>1, <2>2
    <2> QED
        BY <2>1, <2>3
<1>15. job # NoJob => Message' = Message /\ Post' = Post
    <2> SUFFICES ASSUME job # NoJob PROVE Message' = Message /\ Post' = Post
        OBVIOUS
    <2>1. Message' = Message
        BY HeldMessage, <1>2, <1>9 DEF Message
    <2> QED
        BY HeldMessage, <2>1, <1>6 DEF Post
<1>16. JobParts'
    BY <1>2, <1>15 DEF MentionsInv, JobParts
<1>17. Mentioned'
    BY <1>2, <1>6, <1>7 DEF MentionsInv, Mentioned
<1>18. CountParts'
    <2> SUFFICES ASSUME NEW i \in Ids, NEW p \in PostIds
                 PROVE  /\ notifications[<<i, p>>] <= restarts + 1
                        /\ ~ Reached(p)' => notifications[<<i, p>>] <= restarts
                        /\ Owes(i)' /\ p = Message' => notifications[<<i, p>>] <= restarts
        BY <1>2 DEF CountParts
    <2>1. /\ notifications[<<i, p>>] <= restarts + 1
          /\ ~ Reached(p) => notifications[<<i, p>>] <= restarts
          /\ Owes(i) /\ p = Message => notifications[<<i, p>>] <= restarts
        BY DEF MentionsInv, CountParts
    <2>2. Reached(p) => Reached(p)'
        <3> SUFFICES ASSUME Reached(p) PROVE Reached(p)'
            OBVIOUS
        <3>0. PICK x \in Partitions : \E k \in 1 .. position[x] : log[x][k] = p
            BY DEF Reached
        <3>1. PICK k \in 1 .. position[x] : log[x][k] = p
            BY <3>0
        <3>2. k \in 1 .. Len(log[x])
            BY MentionTypes DEF MentionsInv, OffsetParts
        <3>3. log'[x][k] = p /\ k \in 1 .. position'[x]
            BY <1>2, <1>9, <3>1, <3>2
        <3> QED
            BY <3>3 DEF Reached
    <2>3. Owes(i)' = Owes(i) /\ (Owes(i) => Message' = Message)
        BY <1>2, <1>15 DEF Owes
    <2> QED
        BY <2>1, <2>2, <2>3
<1>19. DeliveryParts'
    <2>1. \A i : Owes(i)' = Owes(i)
        BY <1>2 DEF Owes
    <2>2. job # NoJob => \A i \in Post'.due : notifications[<<i, Message'>>] > 0 \/ Owes(i)'
        BY <1>15, <2>1 DEF MentionsInv, DeliveryParts
    <2>3. ASSUME NEW x \in Partitions, NEW k \in handled[x]
          PROVE  log'[x][k] \in failed \/ \A i \in posts'[log'[x][k]].due : notifications[<<i, log'[x][k]>>] > 0
        <3>1. k \in 1 .. Len(log[x])
            BY DEF MentionsInv, OffsetParts
        <3>2. log'[x][k] = log[x][k] /\ posts'[log[x][k]] = posts[log[x][k]]
            BY <3>1, <1>6, <1>9, <1>12
        <3> QED
            BY <3>2 DEF MentionsInv, DeliveryParts
    <2> QED
        BY <1>2, <2>2, <2>3 DEF DeliveryParts
<1> QED
    BY <1>3, <1>11, <1>13, <1>14, <1>16, <1>17, <1>18, <1>19 DEF MentionsInv

-----------------------------------------------------------------------------
\* What a step of the consumer leaves true.
LEMMA ConsumerRest ==
    ASSUME MentionsInv, ConsumerStep
    PROVE  /\ AccountsInv' /\ OneName' /\ TopicParts'
           /\ UNCHANGED <<users, welcomed, directory, posts, log>>
<1>1. /\ UNCHANGED <<shardOf, users, nodes, directory, signup, signupFailures, welcomed>>
      /\ UNCHANGED <<posts, log>>
    BY ConsumerKeeps DEF accountVars, topicVars
<1>2. AccountsInv' /\ OneName'
    BY <1>1 DEF MentionsInv, AccountsInv, AccountsTypeOK, PlacedByName, WritesDone,
                UsernameUnique, DirectoryTrue, OneName
<1>3. TopicParts'
    BY <1>1 DEF MentionsInv, TopicParts
<1> QED
    BY <1>1, <1>2, <1>3

\* The next message of a partition was not reached before.
LEMMA TakeKeeps ==
    ASSUME MentionsInv, NEW x \in Partitions, TakeMessage(x)
    PROVE  MentionsInv'
<1> DEFINE k == position[x] + 1
           m == log[x][k]
<1>1. /\ job = NoJob /\ position[x] < Len(log[x])
      /\ position' = [position EXCEPT ![x] = k]
      /\ job' = [stage |-> "lookup", partition |-> x, recipient |-> None, todo |-> posts[m].mentions]
      /\ UNCHANGED <<committed, notifications, restarts, handled, failed, failures>>
    BY DEF TakeMessage
<1>2. /\ AccountsInv' /\ OneName' /\ TopicParts'
      /\ UNCHANGED <<users, welcomed, directory, posts, log>>
    BY ConsumerRest DEF ConsumerStep, NotifierStep
<1>3. position[x] \in Nat /\ Len(log[x]) \in Nat /\ DOMAIN position = Partitions
    BY MentionTypes
<1>4. k \in 1 .. Len(log[x]) /\ k \in Nat /\ k > 0
    BY <1>1, <1>3
<1>5. position'[x] = k /\ \A y \in Partitions \ {x} : position'[y] = position[y]
    BY <1>1, <1>3
<1>6. m \in DOMAIN posts
    BY <1>4 DEF MentionsInv, TopicParts
<1>7. /\ job'.stage = "lookup" /\ job'.partition = x /\ job'.todo = posts[m].mentions
      /\ job'.recipient = None /\ job' # NoJob
    BY <1>1 DEF NoJob
<1>8. Message' = m /\ Post' = posts[m]
    BY <1>2, <1>5, <1>7 DEF Message, Post
<1>9. Len(log[x]) <= MaxPosts /\ posts[m].mentions \subseteq Names
    <2>1. Len(log[x]) <= Len(posts) /\ Len(posts) \in 0 .. MaxPosts
        BY MentionTypes DEF MentionsInv, TopicParts
    <2> QED
        BY <1>3, <1>6, <2>1, MentionTypes
<1>10. TypeOK'
    <2>1. position' \in [Partitions -> 0 .. MaxPosts]
        BY <1>1, <1>3, <1>4, <1>9, MentionTypes
    <2>2. job' \in [stage : {"idle", "lookup", "create", "commit"}, partition : Partitions \cup {None},
                    todo : SUBSET Names, recipient : Ids \cup {None}]
        BY <1>1, <1>9
    <2> QED
        BY <1>1, <1>2, <2>1, <2>2, MentionTypes DEF TypeOK, AccountsInv
<1> HIDE DEF k, m
<1>11. OffsetParts'
    <2> SUFFICES ASSUME NEW y \in Partitions
                 PROVE  /\ committed[y] <= position'[y] /\ position'[y] <= Len(log[y])
                        /\ handled[y] \subseteq 1 .. Len(log[y])
                        /\ 1 .. committed[y] \subseteq handled[y]
                        /\ \A l \in 1 .. position'[y] : l \in handled[y] \/ (l = position'[y] /\ InHand(y)')
        BY <1>1, <1>2 DEF OffsetParts
    <2>1. /\ committed[y] <= position[y] /\ position[y] <= Len(log[y])
          /\ handled[y] \subseteq 1 .. Len(log[y])
          /\ 1 .. committed[y] \subseteq handled[y]
          /\ \A l \in 1 .. position[y] : l \in handled[y]
        BY <1>1 DEF MentionsInv, OffsetParts, InHand, NoJob
    <2>2. committed[y] \in Nat /\ position[y] \in Nat
        BY MentionTypes
    <2>3. CASE y = x
        <3>1. InHand(y)' /\ position'[y] = position[y] + 1
            BY <1>5, <1>7, <2>3 DEF InHand, k
        <3> QED
            BY <1>1, <1>3, <2>1, <2>2, <2>3, <3>1
    <2>4. CASE y # x
        BY <1>5, <2>1, <2>4
    <2> QED
        BY <2>3, <2>4
<1>12. JobParts'
    BY <1>4, <1>5, <1>7, <1>8 DEF JobParts
<1>13. Mentioned'
    BY <1>1, <1>2 DEF MentionsInv, Mentioned
<1>14. ~ Reached(m)
    <2> SUFFICES ASSUME Reached(m) PROVE FALSE
        OBVIOUS
    <2>1. PICK y \in Partitions : \E l \in 1 .. position[y] : log[y][l] = m
        BY DEF Reached
    <2>2. PICK l \in 1 .. position[y] : log[y][l] = m
        BY <2>1
    <2>3. l \in 1 .. Len(log[y])
        BY MentionTypes DEF MentionsInv, OffsetParts
    <2>4. y = x /\ l = k
        BY <2>2, <2>3, <1>4 DEF MentionsInv, TopicParts, m
    <2> QED
        BY <2>2, <2>4, <1>3 DEF k
<1>15. \A p : Reached(p) => Reached(p)'
    <2> SUFFICES ASSUME NEW p, Reached(p) PROVE Reached(p)'
        OBVIOUS
    <2>1. PICK y \in Partitions : \E l \in 1 .. position[y] : log[y][l] = p
        BY DEF Reached
    <2>2. PICK l \in 1 .. position[y] : log[y][l] = p
        BY <2>1
    <2>3. l \in 1 .. position'[y]
        <3>1. CASE y = x
            BY <1>3, <1>5, <3>1 DEF k
        <3>2. CASE y # x
            BY <1>5, <3>2
        <3> QED
            BY <3>1, <3>2
    <2> QED
        BY <2>2, <2>3, <1>2 DEF Reached
<1>16. CountParts'
    BY <1>1, <1>8, <1>14, <1>15 DEF MentionsInv, CountParts
<1>17. DeliveryParts'
    <2>1. ASSUME NEW i \in posts[m].due PROVE Owes(i)'
        <3>1. \E n \in posts[m].mentions : <<i, n>> \in users
            BY <1>6 DEF MentionsInv, TopicParts
        <3> QED
            BY <1>2, <1>7, <3>1 DEF Owes
    <2> QED
        BY <1>1, <1>2, <1>8, <2>1 DEF MentionsInv, DeliveryParts
<1> QED
    BY <1>2, <1>10, <1>11, <1>12, <1>13, <1>16, <1>17 DEF MentionsInv

\* Nobody's ID is None, and what the directory names is somebody's.
LEMMA DirectoryUsers ==
    ASSUME MentionsInv, NEW n \in Names, directory[n] # None
    PROVE  directory[n] \in Ids /\ <<directory[n], n>> \in users
<1>1. directory[n] \in 1 .. Len(shardOf) /\ Len(shardOf) <= MaxUsers /\ Len(shardOf) \in Nat
    BY DEF MentionsInv, AccountsInv, AccountsTypeOK
<1>2. <<directory[n], n>> \in users
    BY DEF MentionsInv, AccountsInv, DirectoryTrue
<1> QED
    BY <1>1, <1>2, AccountBounds DEF Ids

\* A name that is looked up is found if its user is due a notification.
LEMMA LookupKeeps ==
    ASSUME MentionsInv, NEW n \in Names, Lookup(n)
    PROVE  MentionsInv'
<1> DEFINE found == directory[n] \notin {None, Post.author}
<1>1. /\ job.stage = "lookup" /\ n \in job.todo
      /\ job' = IF found
                THEN [job EXCEPT !.todo = job.todo \ {n}, !.stage = "create", !.recipient = directory[n]]
                ELSE [job EXCEPT !.todo = job.todo \ {n}]
      /\ UNCHANGED <<position, committed, notifications, restarts, handled, failed, failures>>
    BY DEF Lookup
<1>2. /\ AccountsInv' /\ OneName' /\ TopicParts'
      /\ UNCHANGED <<users, welcomed, directory, posts, log>>
    BY ConsumerRest DEF ConsumerStep, NotifierStep
<1>3. /\ job \in [stage : {"idle", "lookup", "create", "commit"}, partition : Partitions \cup {None},
                  todo : SUBSET Names, recipient : Ids \cup {None}]
      /\ job # NoJob /\ None \notin Ids
    BY <1>1, MentionTypes, NoneIsNoUser DEF NoJob, Ids
<1>4. /\ job'.partition = job.partition /\ job'.todo = job.todo \ {n} /\ job' # NoJob
      /\ job'.stage \in {"lookup", "create"}
      /\ found => job'.stage = "create" /\ job'.recipient = directory[n]
      /\ ~ found => job'.stage = "lookup" /\ job'.recipient = job.recipient
    <2>1. CASE found
        BY <1>1, <1>3, <2>1 DEF NoJob
    <2>2. CASE ~ found
        BY <1>1, <1>3, <2>2 DEF NoJob
    <2> QED
        BY <2>1, <2>2
<1>5. /\ job.partition \in Partitions /\ job.recipient = None
      /\ position[job.partition] \in 1 .. Len(log[job.partition])
      /\ Message \in DOMAIN posts /\ Message \in PostIds
      /\ job.todo \subseteq Post.mentions /\ Post.due \subseteq Ids
    BY HeldMessage, <1>1, <1>3
<1>6. Message' = Message /\ Post' = Post
    BY <1>1, <1>2, <1>4 DEF Message, Post
<1>7. found => directory[n] \in Ids /\ <<directory[n], n>> \in users
    BY DirectoryUsers
<1>8. TypeOK'
    <2>1. job' \in [stage : {"idle", "lookup", "create", "commit"}, partition : Partitions \cup {None},
                    todo : SUBSET Names, recipient : Ids \cup {None}]
        <3>1. CASE found
            BY <1>1, <1>3, <1>7, <3>1
        <3>2. CASE ~ found
            BY <1>1, <1>3, <3>2
        <3> QED
            BY <3>1, <3>2
    <2> QED
        BY <1>1, <1>2, <2>1, MentionTypes DEF TypeOK, AccountsInv
<1>9. OffsetParts'
    <2>1. \A x \in Partitions : InHand(x) => InHand(x)'
        BY <1>4 DEF InHand
    <2> QED
        BY <1>1, <1>2, <2>1 DEF MentionsInv, OffsetParts
<1>10. JobParts'
    <2>1. /\ job'.stage \in {"lookup", "create", "commit"} /\ job'.partition \in Partitions
          /\ position'[job'.partition] > 0
          /\ job'.todo \subseteq Post'.mentions
          /\ job'.stage # "commit"
        BY <1>1, <1>4, <1>5, <1>6
    <2>2. CASE found
        <3>1. /\ job'.stage = "create" /\ job'.recipient \in Ids /\ job'.recipient # Post'.author
              /\ n \in Post'.mentions \ job'.todo /\ <<job'.recipient, n>> \in users'
            BY <1>1, <1>2, <1>4, <1>5, <1>6, <1>7, <2>2
        <3> QED
            BY <2>1, <3>1 DEF JobParts
    <2>3. CASE ~ found
        <3>1. job'.stage = "lookup" /\ job'.recipient = None
            BY <1>4, <1>5, <2>3
        <3> QED
            BY <2>1, <3>1 DEF JobParts
    <2> QED
        BY <2>2, <2>3
<1>11. Mentioned'
    BY <1>1, <1>2 DEF MentionsInv, Mentioned
<1>12. ASSUME NEW i \in Ids, Owes(i)' PROVE Owes(i)
    <2>1. CASE \E m \in job'.todo : <<i, m>> \in users
        BY <1>3, <1>4, <2>1 DEF Owes
    <2>2. CASE job'.recipient = i
        <3>1. found /\ <<i, n>> \in users
            BY <1>3, <1>4, <1>5, <1>7, <2>2
        <3> QED
            BY <1>1, <1>3, <3>1 DEF Owes
    <2> QED
        BY <1>2, <1>12, <2>1, <2>2 DEF Owes
<1>13. CountParts'
    <2>1. \A p : Reached(p)' = Reached(p)
        BY <1>1, <1>2 DEF Reached
    <2> QED
        BY <1>1, <1>6, <1>12, <2>1 DEF MentionsInv, CountParts
<1>14. ASSUME NEW i \in Post.due, Owes(i) PROVE Owes(i)'
    <2>1. i \in welcomed /\ i # Post.author /\ i \in Ids
        BY <1>5 DEF MentionsInv, TopicParts, Post
    <2>2. PICK m \in job.todo : <<i, m>> \in users
        BY <1>3, <1>5, <1>14, <2>1 DEF Owes
    <2>3. CASE m = n
        <3>1. directory[n] = i
            BY <2>1, <2>2, <2>3, DirectoryFinds DEF MentionsInv
        <3>2. found
            BY <1>3, <2>1, <3>1
        <3> QED
            BY <1>4, <3>1, <3>2 DEF Owes
    <2>4. CASE m # n
        BY <1>2, <1>4, <2>2, <2>4 DEF Owes
    <2> QED
        BY <2>3, <2>4
<1>15. DeliveryParts'
    <2>1. \A i \in Post.due : notifications[<<i, Message>>] > 0 \/ Owes(i)'
        BY <1>3, <1>14 DEF MentionsInv, DeliveryParts
    <2> QED
        BY <1>1, <1>2, <1>6, <2>1 DEF MentionsInv, DeliveryParts
<1> QED
    BY <1>2, <1>8, <1>9, <1>10, <1>11, <1>13, <1>15 DEF MentionsInv

\* A row that was inserted is the only one its recipient gets from this job.
LEMMA RowAdded ==
    ASSUME MentionsInv, job.stage = "create", NEW r, r = <<job.recipient, Message>>,
           notifications' = [notifications EXCEPT ![r] = @ + 1],
           UNCHANGED <<users, posts>>
    PROVE  /\ notifications' \in [Ids \X PostIds -> Nat]
           /\ r \in Ids \X PostIds /\ notifications'[r] = notifications[r] + 1
           /\ \A q \in (Ids \X PostIds) \ {r} : notifications'[q] = notifications[q]
           /\ \A q \in Ids \X PostIds : notifications[q] \in Nat /\ notifications[q] <= notifications'[q]
           /\ Reached(Message)
           /\ notifications[r] <= restarts
           /\ Mentioned'
<1>1. /\ job # NoJob /\ job.partition \in Partitions
      /\ position[job.partition] \in 1 .. Len(log[job.partition])
      /\ Message \in DOMAIN posts /\ Message \in PostIds
      /\ job.recipient \in Ids /\ job.recipient # Post.author
      /\ \E n \in Post.mentions \ job.todo : <<job.recipient, n>> \in users
    <2>1. job # NoJob
        BY DEF NoJob
    <2> QED
        BY <2>1, HeldMessage
<1>2. r \in Ids \X PostIds /\ notifications \in [Ids \X PostIds -> Nat]
    BY <1>1, MentionTypes
<1>3. /\ notifications' \in [Ids \X PostIds -> Nat]
      /\ notifications'[r] = notifications[r] + 1
      /\ \A q \in (Ids \X PostIds) \ {r} : notifications'[q] = notifications[q]
    BY <1>2
<1>4. \A q \in Ids \X PostIds : notifications[q] \in Nat /\ notifications[q] <= notifications'[q]
    BY <1>2, <1>3
<1>5. Reached(Message)
    <2>1. position[job.partition] \in 1 .. position[job.partition]
        BY <1>1, MentionTypes
    <2> QED
        BY <1>1, <2>1 DEF Reached, Message
<1>6. notifications[r] <= restarts
    BY <1>1 DEF MentionsInv, CountParts, Owes
<1>7. Mentioned'
    <2> SUFFICES ASSUME NEW i \in Ids, NEW p \in PostIds, notifications'[<<i, p>>] > 0
                 PROVE  /\ p \in DOMAIN posts /\ posts[p].author # i
                        /\ \E n \in posts[p].mentions : <<i, n>> \in users
        BY DEF Mentioned
    <2>1. CASE <<i, p>> = r
        BY <1>1, <2>1 DEF Post
    <2>2. CASE <<i, p>> # r
        BY <1>3, <2>2 DEF MentionsInv, Mentioned
    <2> QED
        BY <2>1, <2>2
<1> QED
    BY <1>2, <1>3, <1>4, <1>5, <1>6, <1>7

\* The types of what a step of the consumer leaves.
LEMMA TypesNext ==
    ASSUME MentionsInv, AccountsInv', UNCHANGED <<posts, log>>,
           position' \in [Partitions -> 0 .. MaxPosts], committed' \in [Partitions -> 0 .. MaxPosts],
           job' \in [stage : {"idle", "lookup", "create", "commit"}, partition : Partitions \cup {None},
                    todo : SUBSET Names, recipient : Ids \cup {None}],
           notifications' \in [Ids \X PostIds -> Nat],
           failed' \subseteq PostIds, handled' \in [Partitions -> SUBSET PostIds],
           failures' \in 0 .. MaxFailures, restarts' \in 0 .. MaxRestarts
    PROVE  TypeOK'
<1>1. AccountsTypeOK'
    BY DEF AccountsInv
<1>2. /\ posts \in Seq([author : Ids, mentions : SUBSET Names, due : SUBSET Ids])
      /\ Len(posts) <= MaxPosts /\ log \in [Partitions -> Seq(PostIds)]
    BY MentionTypes
<1> QED
    BY <1>1, <1>2 DEF TypeOK

\* After its row, the job owes the recipient nothing more: it has one name.
LEMMA CreateKeeps ==
    ASSUME MentionsInv, CreateNotification
    PROVE  MentionsInv'
<1> DEFINE r == <<job.recipient, Message>>
<1>1. /\ job.stage = "create"
      /\ notifications' = [notifications EXCEPT ![r] = @ + 1]
      /\ job' = [job EXCEPT !.stage = "lookup", !.recipient = None]
      /\ UNCHANGED <<position, committed, restarts, handled, failed, failures>>
    BY DEF CreateNotification
<1>2. /\ AccountsInv' /\ OneName' /\ TopicParts'
      /\ UNCHANGED <<users, welcomed, directory, posts, log>>
    BY ConsumerRest DEF ConsumerStep, NotifierStep
<1>3. /\ job \in [stage : {"idle", "lookup", "create", "commit"}, partition : Partitions \cup {None},
                  todo : SUBSET Names, recipient : Ids \cup {None}]
      /\ job # NoJob /\ None \notin Ids
    BY <1>1, MentionTypes, NoneIsNoUser DEF NoJob, Ids
<1>4. /\ job'.partition = job.partition /\ job'.todo = job.todo /\ job' # NoJob
      /\ job'.stage = "lookup" /\ job'.recipient = None
    BY <1>1, <1>3 DEF NoJob
<1>5. /\ job.partition \in Partitions /\ job.recipient \in Ids
      /\ position[job.partition] \in 1 .. Len(log[job.partition])
      /\ Message \in PostIds
      /\ job.todo \subseteq Post.mentions /\ Post.due \subseteq Ids
      /\ \E n \in Post.mentions \ job.todo : <<job.recipient, n>> \in users
    BY HeldMessage, <1>1, <1>3
<1>6. Message' = Message /\ Post' = Post
    BY <1>1, <1>2, <1>4 DEF Message, Post
<1>7. /\ notifications' \in [Ids \X PostIds -> Nat]
      /\ r \in Ids \X PostIds /\ notifications'[r] = notifications[r] + 1
      /\ \A q \in (Ids \X PostIds) \ {r} : notifications'[q] = notifications[q]
      /\ \A q \in Ids \X PostIds : notifications[q] \in Nat /\ notifications[q] <= notifications'[q]
      /\ Reached(Message) /\ notifications[r] <= restarts
      /\ Mentioned'
    BY <1>1, <1>2, RowAdded
<1>8. TypeOK'
    <2>1. job' \in [stage : {"idle", "lookup", "create", "commit"}, partition : Partitions \cup {None},
                    todo : SUBSET Names, recipient : Ids \cup {None}]
        BY <1>1, <1>3
    <2> QED
        BY <1>1, <1>2, <1>7, <2>1, MentionTypes, TypesNext
<1>9. OffsetParts'
    <2>1. \A x \in Partitions : InHand(x) => InHand(x)'
        BY <1>4 DEF InHand
    <2> QED
        BY <1>1, <1>2, <2>1 DEF MentionsInv, OffsetParts
<1>10. JobParts'
    <2>1. position'[job'.partition] > 0
        BY <1>1, <1>4, <1>5
    <2> QED
        BY <1>4, <1>5, <1>6, <2>1 DEF JobParts
<1>11. ASSUME NEW i \in Ids, Owes(i)' PROVE Owes(i) /\ i # job.recipient
    <2>1. PICK m \in job.todo : <<i, m>> \in users
        BY <1>2, <1>3, <1>4, <1>11 DEF Owes
    <2>2. i # job.recipient
        <3>1. PICK n \in Post.mentions \ job.todo : <<job.recipient, n>> \in users
            BY <1>5
        <3>2. ASSUME i = job.recipient PROVE FALSE
            <4>1. <<i, m>> = <<job.recipient, n>>
                BY <2>1, <3>1, <3>2 DEF MentionsInv, OneName
            <4> QED
                BY <3>1, <4>1
        <3> QED
            BY <3>2
    <2> QED
        BY <1>3, <2>1, <2>2 DEF Owes
<1>12. CountParts'
    <2> SUFFICES ASSUME NEW i \in Ids, NEW p \in PostIds
                 PROVE  /\ notifications'[<<i, p>>] <= restarts + 1
                        /\ ~ Reached(p) => notifications'[<<i, p>>] <= restarts
                        /\ Owes(i)' /\ p = Message => notifications'[<<i, p>>] <= restarts
        <3>1. \A p : Reached(p)' = Reached(p)
            BY <1>1, <1>2 DEF Reached
        <3> QED
            BY <1>1, <1>6, <3>1 DEF CountParts
    <2>1. /\ notifications[<<i, p>>] <= restarts + 1
          /\ ~ Reached(p) => notifications[<<i, p>>] <= restarts
          /\ Owes(i) /\ p = Message => notifications[<<i, p>>] <= restarts
        BY DEF MentionsInv, CountParts
    <2>2. CASE <<i, p>> = r
        <3>1. notifications'[<<i, p>>] <= restarts + 1
            BY <1>7, <2>2, MentionTypes
        <3>2. i = job.recipient /\ p = Message
            BY <2>2
        <3> QED
            BY <1>7, <1>11, <3>1, <3>2
    <2>3. CASE <<i, p>> # r
        <3>1. notifications'[<<i, p>>] = notifications[<<i, p>>]
            BY <1>7, <2>3
        <3> QED
            BY <1>11, <2>1, <3>1
    <2> QED
        BY <2>2, <2>3
<1>13. DeliveryParts'
    <2>1. ASSUME NEW i \in Post.due PROVE notifications'[<<i, Message>>] > 0 \/ Owes(i)'
        <3>1. i \in Ids /\ <<i, Message>> \in Ids \X PostIds
            BY <1>5
        <3>2. CASE notifications[<<i, Message>>] > 0
            BY <1>7, <3>1, <3>2
        <3>3. CASE i = job.recipient
            BY <1>7, <3>1, <3>3
        <3>4. CASE \E m \in job.todo : <<i, m>> \in users
            BY <1>2, <1>4, <3>4 DEF Owes
        <3> QED
            BY <1>3, <3>2, <3>3, <3>4 DEF MentionsInv, DeliveryParts, Owes
    <2>2. ASSUME NEW x \in Partitions, NEW k \in handled[x], log[x][k] \notin failed,
                 NEW i \in posts[log[x][k]].due
          PROVE  notifications'[<<i, log[x][k]>>] > 0
        <3>1. notifications[<<i, log[x][k]>>] > 0
            BY <2>2 DEF MentionsInv, DeliveryParts
        <3>2. i \in Ids /\ log[x][k] \in PostIds
            <4>1. log[x][k] \in DOMAIN posts
                BY DEF MentionsInv, OffsetParts, TopicParts
            <4> QED
                BY <4>1, MentionTypes
        <3>3. <<i, log[x][k]>> \in Ids \X PostIds
            BY <3>2
        <3> QED
            BY <1>7, <3>1, <3>3
    <2> QED
        BY <1>1, <1>2, <1>6, <2>1, <2>2 DEF DeliveryParts
<1> QED
    BY <1>2, <1>7, <1>8, <1>9, <1>10, <1>12, <1>13 DEF MentionsInv

\* The message in hand was the only one not handled: once it is, all are.
LEMMA OffsetsHandled ==
    ASSUME MentionsInv, job # NoJob, NEW x0, x0 = job.partition,
           handled'[x0] = handled[x0] \cup {position[x0]},
           \A x \in Partitions \ {x0} : handled'[x] = handled[x],
           UNCHANGED <<log, position>>,
           committed' \in {committed, [committed EXCEPT ![x0] = position[x0]]}
    PROVE  OffsetParts'
<1>1. x0 \in Partitions /\ position[x0] \in 1 .. Len(log[x0])
    BY HeldMessage
<1> SUFFICES ASSUME NEW x \in Partitions
             PROVE  /\ committed'[x] <= position[x] /\ position[x] <= Len(log[x])
                    /\ handled'[x] \subseteq 1 .. Len(log[x])
                    /\ 1 .. committed'[x] \subseteq handled'[x]
                    /\ \A k \in 1 .. position[x] : k \in handled'[x]
    BY DEF OffsetParts
<1>2. /\ committed[x] <= position[x] /\ position[x] <= Len(log[x])
      /\ handled[x] \subseteq 1 .. Len(log[x])
      /\ 1 .. committed[x] \subseteq handled[x]
      /\ \A k \in 1 .. position[x] : k \in handled[x] \/ (k = position[x] /\ InHand(x))
    BY DEF MentionsInv, OffsetParts
<1>3. position[x] \in Nat /\ committed \in [Partitions -> 0 .. MaxPosts]
    BY MentionTypes
<1>4. CASE x = x0
    <2>1. committed'[x] \in {committed[x], position[x]}
        BY <1>1, <1>3, <1>4
    <2>2. \A k \in 1 .. position[x] : k \in handled'[x]
        BY <1>2, <1>4
    <2> QED
        BY <1>1, <1>2, <1>3, <1>4, <2>1, <2>2
<1>5. CASE x # x0
    <2>1. committed'[x] = committed[x] /\ handled'[x] = handled[x]
        BY <1>1, <1>3, <1>5
    <2>2. ~ InHand(x)
        BY <1>5 DEF InHand
    <2> QED
        BY <1>2, <2>1, <2>2
<1> QED
    BY <1>4, <1>5

\* Every name was looked up: whoever is due a notification has it.
LEMMA FinishKeeps ==
    ASSUME MentionsInv, FinishMentions
    PROVE  MentionsInv'
<1> DEFINE x0 == job.partition
           k0 == position[x0]
<1>1. /\ job.stage = "lookup" /\ job.todo = {}
      /\ job' = [job EXCEPT !.stage = "commit"]
      /\ handled' = [handled EXCEPT ![x0] = handled[x0] \cup {k0}]
      /\ UNCHANGED <<position, committed, notifications, restarts, failed, failures>>
    BY DEF FinishMentions
<1>2. /\ AccountsInv' /\ OneName' /\ TopicParts'
      /\ UNCHANGED <<users, welcomed, directory, posts, log>>
    BY ConsumerRest DEF ConsumerStep, NotifierStep
<1>3. /\ job \in [stage : {"idle", "lookup", "create", "commit"}, partition : Partitions \cup {None},
                  todo : SUBSET Names, recipient : Ids \cup {None}]
      /\ job # NoJob /\ None \notin Ids
    BY <1>1, MentionTypes, NoneIsNoUser DEF NoJob, Ids
<1>4. /\ job'.partition = job.partition /\ job'.todo = job.todo /\ job' # NoJob
      /\ job'.stage = "commit" /\ job'.recipient = job.recipient
    BY <1>1, <1>3 DEF NoJob
<1>5. /\ x0 \in Partitions /\ job.recipient = None
      /\ k0 \in 1 .. Len(log[x0]) /\ k0 \in PostIds
      /\ Message \in PostIds /\ Post.due \subseteq Ids
    BY HeldMessage, <1>1, <1>3
<1>6. Message' = Message /\ Post' = Post /\ Message = log[x0][k0]
    BY <1>1, <1>2, <1>4 DEF Message, Post
<1>7. /\ handled' \in [Partitions -> SUBSET PostIds]
      /\ handled'[x0] = handled[x0] \cup {k0}
      /\ \A x \in Partitions \ {x0} : handled'[x] = handled[x]
    BY <1>1, <1>5, MentionTypes
<1>8. TypeOK'
    <2>1. job' \in [stage : {"idle", "lookup", "create", "commit"}, partition : Partitions \cup {None},
                    todo : SUBSET Names, recipient : Ids \cup {None}]
        BY <1>1, <1>3
    <2> QED
        BY <1>1, <1>2, <1>7, <2>1, MentionTypes, TypesNext
<1> HIDE DEF x0, k0
<1>9. OffsetParts'
    <2>1. handled'[x0] = handled[x0] \cup {position[x0]} /\ committed' = committed
        BY <1>1, <1>7 DEF k0
    <2> QED
        BY <1>1, <1>2, <1>3, <1>7, <2>1, OffsetsHandled DEF x0
<1>10. JobParts'
    BY <1>1, <1>4, <1>5, <1>6 DEF JobParts, k0, x0
<1>11. Mentioned'
    BY <1>1, <1>2 DEF MentionsInv, Mentioned
<1>12. CountParts'
    <2>1. \A p : Reached(p)' = Reached(p)
        BY <1>1, <1>2 DEF Reached
    <2>2. \A i : Owes(i)' = Owes(i)
        BY <1>2, <1>3, <1>4 DEF Owes
    <2> QED
        BY <1>1, <1>6, <2>1, <2>2 DEF MentionsInv, CountParts
<1>13. \A i \in Post.due : notifications[<<i, Message>>] > 0
    BY <1>1, <1>3, <1>5 DEF MentionsInv, DeliveryParts, Owes
<1>14. DeliveryParts'
    <2>1. ASSUME NEW x \in Partitions, NEW k \in handled'[x]
          PROVE  log[x][k] \in failed \/ \A i \in posts[log[x][k]].due : notifications[<<i, log[x][k]>>] > 0
        <3>1. CASE k \in handled[x]
            BY <3>1 DEF MentionsInv, DeliveryParts
        <3>2. CASE x = x0 /\ k = k0
            BY <1>6, <1>13, <3>2 DEF Post
        <3> QED
            BY <1>7, <3>1, <3>2
    <2> QED
        BY <1>1, <1>2, <1>6, <1>13, <2>1 DEF DeliveryParts
<1> QED
    BY <1>2, <1>8, <1>9, <1>10, <1>11, <1>12, <1>14 DEF MentionsInv

\* The offset that is committed is that of a message that was handled.
LEMMA CommitKeeps ==
    ASSUME MentionsInv, CommitMessage
    PROVE  MentionsInv'
<1> DEFINE x0 == job.partition
           k0 == position[x0]
<1>1. /\ job.stage = "commit" /\ job' = NoJob
      /\ committed' = [committed EXCEPT ![x0] = k0]
      /\ UNCHANGED <<position, notifications, restarts, handled, failed, failures>>
    BY DEF CommitMessage
<1>2. /\ AccountsInv' /\ OneName' /\ TopicParts'
      /\ UNCHANGED <<users, welcomed, directory, posts, log>>
    BY ConsumerRest DEF ConsumerStep, NotifierStep
<1>3. job # NoJob
    BY <1>1 DEF NoJob
<1>4. x0 \in Partitions /\ k0 \in 1 .. Len(log[x0]) /\ k0 \in PostIds
    BY HeldMessage, <1>3
<1>5. k0 \in handled[x0]
    <2>1. k0 \in 1 .. position[x0] /\ ~ InHand(x0)
        BY <1>1, <1>4, MentionTypes DEF InHand
    <2> QED
        BY <1>4, <2>1 DEF MentionsInv, OffsetParts
<1>6. handled'[x0] = handled[x0] \cup {position[x0]}
    BY <1>1, <1>5
<1>7. OffsetParts'
    BY <1>1, <1>2, <1>3, <1>6, OffsetsHandled
<1>8. TypeOK'
    <2>1. committed' \in [Partitions -> 0 .. MaxPosts]
        BY <1>1, <1>4, MentionTypes
    <2>2. job' \in [stage : {"idle", "lookup", "create", "commit"}, partition : Partitions \cup {None},
                    todo : SUBSET Names, recipient : Ids \cup {None}]
        BY <1>1 DEF NoJob
    <2> QED
        BY <1>1, <1>2, <2>1, <2>2, MentionTypes, TypesNext
<1>9. JobParts' /\ Mentioned'
    BY <1>1, <1>2 DEF MentionsInv, JobParts, Mentioned
<1>10. CountParts'
    <2>1. \A p : Reached(p)' = Reached(p)
        BY <1>1, <1>2 DEF Reached
    <2>2. \A i : ~ Owes(i)'
        BY <1>1 DEF Owes
    <2> QED
        BY <1>1, <2>1, <2>2 DEF MentionsInv, CountParts
<1>11. DeliveryParts'
    BY <1>1, <1>2 DEF MentionsInv, DeliveryParts
<1> QED
    BY <1>2, <1>7, <1>8, <1>9, <1>10, <1>11 DEF MentionsInv

\* Where the commit fails the message had been handled; where anything else
\* does, it is handled by being logged, and may have left one more row.
LEMMA FailKeeps ==
    ASSUME MentionsInv, MessageFails
    PROVE  MentionsInv'
<1> DEFINE x0 == job.partition
           k0 == position[x0]
           r == <<job.recipient, Message>>
<1>1. /\ job # NoJob /\ job' = NoJob
      /\ failures < MaxFailures /\ failures' = failures + 1
      /\ failed' = IF job.stage = "commit" THEN failed ELSE failed \cup {Message}
      /\ committed' \in IF job.stage = "commit"
                        THEN {committed, [committed EXCEPT ![x0] = k0]} ELSE {committed}
      /\ notifications' \in IF job.stage = "create"
                            THEN {notifications, [notifications EXCEPT ![r] = @ + 1]} ELSE {notifications}
      /\ handled' = [handled EXCEPT ![x0] = handled[x0] \cup {k0}]
      /\ UNCHANGED <<position, restarts>>
    BY DEF MessageFails
<1>2. /\ AccountsInv' /\ OneName' /\ TopicParts'
      /\ UNCHANGED <<users, welcomed, directory, posts, log>>
    BY ConsumerRest DEF ConsumerStep
<1>3. /\ x0 \in Partitions /\ k0 \in 1 .. Len(log[x0]) /\ k0 \in PostIds
      /\ Message \in PostIds /\ Post.due \subseteq Ids /\ Message = log[x0][k0]
    BY HeldMessage, <1>1 DEF Message
<1>4. committed' \in {committed, [committed EXCEPT ![x0] = k0]}
    <2>1. CASE job.stage = "commit"
        BY <1>1, <2>1
    <2>2. CASE job.stage # "commit"
        BY <1>1, <2>2
    <2> QED
        BY <2>1, <2>2
<1>5. /\ handled' \in [Partitions -> SUBSET PostIds]
      /\ handled'[x0] = handled[x0] \cup {k0}
      /\ \A x \in Partitions \ {x0} : handled'[x] = handled[x]
    BY <1>1, <1>3, MentionTypes
<1>6. /\ failed' \subseteq PostIds /\ failed \subseteq failed'
      /\ job.stage # "commit" => Message \in failed'
    <2>1. CASE job.stage = "commit"
        BY <1>1, <2>1, MentionTypes
    <2>2. CASE job.stage # "commit"
        BY <1>1, <1>3, <2>2, MentionTypes
    <2> QED
        BY <2>1, <2>2
<1>7. /\ notifications' \in [Ids \X PostIds -> Nat]
      /\ \A q \in Ids \X PostIds : notifications[q] \in Nat /\ notifications[q] <= notifications'[q]
      /\ \A q \in Ids \X PostIds :
            \/ notifications'[q] = notifications[q]
            \/ q[2] = Message /\ Reached(Message) /\ notifications'[q] <= restarts + 1
      /\ Mentioned'
    <2>1. CASE notifications' = notifications
        <3>1. notifications \in [Ids \X PostIds -> Nat]
            BY MentionTypes
        <3>2. Mentioned'
            BY <1>2, <2>1 DEF MentionsInv, Mentioned
        <3> QED
            BY <2>1, <3>1, <3>2
    <2>2. CASE job.stage = "create" /\ notifications' = [notifications EXCEPT ![r] = @ + 1]
        <3>1. /\ notifications' \in [Ids \X PostIds -> Nat]
              /\ r \in Ids \X PostIds /\ notifications'[r] = notifications[r] + 1
              /\ \A q \in (Ids \X PostIds) \ {r} : notifications'[q] = notifications[q]
              /\ \A q \in Ids \X PostIds : notifications[q] \in Nat /\ notifications[q] <= notifications'[q]
              /\ Reached(Message) /\ notifications[r] <= restarts
              /\ Mentioned'
            BY <1>2, <2>2, RowAdded
        <3>2. notifications'[r] <= restarts + 1
            BY <3>1, MentionTypes
        <3>3. r[2] = Message
            OBVIOUS
        <3> HIDE DEF r
        <3> QED
            BY <3>1, <3>2, <3>3
    <2>3. CASE job.stage = "create"
        BY <1>1, <2>1, <2>2, <2>3
    <2>4. CASE job.stage # "create"
        BY <1>1, <2>1, <2>4
    <2> QED
        BY <2>3, <2>4
<1>8. TypeOK'
    <2>1. committed' \in [Partitions -> 0 .. MaxPosts]
        BY <1>4, <1>3, MentionTypes
    <2>2. job' \in [stage : {"idle", "lookup", "create", "commit"}, partition : Partitions \cup {None},
                    todo : SUBSET Names, recipient : Ids \cup {None}]
        BY <1>1 DEF NoJob
    <2>3. failures' \in 0 .. MaxFailures
        BY <1>1, MentionTypes
    <2> QED
        BY <1>1, <1>2, <1>5, <1>6, <1>7, <2>1, <2>2, <2>3, MentionTypes, TypesNext
<1>9. OffsetParts'
    BY <1>1, <1>2, <1>4, <1>5, OffsetsHandled
<1>10. JobParts'
    BY <1>1 DEF JobParts
<1>11. CountParts'
    <2> SUFFICES ASSUME NEW i \in Ids, NEW p \in PostIds
                 PROVE  /\ notifications'[<<i, p>>] <= restarts + 1
                        /\ ~ Reached(p) => notifications'[<<i, p>>] <= restarts
        <3>1. \A p : Reached(p)' = Reached(p)
            BY <1>1, <1>2 DEF Reached
        <3>2. \A i : ~ Owes(i)'
            BY <1>1 DEF Owes
        <3> QED
            BY <1>1, <3>1, <3>2 DEF CountParts
    <2>1. /\ notifications[<<i, p>>] <= restarts + 1
          /\ ~ Reached(p) => notifications[<<i, p>>] <= restarts
        BY DEF MentionsInv, CountParts
    <2>2. \/ notifications'[<<i, p>>] = notifications[<<i, p>>]
          \/ p = Message /\ Reached(Message) /\ notifications'[<<i, p>>] <= restarts + 1
        <3>1. <<i, p>> \in Ids \X PostIds /\ <<i, p>>[2] = p
            OBVIOUS
        <3> QED
            BY <1>7, <3>1
    <2> QED
        BY <2>1, <2>2
<1>12. job.stage = "commit" => \A i \in Post.due : notifications[<<i, Message>>] > 0
    <2>1. job.stage = "commit" => job.todo = {} /\ job.recipient = None /\ None \notin Ids
        BY HeldMessage, <1>1, NoneIsNoUser DEF Ids
    <2> QED
        BY <1>1, <1>3, <2>1 DEF MentionsInv, DeliveryParts, Owes
<1>13. DeliveryParts'
    <2>1. ASSUME NEW x \in Partitions, NEW k \in handled'[x], log[x][k] \notin failed',
                 NEW i \in posts[log[x][k]].due
          PROVE  notifications'[<<i, log[x][k]>>] > 0
        <3>1. k \in 1 .. Len(log[x])
            BY <1>2, <1>9 DEF OffsetParts
        <3>2. log[x][k] \in DOMAIN posts
            BY <3>1 DEF MentionsInv, TopicParts
        <3>3. <<i, log[x][k]>> \in Ids \X PostIds
            BY <3>2, MentionTypes
        <3>4. notifications[<<i, log[x][k]>>] > 0
            <4>1. CASE k \in handled[x]
                BY <1>6, <2>1, <4>1 DEF MentionsInv, DeliveryParts
            <4>2. CASE x = x0 /\ k = k0
                <5>1. log[x][k] = Message /\ job.stage = "commit"
                    BY <1>3, <1>6, <2>1, <4>2
                <5> QED
                    BY <1>12, <2>1, <5>1 DEF Post
            <4> QED
                BY <1>5, <4>1, <4>2
        <3> QED
            BY <1>7, <3>3, <3>4
    <2> QED
        BY <1>1, <1>2, <2>1 DEF DeliveryParts
<1> QED
    BY <1>2, <1>7, <1>8, <1>9, <1>10, <1>11, <1>13 DEF MentionsInv

\* Everybody may be notified once more after a restart.
LEMMA RestartKeeps ==
    ASSUME MentionsInv, RestartNotifier
    PROVE  MentionsInv'
<1>1. /\ restarts < MaxRestarts /\ restarts' = restarts + 1
      /\ position' = committed /\ job' = NoJob
      /\ UNCHANGED <<committed, notifications, handled, failed, failures>>
    BY DEF RestartNotifier
<1>2. /\ AccountsInv' /\ OneName' /\ TopicParts'
      /\ UNCHANGED <<users, welcomed, directory, posts, log>>
    BY ConsumerRest DEF ConsumerStep
<1>3. TypeOK'
    <2>1. job' \in [stage : {"idle", "lookup", "create", "commit"}, partition : Partitions \cup {None},
                    todo : SUBSET Names, recipient : Ids \cup {None}]
        BY <1>1 DEF NoJob
    <2>2. restarts' \in 0 .. MaxRestarts
        BY <1>1, MentionTypes
    <2> QED
        BY <1>1, <1>2, <2>1, <2>2, MentionTypes, TypesNext
<1>4. OffsetParts'
    <2> SUFFICES ASSUME NEW x \in Partitions
                 PROVE  /\ committed[x] <= committed[x] /\ committed[x] <= Len(log[x])
                        /\ handled[x] \subseteq 1 .. Len(log[x])
                        /\ 1 .. committed[x] \subseteq handled[x]
        BY <1>1, <1>2 DEF OffsetParts
    <2>1. /\ committed[x] <= position[x] /\ position[x] <= Len(log[x])
          /\ handled[x] \subseteq 1 .. Len(log[x])
          /\ 1 .. committed[x] \subseteq handled[x]
        BY DEF MentionsInv, OffsetParts
    <2>2. committed[x] \in Nat /\ position[x] \in Nat /\ Len(log[x]) \in Nat
        BY MentionTypes
    <2> QED
        BY <2>1, <2>2
<1>5. JobParts' /\ Mentioned' /\ DeliveryParts'
    BY <1>1, <1>2 DEF MentionsInv, JobParts, Mentioned, DeliveryParts
<1>6. CountParts'
    <2> SUFFICES ASSUME NEW i \in Ids, NEW p \in PostIds
                 PROVE  notifications[<<i, p>>] <= restarts'
        <3>1. \A i : ~ Owes(i)'
            BY <1>1 DEF Owes
        <3>2. \A i \in Ids, p \in PostIds :
                 notifications[<<i, p>>] <= restarts' => notifications[<<i, p>>] <= restarts' + 1
            BY <1>1, MentionTypes
        <3> QED
            BY <1>1, <3>1, <3>2 DEF CountParts
    <2> QED
        BY <1>1 DEF MentionsInv, CountParts
<1> QED
    BY <1>2, <1>3, <1>4, <1>5, <1>6 DEF MentionsInv

\* Every step keeps the invariant.
LEMMA MentionsStep == MentionsInv /\ [Next]_vars => MentionsInv'
<1> SUFFICES ASSUME MentionsInv, [Next]_vars PROVE MentionsInv'
    OBVIOUS
<1>1. CASE UNCHANGED <<topicVars, notifyVars>>
    <2>1. AccountsInv' /\ OneName' /\ users \subseteq users' /\ welcomed \subseteq welcomed'
        BY AccountsStep, OneNameStep, WelcomedStay DEF MentionsInv
    <2> QED
        BY <1>1, <2>1, SignupKeeps
<1>2. CASE \E a \in welcomed, m \in SUBSET Names : Publish(a, m)
    BY <1>2, PublishKeeps
<1>3. CASE NotifierStep
    BY <1>3, TakeKeeps, LookupKeeps, CreateKeeps, FinishKeeps, CommitKeeps DEF NotifierStep
<1>4. CASE MessageFails
    BY <1>4, FailKeeps
<1>5. CASE RestartNotifier
    BY <1>5, RestartKeeps
<1> QED
    BY <1>1, <1>2, <1>3, <1>4, <1>5 DEF Next, vars

\* The invariant of mentions, from signup to notification.
THEOREM MentionsInvariant == Spec => []MentionsInv
BY MentionsInit, MentionsStep, PTL DEF Spec

\* Whoever was told "created" before a post that mentions their name has been
\* notified of it once it was handled without an error: one signup has the
\* name, its row leads to the directory entry that the lookup reads, and the
\* consumer passes over no message it did not deal with.
THEOREM MentionsAreDelivered == Spec => []MentionsDelivered
<1>1. MentionsInv => MentionsDelivered
    <2> SUFFICES ASSUME MentionsInv, NEW p \in Done, NEW i \in posts[p].due
                 PROVE  notifications[<<i, p>>] > 0
        BY DEF MentionsDelivered
    <2>1. PICK x \in Partitions : p \in {log[x][k] : k \in handled[x]} /\ p \notin failed
        BY DEF Done
    <2>2. PICK k \in handled[x] : p = log[x][k]
        BY <2>1
    <2> QED
        BY <2>1, <2>2 DEF MentionsInv, DeliveryParts
<1> QED
    BY <1>1, MentionsInvariant, PTL

\* A notification is of a post by somebody else that mentions its recipient,
\* and a second one takes a restart of the consumer.
THEOREM NotifiedOncePerStart == Spec => []NotifiedWithReason
<1>1. MentionsInv => NotifiedWithReason
    <2> SUFFICES ASSUME MentionsInv, NEW i \in Ids, NEW p \in PostIds, notifications[<<i, p>>] > 0
                 PROVE  /\ posts[p].author # i
                        /\ \E n \in posts[p].mentions : <<i, n>> \in users
                        /\ notifications[<<i, p>>] <= 1 + restarts
        BY DEF NotifiedWithReason
    <2>1. notifications[<<i, p>>] <= restarts + 1 /\ restarts \in Nat
        BY MentionTypes DEF MentionsInv, CountParts
    <2> QED
        BY <2>1 DEF MentionsInv, Mentioned
<1> QED
    BY <1>1, MentionsInvariant, PTL

\* The predecessors of the message in hand were dealt with: dealing with it is
\* a step of the abstract consumer.
LEMMA HandledInOrder ==
    ASSUME MentionsInv, job # NoJob, NEW x0, x0 = job.partition,
           handled' = [handled EXCEPT ![x0] = handled[x0] \cup {position[x0]}],
           UNCHANGED <<log, committed>>
    PROVE  Consumer!Next
<1> DEFINE k0 == position[x0]
<1>1. x0 \in Partitions /\ k0 \in 1 .. Len(log[x0]) /\ k0 \in Nat
    BY HeldMessage, MentionTypes
<1>2. 1 .. k0 - 1 \subseteq handled[x0]
    <2> SUFFICES ASSUME NEW k \in 1 .. k0 - 1 PROVE k \in handled[x0]
        OBVIOUS
    <2>1. k \in 1 .. k0 /\ k # k0
        BY <1>1
    <2> QED
        BY <1>1, <2>1 DEF MentionsInv, OffsetParts
<1> HIDE DEF k0
<1>3. handled' = [handled EXCEPT ![x0] = @ \cup {k0}]
    BY DEF k0
<1>4. Consumer!Deal(x0, k0)
    BY <1>2, <1>3 DEF Consumer!Deal
<1>5. k0 \in 1 .. [x \in Partitions |-> Len(log[x])][x0]
    BY <1>1
<1> QED
    BY <1>1, <1>4, <1>5 DEF Consumer!Next

\* What a commit leaves was handled, in order.
LEMMA CommittedInOrder ==
    ASSUME MentionsInv, job.stage = "commit", NEW x0, x0 = job.partition,
           committed' = [committed EXCEPT ![x0] = position[x0]],
           UNCHANGED <<log, handled>>
    PROVE  Consumer!Next
<1>1. job # NoJob
    BY DEF NoJob
<1>2. x0 \in Partitions /\ position[x0] \in Nat /\ committed \in [Partitions -> 0 .. MaxPosts]
    BY <1>1, HeldMessage, MentionTypes
<1>3. committed' \in [Partitions -> Nat]
    BY <1>2
<1>4. ASSUME NEW x \in Partitions
      PROVE  committed[x] <= committed'[x] /\ 1 .. committed'[x] \subseteq handled[x]
    <2>1. /\ committed[x] <= position[x] /\ committed[x] \in Nat
          /\ 1 .. committed[x] \subseteq handled[x]
          /\ 1 .. position[x] \subseteq handled[x]
        BY MentionTypes DEF MentionsInv, OffsetParts, InHand
    <2>2. CASE x = x0
        BY <1>2, <2>1, <2>2
    <2>3. CASE x # x0
        BY <1>2, <2>1, <2>3
    <2> QED
        BY <2>2, <2>3
<1>5. Consumer!Commit
    BY <1>3, <1>4 DEF Consumer!Commit
<1> QED
    BY <1>5 DEF Consumer!Next

\* Every step is a step of the abstract consumer, or none of its business.
LEMMA NotifierRefines ==
    ASSUME MentionsInv, [Next]_vars
    PROVE  [Consumer!Next]_Consumer!vars
<1>1. CASE UNCHANGED <<log, handled, committed>>
    BY <1>1 DEF Consumer!vars
<1>2. ASSUME NEW a \in welcomed, NEW m \in SUBSET Names, Publish(a, m)
      PROVE  Consumer!Next
    <2> DEFINE z == PartitionOf[a]
               p == Len(posts) + 1
    <2>1. /\ log' = [log EXCEPT ![z] = Append(log[z], p)]
          /\ UNCHANGED <<handled, committed>> /\ Len(posts) < MaxPosts
        BY <1>2 DEF Publish, notifyVars
    <2>2. a \in 1 .. MaxUsers
        BY AccountBounds DEF MentionsInv, AccountsInv, AccountsTypeOK
    <2>3. z \in Partitions /\ p \in PostIds
        <3>1. Len(posts) \in 0 .. MaxPosts /\ MaxPosts \in Nat
            BY MentionTypes
        <3>2. p \in PostIds
            BY <2>1, <3>1 DEF PostIds
        <3>3. z \in Partitions
            BY <2>2, MentionPartitions
        <3> QED
            BY <3>2, <3>3
    <2>4. log \in [Partitions -> Seq(PostIds)]
        BY MentionTypes
    <2> HIDE DEF z, p
    <2>5. log'[z] = Append(log[z], p) /\ \A x \in Partitions \ {z} : log'[x] = log[x]
        BY <2>1, <2>3, <2>4
    <2>6. Len(log'[z]) = Len(log[z]) + 1
        <3>1. log[z] \in Seq(PostIds)
            BY <2>3, <2>4
        <3> QED
            BY <2>3, <2>5, <3>1
    <2>7. [x \in Partitions |-> Len(log'[x])]
              = [[x \in Partitions |-> Len(log[x])] EXCEPT ![z] = @ + 1]
        BY <2>3, <2>5, <2>6
    <2>8. Consumer!Produce(z)
        BY <2>1, <2>7 DEF Consumer!Produce
    <2> QED
        BY <2>3, <2>8 DEF Consumer!Next
<1>3. CASE FinishMentions
    <2>1. job # NoJob
        BY <1>3 DEF FinishMentions, NoJob
    <2>2. UNCHANGED <<log, committed>>
        BY <1>3 DEF FinishMentions, topicVars
    <2> QED
        BY <1>3, <2>1, <2>2, HandledInOrder DEF FinishMentions
<1>4. CASE CommitMessage
    BY <1>4, CommittedInOrder DEF CommitMessage, topicVars
<1>5. CASE MessageFails
    <2>1. /\ job # NoJob /\ log' = log
          /\ handled' = [handled EXCEPT ![job.partition] = handled[job.partition] \cup {position[job.partition]}]
        BY <1>5 DEF MessageFails, topicVars
    <2>2. CASE committed' = committed
        BY <2>1, <2>2, HandledInOrder
    <2>3. CASE job.stage = "commit"
        <3>1. position[job.partition] \in handled[job.partition]
            <4>1. /\ job.partition \in Partitions /\ ~ InHand(job.partition)
                  /\ position[job.partition] \in 1 .. position[job.partition]
                BY <2>1, <2>3, HeldMessage, MentionTypes DEF InHand
            <4> QED
                BY <4>1 DEF MentionsInv, OffsetParts
        <3>2. handled' = handled
            <4>1. handled[job.partition] \cup {position[job.partition]} = handled[job.partition]
                BY <3>1
            <4>2. handled \in [Partitions -> SUBSET PostIds]
                BY MentionTypes
            <4> QED
                BY <2>1, <4>1, <4>2
        <3>3. \/ committed' = committed
              \/ committed' = [committed EXCEPT ![job.partition] = position[job.partition]]
            BY <1>5, <2>3 DEF MessageFails
        <3> QED
            BY <2>1, <2>2, <2>3, <3>2, <3>3, CommittedInOrder
    <2>4. CASE job.stage # "commit"
        BY <1>5, <2>2, <2>4 DEF MessageFails
    <2> QED
        BY <2>3, <2>4
<1>6. CASE AccountsNext /\ UNCHANGED <<topicVars, notifyVars>>
    BY <1>1, <1>6 DEF topicVars, notifyVars
<1>7. CASE UNCHANGED vars
    BY <1>1, <1>7 DEF vars, topicVars, notifyVars
<1>8. CASE \/ \E x \in Partitions : TakeMessage(x)
           \/ \E n \in Names : Lookup(n)
           \/ CreateNotification \/ RestartNotifier
    BY <1>1, <1>8 DEF TakeMessage, Lookup, CreateNotification, RestartNotifier, topicVars
<1> QED
    BY <1>2, <1>3, <1>4, <1>5, <1>6, <1>7, <1>8 DEF Next, NotifierStep

\* The notification-service, which takes its messages one at a time, logs the
\* ones that fail and commits each after its work, keeps the promise of the
\* fan-out's consumer: at least once, in order, and nothing committed before.
THEOREM NotifierRefinesConsumer == Spec => NotifierAtLeastOnce
<1>1. Init => Consumer!Init
    <2> SUFFICES ASSUME Init PROVE Consumer!Init
        OBVIOUS
    <2>1. [x \in Partitions |-> Len(log[x])] = [x \in Partitions |-> 0]
        BY DEF Init
    <2> QED
        BY <2>1 DEF Init, Consumer!Init
<1>2. MentionsInv /\ [Next]_vars => [Consumer!Next]_Consumer!vars
    BY NotifierRefines
<1> QED
    BY <1>1, <1>2, MentionsInvariant, PTL DEF Spec, NotifierAtLeastOnce, Consumer!Spec
=============================================================================
