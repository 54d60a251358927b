-------------------------------- MODULE Ring --------------------------------
(* The consistent-hash ring that places a new entity, in Go and in Java.    *)
(* Both hash every virtual node of every shard and take the first node at   *)
(* or after the hash of the key.  Go keeps a sorted slice and searches it;  *)
(* Java keeps a map from hashes to shards, in which a later node replaces   *)
(* an earlier one of the same hash.                                         *)
EXTENDS Naturals, Sequences

CONSTANTS
    Keys,                   \* placement keys
    Topology,               \* the shard IDs of config/shards.json, in order
    VirtualNodesPerShard,
    Hash,                   \* CRC-32 of keys and of virtual nodes
    Nodes                   \* Go's slice after sort.Slice

Shards == {Topology[i] : i \in DOMAIN Topology}

VNodes == (0 .. VirtualNodesPerShard - 1) \X Shards

\* LoadConfig: an empty topology is refused, and a count of zero replaced.
ASSUME TopologyAssumption ==
    /\ Topology \in Seq(Shards) /\ Topology # <<>>
    /\ VirtualNodesPerShard \in Nat \ {0}

ASSUME HashAssumption == Hash \in [Keys \cup VNodes -> Nat]

\* NewRing: every node, sorted by hash.  sort.Slice is not stable: nodes with
\* one hash may stand in any order.
NewRing ==
    /\ Nodes \in Seq(VNodes)
    /\ \A v \in VNodes : \E i \in DOMAIN Nodes : Nodes[i] = v
    /\ \A i, j \in DOMAIN Nodes : i < j => Hash[Nodes[i]] <= Hash[Nodes[j]]

ASSUME NodesAssumption == NewRing

\* sort.Search: the first index at or after the key, or none.
Found(key, i) ==
    /\ i \in DOMAIN Nodes
    /\ Hash[Nodes[i]] >= Hash[key]
    /\ \A j \in 1 .. i - 1 : Hash[Nodes[j]] < Hash[key]

\* Ring.ShardForNewEntity: wraps around to the first node.
ShardForNewEntity(key) ==
    LET i == IF \E i \in DOMAIN Nodes : Found(key, i)
             THEN CHOOSE i \in DOMAIN Nodes : Found(key, i) ELSE 1
    IN  Nodes[i][2]

-----------------------------------------------------------------------------
\* The keys of the TreeMap.
RingKeys == {Hash[v] : v \in VNodes}

\* The shard under a key of the map: the last one put there.
PutLast(k) ==
    Topology[CHOOSE i \in DOMAIN Topology :
                /\ \E v \in VNodes : v[2] = Topology[i] /\ Hash[v] = k
                /\ \A j \in DOMAIN Topology :
                      (\E v \in VNodes : v[2] = Topology[j] /\ Hash[v] = k) => j <= i]

FirstKey(keys) == CHOOSE k \in keys : \A l \in keys : k <= l

TailMap(h) == {k \in RingKeys : k >= h}

\* ShardRing.shardForNewEntity
JavaShardForNewEntity(key) ==
    LET tail == TailMap(Hash[key])
    IN  PutLast(IF tail = {} THEN FirstKey(RingKeys) ELSE FirstKey(tail))
=============================================================================
