---------------------------- MODULE SocialGraph ----------------------------
(* The User nodes and FOLLOWS edges in Neo4j.  post-ingestion-service keeps *)
(* followerCount and isCelebrity of a node in the Cypher statement that     *)
(* creates or deletes an edge; everybody else reads these two only.  A call *)
(* whose answer was lost, or a second click, sends its statement again.     *)
EXTENDS Naturals, FiniteSets

CONSTANTS
    Users,
    CelebrityCutoff     \* celebrityFollowerCutoff

\* What is asked of them.
GraphConstants == IsFiniteSet(Users) /\ CelebrityCutoff \in Nat

VARIABLES
    nodes,          \* users with a node
    follows,        \* edges: <<follower, followee>>
    followerCount,  \* a property of each node
    isCelebrity     \* a property of each node

graph == <<nodes, follows, followerCount, isCelebrity>>

\* The followers of a, by the edges.
FollowersIn(edges, a) == {u \in Users : <<u, a>> \in edges}

GraphInit ==
    /\ nodes = {} /\ follows = {}
    /\ followerCount = [u \in Users |-> 0]
    /\ isCelebrity = [u \in Users |-> FALSE]

\* MERGE (u:User) ON CREATE SET ...
EnsureUserNode(u) ==
    /\ nodes' = nodes \cup {u}
    /\ followerCount' = [followerCount EXCEPT ![u] = IF u \in nodes THEN @ ELSE 0]
    /\ isCelebrity' = [isCelebrity EXCEPT ![u] = u \in nodes /\ @]
    /\ UNCHANGED follows

\* Mutant of MergeFollow: the count is not part of ON CREATE.
MergeFollowCountAlways(u, a) ==
    /\ u # a /\ {u, a} \subseteq nodes
    /\ follows' = follows \cup {<<u, a>>}
    /\ followerCount' = [followerCount EXCEPT ![a] = @ + 1]
    /\ isCelebrity' = [isCelebrity EXCEPT ![a] = followerCount'[a] > CelebrityCutoff]
    /\ UNCHANGED nodes

\* MATCH both, MERGE the edge, ON CREATE count it, SET isCelebrity.  Without
\* both nodes nothing matches: ErrNotFound, and nothing changes.
MergeFollow(u, a) ==
    /\ u # a /\ {u, a} \subseteq nodes
    /\ follows' = follows \cup {<<u, a>>}
    /\ followerCount' = [followerCount EXCEPT ![a] = IF <<u, a>> \in follows THEN @ ELSE @ + 1]
    /\ isCelebrity' = [isCelebrity EXCEPT ![a] = followerCount'[a] > CelebrityCutoff]
    /\ UNCHANGED nodes

\* MATCH the edge, DELETE it, SET both properties.  Without the edge nothing
\* matches.
DeleteFollow(u, a) ==
    /\ <<u, a>> \in follows
    /\ follows' = follows \ {<<u, a>>}
    /\ followerCount' = [followerCount EXCEPT ![a] = IF @ > 0 THEN @ - 1 ELSE 0]
    /\ isCelebrity' = [isCelebrity EXCEPT ![a] = followerCount'[a] > CelebrityCutoff]
    /\ UNCHANGED nodes

GraphNext ==
    \/ \E u \in Users : EnsureUserNode(u)
    \/ \E u, a \in Users : MergeFollow(u, a) \/ DeleteFollow(u, a)

GraphSpec == GraphInit /\ [][GraphNext]_graph

\* MATCH (:User)-[:FOLLOWS]->(followee) WHERE followee.isCelebrity
FollowedCelebrities(u) == {a \in nodes : <<u, a>> \in follows /\ isCelebrity[a]}

Following(u) == {a \in nodes : <<u, a>> \in follows}

-----------------------------------------------------------------------------
GraphTypeOK ==
    /\ nodes \subseteq Users
    /\ follows \subseteq nodes \X nodes
    /\ followerCount \in [Users -> Nat]
    /\ isCelebrity \in [Users -> BOOLEAN]

\* The properties that everybody reads instead of the edges agree with the
\* edges, however often statements are repeated and in whichever order: nobody
\* is counted twice, or not at all, or a celebrity by a stale count.
CountIsDegree ==
    \A a \in nodes :
        /\ followerCount[a] = Cardinality(FollowersIn(follows, a))
        /\ isCelebrity[a] <=> followerCount[a] > CelebrityCutoff
=============================================================================
