------------------------------ MODULE Accounts ------------------------------
(* Signup in post-ingestion-service: a row on the shard the ring names for  *)
(* the username, a node of the social graph, and an entry of the username   *)
(* directory, written one after the other with no transaction.  The         *)
(* directory is the only way from a name to a user.                         *)
EXTENDS Ring

CONSTANTS
    Signups,            \* requests that may run at once
    None,
    MaxUsers,           \* bound: user IDs minted
    MaxSignupFailures   \* bound: requests that fail halfway

ASSUME AccountBounds == MaxUsers \in Nat /\ MaxSignupFailures \in Nat
ASSUME NoneIsNoUser == None \notin 1 .. MaxUsers

VARIABLES
    shardOf,        \* the shard in each user ID minted so far
    users,          \* Postgres: <<id, username>>, each on the shard of the ID
    nodes,          \* Neo4j: the users with a User node
    directory,      \* Redis: username:<name>
    signup,         \* the requests in progress
    signupFailures, \* counter of the bound
    welcomed        \* history: users whose signup was answered with success

accountVars == <<shardOf, users, nodes, directory, signup, signupFailures, welcomed>>

Ids == 1 .. MaxUsers

\* The placement key of a user is the username.
Names == Keys

NoSignup == [stage |-> "idle", name |-> None, id |-> None]

InitAccounts ==
    /\ shardOf = <<>>
    /\ users = {} /\ nodes = {}
    /\ directory = [n \in Names |-> None]
    /\ signup = [s \in Signups |-> NoSignup]
    /\ signupFailures = 0
    /\ welcomed = {}

-----------------------------------------------------------------------------
StartSignup(s, n, shard) ==
    /\ signup[s] = NoSignup
    /\ Len(shardOf) < MaxUsers
    /\ shardOf' = Append(shardOf, shard)
    /\ signup' = [signup EXCEPT ![s] = [stage |-> "row", name |-> n, id |-> Len(shardOf) + 1]]
    /\ UNCHANGED <<users, nodes, directory, signupFailures, welcomed>>

\* Mutant of BeginSignup: places by a key made for the request.
BeginAnywhere(s, n) == \E shard \in Shards : StartSignup(s, n, shard)

\* CreateUser: NewIDForNewEntity mints the ID on the shard of the username.
BeginSignup(s, n) == StartSignup(s, n, ShardForNewEntity(n))

AtStage(s, stage) == signup[s].stage = stage

EndSignup(s) == signup' = [signup EXCEPT ![s] = NoSignup]

\* Mutant of Taken: the name is looked up in the directory first.
TakenInDirectory(name, shard) == directory[name] # None

\* UNIQUE (username) on one shard.
Taken(name, shard) == \E u \in users : u[2] = name /\ shardOf[u[1]] = shard

\* users.Create: the INSERT, or ErrAlreadyExists.
InsertUser(s) ==
    LET id == signup[s].id
        name == signup[s].name
    IN  /\ AtStage(s, "row")
        /\ \/ Taken(name, shardOf[id]) /\ EndSignup(s) /\ UNCHANGED users
           \/ /\ ~ Taken(name, shardOf[id])
              /\ users' = users \cup {<<id, name>>}
              /\ signup' = [signup EXCEPT ![s].stage = "node"]
    /\ UNCHANGED <<shardOf, nodes, directory, signupFailures, welcomed>>

EnsureUserNode(s) ==
    /\ AtStage(s, "node")
    /\ nodes' = nodes \cup {signup[s].id}
    /\ signup' = [signup EXCEPT ![s].stage = "directory"]
    /\ UNCHANGED <<shardOf, users, directory, signupFailures, welcomed>>

\* usernames.Set: SET, and the answer.
SetUsername(s) ==
    /\ AtStage(s, "directory")
    /\ directory' = [directory EXCEPT ![signup[s].name] = signup[s].id]
    /\ welcomed' = welcomed \cup {signup[s].id}
    /\ EndSignup(s)
    /\ UNCHANGED <<shardOf, users, nodes, signupFailures>>

\* A store fails or the process dies: what was written stays, and what was
\* being written may have been.
SignupFails(s) ==
    /\ signupFailures < MaxSignupFailures
    /\ signupFailures' = signupFailures + 1
    /\ EndSignup(s)
    /\ \/ signup[s] # NoSignup /\ UNCHANGED <<users, nodes, directory>>
       \/ /\ AtStage(s, "row") /\ ~ Taken(signup[s].name, shardOf[signup[s].id])
          /\ users' = users \cup {<<signup[s].id, signup[s].name>>}
          /\ UNCHANGED <<nodes, directory>>
       \/ /\ AtStage(s, "node") /\ nodes' = nodes \cup {signup[s].id}
          /\ UNCHANGED <<users, directory>>
       \/ /\ AtStage(s, "directory")
          /\ directory' = [directory EXCEPT ![signup[s].name] = signup[s].id]
          /\ UNCHANGED <<users, nodes>>
    /\ UNCHANGED <<shardOf, welcomed>>

CreateUser(s) ==
    \/ \E n \in Names : BeginSignup(s, n)
    \/ InsertUser(s)
    \/ EnsureUserNode(s)
    \/ SetUsername(s)
    \/ SignupFails(s)

AccountsNext == \E s \in Signups : CreateUser(s)

-----------------------------------------------------------------------------
AccountsTypeOK ==
    /\ shardOf \in Seq(Shards) /\ Len(shardOf) <= MaxUsers
    /\ users \subseteq (1 .. Len(shardOf)) \X Names
    /\ nodes \subseteq 1 .. Len(shardOf)
    /\ directory \in [Names -> 1 .. Len(shardOf) \cup {None}]
    /\ signup \in [Signups -> {NoSignup} \cup
                      [stage : {"row", "node", "directory"}, name : Names, id : 1 .. Len(shardOf)]]
    /\ signupFailures \in 0 .. MaxSignupFailures
    /\ welcomed \subseteq 1 .. Len(shardOf)

\* A username has one owner over all shards, although each shard only checks
\* its own rows: a name is always placed on the same shard.
UsernameUnique == \A u, v \in users : u[2] = v[2] => u = v

\* Whatever fails and whoever races for a name, the directory never names
\* anybody but the owner of the row, and a user who was told "created" has the
\* row, the node and the directory entry, for ever.
DirectoryTrue ==
    /\ \A n \in Names : directory[n] # None => <<directory[n], n>> \in users
    /\ \A i \in welcomed :
          i \in nodes /\ \E n \in Names : <<i, n>> \in users /\ directory[n] = i
=============================================================================
