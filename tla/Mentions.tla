------------------------------ MODULE Mentions ------------------------------
(* notification-service beside signups: it consumes post-created message by *)
(* message, resolves the mentions of each caption in the username directory *)
(* and writes a notification for each.  A failed message is logged, and the *)
(* commit of a later one of its partition passes over it.                   *)
EXTENDS Accounts, FiniteSets

CONSTANTS
    Partitions,
    PartitionOf,    \* Hash balancer on the author's ID
    MaxPosts,       \* bound: posts published
    MaxFailures,    \* bound: messages that fail
    MaxRestarts     \* bound: restarts of the consumer

ASSUME MentionPartitions == PartitionOf \in [1 .. MaxUsers -> Partitions]
ASSUME MentionBounds == MaxPosts \in Nat /\ MaxFailures \in Nat /\ MaxRestarts \in Nat

VARIABLES
    posts,          \* [author, mentions, due], by post ID; due is history:
                    \*   who was a user when it was published and is mentioned
    log,            \* post-created
    position,       \* notification-service: messages taken, per partition
    committed,      \* and its committed offsets
    job,            \* handlePostCreated in progress
    notifications,  \* Postgres: rows by <<recipient, post>>
    failures, restarts, \* counters of the bounds
    handled,        \* history: messages dealt with, per partition
    failed          \* history: posts whose message failed

topicVars  == <<posts, log>>
notifyVars == <<position, committed, job, notifications, failures, restarts, handled, failed>>
vars == <<accountVars, topicVars, notifyVars>>

PostIds == 1 .. MaxPosts

NoJob == [stage |-> "idle", partition |-> None, todo |-> {}, recipient |-> None]

Init ==
    /\ InitAccounts
    /\ posts = <<>> /\ log = [x \in Partitions |-> <<>>]
    /\ position = [x \in Partitions |-> 0] /\ committed = position
    /\ job = NoJob /\ notifications = [r \in Ids \X PostIds |-> 0]
    /\ failures = 0 /\ restarts = 0
    /\ handled = [x \in Partitions |-> {}] /\ failed = {}

-----------------------------------------------------------------------------
\* A post with a caption that mentions some names reaches the topic.
Publish(author, mentions) ==
    /\ Len(posts) < MaxPosts
    /\ author \in welcomed
    /\ posts' = Append(posts,
           [author |-> author, mentions |-> mentions,
            due |-> {i \in welcomed \ {author} : \E n \in mentions : <<i, n>> \in users}])
    /\ log' = [log EXCEPT ![PartitionOf[author]] = Append(@, Len(posts) + 1)]
    /\ UNCHANGED <<accountVars, notifyVars>>

-----------------------------------------------------------------------------
(* notification-service                                                     *)

\* The message in hand, and its post.
Message == log[job.partition][position[job.partition]]
Post == posts[Message]

\* eachMessage: messages are taken one at a time.
TakeMessage(x) ==
    /\ job = NoJob
    /\ position[x] < Len(log[x])
    /\ position' = [position EXCEPT ![x] = @ + 1]
    /\ job' = [stage |-> "lookup", partition |-> x, recipient |-> None,
               todo |-> posts[log[x][position[x] + 1]].mentions]
    /\ UNCHANGED <<accountVars, topicVars, committed, notifications, restarts, handled, failed, failures>>

\* Mutant of Lookup: the author's own name ends the loop.
LookupUntilSelf(n) ==
    /\ job.stage = "lookup" /\ n \in job.todo
    /\ job' = IF directory[n] = Post.author
              THEN [job EXCEPT !.todo = {}]
              ELSE IF directory[n] = None
                   THEN [job EXCEPT !.todo = @ \ {n}]
                   ELSE [job EXCEPT !.todo = @ \ {n}, !.stage = "create",
                                    !.recipient = directory[n]]
    /\ UNCHANGED <<accountVars, topicVars, position, committed, notifications, restarts,
                   handled, failed, failures>>

\* Mutant of Lookup: notifies whoever is mentioned, the author too.
LookupWithSelf(n) ==
    /\ job.stage = "lookup" /\ n \in job.todo
    /\ job' = IF directory[n] = None
              THEN [job EXCEPT !.todo = @ \ {n}]
              ELSE [job EXCEPT !.todo = @ \ {n}, !.stage = "create", !.recipient = directory[n]]
    /\ UNCHANGED <<accountVars, topicVars, position, committed, notifications, restarts,
                   handled, failed, failures>>

\* usernames.lookup: an unknown name and the author's own are passed over.
Lookup(n) ==
    /\ job.stage = "lookup" /\ n \in job.todo
    /\ job' = IF directory[n] \in {None, Post.author}
              THEN [job EXCEPT !.todo = @ \ {n}]
              ELSE [job EXCEPT !.todo = @ \ {n}, !.stage = "create", !.recipient = directory[n]]
    /\ UNCHANGED <<accountVars, topicVars, position, committed, notifications, restarts,
                   handled, failed, failures>>

\* notifications.create: an INSERT under a new ID, so nothing is replaced.
CreateNotification ==
    /\ job.stage = "create"
    /\ notifications' = [notifications EXCEPT ![<<job.recipient, Message>>] = @ + 1]
    /\ job' = [job EXCEPT !.stage = "lookup", !.recipient = None]
    /\ UNCHANGED <<accountVars, topicVars, position, committed, restarts, handled, failed, failures>>

\* handlePostCreated returns.
FinishMentions ==
    /\ job.stage = "lookup" /\ job.todo = {}
    /\ job' = [job EXCEPT !.stage = "commit"]
    /\ handled' = [handled EXCEPT ![job.partition] = @ \cup {position[job.partition]}]
    /\ UNCHANGED <<accountVars, topicVars, position, committed, notifications, restarts, failed, failures>>

\* Mutant of CommitMessage: commits before the work, once the message is taken.
CommitTaken ==
    /\ job.stage \in {"lookup", "commit"}
    /\ committed[job.partition] # position[job.partition]
    /\ committed' = [committed EXCEPT ![job.partition] = position[job.partition]]
    /\ job' = IF job.stage = "commit" THEN NoJob ELSE job
    /\ UNCHANGED <<accountVars, topicVars, position, notifications, restarts, handled, failed, failures>>

\* commitOffsets: offset + 1, of the partition of the message.
CommitMessage ==
    /\ job.stage = "commit"
    /\ committed' = [committed EXCEPT ![job.partition] = position[job.partition]]
    /\ job' = NoJob
    /\ UNCHANGED <<accountVars, topicVars, position, notifications, restarts, handled, failed, failures>>

\* Redis, Postgres or the commit throws: logged, and on to the next message.
\* What was asked of Postgres or Kafka may have been done all the same.
MessageFails ==
    /\ job # NoJob
    /\ failures < MaxFailures /\ failures' = failures + 1
    /\ failed' = IF job.stage = "commit" THEN failed ELSE failed \cup {Message}
    /\ committed' \in IF job.stage = "commit"
                     THEN {committed, [committed EXCEPT ![job.partition] = position[job.partition]]}
                     ELSE {committed}
    /\ notifications' \in IF job.stage = "create"
                         THEN {notifications, [notifications EXCEPT ![<<job.recipient, Message>>] = @ + 1]}
                         ELSE {notifications}
    /\ handled' = [handled EXCEPT ![job.partition] = @ \cup {position[job.partition]}]
    /\ job' = NoJob
    /\ UNCHANGED <<accountVars, topicVars, position, restarts>>

\* The process starts again at the committed offsets.
RestartNotifier ==
    /\ restarts < MaxRestarts
    /\ restarts' = restarts + 1
    /\ position' = committed
    /\ job' = NoJob
    /\ UNCHANGED <<accountVars, topicVars, committed, notifications, handled, failed, failures>>

NotifierStep ==
    \/ \E x \in Partitions : TakeMessage(x)
    \/ \E n \in Names : Lookup(n)
    \/ CreateNotification
    \/ FinishMentions
    \/ CommitMessage

-----------------------------------------------------------------------------
Next ==
    \/ AccountsNext /\ UNCHANGED <<topicVars, notifyVars>>
    \/ \E a \in welcomed, m \in SUBSET Names : Publish(a, m)
    \/ NotifierStep \/ MessageFails \/ RestartNotifier

Spec == Init /\ [][Next]_vars

-----------------------------------------------------------------------------
TypeOK ==
    /\ AccountsTypeOK
    /\ posts \in Seq([author : Ids, mentions : SUBSET Names, due : SUBSET Ids])
    /\ Len(posts) <= MaxPosts
    /\ log \in [Partitions -> Seq(PostIds)]
    /\ {position, committed} \subseteq [Partitions -> 0 .. MaxPosts]
    /\ job \in [stage : {"idle", "lookup", "create", "commit"}, partition : Partitions \cup {None},
                todo : SUBSET Names, recipient : Ids \cup {None}]
    /\ notifications \in [Ids \X PostIds -> Nat]
    /\ failed \subseteq PostIds /\ handled \in [Partitions -> SUBSET PostIds]
    /\ failures \in 0 .. MaxFailures /\ restarts \in 0 .. MaxRestarts

\* Posts handled without an error.
Done == (UNION {{log[x][i] : i \in handled[x]} : x \in Partitions}) \ failed

\* From signup to notification: whoever was told "created" before a post was
\* published, and is mentioned in it, has been notified once the post was
\* handled without an error, whatever signups of the same names raced or failed.
MentionsDelivered ==
    \A p \in Done : \A i \in posts[p].due : notifications[<<i, p>>] > 0

\* Nobody is notified of a post that does not mention their name, nor of their
\* own, and more than once only if the consumer was restarted in between.
NotifiedWithReason ==
    \A i \in Ids, p \in PostIds :
        notifications[<<i, p>>] > 0 =>
            /\ posts[p].author # i
            /\ \E n \in posts[p].mentions : <<i, n>> \in users
            /\ notifications[<<i, p>>] <= 1 + restarts

Consumer == INSTANCE AtLeastOnce
    WITH produced <- [x \in Partitions |-> Len(log[x])]

\* The consumer keeps the promise of the fan-out's: nothing is committed that
\* was not dealt with (if only by an error that was logged), in order.
NotifierAtLeastOnce == Consumer!Spec
=============================================================================
