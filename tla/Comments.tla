------------------------------ MODULE Comments ------------------------------
(* Comments on one post in post-ingestion-service.  A comment is a row and   *)
(* an INCR of its post's counter, with no transaction.  Lists go through a   *)
(* singleflight.Group: whoever asks while a fetch is under way waits for     *)
(* that fetch and shares what comes of it, its error or its gaps included.  *)
EXTENDS Naturals, Sequences, FiniteSets, SequencesExt

CONSTANTS
    Authors,
    Readers,
    None,
    MaxComments,    \* bound: comments requested
    MaxReads,       \* bound: lists requested
    MaxFailures     \* bound: calls that fail, and readers that leave

ASSUME CommentBounds == MaxComments \in Nat /\ MaxReads \in Nat /\ MaxFailures \in Nat

VARIABLES
    authorOf,       \* the author of each comment ID; IDs are in order of
                    \*   created_at, which is taken before the INSERT
    creation,       \* how far CreateComment of each ID got
    rows,           \* Postgres: the comments inserted
    count,          \* Redis: comments:count:<post>
    flight,         \* the fetch under way, if any
    call,           \* what each reader waits for, or was given
    reads, failures,    \* counters of the bounds
    known,          \* history: comments acknowledged, or shown to somebody
    lost            \* history: comments whose INCR never came

createVars == <<authorOf, creation, rows, count, lost>>
readVars   == <<flight, call, reads>>
vars == <<createVars, readVars, failures, known>>

Ids == 1 .. MaxComments

NoFlight == [stage |-> "none"]
NoCall == [stage |-> "idle"]

Init ==
    /\ authorOf = <<>> /\ creation = <<>>
    /\ rows = {} /\ count = 0
    /\ flight = NoFlight /\ call = [r \in Readers |-> NoCall]
    /\ reads = 0 /\ failures = 0
    /\ known = {} /\ lost = {}

-----------------------------------------------------------------------------
(* CreateComment                                                            *)

BeginComment(a) ==
    /\ Len(authorOf) < MaxComments
    /\ authorOf' = Append(authorOf, a)
    /\ creation' = Append(creation, "insert")
    /\ UNCHANGED <<rows, count, lost, readVars, failures, known>>

\* Mutant of InsertComment: counts the comment as it is stored.
InsertAndCount(c) ==
    /\ creation[c] = "insert"
    /\ rows' = rows \cup {c}
    /\ count' = count + 1
    /\ creation' = [creation EXCEPT ![c] = "count"]
    /\ UNCHANGED <<authorOf, lost, readVars, failures, known>>

InsertComment(c) ==
    /\ creation[c] = "insert"
    /\ rows' = rows \cup {c}
    /\ creation' = [creation EXCEPT ![c] = "count"]
    /\ UNCHANGED <<authorOf, count, lost, readVars, failures, known>>

IncrCommentCount(c) ==
    /\ creation[c] = "count"
    /\ count' = count + 1
    /\ creation' = [creation EXCEPT ![c] = "answer"]
    /\ UNCHANGED <<authorOf, rows, lost, readVars, failures, known>>

\* The author's name is added if it can be had, and the comment is returned.
ReturnComment(c) ==
    /\ creation[c] = "answer"
    /\ creation' = [creation EXCEPT ![c] = "created"]
    /\ known' = known \cup {c}
    /\ UNCHANGED <<authorOf, rows, count, lost, readVars, failures>>

\* INSERT or INCR returns an error, or the process dies before the answer; the
\* store may have done its part all the same.
CreateFails(c) ==
    /\ creation[c] \in {"insert", "count", "answer"}
    /\ failures < MaxFailures /\ failures' = failures + 1
    /\ creation' = [creation EXCEPT ![c] = "failed"]
    /\ CASE creation[c] = "insert" ->
              /\ UNCHANGED count
              /\ \/ UNCHANGED <<rows, lost>>
                 \/ rows' = rows \cup {c} /\ lost' = lost \cup {c}
         [] creation[c] = "count" ->
              /\ UNCHANGED rows
              /\ \/ count' = count + 1 /\ UNCHANGED lost
                 \/ lost' = lost \cup {c} /\ UNCHANGED count
         [] OTHER -> UNCHANGED <<rows, count, lost>>
    /\ UNCHANGED <<authorOf, readVars, known>>

CreateComment ==
    \/ \E a \in Authors : BeginComment(a)
    \/ \E c \in 1 .. Len(creation) :
          InsertComment(c) \/ IncrCommentCount(c) \/ ReturnComment(c) \/ CreateFails(c)

-----------------------------------------------------------------------------
(* ListComments                                                             *)

Flying == flight.stage \in {"query", "hydrate"}

\* A new entry of the group's map.
TakeOff(r) ==
    [stage |-> "query", leader |-> r, members |-> {r}, left |-> FALSE,
     list |-> <<>>, named |-> <<>>, names |-> {}]

\* owed is history: what was known when the fetch began that r waits for.
Wait(r) ==
    LET waiting == {q \in Readers : call[q].stage = "waiting"}
        owed == IF waiting = {} THEN known ELSE call[CHOOSE q \in waiting : TRUE].owed
    IN  call' = [call EXCEPT ![r] = [stage |-> "waiting", owed |-> owed]]

\* Do: joins the fetch of the key, or becomes the leader of a new one.
BeginList(r) ==
    /\ call[r] = NoCall
    /\ reads < MaxReads /\ reads' = reads + 1
    /\ flight' = IF flight = NoFlight
                 THEN TakeOff(r) ELSE [flight EXCEPT !.members = @ \cup {r}]
    /\ Wait(r)
    /\ UNCHANGED <<createVars, failures, known>>

\* The client of the leader's request goes away: its context is cancelled, and
\* with it every further call of the fetch.  Joiners' contexts are not used.
LeaderLeaves ==
    /\ Flying /\ ~ flight.left
    /\ failures < MaxFailures /\ failures' = failures + 1
    /\ flight' = [flight EXCEPT !.left = TRUE]
    /\ UNCHANGED <<createVars, call, reads, known>>

\* ORDER BY created_at: the rows by ascending ID.  (A definition of its own,
\* since the provers cannot look into the sort of the standard module TLC.)
ByCreatedAt(ids) ==
    CHOOSE list \in [1 .. Cardinality(ids) -> ids] :
        \A i, j \in DOMAIN list : i < j => list[i] < list[j]

ListByPost ==
    /\ flight.stage = "query" /\ ~ flight.left
    /\ flight' = [flight EXCEPT !.stage = "hydrate", !.list = ByCreatedAt(rows)]
    /\ UNCHANGED <<createVars, call, reads, failures, known>>

\* The next comment to get a username, and its author.
Comment == flight.list[Len(flight.named) + 1]

ToName == flight.stage = "hydrate" /\ Len(flight.named) < Len(flight.list)

NameFromCache ==
    /\ ToName /\ authorOf[Comment] \in flight.names
    /\ flight' = [flight EXCEPT !.named = Append(@, TRUE)]
    /\ UNCHANGED <<createVars, call, reads, failures, known>>

\* Mutant of NameFromUsers: asks again for a name it has.
NameAlwaysFromUsers ==
    /\ ToName
    /\ \/ /\ ~ flight.left /\ UNCHANGED failures
          /\ flight' = [flight EXCEPT !.named = Append(@, TRUE),
                                      !.names = @ \cup {authorOf[Comment]}]
       \/ /\ \/ flight.left /\ UNCHANGED failures
             \/ failures < MaxFailures /\ failures' = failures + 1
          /\ flight' = [flight EXCEPT !.named = Append(@, FALSE)]
    /\ UNCHANGED <<createVars, call, reads, known>>

\* users.GetByID: an error leaves the name blank, and is not remembered.
NameFromUsers ==
    /\ ToName /\ authorOf[Comment] \notin flight.names
    /\ \/ /\ ~ flight.left /\ UNCHANGED failures
          /\ flight' = [flight EXCEPT !.named = Append(@, TRUE),
                                      !.names = @ \cup {authorOf[Comment]}]
       \/ /\ \/ flight.left /\ UNCHANGED failures
             \/ failures < MaxFailures /\ failures' = failures + 1
          /\ flight' = [flight EXCEPT !.named = Append(@, FALSE)]
    /\ UNCHANGED <<createVars, call, reads, known>>

\* Everybody in the fetch is given its outcome.
Give(stage) ==
    call' = [r \in Readers |->
                IF r \in flight.members
                THEN [stage |-> stage, list |-> flight.list, named |-> flight.named,
                      owed |-> call[r].owed]
                ELSE call[r]]

\* Mutant of Land: the entry stays in the map and serves whoever comes next.
LandInMap ==
    /\ flight.stage = "hydrate" /\ ~ ToName /\ flight.members # {}
    /\ Give("answered")
    /\ flight' = [flight EXCEPT !.members = {}]
    /\ UNCHANGED <<createVars, reads, failures, known>>

\* The function returns: the entry leaves the map and the waiters wake up.
Land ==
    /\ flight.stage = "hydrate" /\ ~ ToName
    /\ Give("answered")
    /\ flight' = NoFlight
    /\ UNCHANGED <<createVars, reads, failures, known>>

\* Mutant of ListFails: only the leader learns of the error.
ListFailsForLeader ==
    /\ flight.stage = "query"
    /\ \/ flight.left /\ UNCHANGED failures
       \/ failures < MaxFailures /\ failures' = failures + 1
    /\ call' = [call EXCEPT ![flight.leader] = [stage |-> "failed"]]
    /\ flight' = NoFlight
    /\ UNCHANGED <<createVars, reads, known>>

\* ListByPost returns an error, which is everybody's.
ListFails ==
    /\ flight.stage = "query"
    /\ \/ flight.left /\ UNCHANGED failures
       \/ failures < MaxFailures /\ failures' = failures + 1
    /\ Give("failed")
    /\ flight' = NoFlight
    /\ UNCHANGED <<createVars, reads, known>>

\* A waiter wakes up and answers its client.
ReturnList(r) ==
    /\ call[r].stage \in {"answered", "failed"}
    /\ known' = IF call[r].stage = "answered" THEN known \cup ToSet(call[r].list) ELSE known
    /\ call' = [call EXCEPT ![r] = NoCall]
    /\ UNCHANGED <<createVars, flight, reads, failures>>

\* The leader's goroutine.
Fetch == ListByPost \/ NameFromCache \/ NameFromUsers \/ Land \/ ListFails

Next ==
    \/ CreateComment
    \/ \E r \in Readers : BeginList(r) \/ ReturnList(r)
    \/ LeaderLeaves
    \/ Fetch

Spec == Init /\ [][Next]_vars

\* Goroutines run; nothing is assumed of clients or failures.
FairSpec == Spec /\ WF_vars(Fetch) /\ \A r \in Readers : WF_vars(ReturnList(r))

-----------------------------------------------------------------------------
TypeOK ==
    /\ authorOf \in Seq(Authors) /\ Len(authorOf) = Len(creation)
    /\ creation \in Seq({"insert", "count", "answer", "created", "failed"})
    /\ rows \subseteq 1 .. Len(creation) /\ count \in 0 .. MaxComments
    /\ known \subseteq rows /\ lost \subseteq rows
    /\ flight = NoFlight
       \/ /\ flight.stage \in {"query", "hydrate"}
          /\ flight.members \subseteq Readers /\ flight.leader \in flight.members
          /\ flight.named \in Seq(BOOLEAN) /\ Len(flight.named) <= Len(flight.list)
    /\ \A r \in Readers : call[r].stage \in {"idle", "waiting", "answered", "failed"}
    /\ reads \in 0 .. MaxReads /\ failures \in 0 .. MaxFailures

\* Every comment is accounted for: the counter misses the comments that are
\* between their INSERT and their INCR and those whose INCR was lost to an
\* error, and no others; so it is never ahead of the rows.
CountAccounted ==
    count + Cardinality({c \in rows : creation[c] = "count"}) + Cardinality(lost)
        = Cardinality(rows)

\* Sharing a fetch costs nobody more than the time it is under way: an answer
\* has every comment that was acknowledged to its author, or shown to anybody,
\* before the fetch began; and whoever finds no fetch under way gets what is
\* known as they ask.
ListIsFresh ==
    \A r \in Readers :
        call[r].stage = "answered" => call[r].owed \subseteq ToSet(call[r].list)

\* Within one answer a username that was found is found for every later comment
\* of the same author, even if the leader's client leaves in between.
NameFoundIsKept ==
    \A r \in Readers : call[r].stage = "answered" =>
        \A i, j \in DOMAIN call[r].list :
            /\ i < j
            /\ authorOf[call[r].list[i]] = authorOf[call[r].list[j]]
            /\ call[r].named[i]
            => call[r].named[j]

\* Whoever waits for somebody else's fetch is answered, whatever becomes of it.
EveryReaderAnswered ==
    \A r \in Readers : call[r].stage = "waiting" ~> call[r] = NoCall
=============================================================================
