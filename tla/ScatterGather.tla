--------------------------- MODULE ScatterGather ---------------------------
(* The reads that fan out over the shards: GetBatch and RecentByAuthors of  *)
(* feed-aggregation-service, ListRecentByAuthors and ListAll of             *)
(* post-ingestion-service.  One goroutine per shard sends one result into a *)
(* buffered channel, a further one closes it when the WaitGroup is done,    *)
(* and the caller collects until then.  A call is one such read.            *)
EXTENDS Naturals, Sequences, FiniteSets

CONSTANTS
    Calls,      \* callers, each inside one read at a time
    Shards,     \* of the topology
    Keys,       \* IDs to ask for
    ShardOf     \* ExtractShardID of each: of a forged ID, no shard there is

VARIABLES
    asking,     \* what the goroutine of each shard asks for; {}: it is Done, or none
    results,    \* the channel: results sent and not received, an error is NoRows
    merged,     \* the caller's map of rows
    firstErr    \* the caller has received an error

Nothing == [s \in Shards |-> {}]

\* A result that is an error.
NoRows == [rows |-> {}, err |-> TRUE]

\* groupByShard: IDs of unknown shards are dropped.
GroupByShard(keys) == [s \in Shards |-> {k \in keys : ShardOf[k] = s}]

\* The WaitGroup: every goroutine has called Done.
WaitGroupDone(c) == asking[c] = Nothing

\* range over the channel has ended: it is closed and empty.
Collected(c) == WaitGroupDone(c) /\ results[c] = <<>>

GatherInit ==
    /\ asking = [c \in Calls |-> Nothing]
    /\ results = [c \in Calls |-> <<>>]
    /\ merged = [c \in Calls |-> {}]
    /\ firstErr = [c \in Calls |-> FALSE]

\* The goroutines start.
Scatter(c, keys) ==
    /\ asking' = [asking EXCEPT ![c] = GroupByShard(keys)]
    /\ merged' = [merged EXCEPT ![c] = {}]
    /\ firstErr' = [firstErr EXCEPT ![c] = FALSE]
    /\ UNCHANGED results

\* The goroutine of s sends its result and is Done.  The channel has room for
\* one result of each: a send never waits.
Send(c, s, result) ==
    /\ asking[c][s] # {}
    /\ asking' = [asking EXCEPT ![c][s] = {}]
    /\ results' = [results EXCEPT ![c] = Append(@, result)]
    /\ UNCHANGED <<merged, firstErr>>

\* The query of shard s succeeds with the given rows.
QueryShard(c, s, rows) == Send(c, s, [rows |-> rows, err |-> FALSE])

\* Mutant of QueryFails: returns without Done.
QueryFailsWithoutDone(c, s) ==
    /\ asking[c][s] # {}
    /\ results' = [results EXCEPT ![c] = <<NoRows>>]
    /\ UNCHANGED <<asking, merged, firstErr>>

QueryFails(c, s) == Send(c, s, NoRows)

\* Mutant of Receive: an error is skipped.
ReceiveRowsOnly(c) ==
    /\ results[c] # <<>>
    /\ results' = [results EXCEPT ![c] = Tail(@)]
    /\ merged' = [merged EXCEPT ![c] = @ \cup Head(results[c]).rows]
    /\ UNCHANGED <<asking, firstErr>>

\* The caller's loop: rows are merged, the first error is kept.
Receive(c) ==
    /\ results[c] # <<>>
    /\ results' = [results EXCEPT ![c] = Tail(@)]
    /\ merged' = [merged EXCEPT ![c] = @ \cup Head(results[c]).rows]
    /\ firstErr' = [firstErr EXCEPT ![c] = @ \/ Head(results[c]).err]
    /\ UNCHANGED asking

\* The caller has its answer, or goes away: the locals are gone.
DropGather(c) ==
    /\ asking' = [asking EXCEPT ![c] = Nothing]
    /\ results' = [results EXCEPT ![c] = <<>>]
    /\ merged' = [merged EXCEPT ![c] = {}]
    /\ firstErr' = [firstErr EXCEPT ![c] = FALSE]

\* An error was sent: the call can only fail.
Doomed(c) == firstErr[c] \/ \E i \in DOMAIN results[c] : results[c][i].err
=============================================================================
