----------------------------- MODULE Snowflake -----------------------------
(* The self-routing ID generator, pkg/sharding/snowflake.go, and its twins  *)
(* in Java and TypeScript.  One generator lives in each process that mints  *)
(* IDs for a shard: post-ingestion-service keeps one per shard, and         *)
(* notification-service another one per shard.  They share nothing but the  *)
(* wall clock.                                                              *)
EXTENDS Naturals, Integers, Sequences

CONSTANTS
    Gens,           \* generator instances (one per process and shard)
    ShardOf,        \* the shardID each instance is seeded with
    ServiceOf,      \* the service whose process keeps the instance
    SequenceSpan,   \* maxSequence + 1, 2^14 in the code
    ShardSpan,      \* MaxShardID + 1, 2^8 in the code
    MaxTime,        \* bound: the last millisecond of the modelled clock
    MaxIssued       \* bound: how many IDs one generator hands out

ASSUME SpanAssumption == SequenceSpan \in Nat \ {0} /\ ShardSpan \in Nat \ {0}

\* NewIDGenerator panics on a shardID outside the 8-bit field.
ASSUME ShardAssumption == ShardOf \in [Gens -> 0 .. ShardSpan - 1]

\* A process keeps its generators in a map from shard to generator, and one
\* process of each service runs.
ASSUME OnePerShardAssumption ==
    \A g, h \in Gens : ServiceOf[g] = ServiceOf[h] /\ ShardOf[g] = ShardOf[h] => g = h

ASSUME BoundAssumption == MaxTime \in Nat /\ MaxIssued \in Nat

VARIABLES
    now,            \* the wall clock, in milliseconds since epochMillis
    sequence,
    lastTimestamp,
    spinning,       \* g holds its mutex inside the loop of Next()
    issued          \* history: what each generator has returned, in order

vars == <<now, sequence, lastTimestamp, spinning, issued>>

\* What one call of Next() returned, before the fields are packed.
Mint == [ts : Nat, seq : 0 .. SequenceSpan - 1]

\* (ts << timestampShift) | (shardID << shardIDShift) | sequence: the three
\* fields do not overlap, so the ORs are sums.
Pack(ts, shard, seq) == (ts * ShardSpan + shard) * SequenceSpan + seq

\* int(id >> shardIDShift) & MaxShardID
ExtractShardID(id) == (id \div SequenceSpan) % ShardSpan

IdOf(g, m) == Pack(m.ts, ShardOf[g], m.seq)

-----------------------------------------------------------------------------
\* NewIDGenerator: lastTimestamp starts at -1.
Init ==
    /\ now = 0
    /\ sequence = [g \in Gens |-> 0]
    /\ lastTimestamp = [g \in Gens |-> -1]
    /\ spinning = [g \in Gens |-> FALSE]
    /\ issued = [g \in Gens |-> <<>>]

\* Next() returns with the fields ts and seq; the mutex is released.
Return(g, ts, seq) ==
    /\ Len(issued[g]) < MaxIssued
    /\ sequence' = [sequence EXCEPT ![g] = seq]
    /\ lastTimestamp' = [lastTimestamp EXCEPT ![g] = ts]
    /\ issued' = [issued EXCEPT ![g] = Append(@, [ts |-> ts, seq |-> seq])]

\* (g.sequence + 1) & maxSequence
NextSequence(g) == (sequence[g] + 1) % SequenceSpan

\* The else branch: the millisecond differs from the last one, in whichever
\* direction.
MintInOtherMillisecond(g) ==
    /\ ~ spinning[g]
    /\ now # lastTimestamp[g]
    /\ Return(g, now, 0)
    /\ UNCHANGED <<now, spinning>>

\* Mutant of MintInSameMillisecond: does not wait when the sequence wraps.
MintPastExhaustion(g) ==
    /\ ~ spinning[g]
    /\ now = lastTimestamp[g]
    /\ Return(g, now, NextSequence(g))
    /\ UNCHANGED <<now, spinning>>

MintInSameMillisecond(g) ==
    /\ ~ spinning[g]
    /\ now = lastTimestamp[g]
    /\ NextSequence(g) # 0
    /\ Return(g, now, NextSequence(g))
    /\ UNCHANGED <<now, spinning>>

\* The sequence is exhausted: the caller enters the loop, holding the mutex.
\* Both bounds leave room for the millisecond and the ID it waits for.
ExhaustSequence(g) ==
    /\ ~ spinning[g]
    /\ now < MaxTime /\ Len(issued[g]) < MaxIssued
    /\ now = lastTimestamp[g]
    /\ NextSequence(g) = 0
    /\ sequence' = [sequence EXCEPT ![g] = 0]
    /\ spinning' = [spinning EXCEPT ![g] = TRUE]
    /\ UNCHANGED <<now, lastTimestamp, issued>>

\* Mutants of LeaveSpin: the loop compares with <, or waits for one particular
\* millisecond.
LeaveSpinAtOnce(g) ==
    /\ spinning[g]
    /\ now >= lastTimestamp[g]
    /\ Return(g, now, sequence[g])
    /\ spinning' = [spinning EXCEPT ![g] = FALSE]
    /\ UNCHANGED now

LeaveSpinInNextMillisecond(g) ==
    /\ spinning[g]
    /\ now = lastTimestamp[g] + 1
    /\ Return(g, now, sequence[g])
    /\ spinning' = [spinning EXCEPT ![g] = FALSE]
    /\ UNCHANGED now

\* The loop's clock read finds a later millisecond.
LeaveSpin(g) ==
    /\ spinning[g]
    /\ now > lastTimestamp[g]
    /\ Return(g, now, sequence[g])
    /\ spinning' = [spinning EXCEPT ![g] = FALSE]
    /\ UNCHANGED now

Tick ==
    /\ now < MaxTime
    /\ now' = now + 1
    /\ UNCHANGED <<sequence, lastTimestamp, spinning, issued>>

\* The process dies and a new one calls NewIDGenerator: nothing is persisted.
\* Starting a process takes at least one millisecond.
Restart(g) ==
    /\ now < MaxTime
    /\ now' = now + 1
    /\ sequence' = [sequence EXCEPT ![g] = 0]
    /\ lastTimestamp' = [lastTimestamp EXCEPT ![g] = -1]
    /\ spinning' = [spinning EXCEPT ![g] = FALSE]
    /\ UNCHANGED issued

\* time.Now().UnixMilli() is the wall clock: it may be set back.
StepBack ==
    /\ \E t \in 0 .. now - 1 : now' = t
    /\ UNCHANGED <<sequence, lastTimestamp, spinning, issued>>

Generate(g) ==
    \/ MintInOtherMillisecond(g)
    \/ MintInSameMillisecond(g)
    \/ ExhaustSequence(g)
    \/ LeaveSpin(g)

Next ==
    \/ \E g \in Gens : Generate(g) \/ Restart(g)
    \/ Tick

\* A clock that never goes back.
Spec == Init /\ [][Next]_vars

\* The scheduler runs the spinning thread and time passes.
FairSpec ==
    /\ Spec
    /\ WF_vars(Tick)
    /\ \A g \in Gens : WF_vars(LeaveSpin(g))

\* A clock that NTP or an operator may set back, under processes that live on.
SteppedNext ==
    \/ \E g \in Gens : Generate(g)
    \/ Tick
    \/ StepBack

SteppedSpec == Init /\ [][SteppedNext]_vars

-----------------------------------------------------------------------------
\* The sequence fits its field of the ID, and the clock fields are those of a
\* clock that was read, also after the sequence wrapped and after a restart.
TypeOK ==
    /\ now \in 0 .. MaxTime
    /\ sequence \in [Gens -> 0 .. SequenceSpan - 1]
    /\ lastTimestamp \in [Gens -> 0 .. MaxTime \cup {-1}]
    /\ spinning \in [Gens -> BOOLEAN]
    /\ issued \in [Gens -> Seq(Mint)]

\* No primary key is used twice (db/shard-schema.sql:12-18): two calls return
\* the same ID only to two services, which write different tables, and only
\* from generators of one shard; not through exhaustion, nor through restarts.
UniqueInService ==
    \A g, h \in Gens : \A i \in DOMAIN issued[g], j \in DOMAIN issued[h] :
        IdOf(g, issued[g][i]) = IdOf(h, issued[h][j])
            => \/ g = h /\ i = j
               \/ ServiceOf[g] # ServiceOf[h] /\ ShardOf[g] = ShardOf[h]

\* What db/shard-schema.sql:16 says of IDs, "globally unique": not so once two
\* services mint on one shard.
GloballyUnique ==
    \A g, h \in Gens : \A i \in DOMAIN issued[g], j \in DOMAIN issued[h] :
        IdOf(g, issued[g][i]) = IdOf(h, issued[h][j]) => g = h /\ i = j

\* IDs are k-sortable: a generator's IDs increase in the order of its calls
\* (cursors and ORDER BY rely on it), across spins and restarts.
MonotonicWithinShard ==
    \A g \in Gens : \A i, j \in DOMAIN issued[g] :
        i < j => IdOf(g, issued[g][i]) < IdOf(g, issued[g][j])

\* The shard that minted an ID is recovered by a shift, whatever the clock did.
ShardRecoverable ==
    \A g \in Gens : \A i \in DOMAIN issued[g] :
        ExtractShardID(IdOf(g, issued[g][i])) = ShardOf[g]

\* A caller that exhausted the sequence of a millisecond gets its ID, and the
\* callers queued on the mutex behind it are released.
SpinTerminates == \A g \in Gens : spinning[g] ~> ~ spinning[g]

-----------------------------------------------------------------------------
(* Why they hold: the strengthening that SnowflakeProofs shows inductive    *)
(* under a clock that does not go back.                                     *)

Earlier(m, n) == m.ts < n.ts \/ (m.ts = n.ts /\ m.seq < n.seq)

\* m was minted before the state g is in: in an earlier process, in an earlier
\* millisecond or, unless the sequence is exhausted, with a smaller sequence.
Behind(m, g) ==
    \/ m.ts < lastTimestamp[g]
    \/ m.ts = lastTimestamp[g] /\ (spinning[g] \/ m.seq <= sequence[g])
    \/ lastTimestamp[g] = -1 /\ m.ts < now

IssuedInOrder ==
    \A g \in Gens : \A i, j \in DOMAIN issued[g] :
        i < j => Earlier(issued[g][i], issued[g][j])

GeneratorAhead ==
    \A g \in Gens :
        /\ lastTimestamp[g] <= now
        /\ \A i \in DOMAIN issued[g] : Behind(issued[g][i], g)

IInv == TypeOK /\ IssuedInOrder /\ GeneratorAhead
=============================================================================
