-------------------------- MODULE SnowflakeProofs --------------------------
(* The ID generators mint unique, increasing, self-routing IDs for every    *)
(* number of generators, every width of the fields and every clock that     *)
(* does not go back.                                                        *)
EXTENDS Snowflake, TLAPS

-----------------------------------------------------------------------------
(* Arithmetic of the packed layout.                                         *)

\* Multiplication by a natural number keeps the order.
LEMMA ProductMonotonic ==
    ASSUME NEW a \in Nat, NEW b \in Nat, NEW s \in Nat, a <= b
    PROVE  a * s <= b * s
<1>1. PICK d \in Nat : b = a + d
    BY b - a \in Nat
<1>2. b * s = a * s + d * s
    BY <1>1
<1>3. a * s \in Nat /\ d * s \in Nat
    OBVIOUS
<1>. QED BY <1>2, <1>3

\* A pair of a quotient and a bounded remainder is ordered as the number is.
LEMMA DigitOrder ==
    ASSUME NEW s \in Nat \ {0}, NEW a \in Nat, NEW b \in Nat,
           NEW x \in 0 .. s - 1, NEW y \in 0 .. s - 1,
           a < b \/ (a = b /\ x < y)
    PROVE  a * s + x < b * s + y
<1>1. CASE a = b /\ x < y
    <2>1. a * s = b * s /\ a * s \in Nat
        BY <1>1
    <2>. QED BY <1>1, <2>1
<1>2. CASE a < b
    <2>1. (a + 1) * s <= b * s
        BY <1>2, ProductMonotonic
    <2>2. (a + 1) * s = a * s + s
        OBVIOUS
    <2>3. a * s \in Nat /\ b * s \in Nat
        OBVIOUS
    <2>. QED BY <2>1, <2>2, <2>3
<1>. QED BY <1>1, <1>2

\* Two numbers written with the same digits are the same.
LEMMA DigitUnique ==
    ASSUME NEW s \in Nat \ {0}, NEW a \in Nat, NEW b \in Nat,
           NEW x \in 0 .. s - 1, NEW y \in 0 .. s - 1,
           a * s + x = b * s + y
    PROVE  a = b /\ x = y
<1>1. a * s + x \in Nat /\ b * s + y \in Nat
    OBVIOUS
<1>2. ~ (a < b \/ (a = b /\ x < y))
    <2>1. SUFFICES ASSUME a < b \/ (a = b /\ x < y) PROVE FALSE
        OBVIOUS
    <2>2. a * s + x < b * s + y
        BY <2>1, DigitOrder
    <2>. QED BY <1>1, <2>2
<1>3. ~ (b < a \/ (b = a /\ y < x))
    <2>1. SUFFICES ASSUME b < a \/ (b = a /\ y < x) PROVE FALSE
        OBVIOUS
    <2>2. b * s + y < a * s + x
        BY <2>1, DigitOrder
    <2>. QED BY <1>1, <2>2
<1>. QED BY <1>2, <1>3

\* Division and remainder recover the digits.
LEMMA DigitOf ==
    ASSUME NEW s \in Nat \ {0}, NEW a \in Nat, NEW x \in 0 .. s - 1
    PROVE  (a * s + x) \div s = a /\ (a * s + x) % s = x
<1> DEFINE n == a * s + x
<1>1. n \in Nat
    OBVIOUS
<1>2. PICK q \in Nat, r \in 0 .. s - 1 : q = n \div s /\ r = n % s /\ n = q * s + r
    <2>1. n \div s \in Nat /\ n % s \in 0 .. s - 1
        BY <1>1
    <2>2. n = ((n \div s) * s) + (n % s)
        BY <1>1
    <2>. QED BY <2>1, <2>2
<1>3. a = q /\ x = r
    BY <1>2, DigitUnique
<1>. QED BY <1>2, <1>3

-----------------------------------------------------------------------------
(* The fields of an ID.                                                     *)

\* The order of two IDs of one shard is the order of their timestamps, then
\* of their sequences.
LEMMA PackOrder ==
    ASSUME NEW sh \in 0 .. ShardSpan - 1, NEW m \in Mint, NEW n \in Mint,
           m.ts < n.ts \/ (m.ts = n.ts /\ m.seq < n.seq)
    PROVE  Pack(m.ts, sh, m.seq) < Pack(n.ts, sh, n.seq)
<1> DEFINE high(t) == t * ShardSpan + sh
<1>1. \A t \in Nat : high(t) \in Nat
    BY SpanAssumption
<1>2. m.ts < n.ts => high(m.ts) < high(n.ts)
    BY DigitOrder, SpanAssumption DEF Mint
<1>3. high(m.ts) < high(n.ts) \/ (high(m.ts) = high(n.ts) /\ m.seq < n.seq)
    BY <1>2
<1>4. high(m.ts) * SequenceSpan + m.seq < high(n.ts) * SequenceSpan + n.seq
    <2> HIDE DEF high
    <2>. QED BY <1>1, <1>3, DigitOrder, SpanAssumption DEF Mint
<1>. QED BY <1>4 DEF Pack

\* Nothing is lost in packing: the three fields of an ID are determined by it.
THEOREM PackInjective ==
    ASSUME NEW sh \in 0 .. ShardSpan - 1, NEW sg \in 0 .. ShardSpan - 1,
           NEW m \in Mint, NEW n \in Mint,
           Pack(m.ts, sh, m.seq) = Pack(n.ts, sg, n.seq)
    PROVE  sh = sg /\ m = n
<1> DEFINE a == m.ts * ShardSpan + sh
           b == n.ts * ShardSpan + sg
<1>1. a \in Nat /\ b \in Nat
    BY SpanAssumption DEF Mint
<1>2. a * SequenceSpan + m.seq = b * SequenceSpan + n.seq
    BY DEF Pack
<1>3. a = b /\ m.seq = n.seq
    <2> HIDE DEF a, b
    <2>. QED BY <1>1, <1>2, DigitUnique, SpanAssumption DEF Mint
<1>4. m.ts = n.ts /\ sh = sg
    BY <1>3, DigitUnique, SpanAssumption DEF Mint
<1>. QED BY <1>3, <1>4 DEF Mint

\* ExtractShardID undoes the packing, for every shard the field can hold.
THEOREM ShardExtracted ==
    ASSUME NEW sh \in 0 .. ShardSpan - 1, NEW m \in Mint
    PROVE  ExtractShardID(Pack(m.ts, sh, m.seq)) = sh
<1> DEFINE a == m.ts * ShardSpan + sh
<1>1. a \in Nat
    BY SpanAssumption DEF Mint
<1>2. (a * SequenceSpan + m.seq) \div SequenceSpan = a
    <2> HIDE DEF a
    <2>. QED BY <1>1, DigitOf, SpanAssumption DEF Mint
<1>3. a % ShardSpan = sh
    BY DigitOf, SpanAssumption DEF Mint
<1>. QED BY <1>2, <1>3 DEF Pack, ExtractShardID

-----------------------------------------------------------------------------
(* Type correctness, whatever the clock does.                               *)

\* The ranges, as the arithmetic of the steps below uses them.
LEMMA Ranges ==
    ASSUME TypeOK
    PROVE  /\ now \in Int /\ now >= 0 /\ MaxTime \in Nat
           /\ \A g \in Gens :
                 /\ lastTimestamp[g] \in Int /\ lastTimestamp[g] >= -1
                 /\ sequence[g] \in Nat
                 /\ \A i \in DOMAIN issued[g] :
                       /\ issued[g][i] \in Mint
                       /\ issued[g][i].ts \in Nat
                       /\ issued[g][i].seq \in Nat
<1>1. \A g \in Gens : \A i \in DOMAIN issued[g] : issued[g][i] \in Mint
    BY DEF TypeOK
<1>2. \A m \in Mint : m.ts \in Nat /\ m.seq \in Nat
    BY SpanAssumption DEF Mint
<1>3. now \in Int /\ now >= 0 /\ MaxTime \in Nat
    BY BoundAssumption DEF TypeOK
<1>4. \A t \in 0 .. MaxTime \cup {-1} : t \in Int /\ t >= -1
    BY BoundAssumption
<1>5. \A q \in 0 .. SequenceSpan - 1 : q \in Nat
    BY SpanAssumption
<1>6. \A g \in Gens : /\ lastTimestamp[g] \in Int /\ lastTimestamp[g] >= -1
                      /\ sequence[g] \in Nat
    BY <1>4, <1>5 DEF TypeOK
<1>. QED BY <1>1, <1>2, <1>3, <1>6

\* What Next() returns keeps the types.
LEMMA ReturnType ==
    ASSUME TypeOK, NEW g \in Gens, NEW ts \in 0 .. MaxTime,
           NEW seq \in 0 .. SequenceSpan - 1, Return(g, ts, seq)
    PROVE  /\ sequence' \in [Gens -> 0 .. SequenceSpan - 1]
           /\ lastTimestamp' \in [Gens -> 0 .. MaxTime \cup {-1}]
           /\ issued' \in [Gens -> Seq(Mint)]
<1>1. [ts |-> ts, seq |-> seq] \in Mint
    BY BoundAssumption DEF Mint
<1>. QED BY <1>1 DEF TypeOK, Return

\* The mask keeps the sequence in its field.
LEMMA NextSequenceType ==
    ASSUME TypeOK, NEW g \in Gens
    PROVE  NextSequence(g) \in 0 .. SequenceSpan - 1
<1>1. sequence[g] + 1 \in Nat
    BY SpanAssumption DEF TypeOK
<1>. QED BY <1>1, SpanAssumption DEF NextSequence

\* The initial states have their types.
LEMMA InitType == Init => TypeOK
    BY SpanAssumption, BoundAssumption DEF Init, TypeOK

\* Every step keeps the types, also one that sets the clock back.
LEMMA SteppedTypeStep == TypeOK /\ [SteppedNext]_vars => TypeOK'
<1> SUFFICES ASSUME TypeOK, [SteppedNext]_vars PROVE TypeOK'
    OBVIOUS
<1>1. ASSUME NEW g \in Gens, MintInOtherMillisecond(g) PROVE TypeOK'
    <2>1. now \in 0 .. MaxTime /\ 0 \in 0 .. SequenceSpan - 1
        BY SpanAssumption DEF TypeOK
    <2>. QED BY <1>1, <2>1, ReturnType DEF MintInOtherMillisecond, TypeOK
<1>2. ASSUME NEW g \in Gens, MintInSameMillisecond(g) PROVE TypeOK'
    BY <1>2, NextSequenceType, ReturnType DEF MintInSameMillisecond, TypeOK
<1>3. ASSUME NEW g \in Gens, ExhaustSequence(g) PROVE TypeOK'
    BY <1>3, SpanAssumption DEF ExhaustSequence, TypeOK
<1>4. ASSUME NEW g \in Gens, LeaveSpin(g) PROVE TypeOK'
    <2>1. now \in 0 .. MaxTime /\ sequence[g] \in 0 .. SequenceSpan - 1
        BY DEF TypeOK
    <2>. QED BY <1>4, <2>1, ReturnType DEF LeaveSpin, TypeOK
<1>5. CASE Tick
    BY <1>5, BoundAssumption DEF Tick, TypeOK
<1>6. CASE StepBack
    BY <1>6, BoundAssumption DEF StepBack, TypeOK
<1>7. CASE UNCHANGED vars
    BY <1>7 DEF vars, TypeOK
<1>. QED BY <1>1, <1>2, <1>3, <1>4, <1>5, <1>6, <1>7 DEF SteppedNext, Generate

\* Each generator's state and history stay in their types in every behaviour,
\* the ones in which the wall clock is set back included.
THEOREM TypeCorrect == SteppedSpec => []TypeOK
    BY InitType, SteppedTypeStep, PTL DEF SteppedSpec

-----------------------------------------------------------------------------
(* Order and uniqueness, under a clock that does not go back.               *)

\* Every action but the setting back of the clock is one of both specifications.
LEMMA TypeStep == TypeOK /\ [Next]_vars => TypeOK'
<1> SUFFICES ASSUME TypeOK, [Next]_vars PROVE TypeOK'
    OBVIOUS
<1>1. ASSUME NEW g \in Gens, Restart(g) PROVE TypeOK'
    BY <1>1, SpanAssumption, BoundAssumption DEF Restart, TypeOK
<1>2. CASE [SteppedNext]_vars
    BY <1>2, SteppedTypeStep
<1>. QED BY <1>1, <1>2 DEF Next, SteppedNext

\* Returning an ID that comes after all of g's IDs keeps the history ordered,
\* and puts all of it behind g's new state.
LEMMA ReturnInOrder ==
    ASSUME IInv, TypeOK', NEW g \in Gens, NEW ts \in 0 .. MaxTime,
           NEW seq \in 0 .. SequenceSpan - 1, Return(g, ts, seq),
           now' = now, ts <= now,
           \A h \in Gens : spinning'[h] = spinning[h] \/ h = g,
           \A i \in DOMAIN issued[g] :
               Earlier(issued[g][i], [ts |-> ts, seq |-> seq])
    PROVE  IInv'
<1> DEFINE m == [ts |-> ts, seq |-> seq]
<1>1. /\ issued' = [issued EXCEPT ![g] = Append(issued[g], m)]
      /\ sequence'[g] = seq /\ lastTimestamp'[g] = ts
      /\ \A h \in Gens \ {g} : /\ issued'[h] = issued[h]
                               /\ sequence'[h] = sequence[h]
                               /\ lastTimestamp'[h] = lastTimestamp[h]
    BY DEF Return, IInv, TypeOK
<1>2. issued[g] \in Seq(Mint) /\ m \in Mint
    <2>1. m \in Mint
        BY BoundAssumption DEF Mint
    <2>. QED BY <2>1 DEF IInv, TypeOK
<1>3. PICK k \in Nat :
        /\ DOMAIN issued'[g] = 1 .. k /\ DOMAIN issued[g] = 1 .. k - 1
        /\ \A i \in DOMAIN issued[g] : issued'[g][i] = issued[g][i]
        /\ issued'[g][k] = m
    <2>1. issued'[g] = Append(issued[g], m)
        BY <1>1 DEF IInv, TypeOK
    <2> HIDE DEF m
    <2>2. WITNESS Len(issued[g]) + 1 \in Nat
    <2>. QED BY <1>2, <2>1
<1>4. IssuedInOrder'
    <2> SUFFICES ASSUME NEW h \in Gens, NEW i \in DOMAIN issued'[h],
                        NEW j \in DOMAIN issued'[h], i < j
                 PROVE  Earlier(issued'[h][i], issued'[h][j])
        BY DEF IssuedInOrder, Earlier
    <2>1. CASE h # g
        BY <1>1, <2>1 DEF IInv, IssuedInOrder
    <2>2. CASE h = g /\ j \in DOMAIN issued[g]
        <3>1. i \in DOMAIN issued[g]
            BY <1>3, <2>2
        <3>. QED BY <1>3, <2>2, <3>1 DEF IInv, IssuedInOrder
    <2>3. CASE h = g /\ j \notin DOMAIN issued[g]
        <3>1. i \in DOMAIN issued[g] /\ j = k
            BY <1>3, <2>3
        <3>. QED BY <1>3, <2>3, <3>1
    <2>. QED BY <2>1, <2>2, <2>3
<1>5. GeneratorAhead'
    <2> SUFFICES ASSUME NEW h \in Gens
                 PROVE  /\ lastTimestamp'[h] <= now'
                        /\ \A i \in DOMAIN issued'[h] :
                              Behind(issued[h][i], h)'
        BY DEF GeneratorAhead
    <2>1. CASE h # g
        BY <1>1, <2>1 DEF IInv, GeneratorAhead, Behind
    <2>2. CASE h = g
        <3>1. lastTimestamp'[h] <= now'
            BY <1>1, <2>2
        <3>2. ASSUME NEW i \in DOMAIN issued[g] PROVE Behind(issued[g][i], g)'
            <4>1. issued[g][i] \in Mint
                BY <1>2
            <4>2. Earlier(issued[g][i], m)
                OBVIOUS
            <4>. QED BY <1>1, <1>3, <4>1, <4>2 DEF Earlier, Behind, Mint
        <3>3. Behind(issued[g][k], g)'
            BY <1>1, <1>3 DEF Behind
        <3>. QED BY <1>3, <2>2, <3>1, <3>2, <3>3
    <2>. QED BY <2>1, <2>2
<1>. QED BY <1>4, <1>5 DEF IInv

\* IInv holds initially and every step of a process or of the clock keeps it.
LEMMA Inductive == Spec => []IInv
<1>1. Init => IInv
    <2> SUFFICES ASSUME Init PROVE IInv
        OBVIOUS
    <2>1. TypeOK
        BY InitType
    <2>2. \A g \in Gens : DOMAIN issued[g] = {} /\ lastTimestamp[g] <= now
        <3>1. DOMAIN <<>> = {}
            OBVIOUS
        <3>2. -1 <= 0
            OBVIOUS
        <3>. QED BY <3>1, <3>2 DEF Init
    <2>. QED BY <2>1, <2>2 DEF IInv, IssuedInOrder, GeneratorAhead
<1>2. IInv /\ [Next]_vars => IInv'
    <2> SUFFICES ASSUME IInv, [Next]_vars PROVE IInv'
        OBVIOUS
    <2>0. TypeOK /\ TypeOK'
        BY TypeStep DEF IInv
    <2>1. ASSUME NEW g \in Gens, MintInOtherMillisecond(g) PROVE IInv'
        <3>1. \A i \in DOMAIN issued[g] :
                  Earlier(issued[g][i], [ts |-> now, seq |-> 0])
            <4> SUFFICES ASSUME NEW i \in DOMAIN issued[g]
                         PROVE  issued[g][i].ts < now
                BY DEF Earlier
            <4>1. Behind(issued[g][i], g) /\ lastTimestamp[g] <= now
                BY DEF IInv, GeneratorAhead
            <4>. QED BY <2>0, <2>1, <4>1, Ranges DEF MintInOtherMillisecond, Behind
        <3>2. now \in 0 .. MaxTime /\ 0 \in 0 .. SequenceSpan - 1
            BY <2>0, SpanAssumption DEF TypeOK
        <3>. QED BY <2>0, <2>1, <3>1, <3>2, ReturnInOrder DEF MintInOtherMillisecond
    <2>2. ASSUME NEW g \in Gens, MintInSameMillisecond(g) PROVE IInv'
        <3>1. NextSequence(g) = sequence[g] + 1
            <4>1. sequence[g] \in Nat /\ sequence[g] + 1 <= SequenceSpan
                BY <2>0, SpanAssumption DEF TypeOK
            <4>2. CASE sequence[g] + 1 = SequenceSpan
                BY <2>2, <4>1, <4>2, SpanAssumption
                   DEF MintInSameMillisecond, NextSequence
            <4>3. CASE sequence[g] + 1 < SequenceSpan
                BY <4>1, <4>3, SpanAssumption DEF NextSequence
            <4>. QED BY <4>1, <4>2, <4>3, SpanAssumption
        <3>2. \A i \in DOMAIN issued[g] :
                  Earlier(issued[g][i], [ts |-> now, seq |-> NextSequence(g)])
            <4> SUFFICES ASSUME NEW i \in DOMAIN issued[g]
                         PROVE  \/ issued[g][i].ts < now
                                \/ /\ issued[g][i].ts = now
                                   /\ issued[g][i].seq < NextSequence(g)
                BY DEF Earlier
            <4>1. issued[g][i] \in Mint /\ sequence[g] \in Nat
                BY <2>0 DEF TypeOK
            <4>2. Behind(issued[g][i], g)
                BY DEF IInv, GeneratorAhead
            <4>. QED BY <2>0, <2>2, <3>1, <4>1, <4>2
                     DEF MintInSameMillisecond, Behind, Mint, TypeOK
        <3>3. now \in 0 .. MaxTime /\ NextSequence(g) \in 0 .. SequenceSpan - 1
            BY <2>0, NextSequenceType DEF TypeOK
        <3>. QED BY <2>0, <2>2, <3>2, <3>3, ReturnInOrder DEF MintInSameMillisecond, TypeOK
    <2>3. ASSUME NEW g \in Gens, ExhaustSequence(g) PROVE IInv'
        <3>1. /\ issued' = issued /\ lastTimestamp' = lastTimestamp /\ now' = now
              /\ spinning'[g] /\ sequence'[g] = 0
              /\ \A h \in Gens \ {g} :
                    spinning'[h] = spinning[h] /\ sequence'[h] = sequence[h]
            BY <2>0, <2>3 DEF ExhaustSequence, TypeOK
        <3>2. IssuedInOrder'
            BY <3>1 DEF IInv, IssuedInOrder
        <3>3. GeneratorAhead'
            BY <3>1 DEF IInv, GeneratorAhead, Behind
        <3>. QED BY <2>0, <3>2, <3>3 DEF IInv
    <2>4. ASSUME NEW g \in Gens, LeaveSpin(g) PROVE IInv'
        <3>1. \A i \in DOMAIN issued[g] :
                  Earlier(issued[g][i], [ts |-> now, seq |-> sequence[g]])
            <4> SUFFICES ASSUME NEW i \in DOMAIN issued[g]
                         PROVE  issued[g][i].ts < now
                BY DEF Earlier
            <4>1. Behind(issued[g][i], g)
                BY DEF IInv, GeneratorAhead
            <4>. QED BY <2>0, <2>4, <4>1, Ranges DEF LeaveSpin, Behind
        <3>2. now \in 0 .. MaxTime /\ sequence[g] \in 0 .. SequenceSpan - 1
            BY <2>0 DEF TypeOK
        <3>3. \A h \in Gens : spinning'[h] = spinning[h] \/ h = g
            BY <2>0, <2>4 DEF LeaveSpin, TypeOK
        <3>4. Return(g, now, sequence[g]) /\ now' = now /\ now <= now
            BY <2>0, <2>4, Ranges DEF LeaveSpin
        <3>. QED BY <2>0, <3>1, <3>2, <3>3, <3>4, ReturnInOrder
    <2>5. ASSUME NEW g \in Gens, Restart(g) PROVE IInv'
        <3>1. /\ issued' = issued /\ now' = now + 1 /\ lastTimestamp'[g] = -1
              /\ \A h \in Gens \ {g} : /\ spinning'[h] = spinning[h]
                                       /\ sequence'[h] = sequence[h]
                                       /\ lastTimestamp'[h] = lastTimestamp[h]
            BY <2>0, <2>5 DEF Restart, TypeOK
        <3>2. IssuedInOrder'
            BY <3>1 DEF IInv, IssuedInOrder
        <3>3. ASSUME NEW h \in Gens, NEW i \in DOMAIN issued[h]
              PROVE  /\ issued[h][i] \in Mint
                     /\ Behind(issued[h][i], h)
                     /\ issued[h][i].ts <= now
            <4>1. issued[h][i] \in Mint
                BY <2>0 DEF TypeOK
            <4>2. Behind(issued[h][i], h) /\ lastTimestamp[h] <= now
                BY DEF IInv, GeneratorAhead
            <4>. QED BY <2>0, <4>1, <4>2, Ranges DEF Behind
        <3>4. GeneratorAhead'
            <4> SUFFICES ASSUME NEW h \in Gens
                         PROVE  /\ lastTimestamp'[h] <= now'
                                /\ \A i \in DOMAIN issued'[h] :
                                      Behind(issued[h][i], h)'
                BY DEF GeneratorAhead
            <4>1. CASE h = g
                BY <2>0, <3>1, <3>3, <4>1, Ranges DEF Behind
            <4>2. CASE h # g
                BY <2>0, <3>1, <3>3, <4>2, Ranges
                   DEF Behind, IInv, GeneratorAhead
            <4>. QED BY <4>1, <4>2
        <3>. QED BY <2>0, <3>2, <3>4 DEF IInv
    <2>6. CASE Tick
        <3>1. IssuedInOrder'
            BY <2>6 DEF Tick, IInv, IssuedInOrder
        <3>2. GeneratorAhead'
            <4> SUFFICES ASSUME NEW h \in Gens
                         PROVE  /\ lastTimestamp[h] <= now + 1
                                /\ \A i \in DOMAIN issued[h] :
                                      Behind(issued[h][i], h)'
                BY <2>6 DEF Tick, GeneratorAhead
            <4>1. lastTimestamp[h] <= now + 1
                BY <2>0, Ranges DEF IInv, GeneratorAhead
            <4>2. ASSUME NEW i \in DOMAIN issued[h] PROVE Behind(issued[h][i], h)'
                <5>1. issued[h][i] \in Mint /\ Behind(issued[h][i], h)
                    BY <2>0 DEF TypeOK, IInv, GeneratorAhead
                <5>. QED BY <2>0, <2>6, <5>1, Ranges DEF Tick, Behind
            <4>. QED BY <4>1, <4>2
        <3>. QED BY <2>0, <3>1, <3>2 DEF IInv
    <2>7. CASE UNCHANGED vars
        BY <2>0, <2>7 DEF vars, IInv, IssuedInOrder, GeneratorAhead, Behind
    <2>. QED BY <2>1, <2>2, <2>3, <2>4, <2>5, <2>6, <2>7 DEF Next, Generate
<1>. QED BY <1>1, <1>2, PTL DEF Spec

\* A generator's IDs increase in the order of its calls, for all field widths.
THEOREM MonotonicIds == Spec => []MonotonicWithinShard
<1>1. IInv => MonotonicWithinShard
    <2> SUFFICES ASSUME IInv, NEW g \in Gens, NEW i \in DOMAIN issued[g],
                        NEW j \in DOMAIN issued[g], i < j
                 PROVE  IdOf(g, issued[g][i]) < IdOf(g, issued[g][j])
        BY DEF MonotonicWithinShard
    <2>1. issued[g][i] \in Mint /\ issued[g][j] \in Mint
        BY DEF IInv, TypeOK
    <2>2. Earlier(issued[g][i], issued[g][j])
        BY DEF IInv, IssuedInOrder
    <2>3. ShardOf[g] \in 0 .. ShardSpan - 1
        BY ShardAssumption
    <2>. QED BY <2>1, <2>2, <2>3, PackOrder DEF Earlier, IdOf
<1>. QED BY <1>1, Inductive, PTL

\* An ID is handed out twice by different services only, however many shards
\* they share: within a service no two calls return the same ID.
THEOREM UniqueIds == Spec => []UniqueInService
<1>1. IInv => UniqueInService
    <2> SUFFICES ASSUME IInv, NEW g \in Gens, NEW h \in Gens,
                        NEW i \in DOMAIN issued[g], NEW j \in DOMAIN issued[h],
                        IdOf(g, issued[g][i]) = IdOf(h, issued[h][j])
                 PROVE  \/ g = h /\ i = j
                        \/ ServiceOf[g] # ServiceOf[h] /\ ShardOf[g] = ShardOf[h]
        BY DEF UniqueInService
    <2>1. issued[g][i] \in Mint /\ issued[h][j] \in Mint
        BY DEF IInv, TypeOK
    <2>2. ShardOf[g] = ShardOf[h] /\ issued[g][i] = issued[h][j]
        BY <2>1, ShardAssumption, PackInjective DEF IdOf
    <2>3. CASE ServiceOf[g] # ServiceOf[h]
        BY <2>2, <2>3
    <2>4. CASE ServiceOf[g] = ServiceOf[h]
        <3>1. g = h
            BY <2>2, <2>4, OnePerShardAssumption
        <3>2. i \in Nat /\ j \in Nat
            BY <3>1 DEF IInv, TypeOK
        <3>3. ~ (i < j) /\ ~ (j < i)
            BY <2>1, <2>2, <3>1 DEF IInv, IssuedInOrder, Earlier, Mint
        <3>. QED BY <3>1, <3>2, <3>3
    <2>. QED BY <2>3, <2>4
<1>. QED BY <1>1, Inductive, PTL

\* ExtractShardID finds the shard of every ID ever minted, even by generators
\* whose clock was set back: routing never goes to a wrong database.
THEOREM IdsRouteHome == SteppedSpec => []ShardRecoverable
<1>1. TypeOK => ShardRecoverable
    <2> SUFFICES ASSUME TypeOK, NEW g \in Gens, NEW i \in DOMAIN issued[g]
                 PROVE  ExtractShardID(IdOf(g, issued[g][i])) = ShardOf[g]
        BY DEF ShardRecoverable
    <2>1. issued[g][i] \in Mint
        BY DEF TypeOK
    <2>. QED BY <2>1, ShardAssumption, ShardExtracted DEF IdOf
<1>. QED BY <1>1, TypeCorrect, PTL

=============================================================================
