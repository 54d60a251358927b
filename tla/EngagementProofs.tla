-------------------------- MODULE EngagementProofs --------------------------
(* The like counters agree with the rows, and one that is below zero awaits  *)
(* its SET 0 or has lost it: for any users, handler threads, sub-counters.   *)
(* Users wait for one answer before the next call (SerialUsers) wherever a   *)
(* theorem says so: two calls of one user at a time break them.              *)
EXTENDS Engagement, FiniteSetTheorems, WellFoundedInduction, TLAPS

-----------------------------------------------------------------------------
(* Sums over finite sets: the fold that adds up the sub-counters.           *)
Sum(f, S) == MapThenSumSet(LAMBDA k : f[k], S)

AnyOf(s) == CHOOSE x \in s : TRUE

\* One step of the fold: an element of s, and the sum of the rest.
FoldStep(f, h, s) == IF s = {} THEN 0 ELSE f[AnyOf(s)] + h[s \ {AnyOf(s)}]

\* A set of natural numbers that is not empty has a least element.
LEMMA LeastNatural ==
    ASSUME NEW S \in SUBSET Nat, S # {}
    PROVE  \E m \in S : \A k \in S : m <= k
<1>1. PICK m \in S : \A k \in S : ~ (<<k, m>> \in OpToRel(<, Nat))
    BY WFMin, NatLessThanWellFounded, Zenon
<1>2. ASSUME NEW k \in S PROVE ~ k < m
    BY <1>1 DEF OpToRel
<1>3. ASSUME NEW k \in S PROVE m <= k
    BY <1>2, <1>3
<1> QED
    BY <1>3

\* What is left of a set without one element is smaller by one.
LEMMA Rest ==
    ASSUME NEW S, IsFiniteSet(S), NEW s \in SUBSET S, s # {}
    PROVE  /\ AnyOf(s) \in s
           /\ s \ {AnyOf(s)} \in SUBSET S
           /\ Cardinality(s) \in Nat
           /\ Cardinality(s \ {AnyOf(s)}) = Cardinality(s) - 1
           /\ Cardinality(s) > 0
<1>1. IsFiniteSet(s)
    BY FS_Subset
<1>2. AnyOf(s) \in s
    BY DEF AnyOf
<1>3. Cardinality(s) \in Nat /\ Cardinality(s) # 0
    BY <1>1, FS_CardinalityType, FS_EmptySet
<1>4. Cardinality(s \ {AnyOf(s)}) = Cardinality(s) - 1
    BY <1>1, <1>2, FS_RemoveElement
<1> QED
    BY <1>2, <1>3, <1>4

\* A function that satisfies the fold's equation exists.
LEMMA FoldExists ==
    ASSUME NEW S, IsFiniteSet(S), NEW f \in [S -> Int]
    PROVE  \E h \in [SUBSET S -> Int] : \A s \in SUBSET S : h[s] = FoldStep(f, h, s)
<1> DEFINE Upto(n) == \E h \in [SUBSET S -> Int] : \A s \in SUBSET S :
                          Cardinality(s) <= n => h[s] = FoldStep(f, h, s)
           Bad == {n \in Nat : ~ Upto(n)}
<1>0. \A s \in SUBSET S : Cardinality(s) \in Nat
    BY FS_Subset, FS_CardinalityType
<1>1. Bad = {}
    <2> SUFFICES ASSUME Bad # {} PROVE FALSE
        OBVIOUS
    <2>1. PICK n \in Bad : \A k \in Bad : n <= k
        BY LeastNatural
    <2>2. n \in Nat /\ ~ Upto(n)
        BY <2>1
    <2>3. CASE n = 0
        <3> DEFINE h == [s \in SUBSET S |-> 0]
        <3>1. ASSUME NEW s \in SUBSET S, Cardinality(s) <= n PROVE h[s] = FoldStep(f, h, s)
            <4>1. s = {}
                <5>1. Cardinality(s) \in Nat /\ Cardinality(s) <= 0
                    BY <1>0, <2>3, <3>1
                <5> QED
                    BY <5>1, FS_Subset, FS_EmptySet
            <4> QED
                BY <4>1 DEF FoldStep
        <3>2. h \in [SUBSET S -> Int]
            OBVIOUS
        <3> QED
            BY <2>2, <3>1, <3>2
    <2>4. CASE n > 0
        <3>1. n - 1 \in Nat /\ ~ (n <= n - 1)
            BY <2>2, <2>4
        <3>0. Upto(n - 1)
            BY <2>1, <3>1
        <3>2. PICK h \in [SUBSET S -> Int] : \A s \in SUBSET S : Cardinality(s) <= n - 1 => h[s] = FoldStep(f, h, s)
            BY <3>0
        <3> DEFINE g == [s \in SUBSET S |-> FoldStep(f, h, s)]
        <3>3. g \in [SUBSET S -> Int]
            <4>1. ASSUME NEW s \in SUBSET S PROVE FoldStep(f, h, s) \in Int
                <5>1. CASE s = {}
                    BY <5>1 DEF FoldStep
                <5>2. CASE s # {}
                    <6>1. AnyOf(s) \in S /\ s \ {AnyOf(s)} \in SUBSET S
                        BY <5>2, Rest
                    <6> QED
                        BY <5>2, <6>1 DEF FoldStep
                <5> QED
                    BY <5>1, <5>2
            <4> QED
                BY <4>1
        <3>4. ASSUME NEW s \in SUBSET S, Cardinality(s) <= n PROVE g[s] = FoldStep(f, g, s)
            <4>1. CASE s = {}
                BY <4>1 DEF FoldStep
            <4>2. CASE s # {}
                <5> DEFINE t == s \ {AnyOf(s)}
                <5>1. t \in SUBSET S /\ Cardinality(t) <= n - 1
                    BY <2>2, <3>4, <4>2, Rest
                <5>2. g[t] = h[t]
                    BY <3>2, <5>1
                <5> QED
                    BY <4>2, <5>2 DEF FoldStep
            <4> QED
                BY <4>1, <4>2
        <3> QED
            BY <2>2, <3>3, <3>4
    <2> QED
        BY <2>2, <2>3, <2>4
<1>2. Cardinality(S) \in Nat
    BY FS_CardinalityType
<1>3. PICK h \in [SUBSET S -> Int] : \A s \in SUBSET S : Cardinality(s) <= Cardinality(S) => h[s] = FoldStep(f, h, s)
    BY <1>1, <1>2
<1>4. \A s \in SUBSET S : Cardinality(s) <= Cardinality(S)
    BY FS_Subset
<1> QED
    BY <1>3, <1>4

\* The fold of the library is such a function.
LEMMA SumUnfolds ==
    ASSUME NEW S, IsFiniteSet(S), NEW f \in [S -> Int]
    PROVE  \E h :
              /\ Sum(f, S) = h[S]
              /\ \A s \in SUBSET S : h[s] = FoldStep(f, h, s)
<1> DEFINE Eq(h) == h = [s \in SUBSET S |-> IF s = {} THEN 0
                          ELSE f[AnyOf(s)] + h[s \ {AnyOf(s)}]]
           it == CHOOSE h : Eq(h)
<1>1. PICK h \in [SUBSET S -> Int] : \A s \in SUBSET S : h[s] = FoldStep(f, h, s)
    BY FoldExists
<1>2. Eq(h)
    BY <1>1 DEF FoldStep
<1>3. Eq(it)
    BY <1>2
<1>4. Sum(f, S) = it[S]
    BY DEF Sum, AnyOf, MapThenSumSet, MapThenFoldSet
<1> HIDE DEF it
<1>5. DOMAIN it = SUBSET S /\ \A s \in SUBSET S : it[s] = FoldStep(f, it, s)
    BY <1>3 DEF FoldStep
<1> QED
    BY <1>4, <1>5

\* Sizes of disjoint sets add up.
LEMMA DisjointUnion ==
    ASSUME NEW A, NEW B, IsFiniteSet(A), IsFiniteSet(B), A \cap B = {}
    PROVE  Cardinality(A \cup B) = Cardinality(A) + Cardinality(B)
<1>1. Cardinality(A \cap B) = 0
    BY FS_EmptySet
<1>2. Cardinality(A) \in Nat /\ Cardinality(B) \in Nat
    BY FS_CardinalityType
<1>3. Cardinality(A \cup B) = Cardinality(A) + Cardinality(B) - Cardinality(A \cap B)
    BY FS_Union
<1> QED
    BY <1>1, <1>2, <1>3

\* Induction over finite sets: of the sets that fail there is one whose rest does not.
LEMMA SmallestSet ==
    ASSUME NEW S, IsFiniteSet(S), NEW Bad \in SUBSET SUBSET S, Bad # {}
    PROVE  \E s \in Bad : s # {} => s \ {AnyOf(s)} \notin Bad
<1> DEFINE Sizes == {Cardinality(s) : s \in Bad}
<1>1. Sizes \in SUBSET Nat /\ Sizes # {}
    BY FS_Subset, FS_CardinalityType
<1>2. PICK n \in Sizes : \A k \in Sizes : n <= k
    BY <1>1, LeastNatural
<1>3. PICK s \in Bad : Cardinality(s) = n
    BY <1>2
<1>4. ASSUME s # {}, s \ {AnyOf(s)} \in Bad PROVE FALSE
    <2>1. Cardinality(s \ {AnyOf(s)}) \in Sizes
        BY <1>4
    <2>2. s \in SUBSET S /\ s # {}
        BY <1>4
    <2>3. Cardinality(s) \in Nat /\ Cardinality(s \ {AnyOf(s)}) = Cardinality(s) - 1
        BY <2>2, Rest
    <2> QED
        BY <1>2, <1>3, <2>1, <2>3
<1> QED
    BY <1>3, <1>4

\* Sums of integers are integers.
LEMMA SumIsInteger ==
    ASSUME NEW S, IsFiniteSet(S), NEW f \in [S -> Int]
    PROVE  Sum(f, S) \in Int
<1>1. PICK h : Sum(f, S) = h[S] /\ \A s \in SUBSET S : h[s] = FoldStep(f, h, s)
    BY SumUnfolds
<1> DEFINE Bad == {s \in SUBSET S : h[s] \notin Int}
<1>2. Bad = {}
    <2> SUFFICES ASSUME Bad # {} PROVE FALSE
        OBVIOUS
    <2>1. PICK s \in Bad : s # {} => s \ {AnyOf(s)} \notin Bad
        <3>1. Bad \in SUBSET SUBSET S
            OBVIOUS
        <3> HIDE DEF Bad
        <3> QED
            BY <3>1, SmallestSet
    <2>2. CASE s = {}
        <3>1. h[s] = 0
            BY <1>1, <2>2 DEF FoldStep
        <3> QED
            BY <2>1, <3>1
    <2>3. CASE s # {}
        <3> DEFINE x == AnyOf(s)
                   t == s \ {x}
        <3>1. x \in S /\ t \in SUBSET S /\ h[t] \in Int
            BY <2>1, <2>3, Rest
        <3>2. h[s] = f[x] + h[t]
            BY <1>1, <2>3 DEF FoldStep
        <3>3. f[x] \in Int
            BY <3>1
        <3> HIDE DEF x, t
        <3> QED
            BY <2>1, <3>1, <3>2, <3>3
    <2> QED
        BY <2>2, <2>3
<1> QED
    BY <1>1, <1>2
-----------------------------------------------------------------------------
(* The invariant.                                                           *)
\* Past the row, and past the user's set.
Rowed  == {"mark", "count", "clamp", "invalidate", "read", "sum", "cacheSum"}
Marked == Rowed \ {"mark"}

\* Calls of u that the limiter has not counted yet.
Waiting(u) == {r \in Requests : req[r].stage = "allow" /\ req[r].user = u}

\* What the stage of a call says of its other fields.
Shape(c) ==
    /\ c.stage = "idle" => c = NoCall
    /\ c.stage # "idle" => c.user \in Users
    /\ c.stage \in {"allow", "expire", "row"} => ~ c.changed
    /\ c.stage = "count" => c.changed

StagesAgree == \A r \in Requests : Shape(req[r])

\* A hit of a window is a call of its own, a lost decrement a failure of its own.
WindowsCounted == \A u \in Users : windowCount[u] + Cardinality(Waiting(u)) <= calls
LostByFailures == \A k \in SubShards : lostDecrements[k] <= failures /\ lostClamps[k] <= failures

TypeInv == TypeOK /\ StagesAgree /\ WindowsCounted /\ LostByFailures

-----------------------------------------------------------------------------
\* A user waits for an answer before the next call.
OneCallEach ==
    \A r, q \in Requests :
        req[r].stage # "idle" /\ req[q].stage # "idle" /\ req[r].user = req[q].user => r = q

\* The row and the user's set say what the call in progress did to them.
WritesStand ==
    \A r \in Requests :
        /\ req[r].stage \in Rowed => (req[r].user \in liked) = (req[r].kind = "like")
        /\ req[r].stage \in Marked => (req[r].user \in likeState) = (req[r].kind = "like")

\* And of a user without one, what the last call did.
OutcomeStands ==
    \A u \in Users :
        outcome[u] \in Kinds /\ (\A r \in Requests : req[r].user = u => req[r].stage \notin Rowed)
            => (u \in liked) = (outcome[u] = "like") /\ (u \in likeState) = (u \in liked)

\* Only a counter that was already wrong falls below zero.
ClampAfterFailure == \A r \in Requests : req[r].stage = "clamp" => failures > 0

-----------------------------------------------------------------------------
\* An idle thread.
LEMMA NoCallShape == NoCall \in Call /\ Shape(NoCall)
BY DEF NoCall, Call, Stages, Kinds, Shape

\* The types hold at first.
LEMMA TypeInit == Init => TypeInv
<1> SUFFICES ASSUME Init PROVE TypeInv
    OBVIOUS
<1>1. TypeOK
    BY NoCallShape, CallAssumption, SubShardAssumption DEF Init, TypeOK
<1>2. StagesAgree
    BY NoCallShape DEF Init, StagesAgree
<1>3. \A u \in Users : Waiting(u) = {}
    BY DEF Init, Waiting, NoCall
<1>4. WindowsCounted
    BY <1>3, FS_EmptySet DEF Init, WindowsCounted
<1>5. LostByFailures
    BY DEF Init, LostByFailures
<1> QED
    BY <1>1, <1>2, <1>4, <1>5 DEF TypeInv

\* Threads are finitely many.
LEMMA WaitingFinite ==
    \A u : IsFiniteSet(Waiting(u)) /\ Cardinality(Waiting(u)) \in Nat
BY FiniteAssumption, FS_Subset, FS_CardinalityType DEF Waiting

\* A call in progress moves on or ends: no other call is touched.
Moves(r, c) ==
    /\ r \in Requests /\ c \in Call /\ Shape(c) /\ c.stage # "allow"
    /\ req' = [req EXCEPT ![r] = c]
    /\ UNCHANGED calls

\* Such a move keeps the shape of the calls, and the limiter waits for no more of them.
LEMMA MovesWell ==
    ASSUME TypeInv, NEW r \in Requests, NEW c, Moves(r, c)
    PROVE  /\ req' \in [Requests -> Call]
           /\ StagesAgree'
           /\ windowCount' = windowCount => WindowsCounted'
           /\ \A u \in Users : Cardinality(Waiting(u)') <= Cardinality(Waiting(u))
           /\ \A u \in Users : req[r].stage = "allow" /\ req[r].user = u =>
                Cardinality(Waiting(u)') = Cardinality(Waiting(u)) - 1
<1>1. req' \in [Requests -> Call] /\ req'[r] = c /\ \A q \in Requests \ {r} : req'[q] = req[q]
    BY DEF TypeInv, TypeOK, Moves
<1>2. StagesAgree'
    BY <1>1 DEF TypeInv, StagesAgree, Moves
<1>3. \A u \in Users : Waiting(u)' = Waiting(u) \ {r}
    BY <1>1 DEF Waiting, Moves
<1>4. \A u \in Users : Cardinality(Waiting(u)') <= Cardinality(Waiting(u))
    BY <1>3, WaitingFinite, FS_Subset
<1>5. ASSUME NEW u \in Users, req[r].stage = "allow", req[r].user = u
      PROVE  Cardinality(Waiting(u)') = Cardinality(Waiting(u)) - 1
    <2>1. r \in Waiting(u)
        BY <1>5 DEF Waiting
    <2> QED
        BY <1>3, <2>1, WaitingFinite, FS_RemoveElement
<1>6. ASSUME windowCount' = windowCount PROVE WindowsCounted'
    <2> SUFFICES ASSUME NEW u \in Users
                 PROVE  windowCount'[u] + Cardinality(Waiting(u)') <= calls'
        BY DEF WindowsCounted
    <2>1. windowCount[u] \in Nat /\ calls \in Nat /\ calls' = calls
        BY CallAssumption DEF TypeInv, TypeOK, Moves
    <2>2. windowCount[u] + Cardinality(Waiting(u)) <= calls
        BY DEF TypeInv, WindowsCounted
    <2>3. Cardinality(Waiting(u)) \in Nat /\ Cardinality(Waiting(u)') \in Nat
        BY <1>3, WaitingFinite, FS_Subset, FS_CardinalityType
    <2> QED
        BY <1>4, <1>6, <2>1, <2>2, <2>3
<1> QED
    BY <1>1, <1>2, <1>4, <1>5, <1>6

\* GoTo is such a move.
LEMMA GoesOn ==
    ASSUME TypeInv, NEW r \in Requests, NEW st \in Stages \ {"idle", "allow"}, GoTo(r, st),
           req[r].stage # "idle", UNCHANGED calls,
           st \in {"expire", "row"} => ~ req[r].changed, st = "count" => req[r].changed
    PROVE  Moves(r, [req[r] EXCEPT !.stage = st])
<1>1. req[r] \in Call /\ Shape(req[r])
    BY DEF TypeInv, TypeOK, StagesAgree
<1>2. [req[r] EXCEPT !.stage = st] \in Call
    BY <1>1 DEF Call
<1>3. Shape([req[r] EXCEPT !.stage = st])
    BY <1>1 DEF Call, Shape
<1>4. req' = [req EXCEPT ![r] = [req[r] EXCEPT !.stage = st]]
    BY DEF GoTo
<1>5. [req[r] EXCEPT !.stage = st].stage # "allow"
    BY <1>1 DEF Call
<1> QED
    BY <1>2, <1>3, <1>4, <1>5 DEF Moves

\* So is the end of a call.
LEMMA EndsHere ==
    ASSUME NEW r \in Requests, req' = [req EXCEPT ![r] = NoCall], UNCHANGED calls
    PROVE  Moves(r, NoCall)
BY NoCallShape DEF Moves, NoCall

\* What GetLikeCount adds up is that sum.
LEMMA TotalsAreSums == TypeOK => SumOfSubCounts = Sum(subCount, SubShards) /\ SumOfSubCounts \in Int
<1> SUFFICES ASSUME TypeOK PROVE SumOfSubCounts = Sum(subCount, SubShards) /\ SumOfSubCounts \in Int
    OBVIOUS
<1>1. SumOfSubCounts = Sum(subCount, SubShards)
    BY DEF SumOfSubCounts, Sum
<1>2. subCount \in [SubShards -> Int]
    BY DEF TypeOK
<1>3. Sum(subCount, SubShards) \in Int
    BY <1>2, FiniteAssumption, SumIsInteger
<1> QED
    BY <1>1, <1>3

\* A new call has a place in the count of calls before the limiter counts it.
LEMMA TypeBegin ==
    ASSUME TypeInv, NEW r \in Requests, NEW u \in Users, NEW kind \in Kinds, Begin(r, u, kind)
    PROVE  TypeInv'
<1> DEFINE c == [NoCall EXCEPT !.stage = "allow", !.user = u, !.kind = kind]
<1>1. c \in Call /\ Shape(c)
    <2>1. ASSUME NEW a \in Call, a.changed = FALSE
          PROVE  LET b == [a EXCEPT !.stage = "allow", !.user = u, !.kind = kind]
                 IN  b \in Call /\ Shape(b)
        BY <2>1 DEF Call, Shape, Stages
    <2> QED
        BY <2>1, NoCallShape DEF NoCall
<1>2. req' = [req EXCEPT ![r] = c] /\ calls' = calls + 1 /\ calls < MaxCalls
      /\ UNCHANGED <<stores, windows, failures, history>>
    BY DEF Begin
<1> HIDE DEF c
<1>3. req' \in [Requests -> Call] /\ req'[r] = c /\ \A q \in Requests \ {r} : req'[q] = req[q]
    BY <1>1, <1>2 DEF TypeInv, TypeOK
<1>4. TypeOK'
    BY <1>2, <1>3, CallAssumption DEF TypeInv, TypeOK, stores, windows, history
<1>5. StagesAgree'
    BY <1>1, <1>3 DEF TypeInv, StagesAgree
<1>6. ASSUME NEW v \in Users PROVE windowCount'[v] + Cardinality(Waiting(v)') <= calls'
    <2>1. Waiting(v)' \subseteq Waiting(v) \cup {r}
        BY <1>3 DEF Waiting
    <2>2. IsFiniteSet(Waiting(v) \cup {r})
          /\ Cardinality(Waiting(v) \cup {r}) <= Cardinality(Waiting(v)) + 1
          /\ Cardinality(Waiting(v) \cup {r}) \in Nat
        <3>1. CASE r \in Waiting(v)
            <4>1. Waiting(v) \cup {r} = Waiting(v)
                BY <3>1
            <4>2. IsFiniteSet(Waiting(v)) /\ Cardinality(Waiting(v)) \in Nat
                BY WaitingFinite
            <4>3. Cardinality(Waiting(v)) <= Cardinality(Waiting(v)) + 1
                BY <4>2
            <4> QED
                BY <4>1, <4>2, <4>3
        <3>2. CASE r \notin Waiting(v)
            BY <3>2, WaitingFinite, FS_AddElement
        <3> QED
            BY <3>1, <3>2
    <2>3. Cardinality(Waiting(v)') <= Cardinality(Waiting(v)) + 1 /\ Cardinality(Waiting(v)') \in Nat
        BY <2>1, <2>2, WaitingFinite, FS_Subset, FS_CardinalityType
    <2>4. windowCount[v] \in Nat /\ calls \in Nat /\ windowCount'[v] = windowCount[v]
        BY <1>2, CallAssumption DEF TypeInv, TypeOK, windows
    <2>5. windowCount[v] + Cardinality(Waiting(v)) <= calls
        BY DEF TypeInv, WindowsCounted
    <2> QED
        BY <1>2, <2>3, <2>4, <2>5, WaitingFinite
<1>7. LostByFailures'
    BY <1>2 DEF TypeInv, LostByFailures, history
<1> QED
    BY <1>4, <1>5, <1>6, <1>7 DEF TypeInv, WindowsCounted

\* The limiter counts a call that was waiting for it.
LEMMA TypeAllow ==
    ASSUME TypeInv, NEW r \in Requests, Allow(r)
    PROVE  TypeInv'
<1> DEFINE u == req[r].user
           c == IF windowCount'[u] = 1 THEN [req[r] EXCEPT !.stage = "expire"]
                ELSE IF windowCount'[u] <= RateLimit THEN [req[r] EXCEPT !.stage = "row"]
                ELSE NoCall
<1>1. u \in Users /\ req[r] \in Call /\ ~ req[r].changed /\ req[r].stage = "allow"
    BY DEF Allow, At, TypeInv, TypeOK, StagesAgree, Shape
<1>2. windowCount[u] \in Nat /\ windowCount' = [windowCount EXCEPT ![u] = windowCount[u] + 1]
      /\ windowCount'[u] = windowCount[u] + 1 /\ windowCount \in [Users -> 0 .. MaxCalls]
    BY <1>1 DEF Allow, UserOf, TypeInv, TypeOK
<1>3. Moves(r, c)
    <2>1. CASE windowCount'[u] = 1
        <3>1. GoTo(r, "expire") /\ UNCHANGED calls
            BY <1>2, <2>1 DEF Allow, UserOf
        <3> QED
            BY <1>1, <2>1, <3>1, GoesOn DEF Stages
    <2>2. CASE windowCount'[u] # 1 /\ windowCount'[u] <= RateLimit
        <3>1. GoTo(r, "row") /\ UNCHANGED calls
            BY <1>2, <2>2, LimitAssumption DEF Allow, UserOf
        <3> QED
            BY <1>1, <2>2, <3>1, GoesOn DEF Stages
    <2>3. CASE windowCount'[u] # 1 /\ ~ (windowCount'[u] <= RateLimit)
        <3>1. req' = [req EXCEPT ![r] = NoCall] /\ UNCHANGED calls
            BY <1>2, <2>3, LimitAssumption DEF Allow, UserOf
        <3> QED
            BY <2>3, <3>1, EndsHere
    <2> QED
        BY <2>1, <2>2, <2>3
<1> HIDE DEF c
<1>4. WindowsCounted' /\ windowCount' \in [Users -> 0 .. MaxCalls]
    <2>1. ASSUME NEW v \in Users
          PROVE  windowCount'[v] + Cardinality(Waiting(v)') <= calls' /\ windowCount'[v] \in 0 .. MaxCalls
        <3>1. Cardinality(Waiting(v)') \in Nat
            <4>1. Waiting(v)' \subseteq Waiting(v) \cup {r}
                BY <1>3 DEF Waiting, Moves, TypeInv, TypeOK
            <4> QED
                BY <4>1, WaitingFinite, FS_AddElement, FS_Subset, FS_CardinalityType
        <3>2. windowCount[v] \in Nat /\ calls \in Nat /\ calls' = calls /\ calls <= MaxCalls /\ MaxCalls \in Nat
            BY <1>3, CallAssumption DEF TypeInv, TypeOK, Moves
        <3>3. windowCount[v] + Cardinality(Waiting(v)) <= calls
            BY DEF TypeInv, WindowsCounted
        <3>4. CASE v = u
            <4>1. Cardinality(Waiting(v)') = Cardinality(Waiting(v)) - 1
                BY <1>1, <1>3, <3>4, MovesWell
            <4> QED
                BY <1>2, <3>1, <3>2, <3>3, <3>4, <4>1, WaitingFinite
        <3>5. CASE v # u
            <4>1. windowCount'[v] = windowCount[v]
                BY <1>2, <3>5
            <4>2. Cardinality(Waiting(v)') <= Cardinality(Waiting(v))
                BY <1>3, MovesWell
            <4> QED
                BY <3>1, <3>2, <3>3, <4>1, <4>2, WaitingFinite
        <3> QED
            BY <3>4, <3>5
    <2> QED
        BY <1>2, <2>1 DEF WindowsCounted
<1>5. UNCHANGED <<stores, windowExpires, calls, failures, history>>
    BY DEF Allow
<1>6. TypeOK'
    BY <1>3, <1>4, <1>5, MovesWell DEF TypeInv, TypeOK, stores, history
<1>7. LostByFailures'
    BY <1>5 DEF TypeInv, LostByFailures, history
<1> QED
    BY <1>3, <1>4, <1>6, <1>7, MovesWell DEF TypeInv

\* Nothing was lost, or one thing more in one sub-counter.
OneMoreAtMost(f, g) == g = f \/ \E k \in SubShards : g = [f EXCEPT ![k] = @ + 1]

\* Any other step of a call, as far as its types go.
LEMMA TypeMove ==
    ASSUME TypeInv, NEW r \in Requests, NEW c, Moves(r, c), windowCount' = windowCount,
           liked' \subseteq Users, likeState' \subseteq Users,
           subCount' \in [SubShards -> Int], sumCache' \in Int \cup {None},
           windowExpires' \in [Users -> BOOLEAN],
           outcome' \in [Users -> Kinds \cup {"none", "failed"}],
           \/ UNCHANGED <<failures, lostDecrements, lostClamps>>
           \/ /\ failures < MaxFailures /\ failures' = failures + 1
              /\ OneMoreAtMost(lostDecrements, lostDecrements')
              /\ OneMoreAtMost(lostClamps, lostClamps')
    PROVE  TypeInv'
<1>1. failures \in Nat /\ MaxFailures \in Nat /\ failures <= MaxFailures
      /\ lostDecrements \in [SubShards -> 0 .. MaxFailures]
      /\ lostClamps \in [SubShards -> 0 .. MaxFailures]
      /\ \A k \in SubShards : lostDecrements[k] <= failures /\ lostClamps[k] <= failures
    BY CallAssumption DEF TypeInv, TypeOK, LostByFailures
<1>2. failures' \in 0 .. MaxFailures /\ LostByFailures'
      /\ lostDecrements' \in [SubShards -> 0 .. MaxFailures]
      /\ lostClamps' \in [SubShards -> 0 .. MaxFailures]
    <2>1. CASE UNCHANGED <<failures, lostDecrements, lostClamps>>
        BY <1>1, <2>1 DEF LostByFailures
    <2>2. CASE /\ failures < MaxFailures /\ failures' = failures + 1
               /\ OneMoreAtMost(lostDecrements, lostDecrements')
               /\ OneMoreAtMost(lostClamps, lostClamps')
        <3>1. ASSUME NEW f \in [SubShards -> 0 .. MaxFailures], NEW g, OneMoreAtMost(f, g),
                     \A k \in SubShards : f[k] <= failures
              PROVE  /\ g \in [SubShards -> 0 .. MaxFailures]
                     /\ \A k \in SubShards : g[k] <= failures'
            <4>1. CASE g = f
                BY <1>1, <2>2, <3>1, <4>1
            <4>2. ASSUME NEW k \in SubShards, g = [f EXCEPT ![k] = @ + 1]
                  PROVE  /\ g \in [SubShards -> 0 .. MaxFailures]
                         /\ \A x \in SubShards : g[x] <= failures'
                BY <1>1, <2>2, <3>1, <4>2
            <4> QED
                BY <3>1, <4>1, <4>2 DEF OneMoreAtMost
        <3> QED
            BY <1>1, <2>2, <3>1 DEF LostByFailures
    <2> QED
        BY <2>1, <2>2
<1>3. calls' \in 0 .. MaxCalls /\ windowCount' \in [Users -> 0 .. MaxCalls]
    BY DEF TypeInv, TypeOK, Moves
<1> QED
    BY <1>2, <1>3, MovesWell DEF TypeInv, TypeOK

\* Each step of a call is such a step.
LEMMA TypeStep ==
    ASSUME TypeInv, NEW r \in Requests, Step(r) \/ FailureIgnored(r) \/ RequestFails(r)
    PROVE  TypeInv'
<1> USE DEF stores, windows, history
<1>0. /\ req[r] \in Call /\ Shape(req[r])
      /\ liked \subseteq Users /\ likeState \subseteq Users
      /\ subCount \in [SubShards -> Int] /\ sumCache \in Int \cup {None}
      /\ windowExpires \in [Users -> BOOLEAN]
      /\ outcome \in [Users -> Kinds \cup {"none", "failed"}]
    BY DEF TypeInv, TypeOK, StagesAgree
<1>u. ASSUME req[r].stage # "idle"
      PROVE  /\ UserOf(r) \in Users /\ CountKey(r) \in SubShards
             /\ outcome' = [outcome EXCEPT ![UserOf(r)] = req[r].kind]
                   => outcome' \in [Users -> Kinds \cup {"none", "failed"}]
    BY <1>0, <1>u, SubShardAssumption DEF UserOf, CountKey, Shape, Call
<1>1. CASE Allow(r)
    BY <1>1, TypeAllow
<1>2. CASE StartWindow(r)
    <2>1. GoTo(r, "row") /\ req[r].stage = "expire" /\ ~ req[r].changed /\ UNCHANGED calls
        BY <1>0, <1>2 DEF StartWindow, At, Shape
    <2>2. Moves(r, [req[r] EXCEPT !.stage = "row"])
        BY <2>1, GoesOn DEF Stages
    <2>3. windowExpires' \in [Users -> BOOLEAN]
        BY <1>0, <1>2, <1>u, <2>1 DEF StartWindow
    <2> QED
        BY <1>0, <1>2, <2>2, <2>3, TypeMove DEF StartWindow
<1>3. CASE ChangeRow(r)
    <2> DEFINE c == [req[r] EXCEPT !.stage = "mark", !.changed = (liked' # liked)]
    <2>1. req[r].stage = "row" /\ req' = [req EXCEPT ![r] = c] /\ UNCHANGED calls
        BY <1>3 DEF ChangeRow, At
    <2>2. c \in Call /\ Shape(c) /\ c.stage # "allow"
        BY <1>0, <2>1 DEF Call, Stages, Shape
    <2>3. Moves(r, c)
        BY <2>1, <2>2 DEF Moves
    <2>4. liked' \subseteq Users
        BY <1>0, <1>3, <1>u, <2>1 DEF ChangeRow
    <2> QED
        BY <1>0, <1>3, <2>3, <2>4, TypeMove DEF ChangeRow
<1>4. CASE MarkState(r)
    <2> DEFINE st == IF req[r].changed THEN "count" ELSE "read"
    <2>1. req[r].stage = "mark" /\ GoTo(r, st) /\ UNCHANGED calls
        BY <1>4 DEF MarkState, At
    <2>2. Moves(r, [req[r] EXCEPT !.stage = st])
        BY <2>1, GoesOn DEF Stages
    <2>3. likeState' \subseteq Users
        BY <1>0, <1>4, <1>u, <2>1 DEF MarkState
    <2> QED
        BY <1>0, <1>4, <2>2, <2>3, TypeMove DEF MarkState
<1>5. CASE IncrLikeCount(r)
    <2>1. req[r].stage = "count" /\ GoTo(r, "invalidate") /\ UNCHANGED calls
        BY <1>5 DEF IncrLikeCount, At
    <2>2. Moves(r, [req[r] EXCEPT !.stage = "invalidate"])
        BY <2>1, GoesOn DEF Stages
    <2>3. subCount' \in [SubShards -> Int]
        BY <1>0, <1>5, <1>u, <2>1 DEF IncrLikeCount
    <2> QED
        BY <1>0, <1>5, <2>2, <2>3, TypeMove DEF IncrLikeCount
<1>6. CASE DecrLikeCount(r)
    <2> DEFINE st == IF subCount'[CountKey(r)] < 0 THEN "clamp" ELSE "invalidate"
    <2>1. req[r].stage = "count" /\ GoTo(r, st) /\ UNCHANGED calls
        BY <1>6 DEF DecrLikeCount, At
    <2>2. Moves(r, [req[r] EXCEPT !.stage = st])
        BY <2>1, GoesOn DEF Stages
    <2>3. subCount' \in [SubShards -> Int]
        BY <1>0, <1>6, <1>u, <2>1 DEF DecrLikeCount
    <2> QED
        BY <1>0, <1>6, <2>2, <2>3, TypeMove DEF DecrLikeCount
<1>7. CASE Clamp(r)
    <2>1. req[r].stage = "clamp" /\ GoTo(r, "invalidate") /\ UNCHANGED calls
        BY <1>7 DEF Clamp, At
    <2>2. Moves(r, [req[r] EXCEPT !.stage = "invalidate"])
        BY <2>1, GoesOn DEF Stages
    <2>3. subCount' \in [SubShards -> Int]
        BY <1>0, <1>7, <1>u, <2>1 DEF Clamp
    <2> QED
        BY <1>0, <1>7, <2>2, <2>3, TypeMove DEF Clamp
<1>8. CASE InvalidateSum(r)
    <2>1. req[r].stage = "invalidate" /\ GoTo(r, "read") /\ UNCHANGED calls
        BY <1>8 DEF InvalidateSum, At
    <2>2. Moves(r, [req[r] EXCEPT !.stage = "read"])
        BY <2>1, GoesOn DEF Stages
    <2> QED
        BY <1>0, <1>8, <2>2, TypeMove DEF InvalidateSum
<1>9. CASE ReadSum(r)
    <2>1. req[r].stage = "read" /\ UNCHANGED <<stores, windows, calls, failures, lostDecrements, lostClamps>>
        BY <1>9 DEF ReadSum, At
    <2>2. CASE sumCache # None /\ Return(r)
        <3>1. Moves(r, NoCall)
            BY <2>1, <2>2, EndsHere DEF Return
        <3>2. outcome' \in [Users -> Kinds \cup {"none", "failed"}]
            BY <1>0, <1>u, <2>1, <2>2 DEF Return
        <3> QED
            BY <1>0, <2>1, <3>1, <3>2, TypeMove
    <2>3. CASE GoTo(r, "sum") /\ UNCHANGED outcome
        <3>1. Moves(r, [req[r] EXCEPT !.stage = "sum"])
            BY <2>1, <2>3, GoesOn DEF Stages
        <3> QED
            BY <1>0, <2>1, <2>3, <3>1, TypeMove
    <2> QED
        BY <1>9, <2>2, <2>3 DEF ReadSum
<1>10. CASE AddSubCounts(r)
    <2> DEFINE c == [req[r] EXCEPT !.stage = "cacheSum", !.total = SumOfSubCounts]
    <2>1. req[r].stage = "sum" /\ req' = [req EXCEPT ![r] = c] /\ UNCHANGED calls
        BY <1>10 DEF AddSubCounts, At
    <2>2. SumOfSubCounts \in Int
        BY TotalsAreSums DEF TypeInv
    <2>3. c \in Call /\ Shape(c) /\ c.stage # "allow"
        BY <1>0, <2>1, <2>2 DEF Call, Stages, Shape
    <2>4. Moves(r, c)
        BY <2>1, <2>3 DEF Moves
    <2> QED
        BY <1>0, <1>10, <2>4, TypeMove DEF AddSubCounts
<1>11. CASE CacheSum(r)
    <2>1. req[r].stage = "cacheSum" /\ UNCHANGED <<liked, likeState, subCount, windows, calls, failures, lostDecrements, lostClamps>>
          /\ sumCache' = req[r].total /\ Return(r)
        BY <1>11 DEF CacheSum, At
    <2>2. Moves(r, NoCall)
        BY <2>1, EndsHere DEF Return
    <2>3. outcome' \in [Users -> Kinds \cup {"none", "failed"}]
          /\ sumCache' \in Int \cup {None}
        BY <1>0, <1>u, <2>1 DEF Return, Call
    <2> QED
        BY <1>0, <2>1, <2>2, <2>3, TypeMove
<1>12. CASE FailureIgnored(r)
    <2>1. failures < MaxFailures /\ failures' = failures + 1 /\ req[r].stage # "idle"
          /\ UNCHANGED <<stores, windows, calls, lostDecrements>> /\ LoseClamp(r)
        BY <1>12 DEF FailureIgnored, At
    <2>l. OneMoreAtMost(lostDecrements, lostDecrements') /\ OneMoreAtMost(lostClamps, lostClamps')
        BY <1>u, <2>1 DEF LoseClamp, OneMoreAtMost
    <2>2. ASSUME NEW from \in {"expire", "clamp", "invalidate", "read"}, NEW to \in {"row", "invalidate", "read", "sum"},
                 At(r, from), GoTo(r, to), UNCHANGED outcome, to = "row" => from = "expire"
          PROVE  TypeInv'
        <3>1. req[r].stage # "idle" /\ (to = "row" => ~ req[r].changed)
            BY <1>0, <2>2 DEF At, Shape
        <3>2. Moves(r, [req[r] EXCEPT !.stage = to])
            BY <2>1, <2>2, <3>1, GoesOn DEF Stages
        <3> QED
            BY <1>0, <2>1, <2>2, <2>l, <3>2, TypeMove
    <2>3. CASE At(r, "cacheSum") /\ Return(r)
        <3>1. Moves(r, NoCall)
            BY <2>1, <2>3, EndsHere DEF Return
        <3>2. outcome' \in [Users -> Kinds \cup {"none", "failed"}]
            BY <1>0, <1>u, <2>3 DEF Return, Call, At
        <3> QED
            BY <1>0, <2>1, <2>l, <3>1, <3>2, TypeMove
    <2> QED
        BY <1>12, <2>2, <2>3 DEF FailureIgnored
<1>13. CASE RequestFails(r)
    <2>1. failures < MaxFailures /\ failures' = failures + 1 /\ req[r].stage # "idle"
          /\ UNCHANGED <<stores, windows, calls>>
        BY <1>13 DEF RequestFails, At
    <2>2. Moves(r, NoCall)
        BY <1>13, <2>1, EndsHere DEF RequestFails
    <2>3. outcome' \in [Users -> Kinds \cup {"none", "failed"}]
        BY <1>0, <1>13, <1>u, <2>1 DEF RequestFails
    <2>4. OneMoreAtMost(lostDecrements, lostDecrements') /\ OneMoreAtMost(lostClamps, lostClamps')
        BY <1>13, <1>u, <2>1 DEF RequestFails, LoseClamp, OneMoreAtMost
    <2> QED
        BY <1>0, <2>1, <2>2, <2>3, <2>4, TypeMove
<1> QED
    BY <1>1, <1>2, <1>3, <1>4, <1>5, <1>6, <1>7, <1>8, <1>9, <1>10, <1>11, <1>12, <1>13 DEF Step

\* Types are kept.
LEMMA TypeNext == TypeInv /\ [Next]_vars => TypeInv'
<1> SUFFICES ASSUME TypeInv, [Next]_vars PROVE TypeInv'
    OBVIOUS
<1>1. ASSUME NEW r \in Requests, NEW u \in Users, NEW kind \in Kinds, Begin(r, u, kind) PROVE TypeInv'
    BY <1>1, TypeBegin
<1>2. ASSUME NEW r \in Requests, Step(r) \/ FailureIgnored(r) \/ RequestFails(r) PROVE TypeInv'
    BY <1>2, TypeStep
<1>3. ASSUME NEW u \in Users, WindowEnds(u) PROVE TypeInv'
    <2>1. /\ windowCount' = [windowCount EXCEPT ![u] = 0] /\ windowExpires' = [windowExpires EXCEPT ![u] = FALSE]
          /\ UNCHANGED <<stores, req, calls, failures, history>>
        BY <1>3 DEF WindowEnds
    <2>2. TypeOK' /\ StagesAgree' /\ LostByFailures'
        BY <2>1, CallAssumption DEF TypeInv, TypeOK, StagesAgree, LostByFailures, stores, history
    <2>3. ASSUME NEW v \in Users PROVE windowCount'[v] + Cardinality(Waiting(v)') <= calls'
        <3>1. Waiting(v)' = Waiting(v)
            BY <2>1 DEF Waiting
        <3>2. windowCount[v] \in Nat /\ windowCount'[v] \in Nat /\ windowCount'[v] <= windowCount[v]
              /\ calls \in Nat /\ windowCount[v] + Cardinality(Waiting(v)) <= calls
            BY <2>1, CallAssumption DEF TypeInv, TypeOK, WindowsCounted
        <3> QED
            BY <2>1, <3>1, <3>2, WaitingFinite
    <2> QED
        BY <2>2, <2>3 DEF TypeInv, WindowsCounted
<1>4. CASE SumExpires
    <2>1. TypeOK' /\ StagesAgree' /\ LostByFailures' /\ WindowsCounted'
        BY <1>4 DEF SumExpires, TypeInv, TypeOK, StagesAgree, LostByFailures, WindowsCounted,
                    Waiting, windows, history
    <2> QED
        BY <2>1 DEF TypeInv
<1>5. CASE UNCHANGED vars
    BY <1>5 DEF vars, stores, windows, history, TypeInv, TypeOK, StagesAgree, LostByFailures,
                WindowsCounted, Waiting
<1> QED
    BY <1>1, <1>2, <1>3, <1>4, <1>5 DEF Next

\* The stores keep their types; no window counts more calls than were made, and
\* no decrement is lost but by a failure.
THEOREM EngagementTypes == Spec => []TypeOK
<1>1. Spec => []TypeInv
    BY TypeInit, TypeNext, PTL DEF Spec
<1> QED
    BY <1>1, PTL DEF TypeInv

-----------------------------------------------------------------------------
\* What a call counts for between its row and its sub-counter: a like is missing
\* from the counter, an unlike is still in it.
IsUncounted(c, k, kind) ==
    c.kind = kind /\ c.changed /\ c.stage \in {"mark", "count"} /\ SubShardOf[c.user] = k

Owes(c, k) == IF IsUncounted(c, k, "like") THEN 1 ELSE IF IsUncounted(c, k, "unlike") THEN -1 ELSE 0

UncountedOf(k, kind) == {r \in Requests : IsUncounted(req[r], k, kind)}
UsersIn(k)  == {u \in Users : SubShardOf[u] = k}
LikersIn(k) == {u \in liked : SubShardOf[u] = k}

\* The numbers of the counters' invariant are sizes of finite sets.
LEMMA CountedSets ==
    ASSUME TypeInv, NEW k \in SubShards
    PROVE  /\ Due(k) = Cardinality(LikersIn(k)) - Uncounted(k, "like") + Uncounted(k, "unlike")
           /\ \A kind \in Kinds : /\ Uncounted(k, kind) = Cardinality(UncountedOf(k, kind))
                                  /\ IsFiniteSet(UncountedOf(k, kind)) /\ Uncounted(k, kind) \in Nat
           /\ IsFiniteSet(LikersIn(k)) /\ Cardinality(LikersIn(k)) \in Nat
           /\ IsFiniteSet(UsersIn(k)) /\ Cardinality(UsersIn(k)) \in Nat
           /\ LikersIn(k) \subseteq UsersIn(k)
           /\ Due(k) \in Int
<1>1. ASSUME NEW kind \in Kinds
      PROVE  /\ Uncounted(k, kind) = Cardinality(UncountedOf(k, kind))
             /\ IsFiniteSet(UncountedOf(k, kind)) /\ Uncounted(k, kind) \in Nat
    <2>1. Uncounted(k, kind) = Cardinality(UncountedOf(k, kind))
        BY DEF Uncounted, UncountedOf, IsUncounted, CountKey, UserOf
    <2>2. IsFiniteSet(UncountedOf(k, kind))
        BY FiniteAssumption, FS_Subset DEF UncountedOf
    <2> QED
        BY <2>1, <2>2, FS_CardinalityType
<1>2. LikersIn(k) \subseteq UsersIn(k) /\ UsersIn(k) \subseteq Users
    BY DEF LikersIn, UsersIn, TypeInv, TypeOK
<1>3. IsFiniteSet(UsersIn(k)) /\ Cardinality(UsersIn(k)) \in Nat
    BY <1>2, FiniteAssumption, FS_Subset, FS_CardinalityType
<1>4. IsFiniteSet(LikersIn(k)) /\ Cardinality(LikersIn(k)) \in Nat
    BY <1>2, <1>3, FS_Subset, FS_CardinalityType
<1>5. Due(k) = Cardinality(LikersIn(k)) - Uncounted(k, "like") + Uncounted(k, "unlike")
    BY DEF Due, LikersIn
<1>6. Due(k) \in Int
    BY <1>1, <1>4, <1>5 DEF Kinds
<1> QED
    BY <1>1, <1>2, <1>3, <1>4, <1>5, <1>6

\* A step of one call changes what is due by what that call owed and owes.
LEMMA DueChange ==
    ASSUME TypeInv, NEW r \in Requests, NEW c, req' = [req EXCEPT ![r] = c],
           liked' = liked, NEW k \in SubShards
    PROVE  Due(k)' = Due(k) + Owes(req[r], k) - Owes(c, k)
<1>1. req'[r] = c /\ \A q \in Requests \ {r} : req'[q] = req[q]
    BY DEF TypeInv, TypeOK
<1>2. ASSUME NEW kind \in Kinds
      PROVE  /\ Uncounted(k, kind)' \in Nat
             /\ Uncounted(k, kind)' = Uncounted(k, kind)
                      - (IF IsUncounted(req[r], k, kind) THEN 1 ELSE 0)
                      + (IF IsUncounted(c, k, kind) THEN 1 ELSE 0)
    <2> DEFINE rest == UncountedOf(k, kind) \ {r}
    <2>1. IsFiniteSet(UncountedOf(k, kind)) /\ Uncounted(k, kind) = Cardinality(UncountedOf(k, kind))
          /\ Uncounted(k, kind) \in Nat
        BY CountedSets
    <2>2. Uncounted(k, kind)' = Cardinality(UncountedOf(k, kind)')
        BY DEF Uncounted, UncountedOf, IsUncounted, CountKey, UserOf
    <2>3. UncountedOf(k, kind)' = IF IsUncounted(c, k, kind) THEN rest \cup {r} ELSE rest
        BY <1>1 DEF UncountedOf, IsUncounted
    <2>4. r \in UncountedOf(k, kind) <=> IsUncounted(req[r], k, kind)
        BY DEF UncountedOf
    <2>5. IsFiniteSet(rest) /\ Cardinality(rest) = Uncounted(k, kind) - (IF IsUncounted(req[r], k, kind) THEN 1 ELSE 0)
        BY <2>1, <2>4, FS_RemoveElement
    <2>6. Cardinality(rest) \in Nat /\ r \notin rest
        BY <2>5, FS_CardinalityType
    <2> HIDE DEF rest
    <2>7. Cardinality(rest \cup {r}) = Cardinality(rest) + 1
        BY <2>5, <2>6, FS_AddElement
    <2> QED
        BY <2>1, <2>2, <2>3, <2>5, <2>6, <2>7
<1>3. LikersIn(k)' = LikersIn(k)
    BY DEF LikersIn
<1>4. Due(k)' = Cardinality(LikersIn(k)) - Uncounted(k, "like")' + Uncounted(k, "unlike")'
    BY <1>3 DEF Due, LikersIn
<1>5. ~ (IsUncounted(c, k, "like") /\ IsUncounted(c, k, "unlike"))
      /\ ~ (IsUncounted(req[r], k, "like") /\ IsUncounted(req[r], k, "unlike"))
    BY DEF IsUncounted
<1>6. "like" \in Kinds /\ "unlike" \in Kinds
    BY DEF Kinds
<1>7. /\ Uncounted(k, "like") \in Nat /\ Uncounted(k, "unlike") \in Nat /\ Cardinality(LikersIn(k)) \in Nat
      /\ Due(k) = Cardinality(LikersIn(k)) - Uncounted(k, "like") + Uncounted(k, "unlike")
    BY <1>6, CountedSets
<1>8. Owes(req[r], k) = (IF IsUncounted(req[r], k, "like") THEN 1 ELSE 0)
                        - (IF IsUncounted(req[r], k, "unlike") THEN 1 ELSE 0)
      /\ Owes(c, k) = (IF IsUncounted(c, k, "like") THEN 1 ELSE 0)
                        - (IF IsUncounted(c, k, "unlike") THEN 1 ELSE 0)
    BY <1>5 DEF Owes
<1>9. /\ Uncounted(k, "like")' = Uncounted(k, "like") - (IF IsUncounted(req[r], k, "like") THEN 1 ELSE 0)
                                 + (IF IsUncounted(c, k, "like") THEN 1 ELSE 0)
      /\ Uncounted(k, "unlike")' = Uncounted(k, "unlike") - (IF IsUncounted(req[r], k, "unlike") THEN 1 ELSE 0)
                                 + (IF IsUncounted(c, k, "unlike") THEN 1 ELSE 0)
    BY <1>2, <1>6
<1> QED
    BY <1>4, <1>7, <1>8, <1>9

\* An injective function into a finite set.
LEMMA InjectionBound ==
    ASSUME NEW S, NEW T, IsFiniteSet(S), IsFiniteSet(T), NEW f \in [S -> T],
           \A x, y \in S : f[x] = f[y] => x = y
    PROVE  Cardinality(S) <= Cardinality(T)
<1>1. Cardinality(S) \in Nat /\ Cardinality(T) \in Nat
    BY FS_CardinalityType
<1>2. ~ (Cardinality(T) < Cardinality(S))
    BY FS_PigeonHole
<1> QED
    BY <1>1, <1>2

\* The uncounted likes of a sub-shard are of users with a row, one each, and
\* the uncounted unlikes of users without: what is due is a number of users.
LEMMA DueBounds ==
    ASSUME TypeInv, OneCallEach, WritesStand, NEW k \in SubShards
    PROVE  /\ Uncounted(k, "like") <= Cardinality(LikersIn(k))
           /\ 0 <= Due(k) /\ Due(k) <= Cardinality(UsersIn(k))
<1>0. "like" \in Kinds /\ "unlike" \in Kinds
    BY DEF Kinds
<1>1. ASSUME NEW kind \in Kinds, NEW r \in UncountedOf(k, kind)
      PROVE  /\ r \in Requests /\ req[r].stage # "idle" /\ req[r].stage \in Rowed
             /\ req[r].user \in UsersIn(k) /\ (req[r].user \in LikersIn(k) <=> kind = "like")
    <2>1. r \in Requests /\ req[r].kind = kind /\ req[r].stage \in {"mark", "count"}
          /\ SubShardOf[req[r].user] = k
        BY <1>1 DEF UncountedOf, IsUncounted
    <2>2. req[r].user \in Users
        BY <2>1 DEF TypeInv, StagesAgree, Shape
    <2>3. req[r].stage \in Rowed
        BY <2>1 DEF Rowed
    <2> QED
        BY <2>1, <2>2, <2>3 DEF WritesStand, UsersIn, LikersIn
<1>2. \A kind \in Kinds : \A r, q \in UncountedOf(k, kind) : req[r].user = req[q].user => r = q
    BY <1>1 DEF OneCallEach
<1>3. Uncounted(k, "like") <= Cardinality(LikersIn(k))
    <2> DEFINE f == [r \in UncountedOf(k, "like") |-> req[r].user]
    <2>1. f \in [UncountedOf(k, "like") -> LikersIn(k)]
        BY <1>0, <1>1
    <2>2. \A r, q \in UncountedOf(k, "like") : f[r] = f[q] => r = q
        BY <1>0, <1>2
    <2>3. IsFiniteSet(UncountedOf(k, "like")) /\ IsFiniteSet(LikersIn(k))
          /\ Uncounted(k, "like") = Cardinality(UncountedOf(k, "like"))
        BY <1>0, CountedSets
    <2> HIDE DEF f
    <2> QED
        BY <2>1, <2>2, <2>3, InjectionBound
<1>4. Uncounted(k, "unlike") <= Cardinality(UsersIn(k) \ LikersIn(k))
    <2> DEFINE f == [r \in UncountedOf(k, "unlike") |-> req[r].user]
    <2>1. f \in [UncountedOf(k, "unlike") -> UsersIn(k) \ LikersIn(k)]
        BY <1>0, <1>1
    <2>2. \A r, q \in UncountedOf(k, "unlike") : f[r] = f[q] => r = q
        BY <1>0, <1>2
    <2>3. IsFiniteSet(UncountedOf(k, "unlike")) /\ IsFiniteSet(UsersIn(k) \ LikersIn(k))
          /\ Uncounted(k, "unlike") = Cardinality(UncountedOf(k, "unlike"))
        BY <1>0, CountedSets, FS_Subset
    <2> HIDE DEF f
    <2> QED
        BY <2>1, <2>2, <2>3, InjectionBound
<1>5. Cardinality(UsersIn(k)) = Cardinality(LikersIn(k)) + Cardinality(UsersIn(k) \ LikersIn(k))
    <2>1. UsersIn(k) = LikersIn(k) \cup (UsersIn(k) \ LikersIn(k))
          /\ LikersIn(k) \cap (UsersIn(k) \ LikersIn(k)) = {}
          /\ IsFiniteSet(LikersIn(k)) /\ IsFiniteSet(UsersIn(k) \ LikersIn(k))
        BY CountedSets, FS_Subset
    <2> QED
        BY <2>1, DisjointUnion
<1>6. /\ Cardinality(UsersIn(k) \ LikersIn(k)) \in Nat
      /\ Cardinality(UsersIn(k)) \in Nat /\ Cardinality(LikersIn(k)) \in Nat
      /\ Uncounted(k, "like") \in Nat /\ Uncounted(k, "unlike") \in Nat
      /\ Due(k) = Cardinality(LikersIn(k)) - Uncounted(k, "like") + Uncounted(k, "unlike")
    BY <1>0, CountedSets, FS_Subset, FS_CardinalityType
<1> QED
    BY <1>3, <1>4, <1>5, <1>6

\* A row that comes or goes changes what is due as its call will.
LEMMA DueOfRow ==
    ASSUME TypeInv, NEW r \in Requests, ChangeRow(r), NEW k \in SubShards
    PROVE  Due(k)' = Due(k)
<1> DEFINE c == [req[r] EXCEPT !.stage = "mark", !.changed = (liked' # liked)]
           u == req[r].user
<1>1. req[r] \in Call /\ req[r].stage = "row" /\ u \in Users /\ req' = [req EXCEPT ![r] = c]
      /\ liked' = (IF req[r].kind = "like" THEN liked \cup {u} ELSE liked \ {u})
    BY DEF ChangeRow, At, UserOf, TypeInv, TypeOK, StagesAgree, Shape
<1>2. c \in Call /\ c.stage = "mark" /\ c.changed = (liked' # liked) /\ c.user = u /\ c.kind = req[r].kind
    BY <1>1 DEF Call, Stages
<1> HIDE DEF c
<1>3. CASE liked' = liked
    <2>1. Due(k)' = Due(k) + Owes(req[r], k) - Owes(c, k)
        BY <1>1, <1>3, DueChange
    <2>2. Owes(req[r], k) = 0 /\ Owes(c, k) = 0
        BY <1>1, <1>2, <1>3 DEF Owes, IsUncounted
    <2> QED
        BY <2>1, <2>2, CountedSets
<1>4. CASE liked' # liked
    <2>1. req'[r] = c /\ \A q \in Requests \ {r} : req'[q] = req[q]
        BY <1>1 DEF TypeInv, TypeOK
    <2> DEFINE one == IF SubShardOf[u] = k THEN {r} ELSE {}
    <2>2. \A kind \in Kinds : ~ IsUncounted(req[r], k, kind)
        BY <1>1 DEF IsUncounted
    <2>3. \A kind \in Kinds : UncountedOf(k, kind)' = UncountedOf(k, kind) \cup (IF kind = req[r].kind THEN one ELSE {})
          /\ r \notin UncountedOf(k, kind)
        <3> TAKE kind \in Kinds
        <3>1. r \notin UncountedOf(k, kind)
            BY <2>2 DEF UncountedOf
        <3>2. IsUncounted(c, k, kind) <=> kind = req[r].kind /\ SubShardOf[u] = k
            BY <1>2, <1>4 DEF IsUncounted
        <3>3. UncountedOf(k, kind)' = {q \in Requests : IsUncounted(req'[q], k, kind)}
            BY DEF UncountedOf, IsUncounted
        <3>4. \A q \in Requests : IsUncounted(req'[q], k, kind) <=>
                  q \in UncountedOf(k, kind) \/ (q = r /\ kind = req[r].kind /\ SubShardOf[u] = k)
            BY <2>1, <2>2, <3>2 DEF UncountedOf
        <3>5. UncountedOf(k, kind) \subseteq Requests
            BY DEF UncountedOf
        <3> QED
            BY <3>1, <3>3, <3>4, <3>5
    <2>4. \A kind \in Kinds : /\ Uncounted(k, kind)' = Cardinality(UncountedOf(k, kind)')
                              /\ Uncounted(k, kind) = Cardinality(UncountedOf(k, kind))
                              /\ IsFiniteSet(UncountedOf(k, kind)) /\ Uncounted(k, kind) \in Nat
        BY CountedSets DEF Uncounted, UncountedOf, IsUncounted, CountKey, UserOf
    <2>5. \A kind \in Kinds : Uncounted(k, kind)' =
              Uncounted(k, kind) + (IF kind = req[r].kind /\ SubShardOf[u] = k THEN 1 ELSE 0)
        <3> TAKE kind \in Kinds
        <3>1. CASE kind = req[r].kind /\ SubShardOf[u] = k
            <4>1. UncountedOf(k, kind)' = UncountedOf(k, kind) \cup {r}
                BY <2>3, <3>1
            <4> QED
                BY <2>3, <2>4, <3>1, <4>1, FS_AddElement
        <3>2. CASE ~ (kind = req[r].kind /\ SubShardOf[u] = k)
            <4>1. UncountedOf(k, kind)' = UncountedOf(k, kind)
                BY <2>3, <3>2
            <4> QED
                BY <2>4, <3>2, <4>1
        <3> QED
            BY <3>1, <3>2
    <2>6. Cardinality(LikersIn(k)') =
              Cardinality(LikersIn(k)) + (IF SubShardOf[u] # k THEN 0 ELSE IF req[r].kind = "like" THEN 1 ELSE -1)
        <3>1. IsFiniteSet(LikersIn(k)) /\ Cardinality(LikersIn(k)) \in Nat
            BY CountedSets
        <3>2. CASE SubShardOf[u] # k
            <4>1. LikersIn(k)' = LikersIn(k)
                BY <1>1, <3>2 DEF LikersIn
            <4> QED
                BY <3>1, <3>2, <4>1
        <3>3. CASE SubShardOf[u] = k /\ req[r].kind = "like"
            <4>1. LikersIn(k)' = LikersIn(k) \cup {u} /\ u \notin LikersIn(k)
                BY <1>1, <1>4, <3>3 DEF LikersIn
            <4> QED
                BY <3>1, <3>3, <4>1, FS_AddElement
        <3>4. CASE SubShardOf[u] = k /\ req[r].kind # "like"
            <4>1. LikersIn(k)' = LikersIn(k) \ {u} /\ u \in LikersIn(k)
                BY <1>1, <1>4, <3>4 DEF LikersIn
            <4>2. Cardinality(LikersIn(k) \ {u}) = Cardinality(LikersIn(k)) - 1
                BY <3>1, <4>1, FS_RemoveElement
            <4> QED
                BY <3>1, <3>4, <4>1, <4>2
        <3> QED
            BY <3>2, <3>3, <3>4
    <2>7. Due(k)' = Cardinality(LikersIn(k)') - Uncounted(k, "like")' + Uncounted(k, "unlike")'
        BY DEF Due, LikersIn
    <2>8. req[r].kind \in {"like", "unlike"} /\ "like" \in Kinds /\ "unlike" \in Kinds
        BY <1>1 DEF Call, Kinds
    <2>9. /\ Uncounted(k, "like")' = Uncounted(k, "like") + (IF req[r].kind = "like" /\ SubShardOf[u] = k THEN 1 ELSE 0)
          /\ Uncounted(k, "unlike")' = Uncounted(k, "unlike") + (IF req[r].kind = "unlike" /\ SubShardOf[u] = k THEN 1 ELSE 0)
        BY <2>5, <2>8
    <2>10. /\ Due(k) = Cardinality(LikersIn(k)) - Uncounted(k, "like") + Uncounted(k, "unlike")
           /\ Uncounted(k, "like") \in Nat /\ Uncounted(k, "unlike") \in Nat /\ Cardinality(LikersIn(k)) \in Nat
        BY <2>8, CountedSets
    <2> QED
        BY <2>6, <2>7, <2>8, <2>9, <2>10
<1> QED
    BY <1>3, <1>4

-----------------------------------------------------------------------------
\* The rules of the calls: one of each user, and what it has done stands.
CallsInv == OneCallEach /\ WritesStand /\ OutcomeStands

\* At first nobody has called.
LEMMA CallsInit == Init => CallsInv
<1> SUFFICES ASSUME Init PROVE CallsInv
    OBVIOUS
<1>1. \A r \in Requests : req[r] = NoCall /\ req[r].stage = "idle"
    BY DEF Init, NoCall
<1>2. \A u \in Users : outcome[u] \notin Kinds
    BY DEF Init, Kinds
<1> QED
    BY <1>1, <1>2 DEF CallsInv, OneCallEach, WritesStand, OutcomeStands, Rowed, Marked

\* A user who begins has no other call in progress.
LEMMA CallsBegin ==
    ASSUME TypeInv, CallsInv, SerialUsers,
           NEW r \in Requests, NEW u \in Users, NEW kind \in Kinds, Begin(r, u, kind)
    PROVE  CallsInv'
<1> DEFINE c == [NoCall EXCEPT !.stage = "allow", !.user = u, !.kind = kind]
<1>1. c.stage = "allow" /\ c.user = u
    BY DEF NoCall
<1>2. req[r] = NoCall /\ req' = [req EXCEPT ![r] = c] /\ InFlight(u) = {}
      /\ UNCHANGED <<liked, likeState, outcome>>
    BY DEF Begin, stores, history
<1> HIDE DEF c
<1>3. req'[r] = c /\ \A q \in Requests \ {r} : req'[q] = req[q]
    BY <1>2 DEF TypeInv, TypeOK
<1>4. \A q \in Requests : req[q].user # u
    BY <1>2 DEF InFlight, UserOf
<1>5. OneCallEach'
    BY <1>1, <1>3, <1>4 DEF CallsInv, OneCallEach
<1>6. WritesStand'
    BY <1>1, <1>2, <1>3 DEF CallsInv, WritesStand, Rowed, Marked
<1>7. OutcomeStands'
    <2>1. req[r].stage \notin Rowed
        BY <1>2 DEF NoCall, Rowed
    <2>2. \A q \in Requests : req[q].stage \in Rowed => req'[q] = req[q]
        BY <1>3, <2>1
    <2> QED
        BY <1>2, <2>2 DEF CallsInv, OutcomeStands
<1> QED
    BY <1>5, <1>6, <1>7 DEF CallsInv

\* What a call in progress is allowed to turn into.
Continues(r, c) == c = NoCall \/ (c.user = req[r].user /\ c.kind = req[r].kind)

\* A call that goes on is still the only one of its user.
LEMMA OneCallStays ==
    ASSUME TypeInv, OneCallEach, NEW r \in Requests, NEW c, Moves(r, c), req[r].stage # "idle",
           Continues(r, c)
    PROVE  /\ OneCallEach'
           /\ req'[r] = c /\ \A q \in Requests \ {r} : req'[q] = req[q]
           /\ \A q \in Requests \ {r} : req[q].stage \in Rowed => req[q].user # req[r].user
<1>1. req'[r] = c /\ \A q \in Requests \ {r} : req'[q] = req[q]
    BY DEF TypeInv, TypeOK, Moves
<1>2. c.stage # "idle" => c.user = req[r].user
    BY DEF Continues, NoCall
<1>3. OneCallEach'
    BY <1>1, <1>2 DEF OneCallEach
<1> QED
    BY <1>1, <1>3 DEF OneCallEach, Rowed

\* A move that writes neither the row nor the set.
LEMMA CallsMove ==
    ASSUME TypeInv, CallsInv, NEW r \in Requests, NEW c, Moves(r, c), req[r].stage # "idle",
           Continues(r, c), UNCHANGED <<liked, likeState, outcome>>,
           c.stage \in Rowed <=> req[r].stage \in Rowed,
           c.stage \in Marked => req[r].stage \in Marked
    PROVE  CallsInv'
<1>1. /\ OneCallEach'
      /\ req'[r] = c /\ \A q \in Requests \ {r} : req'[q] = req[q]
    BY OneCallStays DEF CallsInv
<1>2. c.stage \in Rowed \/ c.stage \in Marked => c.user = req[r].user /\ c.kind = req[r].kind
    BY DEF Continues, NoCall, Rowed, Marked
<1>3. WritesStand'
    BY <1>1, <1>2 DEF CallsInv, WritesStand
<1>4. OutcomeStands'
    <2>1. ASSUME NEW u \in Users, \A q \in Requests : req'[q].user = u => req'[q].stage \notin Rowed
          PROVE  \A q \in Requests : req[q].user = u => req[q].stage \notin Rowed
        BY <1>1, <1>2, <2>1
    <2> QED
        BY <2>1 DEF CallsInv, OutcomeStands
<1> QED
    BY <1>1, <1>3, <1>4 DEF CallsInv

\* An answer: the call has written the row and the set.
LEMMA CallsReturn ==
    ASSUME TypeInv, CallsInv, NEW r \in Requests, Moves(r, NoCall), req[r].stage \in Marked,
           UNCHANGED <<liked, likeState>>, outcome' = [outcome EXCEPT ![req[r].user] = req[r].kind]
    PROVE  CallsInv'
<1>0. req[r].stage # "idle" /\ req[r].stage \in Rowed
    BY DEF Rowed, Marked
<1>1. /\ OneCallEach'
      /\ req'[r] = NoCall /\ \A q \in Requests \ {r} : req'[q] = req[q]
    BY <1>0, OneCallStays DEF CallsInv, Continues
<1>2. WritesStand'
    BY <1>1 DEF CallsInv, WritesStand, NoCall, Rowed, Marked
<1>3. OutcomeStands'
    <2> SUFFICES ASSUME NEW u \in Users, outcome'[u] \in Kinds,
                        \A q \in Requests : req'[q].user = u => req'[q].stage \notin Rowed
                 PROVE  (u \in liked) = (outcome'[u] = "like") /\ (u \in likeState) = (u \in liked)
        BY DEF OutcomeStands
    <2>1. CASE u = req[r].user
        BY <1>0, <2>1 DEF CallsInv, WritesStand, TypeInv, TypeOK
    <2>2. CASE u # req[r].user
        <3>1. \A q \in Requests : req[q].user = u => req[q].stage \notin Rowed
            BY <1>1, <2>2
        <3>2. outcome'[u] = outcome[u]
            BY <2>2 DEF TypeInv, TypeOK
        <3> QED
            BY <3>1, <3>2 DEF CallsInv, OutcomeStands
    <2> QED
        BY <2>1, <2>2
<1> QED
    BY <1>1, <1>2, <1>3 DEF CallsInv

\* What a call has written stands while it goes on and after it ends.
LEMMA CallsStep ==
    ASSUME TypeInv, CallsInv, NEW r \in Requests, Step(r) \/ FailureIgnored(r) \/ RequestFails(r)
    PROVE  CallsInv'
<1> USE DEF stores, windows, history
<1>0. /\ req[r] \in Call /\ Shape(req[r])
    BY DEF TypeInv, TypeOK, StagesAgree
<1>m. \A st \in Stages : LET c == [req[r] EXCEPT !.stage = st]
                         IN  c.stage = st /\ Continues(r, c)
    BY <1>0 DEF Call, Continues
<1>e. Continues(r, NoCall) /\ NoCall.stage = "idle"
    BY DEF Continues, NoCall
<1>g. ASSUME NEW from \in Stages \ {"idle", "allow", "row", "mark"}, NEW to \in Stages \ {"idle", "allow"},
             At(r, from), GoTo(r, to), UNCHANGED <<liked, likeState, outcome, calls>>,
             to = "row" <=> from = "expire", to \notin {"expire", "mark", "count"}
      PROVE  CallsInv'
    <2>1. req[r].stage = from /\ (to = "row" => ~ req[r].changed)
        BY <1>0, <1>g DEF At, Shape
    <2>2. Moves(r, [req[r] EXCEPT !.stage = to])
        BY <1>g, <2>1, GoesOn
    <2>3. /\ to \in Rowed <=> from \in Rowed
          /\ to \in Marked => from \in Marked
        BY <1>g DEF Stages, Rowed, Marked
    <2> QED
        BY <1>g, <1>m, <2>1, <2>2, <2>3, CallsMove
<1>1. CASE Allow(r)
    <2>1. req[r].stage = "allow" /\ ~ req[r].changed /\ UNCHANGED <<liked, likeState, outcome, calls>>
        BY <1>0, <1>1 DEF Allow, At, Shape
    <2>2. ASSUME NEW st \in {"expire", "row"}, GoTo(r, st) PROVE CallsInv'
        <3>1. Moves(r, [req[r] EXCEPT !.stage = st])
            BY <2>1, <2>2, GoesOn DEF Stages
        <3> QED
            BY <1>m, <2>1, <2>2, <3>1, CallsMove DEF Stages, Rowed, Marked
    <2>3. CASE req' = [req EXCEPT ![r] = NoCall]
        <3>1. Moves(r, NoCall)
            BY <2>1, <2>3, EndsHere
        <3> QED
            BY <1>e, <2>1, <3>1, CallsMove DEF Rowed, Marked
    <2> QED
        BY <1>1, <2>2, <2>3 DEF Allow
<1>2. CASE StartWindow(r)
    BY <1>2, <1>g DEF StartWindow, Stages
<1>3. CASE ChangeRow(r)
    <2> DEFINE c == [req[r] EXCEPT !.stage = "mark", !.changed = (liked' # liked)]
               u == req[r].user
    <2>1. req[r].stage = "row" /\ req' = [req EXCEPT ![r] = c] /\ UNCHANGED <<calls, likeState, outcome>>
          /\ liked' = (IF req[r].kind = "like" THEN liked \cup {u} ELSE liked \ {u})
        BY <1>3 DEF ChangeRow, At, UserOf
    <2>2. c \in Call /\ Shape(c) /\ c.stage = "mark" /\ c.user = u /\ c.kind = req[r].kind
        BY <1>0, <2>1 DEF Call, Stages, Shape
    <2> HIDE DEF c
    <2>3. Moves(r, c) /\ Continues(r, c)
        BY <2>1, <2>2 DEF Moves, Continues
    <2>4. /\ OneCallEach'
          /\ req'[r] = c /\ \A q \in Requests \ {r} : req'[q] = req[q]
          /\ \A q \in Requests \ {r} : req[q].stage \in Rowed => req[q].user # u
        BY <2>1, <2>3, OneCallStays DEF CallsInv
    <2>5. WritesStand'
        BY <2>1, <2>2, <2>4 DEF CallsInv, WritesStand, Rowed, Marked
    <2>6. OutcomeStands'
        <3> SUFFICES ASSUME NEW v \in Users, outcome[v] \in Kinds,
                            \A q \in Requests : req'[q].user = v => req'[q].stage \notin Rowed
                     PROVE  (v \in liked') = (outcome[v] = "like") /\ (v \in likeState) = (v \in liked')
            BY <2>1 DEF OutcomeStands
        <3>1. v # u
            BY <2>2, <2>4 DEF Rowed
        <3>2. \A q \in Requests : req[q].user = v => req[q].stage \notin Rowed
            BY <2>4, <3>1
        <3> QED
            BY <2>1, <3>1, <3>2 DEF CallsInv, OutcomeStands
    <2> QED
        BY <2>4, <2>5, <2>6 DEF CallsInv
<1>4. CASE MarkState(r)
    <2> DEFINE st == IF req[r].changed THEN "count" ELSE "read"
               c == [req[r] EXCEPT !.stage = st]
               u == req[r].user
    <2>1. req[r].stage = "mark" /\ GoTo(r, st) /\ UNCHANGED <<calls, liked, outcome>>
          /\ likeState' = (IF req[r].kind = "like" THEN likeState \cup {u} ELSE likeState \ {u})
        BY <1>4 DEF MarkState, At, UserOf
    <2>2. Moves(r, c) /\ Continues(r, c)
        BY <1>m, <2>1, GoesOn DEF Stages
    <2>3. /\ OneCallEach'
          /\ req'[r] = c /\ \A q \in Requests \ {r} : req'[q] = req[q]
          /\ \A q \in Requests \ {r} : req[q].stage \in Rowed => req[q].user # u
        BY <2>1, <2>2, OneCallStays DEF CallsInv
    <2>4. c.stage \in Rowed /\ c.user = u /\ c.kind = req[r].kind /\ req[r].stage \in Rowed
        BY <1>0, <2>1 DEF Call, Rowed
    <2> HIDE DEF c
    <2>5. WritesStand'
        <3>1. (u \in liked) = (req[r].kind = "like")
            BY <2>4 DEF CallsInv, WritesStand
        <3> QED
            BY <2>1, <2>3, <2>4, <3>1 DEF CallsInv, WritesStand, Rowed, Marked
    <2>6. OutcomeStands'
        <3> SUFFICES ASSUME NEW v \in Users, outcome[v] \in Kinds,
                            \A q \in Requests : req'[q].user = v => req'[q].stage \notin Rowed
                     PROVE  (v \in liked) = (outcome[v] = "like") /\ (v \in likeState') = (v \in liked)
            BY <2>1 DEF OutcomeStands
        <3>1. v # u
            BY <2>3, <2>4
        <3>2. \A q \in Requests : req[q].user = v => req[q].stage \notin Rowed
            BY <2>3, <3>1
        <3> QED
            BY <2>1, <3>1, <3>2 DEF CallsInv, OutcomeStands
    <2> QED
        BY <2>3, <2>5, <2>6 DEF CallsInv
<1>5. CASE IncrLikeCount(r)
    BY <1>5, <1>g DEF IncrLikeCount, Stages
<1>6. CASE DecrLikeCount(r)
    <2>1. \/ GoTo(r, "clamp") 
          \/ GoTo(r, "invalidate")
        BY <1>6 DEF DecrLikeCount
    <2> QED
        BY <1>6, <1>g, <2>1 DEF DecrLikeCount, Stages
<1>7. CASE Clamp(r)
    BY <1>7, <1>g DEF Clamp, Stages
<1>8. CASE InvalidateSum(r)
    BY <1>8, <1>g DEF InvalidateSum, Stages
<1>r. ASSUME At(r, "read") \/ At(r, "cacheSum"), Return(r),
             UNCHANGED <<liked, likeState, calls>>
      PROVE  CallsInv'
    <2>1. Moves(r, NoCall)
        BY <1>r, EndsHere DEF Return
    <2> QED
        BY <1>r, <2>1, CallsReturn DEF Return, At, Marked, Rowed, UserOf
<1>9. CASE ReadSum(r)
    <2>1. CASE GoTo(r, "sum") /\ UNCHANGED outcome
        BY <1>9, <1>g, <2>1 DEF ReadSum, Stages
    <2> QED
        BY <1>9, <1>r, <2>1 DEF ReadSum
<1>10. CASE AddSubCounts(r)
    <2> DEFINE c == [req[r] EXCEPT !.stage = "cacheSum", !.total = SumOfSubCounts]
    <2>1. req[r].stage = "sum" /\ req' = [req EXCEPT ![r] = c] /\ UNCHANGED <<liked, likeState, outcome, calls>>
        BY <1>10 DEF AddSubCounts, At
    <2>2. SumOfSubCounts \in Int
        BY TotalsAreSums DEF TypeInv
    <2>3. c \in Call /\ Shape(c) /\ c.stage = "cacheSum" /\ c.user = req[r].user /\ c.kind = req[r].kind
        BY <1>0, <2>1, <2>2 DEF Call, Stages, Shape
    <2>4. Moves(r, c) /\ Continues(r, c)
        BY <2>1, <2>3 DEF Moves, Continues
    <2> HIDE DEF c
    <2> QED
        BY <2>1, <2>3, <2>4, CallsMove DEF Rowed, Marked
<1>11. CASE CacheSum(r)
    BY <1>11, <1>r DEF CacheSum
<1>12. CASE FailureIgnored(r)
    <2>1. UNCHANGED <<liked, likeState, calls>>
        BY <1>12 DEF FailureIgnored
    <2>2. CASE At(r, "expire") /\ GoTo(r, "row") /\ UNCHANGED outcome
        BY <1>g, <2>1, <2>2 DEF Stages
    <2>3. CASE At(r, "clamp") /\ GoTo(r, "invalidate") /\ UNCHANGED outcome
        BY <1>g, <2>1, <2>3 DEF Stages
    <2>4. CASE At(r, "invalidate") /\ GoTo(r, "read") /\ UNCHANGED outcome
        BY <1>g, <2>1, <2>4 DEF Stages
    <2>5. CASE At(r, "read") /\ GoTo(r, "sum") /\ UNCHANGED outcome
        BY <1>g, <2>1, <2>5 DEF Stages
    <2>6. CASE At(r, "cacheSum") /\ Return(r)
        BY <1>r, <2>1, <2>6
    <2> QED
        BY <1>12, <2>2, <2>3, <2>4, <2>5, <2>6 DEF FailureIgnored
<1>13. CASE RequestFails(r)
    <2>1. req[r].stage # "idle" /\ req' = [req EXCEPT ![r] = NoCall]
          /\ outcome' = [outcome EXCEPT ![req[r].user] = "failed"]
          /\ UNCHANGED <<liked, likeState, calls>>
        BY <1>13 DEF RequestFails, At, UserOf
    <2>2. Moves(r, NoCall)
        BY <2>1, EndsHere
    <2>3. /\ OneCallEach'
          /\ req'[r] = NoCall /\ \A q \in Requests \ {r} : req'[q] = req[q]
        BY <1>e, <2>1, <2>2, OneCallStays DEF CallsInv
    <2>4. WritesStand'
        BY <1>e, <2>1, <2>3 DEF CallsInv, WritesStand, Rowed, Marked
    <2>5. OutcomeStands'
        <3> SUFFICES ASSUME NEW v \in Users, outcome'[v] \in Kinds,
                            \A q \in Requests : req'[q].user = v => req'[q].stage \notin Rowed
                     PROVE  (v \in liked) = (outcome'[v] = "like") /\ (v \in likeState) = (v \in liked)
            BY <2>1 DEF OutcomeStands
        <3>1. v # req[r].user /\ outcome'[v] = outcome[v]
            BY <2>1 DEF TypeInv, TypeOK, Kinds
        <3>2. \A q \in Requests : req[q].user = v => req[q].stage \notin Rowed
            BY <2>3, <3>1
        <3> QED
            BY <3>1, <3>2 DEF CallsInv, OutcomeStands
    <2> QED
        BY <2>3, <2>4, <2>5 DEF CallsInv
<1> QED
    BY <1>1, <1>2, <1>3, <1>4, <1>5, <1>6, <1>7, <1>8, <1>9, <1>10, <1>11, <1>12, <1>13 DEF Step

\* With one call of each user at a time the rules are kept.
LEMMA CallsNext == SerialUsers /\ TypeInv /\ CallsInv /\ [Next]_vars => CallsInv'
<1> SUFFICES ASSUME SerialUsers, TypeInv, CallsInv, [Next]_vars PROVE CallsInv'
    OBVIOUS
<1>1. ASSUME NEW r \in Requests, NEW u \in Users, NEW kind \in Kinds, Begin(r, u, kind) PROVE CallsInv'
    BY <1>1, CallsBegin
<1>2. ASSUME NEW r \in Requests, Step(r) \/ FailureIgnored(r) \/ RequestFails(r) PROVE CallsInv'
    BY <1>2, CallsStep
<1>3. CASE UNCHANGED <<liked, likeState, req, outcome>>
    BY <1>3 DEF CallsInv, OneCallEach, WritesStand, OutcomeStands
<1>4. ASSUME NEW u \in Users, WindowEnds(u) PROVE CallsInv'
    BY <1>3, <1>4 DEF WindowEnds, stores, history
<1>5. CASE SumExpires
    BY <1>3, <1>5 DEF SumExpires, history
<1>6. CASE UNCHANGED vars
    BY <1>3, <1>6 DEF vars, stores, history
<1> QED
    BY <1>1, <1>2, <1>4, <1>5, <1>6 DEF Next

\* Between two calls of a user the last of which succeeded, the row, the
\* user_likes set and the answer agree: for any number of users and handler
\* threads, whatever failed halfway before.
THEOREM OwnLikeIsVisible == SerialUsers => (Spec => []OwnLikeVisible)
<1> SUFFICES ASSUME SerialUsers PROVE Spec => []OwnLikeVisible
    OBVIOUS
<1>1. Init => TypeInv /\ CallsInv
    BY TypeInit, CallsInit
<1>2. TypeInv /\ CallsInv /\ [Next]_vars => (TypeInv /\ CallsInv)'
    BY TypeNext, CallsNext
<1>3. CallsInv => OwnLikeVisible
    BY DEF CallsInv, OutcomeStands, OwnLikeVisible, InFlight, UserOf
<1> QED
    BY <1>1, <1>2, <1>3, PTL DEF Spec

-----------------------------------------------------------------------------
\* A sub-counter and the rows.
CountRight(k) ==
    /\ subCount[k] <= Due(k) + lostDecrements[k]
    /\ failures = 0 => subCount[k] = Due(k)

CountersRight == \A k \in SubShards : CountRight(k)

\* Every counter is zero, and so is what is due.
LEMMA CountInit == Init => CountersRight /\ ClampAfterFailure
<1> SUFFICES ASSUME Init PROVE CountersRight /\ ClampAfterFailure
    OBVIOUS
<1>1. \A r \in Requests : req[r].stage = "idle" /\ req[r].changed = FALSE
    BY DEF Init, NoCall
<1>2. ASSUME NEW k \in SubShards PROVE CountRight(k)
    <2>1. LikersIn(k) = {} /\ UncountedOf(k, "like") = {} /\ UncountedOf(k, "unlike") = {}
        BY <1>1 DEF Init, LikersIn, UncountedOf, IsUncounted
    <2>2. Due(k) = 0
        <3>1. TypeInv
            BY TypeInit
        <3>2. Due(k) = Cardinality(LikersIn(k)) - Cardinality(UncountedOf(k, "like"))
                       + Cardinality(UncountedOf(k, "unlike"))
            BY <3>1, CountedSets DEF Kinds
        <3> QED
            BY <2>1, <3>2, FS_EmptySet
    <2>3. subCount[k] = 0 /\ lostDecrements[k] = 0
        BY DEF Init
    <2> QED
        BY <2>2, <2>3 DEF CountRight
<1> QED
    BY <1>1, <1>2 DEF CountersRight, ClampAfterFailure

\* What a record owes, said once.
LEMMA OwesCases ==
    ASSUME NEW c, NEW k \in SubShards
    PROVE  /\ Owes(c, k) \in {-1, 0, 1}
           /\ ~ c.changed \/ c.stage \notin {"mark", "count"} \/ SubShardOf[c.user] # k => Owes(c, k) = 0
           /\ c.changed /\ c.stage \in {"mark", "count"} /\ SubShardOf[c.user] = k =>
                /\ c.kind = "like" => Owes(c, k) = 1
                /\ c.kind = "unlike" => Owes(c, k) = -1
BY DEF Owes, IsUncounted

\* They are numbers.
LEMMA CountTypes ==
    ASSUME TypeInv, NEW k \in SubShards
    PROVE  subCount[k] \in Int /\ lostDecrements[k] \in Nat /\ failures \in Nat /\ Due(k) \in Int
BY CountedSets, CallAssumption DEF TypeInv, TypeOK

\* A step that changes a sub-counter by what its call no longer owes, and leaves
\* the rows alone.
LEMMA RightMove ==
    ASSUME TypeInv, CountersRight, NEW r \in Requests, NEW c, Moves(r, c), liked' = liked,
           UNCHANGED lostDecrements, failures' = failures \/ failures' = failures + 1,
           \A k \in SubShards : subCount'[k] = subCount[k] + Owes(req[r], k) - Owes(c, k)
    PROVE  CountersRight'
<1> SUFFICES ASSUME NEW k \in SubShards PROVE CountRight(k)'
    BY DEF CountersRight
<1>1. req' = [req EXCEPT ![r] = c]
    BY DEF Moves
<1>2. Due(k)' = Due(k) + Owes(req[r], k) - Owes(c, k)
    BY <1>1, DueChange
<1>3. subCount'[k] = subCount[k] + Owes(req[r], k) - Owes(c, k) /\ CountRight(k)
    BY DEF CountersRight
<1>4. Owes(req[r], k) \in {-1, 0, 1} /\ Owes(c, k) \in {-1, 0, 1}
    BY OwesCases
<1>5. subCount[k] \in Int /\ lostDecrements[k] \in Nat /\ failures \in Nat /\ Due(k) \in Int
    BY CountTypes
<1> QED
    BY <1>2, <1>3, <1>4, <1>5 DEF CountRight

\* No step of a call takes a sub-counter and the rows apart.
LEMMA CountStep ==
    ASSUME TypeInv, CallsInv, CountersRight, ClampAfterFailure,
           NEW r \in Requests, Step(r) \/ FailureIgnored(r) \/ RequestFails(r)
    PROVE  CountersRight'
<1> USE DEF stores, windows, history
<1>0. /\ req[r] \in Call /\ Shape(req[r]) /\ subCount \in [SubShards -> Int]
    BY DEF TypeInv, TypeOK, StagesAgree
<1>u. ASSUME req[r].stage # "idle"
      PROVE  UserOf(r) \in Users /\ CountKey(r) \in SubShards /\ CountKey(r) = SubShardOf[req[r].user]
    BY <1>0, <1>u, SubShardAssumption DEF UserOf, CountKey, Shape
<1>m. \A st \in Stages : LET c == [req[r] EXCEPT !.stage = st]
                         IN  c.stage = st /\ c.user = req[r].user /\ c.kind = req[r].kind
                             /\ c.changed = req[r].changed
    BY <1>0 DEF Call
<1>z. ASSUME NEW k \in SubShards, req[r].stage \notin {"mark", "count"} PROVE Owes(req[r], k) = 0
    BY <1>z, OwesCases
<1>y. ASSUME NEW k \in SubShards, NEW st \in Stages \ {"mark", "count"}
      PROVE  Owes([req[r] EXCEPT !.stage = st], k) = 0
    <2> DEFINE c == [req[r] EXCEPT !.stage = st]
    <2>1. c.stage = st
        BY <1>m
    <2> HIDE DEF c
    <2>2. Owes(c, k) = 0
        BY <2>1, OwesCases
    <2> QED
        BY <2>2 DEF c
<1>g. ASSUME NEW from \in Stages \ {"idle", "allow", "row", "mark", "count"}, NEW to \in Stages \ {"idle", "allow"},
             At(r, from), GoTo(r, to), UNCHANGED <<liked, subCount, lostDecrements, calls>>,
             to = "row" <=> from = "expire", to \notin {"expire", "mark", "count"},
             failures' = failures \/ failures' = failures + 1
      PROVE  CountersRight'
    <2>1. req[r].stage = from /\ (to = "row" => ~ req[r].changed)
        BY <1>0, <1>g DEF At, Shape
    <2>2. Moves(r, [req[r] EXCEPT !.stage = to])
        BY <1>g, <2>1, GoesOn
    <2>3. \A k \in SubShards : Owes(req[r], k) = 0 /\ Owes([req[r] EXCEPT !.stage = to], k) = 0
        BY <1>g, <1>y, <1>z, <2>1
    <2>4. \A k \in SubShards : subCount'[k] = subCount[k] + Owes(req[r], k) - Owes([req[r] EXCEPT !.stage = to], k)
        BY <1>0, <1>g, <2>3
    <2> QED
        BY <1>g, <2>2, <2>4, RightMove
<1>e. ASSUME req' = [req EXCEPT ![r] = NoCall], UNCHANGED <<liked, subCount, lostDecrements, calls>>,
             req[r].stage \notin {"mark", "count"}, failures' = failures \/ failures' = failures + 1
      PROVE  CountersRight'
    <2>1. Moves(r, NoCall)
        BY <1>e, EndsHere
    <2>2. \A k \in SubShards : Owes(req[r], k) = 0 /\ Owes(NoCall, k) = 0
        BY <1>e, OwesCases DEF NoCall
    <2>3. \A k \in SubShards : subCount'[k] = subCount[k] + Owes(req[r], k) - Owes(NoCall, k)
        BY <1>0, <1>e, <2>2
    <2> QED
        BY <1>e, <2>1, <2>3, RightMove
<1>1. CASE Allow(r)
    <2>1. req[r].stage = "allow" /\ ~ req[r].changed /\ UNCHANGED <<liked, subCount, lostDecrements, calls, failures>>
        BY <1>0, <1>1 DEF Allow, At, Shape
    <2>2. ASSUME NEW st \in {"expire", "row"}, GoTo(r, st) PROVE CountersRight'
        <3>1. Moves(r, [req[r] EXCEPT !.stage = st])
            BY <2>1, <2>2, GoesOn DEF Stages
        <3>2. \A k \in SubShards : Owes(req[r], k) = 0 /\ Owes([req[r] EXCEPT !.stage = st], k) = 0
            BY <1>y, <1>z, <2>1 DEF Stages
        <3>3. \A k \in SubShards : subCount'[k] = subCount[k] + Owes(req[r], k) - Owes([req[r] EXCEPT !.stage = st], k)
            BY <1>0, <2>1, <3>2
        <3> QED
            BY <2>1, <3>1, <3>3, RightMove
    <2> QED
        BY <1>1, <1>e, <2>1, <2>2 DEF Allow
<1>2. CASE StartWindow(r)
    BY <1>2, <1>g DEF StartWindow, Stages
<1>3. CASE ChangeRow(r)
    <2>1. UNCHANGED <<subCount, lostDecrements, failures>>
        BY <1>3 DEF ChangeRow
    <2>2. \A k \in SubShards : Due(k)' = Due(k)
        BY <1>3, DueOfRow
    <2> QED
        BY <2>1, <2>2 DEF CountersRight, CountRight
<1>4. CASE MarkState(r)
    <2> DEFINE st == IF req[r].changed THEN "count" ELSE "read"
               c == [req[r] EXCEPT !.stage = st]
    <2>1. req[r].stage = "mark" /\ GoTo(r, st) /\ UNCHANGED <<calls, liked, subCount, lostDecrements, failures>>
        BY <1>4 DEF MarkState, At
    <2>2. Moves(r, c)
        BY <2>1, GoesOn DEF Stages
    <2>3. c.stage = st /\ c.user = req[r].user /\ c.kind = req[r].kind /\ c.changed = req[r].changed
        BY <1>m DEF Stages
    <2> HIDE DEF c
    <2>4. \A k \in SubShards : Owes(req[r], k) = Owes(c, k)
        BY <2>1, <2>3 DEF Owes, IsUncounted
    <2>5. \A k \in SubShards : subCount'[k] = subCount[k] + Owes(req[r], k) - Owes(c, k)
        BY <1>0, <2>1, <2>4, OwesCases
    <2> QED
        BY <2>1, <2>2, <2>5, RightMove
<1>c. ASSUME NEW to \in {"invalidate", "clamp"}, NEW d \in {-1, 1},
             At(r, "count"), GoTo(r, to), d = (IF req[r].kind = "like" THEN 1 ELSE -1),
             subCount' = [subCount EXCEPT ![CountKey(r)] = @ + d],
             UNCHANGED <<liked, lostDecrements, calls, failures>>
      PROVE  CountersRight'
    <2>1. req[r].stage = "count" /\ req[r].changed /\ req[r].kind \in Kinds
        BY <1>0, <1>c DEF At, Shape, Call
    <2>2. Moves(r, [req[r] EXCEPT !.stage = to])
        BY <1>c, <2>1, GoesOn DEF Stages
    <2>3. \A k \in SubShards : Owes(req[r], k) = (IF k = CountKey(r) THEN d ELSE 0)
                               /\ Owes([req[r] EXCEPT !.stage = to], k) = 0
        <3>1. ASSUME NEW k \in SubShards PROVE Owes(req[r], k) = (IF k = CountKey(r) THEN d ELSE 0)
            BY <1>c, <1>u, <2>1, OwesCases DEF Kinds
        <3>2. to \in Stages \ {"mark", "count"}
            BY <1>c DEF Stages
        <3>3. \A k \in SubShards : Owes([req[r] EXCEPT !.stage = to], k) = 0
            BY <1>y, <3>2
        <3> QED
            BY <3>1, <3>3
    <2>4. \A k \in SubShards : subCount'[k] = subCount[k] + Owes(req[r], k) - Owes([req[r] EXCEPT !.stage = to], k)
        BY <1>0, <1>c, <2>3
    <2> QED
        BY <1>c, <2>2, <2>4, RightMove
<1>5. CASE IncrLikeCount(r)
    BY <1>5, <1>c DEF IncrLikeCount
<1>6. CASE DecrLikeCount(r)
    <2>1. subCount' = [subCount EXCEPT ![CountKey(r)] = @ + (-1)]
        <3>1. CountKey(r) \in SubShards
            BY <1>6, <1>u DEF DecrLikeCount, At
        <3> QED
            BY <1>0, <1>6, <3>1 DEF DecrLikeCount
    <2>2. GoTo(r, "clamp") \/ GoTo(r, "invalidate")
        BY <1>6 DEF DecrLikeCount
    <2> QED
        BY <1>6, <1>c, <2>1, <2>2 DEF DecrLikeCount
<1>7. CASE Clamp(r)
    <2>1. req[r].stage = "clamp" /\ GoTo(r, "invalidate") /\ subCount' = [subCount EXCEPT ![CountKey(r)] = 0]
          /\ UNCHANGED <<liked, lostDecrements, calls, failures>>
        BY <1>7 DEF Clamp, At
    <2>2. failures \in Nat /\ failures > 0
        BY <2>1, CallAssumption DEF ClampAfterFailure, TypeInv, TypeOK
    <2>3. ASSUME NEW k \in SubShards PROVE CountRight(k)'
        <3>1. Due(k)' = Due(k) + Owes(req[r], k) - Owes([req[r] EXCEPT !.stage = "invalidate"], k)
            BY <2>1, DueChange DEF GoTo
        <3>2. Owes(req[r], k) = 0 /\ Owes([req[r] EXCEPT !.stage = "invalidate"], k) = 0
            BY <1>y, <1>z, <2>1 DEF Stages
        <3>3. 0 <= Due(k)
            BY DueBounds DEF CallsInv
        <3>4. subCount[k] \in Int /\ lostDecrements[k] \in Nat /\ Due(k) \in Int
              /\ subCount[k] <= Due(k) + lostDecrements[k]
            BY CountTypes DEF CountersRight, CountRight
        <3>5. subCount'[k] = 0 \/ subCount'[k] = subCount[k]
            BY <1>0, <2>1
        <3> QED
            BY <2>1, <2>2, <3>1, <3>2, <3>3, <3>4, <3>5 DEF CountRight
    <2> QED
        BY <2>3 DEF CountersRight
<1>8. CASE InvalidateSum(r)
    BY <1>8, <1>g DEF InvalidateSum, Stages
<1>9. CASE ReadSum(r)
    <2>1. CASE GoTo(r, "sum") /\ UNCHANGED outcome
        BY <1>9, <1>g, <2>1 DEF ReadSum, Stages
    <2> QED
        BY <1>9, <1>e, <2>1 DEF ReadSum, Return, At
<1>10. CASE AddSubCounts(r)
    <2> DEFINE c == [req[r] EXCEPT !.stage = "cacheSum", !.total = SumOfSubCounts]
    <2>1. req[r].stage = "sum" /\ req' = [req EXCEPT ![r] = c] /\ UNCHANGED <<liked, subCount, lostDecrements, calls, failures>>
        BY <1>10 DEF AddSubCounts, At
    <2>2. SumOfSubCounts \in Int
        BY TotalsAreSums DEF TypeInv
    <2>3. c \in Call /\ Shape(c) /\ c.stage = "cacheSum"
        BY <1>0, <2>1, <2>2 DEF Call, Stages, Shape
    <2>4. Moves(r, c)
        BY <2>1, <2>3 DEF Moves
    <2> HIDE DEF c
    <2>5. \A k \in SubShards : Owes(req[r], k) = 0 /\ Owes(c, k) = 0
        BY <2>1, <2>3, OwesCases
    <2>6. \A k \in SubShards : subCount'[k] = subCount[k] + Owes(req[r], k) - Owes(c, k)
        BY <1>0, <2>1, <2>5
    <2> QED
        BY <2>1, <2>4, <2>6, RightMove
<1>11. CASE CacheSum(r)
    BY <1>11, <1>e DEF CacheSum, Return, At
<1>12. CASE FailureIgnored(r)
    <2>1. UNCHANGED <<liked, subCount, lostDecrements, calls>> /\ failures' = failures + 1
        BY <1>12 DEF FailureIgnored
    <2>2. CASE At(r, "expire") /\ GoTo(r, "row") /\ UNCHANGED outcome
        BY <1>g, <2>1, <2>2 DEF Stages
    <2>3. CASE At(r, "clamp") /\ GoTo(r, "invalidate") /\ UNCHANGED outcome
        BY <1>g, <2>1, <2>3 DEF Stages
    <2>4. CASE At(r, "invalidate") /\ GoTo(r, "read") /\ UNCHANGED outcome
        BY <1>g, <2>1, <2>4 DEF Stages
    <2>5. CASE At(r, "read") /\ GoTo(r, "sum") /\ UNCHANGED outcome
        BY <1>g, <2>1, <2>5 DEF Stages
    <2>6. CASE At(r, "cacheSum") /\ Return(r)
        BY <1>e, <2>1, <2>6 DEF Return, At
    <2> QED
        BY <1>12, <2>2, <2>3, <2>4, <2>5, <2>6 DEF FailureIgnored
<1>13. CASE RequestFails(r)
    <2>1. req[r].stage # "idle" /\ req' = [req EXCEPT ![r] = NoCall] /\ failures' = failures + 1
          /\ UNCHANGED <<liked, subCount, calls>>
        BY <1>13 DEF RequestFails, At
    <2> DEFINE dies == req[r].kind = "unlike" /\ req[r].changed /\ req[r].stage \in {"mark", "count"}
    <2>2. CountKey(r) \in SubShards /\ CountKey(r) = SubShardOf[req[r].user] /\ req[r].kind \in Kinds
        BY <1>0, <1>u, <2>1 DEF Call
    <2>3. ASSUME NEW k \in SubShards PROVE CountRight(k)'
        <3>1. Due(k)' = Due(k) + Owes(req[r], k) - Owes(NoCall, k)
            BY <2>1, DueChange
        <3>2. Owes(NoCall, k) = 0
            BY OwesCases DEF NoCall
        <3>3. lostDecrements'[k] = lostDecrements[k] + (IF dies /\ k = CountKey(r) THEN 1 ELSE 0)
            BY <1>13, <2>2 DEF RequestFails, TypeInv, TypeOK
        <3>4. Owes(req[r], k) \in {0, 1} \/ (Owes(req[r], k) = -1 /\ dies /\ k = CountKey(r))
            BY <2>2 DEF Owes, IsUncounted
        <3>5. subCount[k] \in Int /\ lostDecrements[k] \in Nat /\ Due(k) \in Int /\ failures \in Nat
              /\ subCount[k] <= Due(k) + lostDecrements[k] /\ subCount'[k] = subCount[k]
            BY <2>1, CountTypes DEF CountersRight, CountRight
        <3> HIDE DEF dies
        <3> QED
            BY <2>1, <3>1, <3>2, <3>3, <3>4, <3>5 DEF CountRight
    <2> QED
        BY <2>3 DEF CountersRight
<1> QED
    BY <1>1, <1>2, <1>3, <1>4, <1>5, <1>6, <1>7, <1>8, <1>9, <1>10, <1>11, <1>12, <1>13 DEF Step

\* While nothing has failed a DECR stays at zero or above: its row was liked, so
\* one more than the others' rows was due.
LEMMA ClampStep ==
    ASSUME TypeInv, CallsInv, CountersRight, ClampAfterFailure,
           NEW r \in Requests, Step(r) \/ FailureIgnored(r) \/ RequestFails(r)
    PROVE  ClampAfterFailure'
<1>0. req[r] \in Call /\ req \in [Requests -> Call] /\ failures \in Nat
    BY CallAssumption DEF TypeInv, TypeOK
<1>1. failures' = failures \/ failures' = failures + 1
    BY DEF Step, FailureIgnored, RequestFails, Allow, StartWindow, ChangeRow, MarkState, IncrLikeCount,
           DecrLikeCount, Clamp, InvalidateSum, ReadSum, AddSubCounts, CacheSum
<1>2. CASE DecrLikeCount(r) /\ failures' = 0
    <2> DEFINE k == CountKey(r)
    <2>1. /\ req[r].stage = "count" /\ req[r].kind = "unlike" /\ failures = 0
          /\ GoTo(r, IF subCount'[k] < 0 THEN "clamp" ELSE "invalidate")
          /\ subCount' = [subCount EXCEPT ![k] = @ - 1]
        BY <1>2 DEF DecrLikeCount, At
    <2>2. req[r].changed /\ req[r].user \in Users
        BY <2>1 DEF TypeInv, StagesAgree, Shape
    <2>3. k \in SubShards /\ k = SubShardOf[req[r].user]
        BY <2>2, SubShardAssumption DEF CountKey, UserOf
    <2> HIDE DEF k
    <2>4. r \in UncountedOf(k, "unlike")
        BY <2>1, <2>2, <2>3 DEF UncountedOf, IsUncounted
    <2>5. "like" \in Kinds /\ "unlike" \in Kinds
        BY DEF Kinds
    <2>6. Uncounted(k, "unlike") \in Nat /\ Uncounted(k, "unlike") # 0
        BY <2>3, <2>4, <2>5, CountedSets, FS_EmptySet
    <2>7. /\ Due(k) = Cardinality(LikersIn(k)) - Uncounted(k, "like") + Uncounted(k, "unlike")
          /\ Uncounted(k, "like") \in Nat /\ Cardinality(LikersIn(k)) \in Nat
          /\ Uncounted(k, "like") <= Cardinality(LikersIn(k))
        BY <2>3, <2>5, CountedSets, DueBounds DEF CallsInv
    <2>8. subCount[k] = Due(k) /\ subCount'[k] = subCount[k] - 1
        BY <2>1, <2>3 DEF CountersRight, CountRight, TypeInv, TypeOK
    <2>9. ~ (subCount'[k] < 0)
        BY <2>6, <2>7, <2>8
    <2>10. req' = [req EXCEPT ![r].stage = "invalidate"]
        BY <2>1, <2>9 DEF GoTo
    <2>11. \A q \in Requests : req'[q].stage = "clamp" => req[q].stage = "clamp"
        BY <1>0, <2>10 DEF Call
    <2> QED
        BY <1>0, <2>1, <2>11 DEF ClampAfterFailure
<1>3. CASE ~ DecrLikeCount(r) /\ failures' = 0
    <2>1. failures = 0
        BY <1>0, <1>1, <1>3
    <2>2. Step(r) /\ ~ DecrLikeCount(r)
        BY <1>0, <1>3 DEF FailureIgnored, RequestFails
    <2>3. \A q \in Requests : req'[q].stage = "clamp" => req[q].stage = "clamp"
        BY <1>0, <2>2 DEF Step, Allow, StartWindow, ChangeRow, MarkState, IncrLikeCount,
              Clamp, InvalidateSum, ReadSum, AddSubCounts, CacheSum, GoTo, Return, NoCall, Call
    <2> QED
        BY <1>0, <2>1, <2>3 DEF ClampAfterFailure
<1>4. CASE failures' # 0
    BY <1>0, <1>1, <1>4 DEF ClampAfterFailure
<1> QED
    BY <1>2, <1>3, <1>4

CountInv == TypeInv /\ CallsInv /\ CountersRight /\ ClampAfterFailure

\* The counters stay right.
LEMMA CountNext == SerialUsers /\ CountInv /\ [Next]_vars => CountInv'
<1> SUFFICES ASSUME SerialUsers, CountInv, [Next]_vars PROVE CountersRight' /\ ClampAfterFailure'
    BY TypeNext, CallsNext DEF CountInv
<1> USE DEF CountInv
<1>1. ASSUME NEW r \in Requests, NEW u \in Users, NEW kind \in Kinds, Begin(r, u, kind)
      PROVE  CountersRight' /\ ClampAfterFailure'
    <2> DEFINE c == [NoCall EXCEPT !.stage = "allow", !.user = u, !.kind = kind]
    <2>1. c.stage = "allow"
        BY DEF NoCall
    <2>2. req[r] = NoCall /\ req' = [req EXCEPT ![r] = c]
          /\ UNCHANGED <<liked, subCount, lostDecrements, failures>>
        BY <1>1 DEF Begin, stores, history
    <2> HIDE DEF c
    <2>3. \A k \in SubShards : Owes(NoCall, k) = 0 /\ Owes(c, k) = 0
        BY <2>1, OwesCases DEF NoCall
    <2>4. \A k \in SubShards : Due(k)' = Due(k) + Owes(req[r], k) - Owes(c, k)
        BY <2>2, DueChange
    <2>5. CountersRight'
        BY <2>2, <2>3, <2>4, CountTypes DEF CountersRight, CountRight
    <2>6. ClampAfterFailure'
        BY <2>1, <2>2 DEF ClampAfterFailure, TypeInv, TypeOK
    <2> QED
        BY <2>5, <2>6
<1>2. ASSUME NEW r \in Requests, Step(r) \/ FailureIgnored(r) \/ RequestFails(r)
      PROVE  CountersRight' /\ ClampAfterFailure'
    BY <1>2, CountStep, ClampStep
<1>3. CASE UNCHANGED <<liked, req, subCount, lostDecrements, failures>>
    <2>1. \A k \in SubShards : Due(k)' = Due(k)
        BY <1>3 DEF Due, Uncounted, CountKey, UserOf
    <2> QED
        BY <1>3, <2>1 DEF CountersRight, CountRight, ClampAfterFailure
<1>4. ASSUME NEW u \in Users, WindowEnds(u) PROVE CountersRight' /\ ClampAfterFailure'
    BY <1>3, <1>4 DEF WindowEnds, stores, history
<1>5. CASE SumExpires
    BY <1>3, <1>5 DEF SumExpires, history
<1>6. CASE UNCHANGED vars
    BY <1>3, <1>6 DEF vars, stores, history
<1> QED
    BY <1>1, <1>2, <1>4, <1>5, <1>6 DEF Next

\* The invariant of the counters.
LEMMA CountInvariant == SerialUsers => (Spec => []CountInv)
<1> SUFFICES ASSUME SerialUsers PROVE Spec => []CountInv
    OBVIOUS
<1>1. Init => CountInv
    BY TypeInit, CallsInit, CountInit DEF CountInv
<1>2. CountInv /\ [Next]_vars => CountInv'
    BY CountNext
<1> QED
    BY <1>1, <1>2, PTL DEF Spec

\* As long as nothing fails every sub-counter agrees with the rows, however many
\* users' requests interleave and however they fall on the sub-counters.
THEOREM CountersExact == SerialUsers => (Spec => []ExactWithoutFailures)
<1> SUFFICES ASSUME SerialUsers PROVE Spec => []ExactWithoutFailures
    OBVIOUS
<1>1. CountInv => ExactWithoutFailures
    BY DEF CountInv, CountersRight, CountRight, ExactWithoutFailures
<1> QED
    BY <1>1, CountInvariant, PTL

\* A counter is too high only by rows whose deletion died before its DECR: no
\* retry counts a like twice, and no SET 0 lifts the counter above the rows.
THEOREM OvercountIsLostDecrement == SerialUsers => (Spec => []OvercountNeedsLostDecrement)
<1> SUFFICES ASSUME SerialUsers PROVE Spec => []OvercountNeedsLostDecrement
    OBVIOUS
<1>1. CountInv => OvercountNeedsLostDecrement
    BY DEF CountInv, CountersRight, CountRight, OvercountNeedsLostDecrement
<1> QED
    BY <1>1, CountInvariant, PTL

-----------------------------------------------------------------------------
\* A call that went below zero and has its SET 0 still to make.
IsClamping(c, k) == c.stage = "clamp" /\ SubShardOf[c.user] = k

ClampsOf(k) == {r \in Requests : IsClamping(req[r], k)}

Pending(c, k) == IF IsClamping(c, k) THEN 1 ELSE 0

\* A step of one call changes the clamps to come by that call's.
LEMMA ClampsChange ==
    ASSUME TypeInv, NEW r \in Requests, NEW c, req' = [req EXCEPT ![r] = c], NEW k \in SubShards
    PROVE  /\ Cardinality(ClampsOf(k)) \in Nat /\ Cardinality(ClampsOf(k)') \in Nat
           /\ Cardinality(ClampsOf(k)') = Cardinality(ClampsOf(k)) - Pending(req[r], k) + Pending(c, k)
<1> DEFINE rest == ClampsOf(k) \ {r}
<1>1. req'[r] = c /\ \A q \in Requests \ {r} : req'[q] = req[q]
    BY DEF TypeInv, TypeOK
<1>2. ClampsOf(k)' = IF IsClamping(c, k) THEN rest \cup {r} ELSE rest
    BY <1>1 DEF ClampsOf, IsClamping
<1>3. r \in ClampsOf(k) <=> IsClamping(req[r], k)
    BY DEF ClampsOf
<1>4. IsFiniteSet(ClampsOf(k)) /\ Cardinality(ClampsOf(k)) \in Nat
    BY FiniteAssumption, FS_Subset, FS_CardinalityType DEF ClampsOf
<1>5. IsFiniteSet(rest) /\ Cardinality(rest) = Cardinality(ClampsOf(k)) - Pending(req[r], k)
    BY <1>3, <1>4, FS_RemoveElement DEF Pending
<1>6. Cardinality(rest) \in Nat /\ r \notin rest
    BY <1>5, FS_CardinalityType
<1> HIDE DEF rest
<1>7. Cardinality(rest \cup {r}) = Cardinality(rest) + 1
    BY <1>5, <1>6, FS_AddElement
<1> QED
    BY <1>2, <1>4, <1>5, <1>6, <1>7 DEF Pending

\* A counter that goes down owes one clamp more, or is not below zero.
LEMMA ClampMove ==
    ASSUME TypeInv, TypeInv', NegativeAwaitsClamp,
           NEW r \in Requests, NEW c, req' = [req EXCEPT ![r] = c],
           \A k \in SubShards :
              \/ subCount'[k] >= 0
              \/ subCount'[k] + Pending(c, k) + lostClamps'[k]
                    >= subCount[k] + Pending(req[r], k) + lostClamps[k]
    PROVE  NegativeAwaitsClamp'
<1> SUFFICES ASSUME NEW k \in SubShards
             PROVE  subCount'[k] + Cardinality(ClampsOf(k)') + lostClamps'[k] >= 0
    BY DEF NegativeAwaitsClamp, ClampsOf, IsClamping, At, CountKey, UserOf
<1>1. subCount[k] + Cardinality(ClampsOf(k)) + lostClamps[k] >= 0
    BY DEF NegativeAwaitsClamp, ClampsOf, IsClamping, At, CountKey, UserOf
<1>2. subCount[k] \in Int /\ subCount'[k] \in Int /\ lostClamps[k] \in Nat /\ lostClamps'[k] \in Nat
    BY CallAssumption DEF TypeInv, TypeOK
<1>3. /\ Cardinality(ClampsOf(k)) \in Nat /\ Cardinality(ClampsOf(k)') \in Nat
      /\ Cardinality(ClampsOf(k)') = Cardinality(ClampsOf(k)) - Pending(req[r], k) + Pending(c, k)
    BY ClampsChange
<1>4. Pending(req[r], k) \in Nat /\ Pending(c, k) \in Nat
    BY DEF Pending
<1> QED
    BY <1>1, <1>2, <1>3, <1>4

\* So does every step of a call, failed or not.
LEMMA ClampsStep ==
    ASSUME TypeInv, TypeInv', NegativeAwaitsClamp,
           NEW r \in Requests, Step(r) \/ FailureIgnored(r) \/ RequestFails(r)
    PROVE  NegativeAwaitsClamp'
<1> USE DEF history
<1>0. /\ req[r] \in Call /\ Shape(req[r]) /\ subCount \in [SubShards -> Int]
      /\ lostClamps \in [SubShards -> 0 .. MaxFailures] /\ MaxFailures \in Nat
    BY CallAssumption DEF TypeInv, TypeOK, StagesAgree
<1>u. ASSUME req[r].stage # "idle"
      PROVE  CountKey(r) \in SubShards /\ CountKey(r) = SubShardOf[req[r].user]
    BY <1>0, <1>u, SubShardAssumption DEF UserOf, CountKey, Shape
<1>p. \A k \in SubShards : req[r].stage # "clamp" => Pending(req[r], k) = 0
    BY DEF Pending, IsClamping
\* A step between other stages, of which none goes below zero.
<1>g. ASSUME NEW c, req' = [req EXCEPT ![r] = c], req[r].stage # "clamp",
             lostClamps' = lostClamps, \A k \in SubShards : subCount'[k] >= subCount[k]
      PROVE  NegativeAwaitsClamp'
    <2>1. ASSUME NEW k \in SubShards
          PROVE  subCount'[k] + Pending(c, k) + lostClamps'[k]
                    >= subCount[k] + Pending(req[r], k) + lostClamps[k]
        <3>1. Pending(req[r], k) = 0 /\ Pending(c, k) \in Nat /\ lostClamps[k] \in Nat
              /\ subCount[k] \in Int /\ subCount'[k] \in Int
            BY <1>0, <1>g, <1>p DEF Pending, TypeInv, TypeOK
        <3> QED
            BY <1>g, <3>1
    <2> QED
        BY <1>g, <2>1, ClampMove
<1>1. ASSUME req[r].stage # "clamp", UNCHANGED <<subCount, lostClamps>>,
             \E c : req' = [req EXCEPT ![r] = c]
      PROVE  NegativeAwaitsClamp'
    <2>1. \A k \in SubShards : subCount[k] \in Int /\ subCount'[k] >= subCount[k]
        BY <1>0, <1>1
    <2>2. PICK c : req' = [req EXCEPT ![r] = c]
        BY <1>1
    <2> QED
        BY <1>1, <1>g, <2>1, <2>2
<1>2. CASE /\ \/ Allow(r) \/ StartWindow(r) \/ ChangeRow(r) \/ MarkState(r) \/ InvalidateSum(r)
              \/ ReadSum(r) \/ AddSubCounts(r) \/ CacheSum(r)
    <2>1. req[r].stage # "clamp" /\ UNCHANGED <<subCount, lostClamps>>
        BY <1>2 DEF Allow, StartWindow, ChangeRow, MarkState, InvalidateSum, ReadSum, AddSubCounts,
                    CacheSum, stores, At
    <2>2. \E c : req' = [req EXCEPT ![r] = c]
        BY <1>2 DEF Allow, StartWindow, ChangeRow, MarkState, InvalidateSum, ReadSum, AddSubCounts,
                    CacheSum, GoTo, Return
    <2> QED
        BY <1>1, <2>1, <2>2
<1>3. CASE IncrLikeCount(r)
    <2>1. req[r].stage # "clamp" /\ UNCHANGED lostClamps /\ req' = [req EXCEPT ![r].stage = "invalidate"]
        BY <1>3 DEF IncrLikeCount, At, GoTo
    <2>2. \A k \in SubShards : subCount'[k] >= subCount[k]
        BY <1>0, <1>3 DEF IncrLikeCount
    <2> QED
        BY <1>g, <2>1, <2>2
<1>4. CASE DecrLikeCount(r)
    <2> DEFINE key == CountKey(r)
               st == IF subCount'[key] < 0 THEN "clamp" ELSE "invalidate"
               c == [req[r] EXCEPT !.stage = st]
    <2>1. /\ req[r].stage = "count" /\ UNCHANGED lostClamps /\ req' = [req EXCEPT ![r] = c]
          /\ subCount' = [subCount EXCEPT ![key] = @ - 1]
        BY <1>4 DEF DecrLikeCount, At, GoTo
    <2>2. key \in SubShards /\ key = SubShardOf[req[r].user]
        BY <1>u, <2>1
    <2>3. c.stage = st /\ c.user = req[r].user
        BY <1>0 DEF Call
    <2>4. ASSUME NEW k \in SubShards
          PROVE  \/ subCount'[k] >= 0
                 \/ subCount'[k] + Pending(c, k) + lostClamps'[k]
                        >= subCount[k] + Pending(req[r], k) + lostClamps[k]
        <3> HIDE DEF c
        <3>1. Pending(req[r], k) = 0 /\ Pending(c, k) \in Nat /\ lostClamps[k] \in Nat
              /\ subCount[k] \in Int
            BY <1>0, <1>p, <2>1 DEF Pending
        <3>2. CASE k # key
            BY <1>0, <2>1, <3>1, <3>2
        <3>3. CASE k = key
            <4>1. subCount'[k] = subCount[k] - 1
                BY <1>0, <2>1, <2>2, <3>3
            <4>2. subCount'[k] < 0 => Pending(c, k) = 1
                BY <2>2, <2>3, <3>3 DEF Pending, IsClamping
            <4> QED
                BY <2>1, <3>1, <4>1, <4>2
        <3> QED
            BY <3>2, <3>3
    <2> QED
        BY <2>1, <2>4, ClampMove
<1>5. CASE Clamp(r)
    <2> DEFINE c == [req[r] EXCEPT !.stage = "invalidate"]
    <2>1. /\ req[r].stage = "clamp" /\ UNCHANGED lostClamps /\ req' = [req EXCEPT ![r] = c]
          /\ subCount' = [subCount EXCEPT ![CountKey(r)] = 0]
        BY <1>5 DEF Clamp, At, GoTo
    <2>2. ASSUME NEW k \in SubShards
          PROVE  \/ subCount'[k] >= 0
                 \/ subCount'[k] + Pending(c, k) + lostClamps'[k]
                        >= subCount[k] + Pending(req[r], k) + lostClamps[k]
        <3>1. CASE k = CountKey(r)
            BY <1>0, <2>1, <3>1
        <3>2. CASE k # CountKey(r)
            <4>1. subCount'[k] = subCount[k] /\ subCount[k] \in Int /\ lostClamps[k] \in Nat
                BY <1>0, <2>1, <3>2
            <4>2. Pending(req[r], k) = 0 /\ Pending(c, k) \in Nat
                BY <1>u, <2>1, <3>2 DEF Pending, IsClamping
            <4> QED
                BY <2>1, <4>1, <4>2
        <3> QED
            BY <3>1, <3>2
    <2> QED
        BY <2>1, <2>2, ClampMove
\* A failure counts the clamp it loses.
<1>l. ASSUME NEW c, req' = [req EXCEPT ![r] = c], req[r].stage # "idle", UNCHANGED subCount, LoseClamp(r)
      PROVE  NegativeAwaitsClamp'
    <2>1. ASSUME NEW k \in SubShards
          PROVE  subCount'[k] + Pending(c, k) + lostClamps'[k]
                    >= subCount[k] + Pending(req[r], k) + lostClamps[k]
        <3>1. subCount[k] \in Int /\ lostClamps[k] \in Nat /\ Pending(c, k) \in Nat
            BY <1>0 DEF Pending
        <3>2. lostClamps'[k] = lostClamps[k] + Pending(req[r], k)
            BY <1>0, <1>l, <1>u DEF LoseClamp, At, Pending, IsClamping
        <3>3. Pending(req[r], k) \in Nat
            BY DEF Pending
        <3> QED
            BY <1>l, <3>1, <3>2, <3>3
    <2> QED
        BY <1>l, <2>1, ClampMove
<1>6. CASE FailureIgnored(r) \/ RequestFails(r)
    <2>1. req[r].stage # "idle" /\ UNCHANGED subCount /\ LoseClamp(r)
        BY <1>6 DEF FailureIgnored, RequestFails, At, stores
    <2>2. \E c : req' = [req EXCEPT ![r] = c]
        BY <1>6 DEF FailureIgnored, RequestFails, GoTo, Return
    <2> QED
        BY <1>l, <2>1, <2>2
<1> QED
    BY <1>2, <1>3, <1>4, <1>5, <1>6 DEF Step

\* A sub-counter is negative by no more than the SET 0s that are under way or
\* were lost: for any users, also those with several calls at once, any failures
\* and any interleaving.
THEOREM NegativesAreRepaired == Spec => []NegativeAwaitsClamp
<1>1. Init => NegativeAwaitsClamp
    <2> SUFFICES ASSUME Init, NEW k \in SubShards
                 PROVE  subCount[k] + Cardinality(ClampsOf(k)) + lostClamps[k] >= 0
        BY DEF NegativeAwaitsClamp, ClampsOf, IsClamping, At, CountKey, UserOf
    <2>1. subCount[k] = 0 /\ lostClamps[k] = 0 /\ ClampsOf(k) = {}
        BY DEF Init, ClampsOf, IsClamping, NoCall
    <2> QED
        BY <2>1, FS_EmptySet
<1>2. TypeInv /\ TypeInv' /\ NegativeAwaitsClamp /\ [Next]_vars => NegativeAwaitsClamp'
    <2> SUFFICES ASSUME TypeInv, TypeInv', NegativeAwaitsClamp, [Next]_vars PROVE NegativeAwaitsClamp'
        OBVIOUS
    <2>1. ASSUME NEW r \in Requests, NEW u \in Users, NEW kind \in Kinds, Begin(r, u, kind)
          PROVE  NegativeAwaitsClamp'
        <3> DEFINE c == [NoCall EXCEPT !.stage = "allow", !.user = u, !.kind = kind]
        <3>1. req[r] = NoCall /\ req' = [req EXCEPT ![r] = c] /\ UNCHANGED <<subCount, lostClamps>>
            BY <2>1 DEF Begin, stores, history
        <3>2. \A k \in SubShards : Pending(req[r], k) = 0 /\ Pending(c, k) = 0
            BY <3>1 DEF Pending, IsClamping, NoCall
        <3>3. \A k \in SubShards :
                subCount'[k] + Pending(c, k) + lostClamps'[k]
                    >= subCount[k] + Pending(req[r], k) + lostClamps[k]
            BY <3>1, <3>2, CallAssumption DEF TypeInv, TypeOK
        <3> QED
            BY <3>1, <3>3, ClampMove
    <2>2. ASSUME NEW r \in Requests, Step(r) \/ FailureIgnored(r) \/ RequestFails(r)
          PROVE  NegativeAwaitsClamp'
        BY <2>2, ClampsStep
    <2>3. CASE UNCHANGED <<req, subCount, lostClamps>>
        BY <2>3 DEF NegativeAwaitsClamp, At, CountKey, UserOf
    <2>4. ASSUME NEW u \in Users, WindowEnds(u) PROVE NegativeAwaitsClamp'
        BY <2>3, <2>4 DEF WindowEnds, stores, history
    <2>5. CASE SumExpires \/ UNCHANGED vars
        BY <2>3, <2>5 DEF SumExpires, vars, stores, history
    <2> QED
        BY <2>1, <2>2, <2>4, <2>5 DEF Next
<1>3. Init => TypeInv
    BY TypeInit
<1>4. TypeInv /\ [Next]_vars => TypeInv'
    BY TypeNext
<1> QED
    BY <1>1, <1>2, <1>3, <1>4, PTL DEF Spec
=============================================================================
