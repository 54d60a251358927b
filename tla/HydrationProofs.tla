-------------------------- MODULE HydrationProofs --------------------------
(* The pages of FeedPage are what GetFeed promises, and Hydration, which     *)
(* implements its pipeline, ranks what deserves it first: proved for any     *)
(* topology, any posts, tabs and authors, and any bounds.                    *)
EXTENDS Hydration, FiniteSetTheorems, WellFoundedInduction, TLAPS

-----------------------------------------------------------------------------
(* Folds over sequences                                                     *)

\* A set of natural numbers that is not empty has a least element.
LEMMA LeastNatural ==
    ASSUME NEW S \in SUBSET Nat, S # {}
    PROVE  \E m \in S : \A k \in S : m <= k
<1>1. PICK m \in S : \A k \in S : ~ (<<k, m>> \in OpToRel(<, Nat))
  BY WFMin, NatLessThanWellFounded, Zenon
<1>2. ASSUME NEW k \in S PROVE ~ k < m
  BY <1>1 DEF OpToRel
<1>3. ASSUME NEW k \in S PROVE m <= k
  BY <1>2, <1>3
<1> QED
  BY <1>3

\* What holds at 0, and at the next number up to n, holds at all up to n.
LEMMA CountUp ==
    ASSUME NEW n \in Nat, NEW Good, 0 \in Good,
           \A k \in Nat : k < n /\ k \in Good => k + 1 \in Good
    PROVE  \A k \in 0 .. n : k \in Good
<1> DEFINE Bad == {k \in 0 .. n : k \notin Good}
<1> SUFFICES ASSUME Bad # {} PROVE FALSE
  OBVIOUS
<1>0. Bad \in SUBSET Nat
  OBVIOUS
<1>1. PICK m \in Bad : \A k \in Bad : m <= k
  <2> HIDE DEF Bad
  <2> QED
    BY <1>0, LeastNatural
<1>2. m # 0 /\ m \in 0 .. n
  BY <1>1
<1>3. m - 1 \in Nat /\ m - 1 < n /\ m - 1 \notin Bad /\ m - 1 \in 0 .. n
  BY <1>1, <1>2
<1>4. m - 1 \in Good
  BY <1>3
<1>5. (m - 1) + 1 \in Good
  BY <1>3, <1>4
<1>6. (m - 1) + 1 = m
  BY <1>2
<1> QED
  BY <1>1, <1>5, <1>6

\* A set of positions has a last one.
LEMMA LastPosition ==
    ASSUME NEW n \in Nat, NEW S \in SUBSET (1 .. n), S # {}
    PROVE  Max(S) \in S /\ \A i \in S : i <= Max(S)
<1> DEFINE U == {n - i : i \in S}
<1>0. \A i \in S : i \in 1 .. n /\ n - i \in Nat
  OBVIOUS
<1>1. U \in SUBSET Nat /\ U # {}
  BY <1>0
<1>2. PICK u \in U : \A v \in U : u <= v
  <2> HIDE DEF U
  <2> QED
    BY <1>1, LeastNatural
<1>3. PICK x \in S : u = n - x
  BY <1>2
<1>4. ASSUME NEW i \in S PROVE x >= i
  <2>1. n - i \in U
    OBVIOUS
  <2>2. n - x <= n - i /\ x \in 1 .. n /\ i \in 1 .. n
    BY <1>0, <1>2, <1>3, <2>1
  <2> QED
    BY <2>2
<1>5. \E y \in S : \A i \in S : y >= i
  BY <1>4
<1>6. Max(S) \in S /\ \A i \in S : Max(S) >= i
  BY <1>5 DEF Max
<1> QED
  BY <1>6

\* One step of a fold that takes the positions of S from the left: what the
\* last one makes of the result for those before it.
LastStep(st, base, h, S) == IF S = {} THEN base ELSE st[<<Max(S), h[S \ {Max(S)}]>>]

IsFold(n, A, base, st, h) ==
    h \in [SUBSET (1 .. n) -> A] /\ \A S \in SUBSET (1 .. n) : h[S] = LastStep(st, base, h, S)

\* That equation, as far as the results are known to be in A.
Unfolds(n, A, base, st, h) ==
    /\ h[{}] = base
    /\ \A S \in SUBSET (1 .. n) : S # {} /\ h[S \ {Max(S)}] \in A
          => h[S] = st[<<Max(S), h[S \ {Max(S)}]>>]

\* The same from the front: what the first k positions give.
IsRunning(n, A, base, st, g, last) ==
    /\ g \in [0 .. n -> A] /\ g[0] = base /\ g[n] = last
    /\ \A k \in 0 .. n - 1 : g[k + 1] = st[<<k + 1, g[k]>>]

\* A function that satisfies the equation of the fold exists.
LEMMA FoldExists ==
    ASSUME NEW n \in Nat, NEW A, NEW base \in A, NEW st \in [(1 .. n) \X A -> A]
    PROVE  \E h : IsFold(n, A, base, st, h)
<1> DEFINE Upto(m) == \E h \in [SUBSET (1 .. n) -> A] :
                          \A S \in SUBSET (1 .. m) :
                              S \in SUBSET (1 .. n) => h[S] = LastStep(st, base, h, S)
           Good == {m \in Nat : Upto(m)}
<1>1. 0 \in Good
  <2> DEFINE h == [S \in SUBSET (1 .. n) |-> base]
  <2>1. h \in [SUBSET (1 .. n) -> A]
    OBVIOUS
  <2>2. ASSUME NEW S \in SUBSET (1 .. 0), S \in SUBSET (1 .. n) PROVE h[S] = LastStep(st, base, h, S)
    BY <2>2 DEF LastStep
  <2>3. Upto(0)
    BY <2>1, <2>2
  <2> QED
    BY <2>3
<1>2. ASSUME NEW k \in Nat, k < n, k \in Good PROVE k + 1 \in Good
  <2>1. PICK h \in [SUBSET (1 .. n) -> A] :
            \A S \in SUBSET (1 .. k) : S \in SUBSET (1 .. n) => h[S] = LastStep(st, base, h, S)
    BY <1>2
  <2> DEFINE g == [S \in SUBSET (1 .. n) |-> LastStep(st, base, h, S)]
  <2>2. ASSUME NEW S \in SUBSET (1 .. n) PROVE LastStep(st, base, h, S) \in A
    <3>1. CASE S = {}
      BY <3>1 DEF LastStep
    <3>2. CASE S # {}
      <4>1. Max(S) \in 1 .. n /\ S \ {Max(S)} \in SUBSET (1 .. n)
        BY <3>2, LastPosition
      <4>2. <<Max(S), h[S \ {Max(S)}]>> \in (1 .. n) \X A
        BY <4>1
      <4> QED
        BY <3>2, <4>2 DEF LastStep
    <3> QED
      BY <3>1, <3>2
  <2>3. g \in [SUBSET (1 .. n) -> A]
    BY <2>2
  <2>4. ASSUME NEW S \in SUBSET (1 .. k + 1), S \in SUBSET (1 .. n)
        PROVE  g[S] = LastStep(st, base, g, S)
    <3>1. CASE S = {}
      BY <2>4, <3>1 DEF LastStep
    <3>2. CASE S # {}
      <4> DEFINE R == S \ {Max(S)}
      <4>1. Max(S) \in S /\ \A i \in S : i <= Max(S)
        BY <2>4, <3>2, LastPosition
      <4>2. R \in SUBSET (1 .. k) /\ R \in SUBSET (1 .. n)
        <5>1. ASSUME NEW i \in R PROVE i \in 1 .. k
          <6>1. i \in S /\ i # Max(S) /\ i \in 1 .. k + 1 /\ Max(S) \in 1 .. k + 1 /\ i <= Max(S)
            BY <4>1
          <6> QED
            BY <6>1
        <5> QED
          BY <2>4, <5>1
      <4>3. g[R] = h[R]
        BY <2>1, <4>2
      <4> QED
        BY <2>4, <3>2, <4>3 DEF LastStep
    <3> QED
      BY <3>1, <3>2
  <2>5. Upto(k + 1)
    BY <2>3, <2>4
  <2> HIDE DEF Upto
  <2> QED
    BY <2>5
<1> HIDE DEF Upto
<1>3. n \in Good
  <2> HIDE DEF Good
  <2> QED
    BY <1>1, <1>2, CountUp
<1>4. Upto(n)
  BY <1>3
<1> QED
  BY <1>4 DEF Upto, IsFold

\* A fold takes the positions one at a time.
LEMMA OneAtATime ==
    ASSUME NEW n \in Nat, NEW A, NEW base \in A, NEW st \in [(1 .. n) \X A -> A],
           NEW h, Unfolds(n, A, base, st, h)
    PROVE  \E g : IsRunning(n, A, base, st, g, h[1 .. n])
<1> DEFINE pre == [k \in 0 .. n |-> h[1 .. k]]
           Good == {k \in 0 .. n : pre[k] \in A}
<1>1. pre[0] = base /\ pre[n] = h[1 .. n]
  <2>1. 1 .. 0 = {} /\ 0 \in 0 .. n /\ n \in 0 .. n
    OBVIOUS
  <2> QED
    BY <2>1 DEF Unfolds
<1>2. ASSUME NEW k \in 0 .. n - 1, pre[k] \in A
      PROVE  pre[k + 1] = st[<<k + 1, pre[k]>>] /\ pre[k + 1] \in A
  <2> DEFINE S == 1 .. k + 1
  <2>1. k \in Nat /\ k + 1 \in 1 .. n /\ k \in 0 .. n /\ k + 1 \in 0 .. n
    OBVIOUS
  <2>2. S \in SUBSET (1 .. n) /\ k + 1 \in S /\ S \ {k + 1} = 1 .. k
    BY <2>1
  <2>3. Max(S) = k + 1
    <3>1. S # {}
      BY <2>2
    <3>2. Max(S) \in S /\ \A i \in S : i <= Max(S)
      BY <2>2, <3>1, LastPosition
    <3> QED
      BY <2>1, <2>2, <3>2
  <2>4. pre[k] = h[1 .. k] /\ pre[k + 1] = h[S]
    BY <2>1
  <2>5. <<k + 1, pre[k]>> \in (1 .. n) \X A
    BY <1>2, <2>1
  <2> HIDE DEF S, pre
  <2>6. pre[k + 1] = st[<<k + 1, pre[k]>>]
    BY <1>2, <2>2, <2>3, <2>4 DEF Unfolds
  <2> QED
    BY <2>5, <2>6
<1>3. \A k \in 0 .. n : k \in Good
  <2>1. 0 \in Good
    BY <1>1
  <2>2. ASSUME NEW k \in Nat, k < n, k \in Good PROVE k + 1 \in Good
    <3>1. k \in 0 .. n - 1 /\ pre[k] \in A /\ k + 1 \in 0 .. n
      BY <2>2
    <3> HIDE DEF pre
    <3> QED
      BY <1>2, <3>1
  <2> HIDE DEF Good
  <2> QED
    BY <2>1, <2>2, CountUp
<1>4. pre \in [0 .. n -> A]
  BY <1>3
<1>5. \A k \in 0 .. n - 1 : pre[k + 1] = st[<<k + 1, pre[k]>>]
  <2>1. ASSUME NEW k \in 0 .. n - 1 PROVE pre[k] \in A
    BY <1>3
  <2> HIDE DEF pre
  <2> QED
    BY <1>2, <2>1
<1> HIDE DEF pre
<1> QED
  BY <1>1, <1>4, <1>5 DEF IsRunning

\* applyDiversity, one post of the list at a time.
LEMMA DiversifiedUnfolds ==
    ASSUME NEW s \in Seq(Posts)
    PROVE  \E g \in [0 .. Len(s) -> Seq(Posts)] :
               /\ g[0] = <<>> /\ g[Len(s)] = Diversified(s)
               /\ \A k \in 0 .. Len(s) - 1 :
                     g[k + 1] = IF AuthorCount(g[k], AuthorOf[s[k + 1]]) >= MaxPostsPerAuthor
                                THEN g[k] ELSE Append(g[k], s[k + 1])
<1> DEFINE n == Len(s)
           St(i, out) == IF AuthorCount(out, AuthorOf[s[i]]) >= MaxPostsPerAuthor
                         THEN out ELSE Append(out, s[i])
           st == [x \in (1 .. n) \X Seq(Posts) |-> St(x[1], x[2])]
           Eq(h) == h = [S \in SUBSET (DOMAIN s) |->
                           IF S = {} THEN <<>> ELSE St(Max(S), h[S \ {Max(S)}])]
           it == CHOOSE h : Eq(h)
<1>1. n \in Nat /\ DOMAIN s = 1 .. n /\ <<>> \in Seq(Posts) /\ \A i \in 1 .. n : s[i] \in Posts
  OBVIOUS
<1>2. st \in [(1 .. n) \X Seq(Posts) -> Seq(Posts)]
  <2>1. ASSUME NEW i \in 1 .. n, NEW out \in Seq(Posts) PROVE St(i, out) \in Seq(Posts)
    BY <1>1
  <2> HIDE DEF St
  <2> QED
    BY <2>1
<1>3. ASSUME NEW h \in [SUBSET (1 .. n) -> Seq(Posts)], NEW S \in SUBSET (1 .. n), S # {}
      PROVE  LastStep(st, <<>>, h, S) = St(Max(S), h[S \ {Max(S)}])
  <2>1. Max(S) \in 1 .. n /\ S \ {Max(S)} \in SUBSET (1 .. n)
    BY <1>1, <1>3, LastPosition
  <2>2. <<Max(S), h[S \ {Max(S)}]>> \in (1 .. n) \X Seq(Posts)
    BY <2>1
  <2> HIDE DEF St
  <2> QED
    BY <1>3, <2>2 DEF LastStep
<1> DEFINE A == Seq(Posts)  none == <<>>
<1>4. none \in A /\ n \in Nat /\ st \in [(1 .. n) \X A -> A]
  BY <1>1, <1>2
<1>5. \E f : Eq(f)
  <2>1. PICK f : IsFold(n, A, none, st, f)
    <3> HIDE DEF st, n, A, none
    <3> QED
      BY <1>4, FoldExists
  <2>2. f \in [SUBSET (1 .. n) -> Seq(Posts)]
        /\ \A S \in SUBSET (1 .. n) : f[S] = LastStep(st, <<>>, f, S)
    BY <2>1 DEF IsFold
  <2>3. \A S \in SUBSET (1 .. n) :
            f[S] = IF S = {} THEN <<>> ELSE St(Max(S), f[S \ {Max(S)}])
    BY <1>3, <2>2 DEF LastStep
  <2> HIDE DEF St
  <2>4. Eq(f)
    BY <1>1, <2>2, <2>3
  <2> HIDE DEF Eq
  <2> QED
    BY <2>4
<1>6. Eq(it)
  <2> HIDE DEF Eq
  <2> QED
    BY <1>5
<1>7. Diversified(s) = it[1 .. n]
  BY <1>1 DEF Diversified, FoldLeft, MapThenFoldSet
<1> HIDE DEF it
<1>8. it[{}] = none /\ \A S \in SUBSET (1 .. n) : S # {} => it[S] = St(Max(S), it[S \ {Max(S)}])
  <2> HIDE DEF St
  <2> QED
    BY <1>1, <1>6
<1>9. ASSUME NEW S \in SUBSET (1 .. n), S # {}, it[S \ {Max(S)}] \in A
      PROVE  it[S] = st[<<Max(S), it[S \ {Max(S)}]>>]
  <2>1. Max(S) \in 1 .. n
    BY <1>1, <1>9, LastPosition
  <2>2. <<Max(S), it[S \ {Max(S)}]>> \in (1 .. n) \X Seq(Posts)
    BY <1>9, <2>1
  <2> HIDE DEF St
  <2> QED
    BY <1>8, <1>9, <2>2
<1>10. PICK g : IsRunning(n, A, none, st, g, it[1 .. n])
  <2> HIDE DEF st, n, A, none, St
  <2>1. Unfolds(n, A, none, st, it)
    BY <1>8, <1>9 DEF Unfolds
  <2> QED
    BY <1>4, <2>1, OneAtATime
<1>11. g \in [0 .. n -> Seq(Posts)] /\ g[0] = <<>> /\ g[n] = it[1 .. n]
       /\ \A k \in 0 .. n - 1 : g[k + 1] = st[<<k + 1, g[k]>>]
  BY <1>10 DEF IsRunning
<1>12. ASSUME NEW k \in 0 .. n - 1 PROVE g[k + 1] = St(k + 1, g[k])
  <2>1. k + 1 \in 1 .. n /\ k \in 0 .. n
    BY <1>1
  <2>2. <<k + 1, g[k]>> \in (1 .. n) \X Seq(Posts)
    BY <1>11, <2>1
  <2> HIDE DEF St
  <2> QED
    BY <1>11, <2>2
<1> QED
  BY <1>7, <1>11, <1>12

\* insertAds, one position of the page at a time.
Placing == [out : Seq(Posts \cup {Ad}), placed : Nat, done : BOOLEAN]
NothingPlaced == [out |-> <<>>, placed |-> 0, done |-> FALSE]

PlaceAt(items, pos, acc) ==
    IF acc.done THEN acc
    ELSE IF pos \in AdSlots THEN [acc EXCEPT !.out = Append(@, Ad)]
    ELSE IF acc.placed >= Len(items) THEN [acc EXCEPT !.done = TRUE]
    ELSE [acc EXCEPT !.out = Append(@, items[acc.placed + 1]), !.placed = @ + 1]

LEMMA PlaceTypes ==
    ASSUME NEW items \in Seq(Posts), NEW pos, NEW acc \in Placing
    PROVE  PlaceAt(items, pos, acc) \in Placing
<1>1. /\ acc.out \in Seq(Posts \cup {Ad}) /\ acc.placed \in Nat /\ acc.done \in BOOLEAN
      /\ acc = [out |-> acc.out, placed |-> acc.placed, done |-> acc.done]
  BY DEF Placing
<1>2. Append(acc.out, Ad) \in Seq(Posts \cup {Ad})
  BY <1>1
<1>3. ASSUME ~ (acc.placed >= Len(items))
      PROVE  Append(acc.out, items[acc.placed + 1]) \in Seq(Posts \cup {Ad})
  <2>1. acc.placed + 1 \in 1 .. Len(items)
    BY <1>1, <1>3
  <2>2. items[acc.placed + 1] \in Posts
    BY <2>1
  <2> QED
    BY <1>1, <2>2
<1>4. CASE acc.done
  BY <1>4 DEF PlaceAt
<1>5. CASE ~ acc.done /\ pos \in AdSlots
  BY <1>1, <1>2, <1>5 DEF PlaceAt, Placing
<1>6. CASE ~ acc.done /\ pos \notin AdSlots /\ acc.placed >= Len(items)
  BY <1>1, <1>6 DEF PlaceAt, Placing
<1>7. CASE ~ acc.done /\ pos \notin AdSlots /\ ~ (acc.placed >= Len(items))
  <2> DEFINE o == Append(acc.out, items[acc.placed + 1])
  <2>1. PlaceAt(items, pos, acc) = [acc EXCEPT !.out = o, !.placed = acc.placed + 1]
    BY <1>7 DEF PlaceAt
  <2>2. o \in Seq(Posts \cup {Ad}) /\ acc.placed + 1 \in Nat
    BY <1>1, <1>3, <1>7
  <2> HIDE DEF o
  <2> QED
    BY <1>1, <2>1, <2>2 DEF Placing
<1> QED
  BY <1>4, <1>5, <1>6, <1>7

LEMMA WithAdsUnfolds ==
    ASSUME NEW items \in Seq(Posts)
    PROVE  \E g \in [0 .. PageSize -> Placing] :
               /\ g[0] = NothingPlaced /\ g[PageSize].out = WithAds(items)
               /\ \A k \in 0 .. PageSize - 1 : g[k + 1] = PlaceAt(items, k + 1, g[k])
<1> DEFINE n == PageSize
           s == [pos \in 1 .. PageSize |-> pos]
           st == [x \in (1 .. n) \X Placing |-> PlaceAt(items, x[1], x[2])]
           Eq(h) == h = [S \in SUBSET (DOMAIN s) |->
                           IF S = {} THEN NothingPlaced ELSE PlaceAt(items, s[Max(S)], h[S \ {Max(S)}])]
           it == CHOOSE h : Eq(h)
<1>1. n \in Nat /\ DOMAIN s = 1 .. n /\ \A i \in 1 .. n : s[i] = i
  BY PageAssumption
<1>2. st \in [(1 .. n) \X Placing -> Placing]
  BY PlaceTypes
<1>3. NothingPlaced \in Placing
  BY DEF NothingPlaced, Placing
<1>4. ASSUME NEW S \in SUBSET (1 .. n), S # {} PROVE Max(S) \in 1 .. n /\ s[Max(S)] = Max(S)
  <2>1. Max(S) \in S
    BY <1>1, <1>4, LastPosition
  <2> QED
    BY <1>1, <2>1
<1>5. \E f : Eq(f)
  <2>1. PICK f : IsFold(n, Placing, NothingPlaced, st, f)
    <3> HIDE DEF st, n
    <3> QED
      BY <1>1, <1>2, <1>3, FoldExists
  <2>2. f \in [SUBSET (1 .. n) -> Placing]
        /\ \A S \in SUBSET (1 .. n) : f[S] = LastStep(st, NothingPlaced, f, S)
    BY <2>1 DEF IsFold
  <2>3. ASSUME NEW S \in SUBSET (1 .. n)
        PROVE  f[S] = IF S = {} THEN NothingPlaced ELSE PlaceAt(items, s[Max(S)], f[S \ {Max(S)}])
    <3>1. CASE S = {}
      BY <2>2, <3>1 DEF LastStep
    <3>2. CASE S # {}
      <4>1. Max(S) \in 1 .. n /\ s[Max(S)] = Max(S) /\ f[S \ {Max(S)}] \in Placing
        BY <1>4, <2>2, <3>2
      <4>2. <<Max(S), f[S \ {Max(S)}]>> \in (1 .. n) \X Placing
        BY <4>1
      <4>3. f[S] = st[<<Max(S), f[S \ {Max(S)}]>>]
        BY <2>2, <3>2 DEF LastStep
      <4> HIDE DEF s, n
      <4> QED
        BY <3>2, <4>1, <4>2, <4>3
    <3> QED
      BY <3>1, <3>2
  <2> HIDE DEF s
  <2>4. Eq(f)
    BY <1>1, <2>2, <2>3
  <2> HIDE DEF Eq
  <2> QED
    BY <2>4
<1>6. Eq(it)
  <2> HIDE DEF Eq
  <2> QED
    BY <1>5
<1>7. WithAds(items) = it[1 .. n].out
  <2>1. WithAds(items) = it[DOMAIN s].out
    BY DEF WithAds, FoldLeft, MapThenFoldSet, PlaceAt, NothingPlaced
  <2> QED
    BY <1>1, <2>1
<1> HIDE DEF it, s
<1>8. it[{}] = NothingPlaced
      /\ \A S \in SUBSET (1 .. n) : S # {} => it[S] = PlaceAt(items, s[Max(S)], it[S \ {Max(S)}])
  BY <1>1, <1>6
<1>9. ASSUME NEW S \in SUBSET (1 .. n), S # {}, it[S \ {Max(S)}] \in Placing
      PROVE  it[S] = st[<<Max(S), it[S \ {Max(S)}]>>]
  <2>1. <<Max(S), it[S \ {Max(S)}]>> \in (1 .. n) \X Placing
    BY <1>4, <1>9
  <2>2. it[S] = PlaceAt(items, Max(S), it[S \ {Max(S)}])
    BY <1>4, <1>8, <1>9
  <2> QED
    BY <2>1, <2>2
<1>10. PICK g : IsRunning(n, Placing, NothingPlaced, st, g, it[1 .. n])
  <2> HIDE DEF st, n
  <2>1. Unfolds(n, Placing, NothingPlaced, st, it)
    BY <1>8, <1>9 DEF Unfolds
  <2> QED
    BY <1>1, <1>2, <1>3, <2>1, OneAtATime
<1>11. g \in [0 .. n -> Placing] /\ g[0] = NothingPlaced /\ g[n] = it[1 .. n]
       /\ \A k \in 0 .. n - 1 : g[k + 1] = st[<<k + 1, g[k]>>]
  BY <1>10 DEF IsRunning
<1>12. ASSUME NEW k \in 0 .. n - 1 PROVE g[k + 1] = PlaceAt(items, k + 1, g[k])
  <2>1. k + 1 \in 1 .. n /\ k \in 0 .. n
    BY <1>1
  <2>2. <<k + 1, g[k]>> \in (1 .. n) \X Placing
    BY <1>11, <2>1
  <2> QED
    BY <1>11, <2>2
<1> QED
  BY <1>7, <1>11, <1>12

-----------------------------------------------------------------------------
(* What the fold of applyDiversity keeps                                    *)

\* Counting the members of a set among the first positions.
LEMMA CountNext ==
    ASSUME NEW n \in Nat, NEW T
    PROVE  /\ IsFiniteSet(T \cap (1 .. n)) /\ Cardinality(T \cap (1 .. n)) \in Nat
           /\ Cardinality(T \cap (1 .. n + 1))
                = Cardinality(T \cap (1 .. n)) + (IF n + 1 \in T THEN 1 ELSE 0)
<1>1. IsFiniteSet(T \cap (1 .. n)) /\ Cardinality(T \cap (1 .. n)) \in Nat
  <2>1. IsFiniteSet(1 .. n)
    BY FS_Interval
  <2>2. T \cap (1 .. n) \in SUBSET (1 .. n)
    OBVIOUS
  <2>3. IsFiniteSet(T \cap (1 .. n))
    BY <2>1, <2>2, FS_Subset
  <2> QED
    BY <2>3, FS_CardinalityType
<1>2. CASE n + 1 \in T
  <2>1. T \cap (1 .. n + 1) = (T \cap (1 .. n)) \cup {n + 1} /\ n + 1 \notin T \cap (1 .. n)
    BY <1>2
  <2> QED
    BY <1>1, <1>2, <2>1, FS_AddElement
<1>3. CASE n + 1 \notin T
  <2>1. T \cap (1 .. n + 1) = T \cap (1 .. n)
    BY <1>3
  <2> QED
    BY <1>1, <1>3, <2>1
<1> QED
  BY <1>1, <1>2, <1>3

LEMMA AuthorCountNext ==
    ASSUME NEW q \in Seq(Posts), NEW p \in Posts, NEW a
    PROVE  /\ AuthorCount(q, a) \in Nat
           /\ AuthorCount(Append(q, p), a)
                = AuthorCount(q, a) + (IF AuthorOf[p] = a THEN 1 ELSE 0)
<1> DEFINE n == Len(q)
           T == {i \in 1 .. n + 1 : AuthorOf[Append(q, p)[i]] = a}
<1>1. /\ n \in Nat /\ DOMAIN q = 1 .. n /\ DOMAIN Append(q, p) = 1 .. n + 1
      /\ Append(q, p)[n + 1] = p /\ \A i \in 1 .. n : Append(q, p)[i] = q[i]
  OBVIOUS
<1>2. T \cap (1 .. n) = {i \in DOMAIN q : AuthorOf[q[i]] = a}
  BY <1>1
<1>3. T \cap (1 .. n + 1) = {i \in DOMAIN Append(q, p) : AuthorOf[Append(q, p)[i]] = a}
  BY <1>1
<1>4. n + 1 \in T <=> AuthorOf[p] = a
  BY <1>1
<1>5. /\ AuthorCount(q, a) = Cardinality(T \cap (1 .. n))
      /\ AuthorCount(Append(q, p), a) = Cardinality(T \cap (1 .. n + 1))
  BY <1>2, <1>3 DEF AuthorCount
<1> HIDE DEF T
<1>6. /\ Cardinality(T \cap (1 .. n)) \in Nat
      /\ Cardinality(T \cap (1 .. n + 1))
           = Cardinality(T \cap (1 .. n)) + (IF n + 1 \in T THEN 1 ELSE 0)
  <2>1. n \in Nat
    OBVIOUS
  <2> HIDE DEF n
  <2> QED
    BY <2>1, CountNext
<1> HIDE DEF n
<1> QED
  BY <1>4, <1>5, <1>6

\* The posts of one author among the first k of a list, and the positions of
\* the list at which applyDiversity keeps the post.
OfAuthor(s, a) == {j \in DOMAIN s : AuthorOf[s[j]] = a}
Kept(s) == {i \in DOMAIN s :
               Cardinality({j \in 1 .. i - 1 : AuthorOf[s[j]] = AuthorOf[s[i]]}) < MaxPostsPerAuthor}

\* q is what is kept of the first k posts of s: idx says from where.
KeptUpTo(s, k, q, idx) ==
    /\ Len(q) <= k
    /\ \A a \in Authors : AuthorCount(q, a)
          = AtMost(MaxPostsPerAuthor, Cardinality(OfAuthor(s, a) \cap (1 .. k)))
    /\ idx \in [1 .. Len(q) -> Kept(s) \cap (1 .. k)]
    /\ \A i, j \in 1 .. Len(q) : i < j => idx[i] < idx[j]
    /\ \A m \in Kept(s) \cap (1 .. k) : \E i \in 1 .. Len(q) : idx[i] = m
    /\ \A i \in 1 .. Len(q) : q[i] = s[idx[i]]

LEMMA KeptStep ==
    ASSUME NEW s \in Seq(Posts), NEW k \in Nat, k < Len(s),
           NEW q \in Seq(Posts), NEW idx, KeptUpTo(s, k, q, idx),
           NEW r, r = IF AuthorCount(q, AuthorOf[s[k + 1]]) >= MaxPostsPerAuthor
                      THEN q ELSE Append(q, s[k + 1])
    PROVE  \E new : KeptUpTo(s, k + 1, r, new)
<1> DEFINE p == s[k + 1]
           author == AuthorOf[p]
           n == Len(q)
           c(a) == Cardinality(OfAuthor(s, a) \cap (1 .. k))
<1>1. /\ k + 1 \in DOMAIN s /\ p \in Posts /\ author \in Authors /\ n \in Nat
      /\ MaxPostsPerAuthor \in Nat \ {0}
  BY AuthorAssumption, PageAssumption
<1>2. \A a \in Authors : /\ c(a) \in Nat
                         /\ Cardinality(OfAuthor(s, a) \cap (1 .. k + 1))
                              = c(a) + (IF author = a THEN 1 ELSE 0)
  <2> SUFFICES ASSUME NEW a \in Authors
               PROVE  /\ c(a) \in Nat
                      /\ Cardinality(OfAuthor(s, a) \cap (1 .. k + 1))
                              = c(a) + (IF author = a THEN 1 ELSE 0)
    OBVIOUS
  <2>1. k + 1 \in OfAuthor(s, a) <=> author = a
    BY <1>1 DEF OfAuthor
  <2> QED
    BY <2>1, CountNext
<1>3. k + 1 \in Kept(s) <=> c(author) < MaxPostsPerAuthor
  <2>1. OfAuthor(s, author) \cap (1 .. k) = {j \in 1 .. (k + 1) - 1 : AuthorOf[s[j]] = AuthorOf[s[k + 1]]}
    BY <1>1 DEF OfAuthor
  <2> QED
    BY <1>1, <2>1 DEF Kept
<1>4. AuthorCount(q, author) = AtMost(MaxPostsPerAuthor, c(author))
  BY <1>1 DEF KeptUpTo
<1>5. CASE AuthorCount(q, author) >= MaxPostsPerAuthor
  <2>1. r = q /\ ~ (c(author) < MaxPostsPerAuthor)
    <3>1. c(author) \in Nat
      BY <1>1, <1>2
    <3>2. r = q
      BY <1>5
    <3> HIDE DEF c, author
    <3> QED
      BY <1>1, <1>4, <1>5, <3>1, <3>2 DEF AtMost
  <2>2. Kept(s) \cap (1 .. k + 1) = Kept(s) \cap (1 .. k)
    BY <1>3, <2>1
  <2>3. ASSUME NEW a \in Authors
        PROVE  AuthorCount(q, a) = AtMost(MaxPostsPerAuthor, Cardinality(OfAuthor(s, a) \cap (1 .. k + 1)))
    <3>1. AuthorCount(q, a) = AtMost(MaxPostsPerAuthor, c(a))
      BY DEF KeptUpTo
    <3> HIDE DEF c, author
    <3> QED
      BY <1>1, <1>2, <2>1, <3>1 DEF AtMost
  <2>4. Len(q) <= k + 1
    BY <1>1 DEF KeptUpTo
  <2>5. KeptUpTo(s, k + 1, r, idx)
    BY <2>1, <2>2, <2>3, <2>4 DEF KeptUpTo
  <2> QED
    BY <2>5
<1>6. CASE ~ (AuthorCount(q, author) >= MaxPostsPerAuthor)
  <2> DEFINE new == [i \in 1 .. n + 1 |-> IF i = n + 1 THEN k + 1 ELSE idx[i]]
  <2>1. r = Append(q, p) /\ c(author) < MaxPostsPerAuthor
    <3>1. c(author) \in Nat
      BY <1>1, <1>2
    <3>2. r = Append(q, p)
      BY <1>6
    <3> HIDE DEF c, author
    <3> QED
      BY <1>1, <1>4, <1>6, <3>1, <3>2 DEF AtMost
  <2>2. /\ Len(r) = n + 1 /\ r[n + 1] = p /\ \A i \in 1 .. n : r[i] = q[i]
    BY <1>1, <2>1
  <2>3. Kept(s) \cap (1 .. k + 1) = (Kept(s) \cap (1 .. k)) \cup {k + 1}
    BY <1>3, <2>1
  <2>4. ASSUME NEW a \in Authors
        PROVE  AuthorCount(r, a) = AtMost(MaxPostsPerAuthor, Cardinality(OfAuthor(s, a) \cap (1 .. k + 1)))
    <3>1. AuthorCount(q, a) = AtMost(MaxPostsPerAuthor, c(a))
      BY DEF KeptUpTo
    <3>2. AuthorCount(r, a) = AuthorCount(q, a) + (IF author = a THEN 1 ELSE 0)
      BY <1>1, <2>1, AuthorCountNext
    <3> HIDE DEF c, author
    <3> QED
      BY <1>1, <1>2, <2>1, <3>1, <3>2 DEF AtMost
  <2>5. /\ n <= k /\ idx \in [1 .. n -> Kept(s) \cap (1 .. k)]
        /\ \A i, j \in 1 .. n : i < j => idx[i] < idx[j]
        /\ \A m \in Kept(s) \cap (1 .. k) : \E i \in 1 .. n : idx[i] = m
        /\ \A i \in 1 .. n : q[i] = s[idx[i]]
    BY DEF KeptUpTo
  <2>6. /\ new[n + 1] = k + 1 /\ \A i \in 1 .. n : new[i] = idx[i] /\ i # n + 1 /\ i \in 1 .. n + 1
        /\ \A i \in 1 .. n + 1 : i = n + 1 \/ i \in 1 .. n
    BY <1>1
  <2>7. new \in [1 .. n + 1 -> Kept(s) \cap (1 .. k + 1)]
    BY <1>1, <2>3, <2>5
  <2> HIDE DEF new, n, p
  <2>8. ASSUME NEW i \in 1 .. n + 1, NEW j \in 1 .. n + 1, i < j PROVE new[i] < new[j]
    <3>1. i \in 1 .. n
      BY <1>1, <2>8
    <3>2. idx[i] \in 1 .. k
      BY <2>5, <3>1
    <3>3. CASE j = n + 1
      BY <2>6, <3>1, <3>2, <3>3
    <3>4. CASE j \in 1 .. n
      BY <2>5, <2>6, <2>8, <3>1, <3>4
    <3> QED
      BY <2>6, <3>3, <3>4
  <2>9. ASSUME NEW m \in Kept(s) \cap (1 .. k + 1) PROVE \E i \in 1 .. n + 1 : new[i] = m
    <3>1. CASE m = k + 1
      BY <1>1, <2>6, <3>1
    <3>2. CASE m \in Kept(s) \cap (1 .. k)
      BY <2>5, <2>6, <3>2
    <3> QED
      BY <2>3, <3>1, <3>2
  <2>10. ASSUME NEW i \in 1 .. n + 1 PROVE r[i] = s[new[i]]
    BY <2>2, <2>5, <2>6 DEF p
  <2>11. Len(r) <= k + 1
    BY <1>1, <2>2, <2>5
  <2>12. KeptUpTo(s, k + 1, r, new)
    BY <2>2, <2>4, <2>7, <2>8, <2>9, <2>10, <2>11 DEF KeptUpTo
  <2> QED
    BY <2>12
<1> QED
  BY <1>5, <1>6

\* applyDiversity keeps exactly the posts with fewer than MaxPostsPerAuthor
\* better ones of their author, in their order.
LEMMA DiversifiedKeeps ==
    ASSUME NEW s \in Seq(Posts)
    PROVE  Diversified(s) \in Seq(Posts) /\ \E idx : KeptUpTo(s, Len(s), Diversified(s), idx)
<1>1. PICK g \in [0 .. Len(s) -> Seq(Posts)] :
          /\ g[0] = <<>> /\ g[Len(s)] = Diversified(s)
          /\ \A k \in 0 .. Len(s) - 1 :
                g[k + 1] = IF AuthorCount(g[k], AuthorOf[s[k + 1]]) >= MaxPostsPerAuthor
                           THEN g[k] ELSE Append(g[k], s[k + 1])
  BY DiversifiedUnfolds
<1> DEFINE Good == {k \in 0 .. Len(s) : \E idx : KeptUpTo(s, k, g[k], idx)}
<1>2. Len(s) \in Nat
  OBVIOUS
<1>3. 0 \in Good
  <2>1. 1 .. 0 = {} /\ Len(<<>>) = 0
    OBVIOUS
  <2>2. ASSUME NEW a PROVE AuthorCount(<<>>, a) = 0
    <3>1. {i \in DOMAIN <<>> : AuthorOf[<<>>[i]] = a} = {}
      OBVIOUS
    <3> QED
      BY <3>1, FS_EmptySet DEF AuthorCount
  <2>3. \A T : Cardinality(T \cap (1 .. 0)) = 0
    BY <2>1, FS_EmptySet
  <2>4. AtMost(MaxPostsPerAuthor, 0) = 0
    BY PageAssumption DEF AtMost
  <2>5. KeptUpTo(s, 0, <<>>, <<>>)
    BY <2>1, <2>2, <2>3, <2>4 DEF KeptUpTo
  <2> QED
    BY <1>1, <1>2, <2>5
<1>4. ASSUME NEW k \in Nat, k < Len(s), k \in Good PROVE k + 1 \in Good
  <2>1. PICK idx : KeptUpTo(s, k, g[k], idx)
    BY <1>4
  <2>2. k \in 0 .. Len(s) - 1 /\ g[k] \in Seq(Posts) /\ k + 1 \in 0 .. Len(s)
    BY <1>2, <1>4
  <2>3. \E new : KeptUpTo(s, k + 1, g[k + 1], new)
    BY <1>1, <1>4, <2>1, <2>2, KeptStep
  <2> QED
    BY <2>2, <2>3
<1>5. Len(s) \in Good
  <2> HIDE DEF Good
  <2>1. \A k \in 0 .. Len(s) : k \in Good
    BY <1>2, <1>3, <1>4, CountUp
  <2> QED
    BY <1>2, <2>1
<1> QED
  BY <1>1, <1>2, <1>5

-----------------------------------------------------------------------------
(* What the fold of insertAds keeps                                         *)
Organic == Nat \ AdSlots
OrganicUpTo(n) == Cardinality(Organic \cap (1 .. n))

\* After k positions: an ad in each slot, the items in turn in the others.
PlacedUpTo(items, k, acc) ==
    /\ acc.placed = OrganicUpTo(Len(acc.out)) /\ acc.placed <= Len(items)
    /\ Len(acc.out) <= k
    /\ IF acc.done THEN acc.placed = Len(items) ELSE Len(acc.out) = k
    /\ \A i \in 1 .. Len(acc.out) :
          acc.out[i] = IF i \in AdSlots THEN Ad ELSE items[OrganicUpTo(i)]

LEMMA PlaceStep ==
    ASSUME NEW items \in Seq(Posts), NEW k \in Nat, NEW acc \in Placing,
           PlacedUpTo(items, k, acc)
    PROVE  PlacedUpTo(items, k + 1, PlaceAt(items, k + 1, acc))
<1> DEFINE new == PlaceAt(items, k + 1, acc)
           At(out, i) == out[i] = IF i \in AdSlots THEN Ad ELSE items[OrganicUpTo(i)]
<1>1. /\ acc.out \in Seq(Posts \cup {Ad}) /\ acc.placed \in Nat /\ acc.done \in BOOLEAN
      /\ acc = [out |-> acc.out, placed |-> acc.placed, done |-> acc.done]
      /\ Len(acc.out) \in Nat /\ Len(items) \in Nat
  BY DEF Placing
<1>2. /\ acc.placed = OrganicUpTo(Len(acc.out)) /\ acc.placed <= Len(items) /\ Len(acc.out) <= k
      /\ acc.done => acc.placed = Len(items)
      /\ ~ acc.done => Len(acc.out) = k
      /\ \A i \in 1 .. Len(acc.out) : At(acc.out, i)
  BY DEF PlacedUpTo
<1>3. \A n \in Nat : OrganicUpTo(n) \in Nat
          /\ OrganicUpTo(n + 1) = OrganicUpTo(n) + (IF n + 1 \in AdSlots THEN 0 ELSE 1)
  <2> SUFFICES ASSUME NEW n \in Nat
               PROVE  OrganicUpTo(n) \in Nat
                      /\ OrganicUpTo(n + 1) = OrganicUpTo(n) + (IF n + 1 \in AdSlots THEN 0 ELSE 1)
    OBVIOUS
  <2>1. n + 1 \in Organic <=> n + 1 \notin AdSlots
    BY DEF Organic
  <2> QED
    BY <2>1, CountNext DEF OrganicUpTo
<1>4. CASE acc.done
  <2>1. new = acc
    BY <1>4 DEF PlaceAt
  <2> HIDE DEF new
  <2> QED
    BY <1>1, <1>2, <1>4, <2>1 DEF PlacedUpTo, new
<1>5. CASE ~ acc.done /\ k + 1 \in AdSlots
  <2>1. new = [acc EXCEPT !.out = Append(acc.out, Ad)]
    BY <1>5 DEF PlaceAt
  <2>2. new.out = Append(acc.out, Ad) /\ new.placed = acc.placed /\ new.done = FALSE
    BY <1>1, <1>5, <2>1
  <2> HIDE DEF new
  <2>3. /\ Len(new.out) = k + 1 /\ new.out[k + 1] = Ad
        /\ \A i \in 1 .. k : new.out[i] = acc.out[i]
    BY <1>1, <1>2, <1>5, <2>2
  <2>4. new.placed = OrganicUpTo(k + 1)
    <3>1. acc.placed = OrganicUpTo(k) /\ OrganicUpTo(k) \in Nat
          /\ OrganicUpTo(k + 1) = OrganicUpTo(k) + 0
      BY <1>2, <1>3, <1>5
    <3> QED
      BY <2>2, <3>1
  <2>5. ASSUME NEW i \in 1 .. k + 1 PROVE At(new.out, i)
    <3>1. CASE i = k + 1
      BY <1>5, <2>3, <3>1
    <3>2. CASE i \in 1 .. k
      BY <1>2, <1>5, <2>3, <3>2
    <3> QED
      BY <3>1, <3>2
  <2>6. PlacedUpTo(items, k + 1, new)
    BY <1>2, <2>2, <2>3, <2>4, <2>5 DEF PlacedUpTo
  <2> QED
    BY <2>6 DEF new
<1>6. CASE ~ acc.done /\ k + 1 \notin AdSlots /\ acc.placed >= Len(items)
  <2>1. new = [acc EXCEPT !.done = TRUE]
    BY <1>6 DEF PlaceAt
  <2>2. new.out = acc.out /\ new.placed = acc.placed /\ new.done = TRUE
    BY <1>1, <2>1
  <2> HIDE DEF new
  <2>3. new.placed = Len(items) /\ Len(new.out) <= k + 1
    BY <1>1, <1>2, <1>6, <2>2
  <2>4. PlacedUpTo(items, k + 1, new)
    BY <1>2, <2>2, <2>3 DEF PlacedUpTo
  <2> QED
    BY <2>4 DEF new
<1>7. CASE ~ acc.done /\ k + 1 \notin AdSlots /\ ~ (acc.placed >= Len(items))
  <2> DEFINE next == items[acc.placed + 1]
  <2>1. new = [acc EXCEPT !.out = Append(acc.out, next), !.placed = acc.placed + 1]
    BY <1>7 DEF PlaceAt
  <2>2. new.out = Append(acc.out, next) /\ new.placed = acc.placed + 1 /\ new.done = FALSE
    BY <1>1, <1>7, <2>1
  <2>3. next \in Posts
    BY <1>1, <1>7
  <2> HIDE DEF new, next
  <2>4. /\ Len(new.out) = k + 1 /\ new.out[k + 1] = next
        /\ \A i \in 1 .. k : new.out[i] = acc.out[i]
    BY <1>1, <1>2, <1>7, <2>2, <2>3
  <2>5. new.placed = OrganicUpTo(k + 1) /\ new.placed <= Len(items)
    BY <1>1, <1>2, <1>3, <1>7, <2>2
  <2>6. ASSUME NEW i \in 1 .. k + 1 PROVE At(new.out, i)
    <3>1. CASE i = k + 1
      <4>1. next = items[OrganicUpTo(k + 1)]
        BY <2>2, <2>5 DEF next
      <4> QED
        BY <1>7, <2>4, <3>1, <4>1
    <3>2. CASE i \in 1 .. k
      BY <1>2, <1>7, <2>4, <3>2
    <3> QED
      BY <3>1, <3>2
  <2>7. PlacedUpTo(items, k + 1, new)
    BY <1>2, <2>2, <2>4, <2>5, <2>6 DEF PlacedUpTo
  <2> QED
    BY <2>7 DEF new
<1> QED
  BY <1>1, <1>4, <1>5, <1>6, <1>7

\* All but two positions are organic.
LEMMA OrganicRoom == OrganicUpTo(PageSize) \in Nat /\ OrganicUpTo(PageSize) >= PageSize - 2
<1> DEFINE S == 1 .. PageSize
<1>1. PageSize \in Nat /\ PageSize > 2 /\ IsFiniteSet(AdSlots) /\ Cardinality(AdSlots) = 2
  BY PageAssumption
<1>2. IsFiniteSet(S) /\ Cardinality(S) = PageSize
  BY <1>1, FS_Interval
<1>3. IsFiniteSet(AdSlots \cap S) /\ Cardinality(AdSlots \cap S) \in Nat
      /\ Cardinality(AdSlots \cap S) <= 2
  <2>1. AdSlots \cap S \in SUBSET AdSlots
    OBVIOUS
  <2> HIDE DEF S
  <2>2. IsFiniteSet(AdSlots \cap S) /\ Cardinality(AdSlots \cap S) <= Cardinality(AdSlots)
    BY <1>1, <2>1, FS_Subset
  <2> QED
    BY <1>1, <2>2, FS_CardinalityType
<1>4. Organic \cap S = S \ AdSlots /\ S \cap AdSlots = AdSlots \cap S
  BY <1>1 DEF Organic
<1> DEFINE x == Cardinality(AdSlots \cap S)
<1>5. Cardinality(S \ AdSlots) = PageSize - x
  <2> HIDE DEF S
  <2> QED
    BY <1>2, <1>4, FS_Difference
<1>6. OrganicUpTo(PageSize) = PageSize - x
  BY <1>4, <1>5 DEF OrganicUpTo
<1>7. x \in Nat /\ x <= 2
  BY <1>3
<1> HIDE DEF x
<1> QED
  BY <1>1, <1>6, <1>7

\* insertAds puts every item on the page, in order, as long as two places are
\* left for the ads.
LEMMA AdsPlaced ==
    ASSUME NEW items \in Seq(Posts), Len(items) <= PageSize - 2
    PROVE  LET final == WithAds(items)
               organic == DOMAIN final \ AdSlots
           IN  /\ Len(final) <= PageSize
               /\ \A i \in DOMAIN final \cap AdSlots : final[i] = Ad
               /\ Cardinality(organic) = Len(items)
               /\ \A i \in organic : final[i] = items[Cardinality(organic \cap 1 .. i)]
<1> DEFINE final == WithAds(items)
           organic == DOMAIN final \ AdSlots
<1>1. PICK g \in [0 .. PageSize -> Placing] :
          /\ g[0] = NothingPlaced /\ g[PageSize].out = final
          /\ \A k \in 0 .. PageSize - 1 : g[k + 1] = PlaceAt(items, k + 1, g[k])
  BY WithAdsUnfolds
<1> HIDE DEF final
<1> DEFINE Good == {k \in 0 .. PageSize : PlacedUpTo(items, k, g[k])}
<1>2. PageSize \in Nat /\ PageSize > 2 /\ Len(items) \in Nat
  BY PageAssumption
<1>3. 0 \in Good
  <2>1. 1 .. 0 = {} /\ Len(<<>>) = 0
    OBVIOUS
  <2>2. OrganicUpTo(0) = 0
    BY <2>1, FS_EmptySet DEF OrganicUpTo
  <2>3. PlacedUpTo(items, 0, NothingPlaced)
    BY <1>2, <2>1, <2>2 DEF PlacedUpTo, NothingPlaced
  <2> QED
    BY <1>1, <1>2, <2>3
<1>4. ASSUME NEW k \in Nat, k < PageSize, k \in Good PROVE k + 1 \in Good
  <2>1. k \in 0 .. PageSize /\ k \in 0 .. PageSize - 1 /\ k + 1 \in 0 .. PageSize
        /\ PlacedUpTo(items, k, g[k])
    BY <1>2, <1>4
  <2>2. PlacedUpTo(items, k + 1, g[k + 1])
    BY <1>1, <2>1, PlaceStep
  <2> QED
    BY <2>1, <2>2
<1>5. PlacedUpTo(items, PageSize, g[PageSize]) /\ g[PageSize] \in Placing
  <2> HIDE DEF Good
  <2>1. \A k \in 0 .. PageSize : k \in Good
    BY <1>2, <1>3, <1>4, CountUp
  <2>2. PageSize \in 0 .. PageSize
    BY <1>2
  <2> QED
    BY <1>1, <2>1, <2>2 DEF Good
<1>6. final \in Seq(Posts \cup {Ad}) /\ Len(final) \in Nat /\ DOMAIN final = 1 .. Len(final)
  BY <1>1, <1>5 DEF Placing
<1>7. /\ Len(final) <= PageSize
      /\ \A i \in 1 .. Len(final) :
            final[i] = IF i \in AdSlots THEN Ad ELSE items[OrganicUpTo(i)]
  BY <1>1, <1>5 DEF PlacedUpTo
<1>8. organic = Organic \cap (1 .. Len(final))
  BY <1>6 DEF Organic
<1> HIDE DEF organic
<1>9. Cardinality(organic) = OrganicUpTo(Len(final))
      /\ \A i \in organic : Cardinality(organic \cap 1 .. i) = OrganicUpTo(i)
  <2>1. \A i \in organic : organic \cap 1 .. i = Organic \cap (1 .. i)
    BY <1>6, <1>8
  <2> QED
    BY <1>8, <2>1 DEF OrganicUpTo
<1>10. Cardinality(organic) = Len(items)
  <2>1. /\ g[PageSize].placed = OrganicUpTo(Len(final))
        /\ g[PageSize].placed <= Len(items) /\ g[PageSize].placed \in Nat
        /\ g[PageSize].done => g[PageSize].placed = Len(items)
        /\ ~ g[PageSize].done => Len(final) = PageSize
    BY <1>1, <1>5 DEF PlacedUpTo, Placing
  <2>2. CASE g[PageSize].done
    BY <1>9, <2>1, <2>2
  <2>3. CASE ~ g[PageSize].done
    <3>1. g[PageSize].placed >= PageSize - 2
      BY <2>1, <2>3, OrganicRoom
    <3> QED
      BY <1>2, <1>9, <2>1, <2>3, <3>1
  <2> QED
    BY <2>2, <2>3
<1>11. \A i \in organic : i \in 1 .. Len(final) /\ i \notin AdSlots
  BY <1>6 DEF organic
<1>12. \A i \in organic : final[i] = items[Cardinality(organic \cap 1 .. i)]
  BY <1>7, <1>9, <1>11
<1>13. \A i \in DOMAIN final \cap AdSlots : final[i] = Ad
  BY <1>6, <1>7
<1> QED
  BY <1>7, <1>10, <1>12, <1>13 DEF final, organic

-----------------------------------------------------------------------------
(* The page that is cut                                                     *)

\* An order of some posts is a list of them, and no longer than all posts are.
LEMMA OrderOf ==
    ASSUME NEW S \in SUBSET Posts, NEW order \in SetToSeqs(S)
    PROVE  order \in Seq(Posts) /\ Len(order) <= Cardinality(Posts) /\ SetOf(order) \subseteq S
<1>1. order \in [1 .. Cardinality(S) -> S]
  BY DEF SetToSeqs
<1>2. Cardinality(S) \in Nat /\ Cardinality(S) <= Cardinality(Posts)
  BY PostsAssumption, FS_Subset, FS_CardinalityType
<1>3. order \in Seq(Posts) /\ Len(order) = Cardinality(S) /\ DOMAIN order = 1 .. Cardinality(S)
  BY <1>1, <1>2
<1> QED
  BY <1>1, <1>2, <1>3 DEF SetOf

\* A page has two places left for the ads, and posts of the list only; the
\* next cursor is within the list.
LEMMA CutIsOfList ==
    ASSUME NEW s \in Seq(Posts), NEW from \in Nat
    PROVE  /\ Page(s, from) \in Seq(Posts) /\ Len(Page(s, from)) <= PageSize - 2
           /\ SetOf(Page(s, from)) \subseteq SetOf(s)
           /\ NextOffset(s, from) \in Nat /\ NextOffset(s, from) <= Len(s)
<1> DEFINE d == Diversified(s)
           m == Start(d, from)
           n == End(d, from)
<1>1. PICK idx : KeptUpTo(s, Len(s), d, idx)
  BY DiversifiedKeeps
<1>2. d \in Seq(Posts) /\ Len(d) \in Nat /\ Len(s) \in Nat /\ Len(d) <= Len(s)
      /\ PageSize \in Nat /\ PageSize > 2
  BY <1>1, DiversifiedKeeps, PageAssumption DEF KeptUpTo
<1>3. ASSUME NEW i \in DOMAIN d PROVE d[i] \in SetOf(s)
  <2>1. i \in 1 .. Len(d)
    BY <1>2
  <2>2. d[i] = s[idx[i]] /\ idx[i] \in Kept(s)
    BY <1>1, <2>1 DEF KeptUpTo
  <2> QED
    BY <2>2 DEF Kept, SetOf
<1> HIDE DEF d
<1>4. /\ m \in Nat /\ m <= Len(d) /\ n \in Nat /\ n <= Len(d) /\ n <= m + PageSize - 2
      /\ m <= n
  <2>1. m = AtMost(from, Len(d)) /\ n = AtMost(m + PageSize - 2, Len(d))
    BY DEF Start, End
  <2>2. m \in Nat /\ m <= Len(d)
    BY <1>2, <2>1 DEF AtMost
  <2> HIDE DEF m, n
  <2> QED
    BY <1>2, <2>1, <2>2 DEF AtMost
<1>5. Page(s, from) = SubSeq(d, m + 1, n) /\ NextOffset(s, from) = n
  BY DEF Page, NextOffset, d
<1> HIDE DEF m, n
<1>6. /\ SubSeq(d, m + 1, n) \in Seq(Posts) /\ Len(SubSeq(d, m + 1, n)) = n - m
      /\ \A i \in 1 .. n - m : SubSeq(d, m + 1, n)[i] = d[m + i]
  BY <1>2, <1>4
<1>7. SetOf(SubSeq(d, m + 1, n)) \subseteq SetOf(s)
  <2> SUFFICES ASSUME NEW i \in DOMAIN SubSeq(d, m + 1, n)
               PROVE  SubSeq(d, m + 1, n)[i] \in SetOf(s)
    BY DEF SetOf
  <2>1. i \in 1 .. n - m
    BY <1>6
  <2>2. m + i \in DOMAIN d
    BY <1>2, <1>4, <2>1
  <2> QED
    BY <1>3, <1>6, <2>1, <2>2
<1> QED
  BY <1>2, <1>4, <1>5, <1>6, <1>7

-----------------------------------------------------------------------------
(* The pipeline of FeedPage                                                 *)
RankedFits == \A t \in Tabs : Len(ranked[t]) <= Cardinality(Posts)

\* What a tab was given is marked while the seen state does not fail, so what
\* passed the filter, and what is ranked of it, was not given to the tab: other
\* tabs only mark more.
GivenIsMarked ==
    ~ seenStateFailed =>
        /\ repeated = {}
        /\ \A t \in Tabs : \A p \in Posts : <<t, p>> \in shown => p \in seen
        /\ \A t \in Tabs :
              /\ stage[t] = "rank" => \A p \in gathered[t] : <<t, p>> \notin shown
              /\ stage[t] \in {"mark", "answer"}
                    => \A p \in SetOf(ranked[t]) : <<t, p>> \notin shown

PageInv == TypeOK /\ RankedFits /\ GivenIsMarked

LEMMA PageInitHolds == Init => PageInv
<1> SUFFICES ASSUME Init PROVE PageInv
  OBVIOUS
<1>1. Cardinality(Posts) \in Nat
  BY PostsAssumption, FS_CardinalityType
<1>2. <<>> \in Seq(Posts) /\ Len(<<>>) = 0
  OBVIOUS
<1>3. TypeOK
  <2>1. 0 \in 0 .. Cardinality(Posts) /\ 0 \in 0 .. MaxExpiries /\ 0 \in 0 .. MaxFailures
    BY <1>1, FeedBounds
  <2>2. ranked \in [Tabs -> Seq(Posts)]
    BY <1>2 DEF Init
  <2> QED
    BY <2>1, <2>2 DEF Init, TypeOK
<1>4. RankedFits
  BY <1>1, <1>2 DEF Init, RankedFits
<1>5. GivenIsMarked
  BY DEF Init, GivenIsMarked
<1> QED
  BY <1>3, <1>4, <1>5 DEF PageInv

LEMMA FanInPosts ==
    ASSUME candidates \in [Sources -> SUBSET Posts], NEW t \in Tabs, FanIn(t)
    PROVE  \E posts \in SUBSET Posts : gathered' = [gathered EXCEPT ![t] = posts]
<1>1. PICK failed \in SUBSET Sources :
          \E some \in Gathered(failed) : gathered' = [gathered EXCEPT ![t] = some]
  BY DEF FanIn
<1>2. PICK some \in Gathered(failed) : gathered' = [gathered EXCEPT ![t] = some]
  BY <1>1
<1>3. some \subseteq UNION {candidates[c] : c \in Sources}
  BY DEF Gathered
<1>4. some \in SUBSET Posts
  BY <1>3
<1> QED
  BY <1>2, <1>4

\* Sources that fail are counted within their bound.
LEMMA FanInCounts ==
    ASSUME failures \in 0 .. MaxFailures, NEW t \in Tabs, FanIn(t)
    PROVE  failures' \in 0 .. MaxFailures
<1>1. PICK failed \in SUBSET Sources :
          /\ failures + Cardinality(failed) <= MaxFailures
          /\ failures' = failures + Cardinality(failed)
  BY DEF FanIn
<1>2. Cardinality(failed) \in Nat
  BY SourcesAssumption, FS_Subset, FS_CardinalityType
<1> QED
  BY <1>1, <1>2, FeedBounds

\* What comes and goes outside the requests.
LEMMA OutsideKeepsPage ==
    ASSUME PageInv,
           \/ \E c \in Sources, p \in Posts : Arrives(c, p) \/ Leaves(c, p)
           \/ \E p \in Posts : SeenExpires(p)
           \/ ResetSeenState
    PROVE  PageInv'
<1>0. UNCHANGED <<request, client, failures, seenStateFailed>>
  BY DEF Arrives, Leaves, SeenExpires, ResetSeenState, counters, history
<1>1. RankedFits'
  BY <1>0 DEF PageInv, RankedFits, request
<1>2. candidates' \in [Sources -> SUBSET Posts]
  <2>1. candidates \in [Sources -> SUBSET Posts]
    BY DEF PageInv, TypeOK
  <2>2. ASSUME NEW c \in Sources, NEW p \in Posts, Arrives(c, p) \/ Leaves(c, p)
        PROVE  candidates' \in [Sources -> SUBSET Posts]
    <3>1. candidates[c] \cup {p} \in SUBSET Posts /\ candidates[c] \ {p} \in SUBSET Posts
      BY <2>1
    <3> QED
      BY <2>1, <2>2, <3>1 DEF Arrives, Leaves
  <2> QED
    BY <2>1, <2>2 DEF SeenExpires, ResetSeenState
<1>3. expiries' \in 0 .. MaxExpiries
  BY FeedBounds DEF PageInv, TypeOK, Arrives, Leaves, SeenExpires, ResetSeenState, counters
\* A post is forgotten by the seen state and by the history of what was given.
<1>4. /\ \/ UNCHANGED <<seen, shown, repeated>>
         \/ \E p \in Posts : /\ seen' = seen \ {p}
                             /\ shown' = shown \ (Tabs \X {p}) /\ repeated' = repeated \ (Tabs \X {p})
         \/ seen' = {} /\ shown' = {} /\ repeated' = {}
      /\ lost' \subseteq lost
  BY DEF Arrives, Leaves, SeenExpires, ResetSeenState, history
<1>5. TypeOK'
  <2>1. /\ seen \subseteq Posts /\ shown \subseteq Tabs \X Posts /\ repeated \subseteq shown
        /\ lost \subseteq Posts
    BY DEF PageInv, TypeOK
  <2>2. /\ seen' \subseteq Posts /\ shown' \subseteq Tabs \X Posts /\ repeated' \subseteq shown'
        /\ lost' \subseteq Posts
    BY <1>4, <2>1
  <2> QED
    BY <1>0, <1>2, <1>3, <2>2 DEF PageInv, TypeOK, request, client
<1>6. GivenIsMarked'
  <2> SUFFICES ASSUME ~ seenStateFailed'
               PROVE  /\ repeated' = {}
                      /\ \A t \in Tabs : \A p \in Posts : <<t, p>> \in shown' => p \in seen'
                      /\ \A t \in Tabs :
                            /\ stage[t] = "rank" => \A p \in gathered[t] : <<t, p>> \notin shown'
                            /\ stage[t] \in {"mark", "answer"}
                                  => \A p \in SetOf(ranked[t]) : <<t, p>> \notin shown'
    BY <1>0 DEF GivenIsMarked, request, SetOf
  <2>1. /\ repeated = {}
        /\ \A t \in Tabs : \A p \in Posts : <<t, p>> \in shown => p \in seen
        /\ \A t \in Tabs :
              /\ stage[t] = "rank" => \A p \in gathered[t] : <<t, p>> \notin shown
              /\ stage[t] \in {"mark", "answer"}
                    => \A p \in SetOf(ranked[t]) : <<t, p>> \notin shown
    BY <1>0 DEF PageInv, GivenIsMarked
  <2>2. shown' \subseteq shown /\ repeated' \subseteq repeated
    BY <1>4
  <2>3. ASSUME NEW t \in Tabs, NEW p \in Posts, <<t, p>> \in shown' PROVE p \in seen'
    BY <1>4, <2>1, <2>3
  <2> QED
    BY <2>1, <2>2, <2>3
<1> QED
  BY <1>1, <1>5, <1>6 DEF PageInv

LEMMA BeginKeepsPage ==
    ASSUME PageInv, NEW t \in Tabs, Refresh(t) \/ LoadMore(t)
    PROVE  PageInv'
<1>1. PICK from \in 0 .. Cardinality(Posts) :
          Begin(t, from) /\ nextCursor' \in [Tabs -> 0 .. Cardinality(Posts)]
  <2>1. Cardinality(Posts) \in Nat /\ 0 \in 0 .. Cardinality(Posts)
    BY PostsAssumption, FS_CardinalityType
  <2>2. nextCursor \in [Tabs -> 0 .. Cardinality(Posts)]
    BY DEF PageInv, TypeOK
  <2>3. CASE Refresh(t)
    BY <2>1, <2>2, <2>3 DEF Refresh
  <2>4. CASE LoadMore(t)
    BY <2>2, <2>4 DEF LoadMore
  <2> QED
    BY <2>3, <2>4
<1>2. /\ FanIn(t) /\ offset' = [offset EXCEPT ![t] = from]
      /\ stage' = [stage EXCEPT ![t] = "filter"]
      /\ UNCHANGED <<candidates, seen, ranked, more, expiries, history>>
  BY <1>1 DEF Begin
<1>3. PICK posts \in SUBSET Posts : gathered' = [gathered EXCEPT ![t] = posts]
  BY <1>2, FanInPosts DEF PageInv, TypeOK
<1>4. failures' \in 0 .. MaxFailures
  BY <1>2, FanInCounts DEF PageInv, TypeOK
<1>5. TypeOK'
  BY <1>1, <1>2, <1>3, <1>4 DEF PageInv, TypeOK, history
<1>6. RankedFits'
  BY <1>2 DEF PageInv, RankedFits
<1>7. GivenIsMarked'
  <2>1. \A u \in Tabs : stage'[u] \in {"rank", "mark", "answer"} =>
            /\ stage'[u] = stage[u] /\ gathered'[u] = gathered[u] /\ ranked'[u] = ranked[u]
    BY <1>2, <1>3 DEF PageInv, TypeOK
  <2> QED
    BY <1>2, <2>1 DEF PageInv, GivenIsMarked, history, SetOf
<1> QED
  BY <1>5, <1>6, <1>7 DEF PageInv

LEMMA FilterUnseenKeepsPage ==
    ASSUME PageInv, NEW t \in Tabs, FilterUnseen(t)
    PROVE  PageInv'
<1>1. PICK answered \in SUBSET seen :
          /\ gathered' = [gathered EXCEPT ![t] = gathered[t] \ answered]
          /\ seenStateFailed' \in BOOLEAN /\ failures' \in 0 .. MaxFailures
          /\ ~ seenStateFailed' => ~ seenStateFailed /\ answered = seen
  <2>1. failures \in 0 .. MaxFailures /\ seenStateFailed \in BOOLEAN
    BY DEF PageInv, TypeOK
  <2>2. CASE gathered' = [gathered EXCEPT ![t] = @ \ seen] /\ UNCHANGED <<failures, seenStateFailed>>
    BY <2>1, <2>2
  <2>3. CASE SeenStateFails /\ \E answered \in SUBSET seen :
                                 gathered' = [gathered EXCEPT ![t] = @ \ answered]
    <3>1. seenStateFailed' = TRUE /\ failures' = failures + 1 /\ failures < MaxFailures
      BY <2>3 DEF SeenStateFails
    <3>2. failures' \in 0 .. MaxFailures
      BY <2>1, <3>1, FeedBounds
    <3>3. PICK answered \in SUBSET seen : gathered' = [gathered EXCEPT ![t] = gathered[t] \ answered]
      BY <2>3
    <3> QED
      BY <3>1, <3>2, <3>3
  <2> QED
    BY <2>2, <2>3 DEF FilterUnseen
<1>2. /\ stage[t] = "filter" /\ stage' = [stage EXCEPT ![t] = "rank"]
      /\ UNCHANGED <<candidates, seen, offset, ranked, client, expiries, shown, repeated, lost>>
  BY DEF FilterUnseen
<1>3. TypeOK'
  <2>1. gathered[t] \ answered \in SUBSET Posts
    BY DEF PageInv, TypeOK
  <2> QED
    BY <1>1, <1>2, <2>1 DEF PageInv, TypeOK, client
<1>4. RankedFits'
  BY <1>2 DEF PageInv, RankedFits
<1>5. GivenIsMarked'
  <2> SUFFICES ASSUME ~ seenStateFailed' PROVE GivenIsMarked'
    BY DEF GivenIsMarked
  <2>1. /\ gathered'[t] = gathered[t] \ seen /\ gathered[t] \subseteq Posts /\ stage'[t] = "rank"
        /\ \A u \in Tabs : u # t => stage'[u] = stage[u] /\ gathered'[u] = gathered[u]
    BY <1>1, <1>2 DEF PageInv, TypeOK
  <2>2. GivenIsMarked /\ ~ seenStateFailed
    BY <1>1 DEF PageInv
  <2>3. \A p \in gathered'[t] : <<t, p>> \notin shown
    BY <2>1, <2>2 DEF GivenIsMarked
  <2> QED
    BY <1>2, <2>1, <2>2, <2>3 DEF GivenIsMarked, SetOf
<1> QED
  BY <1>3, <1>4, <1>5 DEF PageInv

LEMMA RankKeepsPage ==
    ASSUME PageInv, NEW t \in Tabs, Rank(t)
    PROVE  PageInv'
<1>1. PICK order \in SetToSeqs(gathered[t] \cap Hydratable) : ranked' = [ranked EXCEPT ![t] = order]
  BY DEF Rank
<1>2. /\ stage[t] = "rank" /\ stage' = [stage EXCEPT ![t] = "mark"]
      /\ gathered' = [gathered EXCEPT ![t] = {}]
      /\ UNCHANGED <<candidates, seen, offset, client, counters, history>>
  BY DEF Rank
<1>3. gathered[t] \cap Hydratable \in SUBSET Posts
  BY DEF PageInv, TypeOK
<1>4. /\ order \in Seq(Posts) /\ Len(order) <= Cardinality(Posts)
      /\ SetOf(order) \subseteq gathered[t]
  BY <1>3, OrderOf
<1>5. TypeOK'
  BY <1>1, <1>2, <1>4 DEF PageInv, TypeOK, client, counters, history
<1>6. /\ ranked'[t] = order /\ stage'[t] = "mark"
      /\ \A u \in Tabs : u # t => /\ stage'[u] = stage[u] /\ gathered'[u] = gathered[u]
                                  /\ ranked'[u] = ranked[u]
  BY <1>1, <1>2 DEF PageInv, TypeOK
<1>7. RankedFits'
  BY <1>4, <1>6 DEF PageInv, RankedFits
<1>8. GivenIsMarked'
  <2> SUFFICES ASSUME ~ seenStateFailed' PROVE GivenIsMarked'
    BY DEF GivenIsMarked
  <2>1. GivenIsMarked /\ ~ seenStateFailed /\ UNCHANGED <<seen, history>>
    BY <1>2 DEF PageInv, history
  <2>2. \A p \in SetOf(order) : <<t, p>> \notin shown
    BY <1>2, <1>4, <2>1 DEF GivenIsMarked
  <2>3. SetOf(ranked'[t]) = SetOf(order) /\ \A u \in Tabs : u # t => SetOf(ranked'[u]) = SetOf(ranked[u])
    BY <1>6
  <2> QED
    BY <1>6, <2>1, <2>2, <2>3 DEF GivenIsMarked, history, SetOf
<1> QED
  BY <1>5, <1>7, <1>8 DEF PageInv

\* A request that is over leaves nothing that is to be marked.
LEMMA FinishTypes ==
    ASSUME PageInv, NEW t \in Tabs, Finish(t)
    PROVE  /\ stage' \in [Tabs -> {"idle", "filter", "rank", "mark", "answer"}]
           /\ offset' \in [Tabs -> 0 .. Cardinality(Posts)]
           /\ gathered' \in [Tabs -> SUBSET Posts] /\ ranked' \in [Tabs -> Seq(Posts)]
           /\ RankedFits' /\ stage'[t] = "idle"
           /\ \A u \in Tabs : u # t => /\ stage'[u] = stage[u] /\ gathered'[u] = gathered[u]
                                       /\ ranked'[u] = ranked[u]
<1>1. Cardinality(Posts) \in Nat /\ 0 \in 0 .. Cardinality(Posts)
  BY PostsAssumption, FS_CardinalityType
<1>2. <<>> \in Seq(Posts) /\ Len(<<>>) = 0
  OBVIOUS
<1>3. /\ stage' \in [Tabs -> {"idle", "filter", "rank", "mark", "answer"}]
      /\ offset' \in [Tabs -> 0 .. Cardinality(Posts)]
      /\ gathered' \in [Tabs -> SUBSET Posts] /\ ranked' \in [Tabs -> Seq(Posts)]
  BY <1>1, <1>2 DEF PageInv, TypeOK, Finish
<1>4. /\ stage'[t] = "idle" /\ ranked'[t] = <<>>
      /\ \A u \in Tabs : u # t => /\ stage'[u] = stage[u] /\ gathered'[u] = gathered[u]
                                  /\ ranked'[u] = ranked[u]
  BY DEF PageInv, TypeOK, Finish
<1>5. RankedFits'
  BY <1>1, <1>2, <1>4 DEF PageInv, RankedFits
<1> QED
  BY <1>3, <1>4, <1>5

\* What a request marks and is given, of a list that fits.
LEMMA RequestPage ==
    ASSUME PageInv, NEW t \in Tabs
    PROVE  /\ SetOf(PageOf(t)) \subseteq SetOf(ranked[t]) /\ SetOf(PageOf(t)) \subseteq Posts
           /\ NextOffset(ranked[t], offset[t]) \in 0 .. Cardinality(Posts)
<1> DEFINE page == PageOf(t)
           next == NextOffset(ranked[t], offset[t])
<1>1. Cardinality(Posts) \in Nat
  BY PostsAssumption, FS_CardinalityType
<1>2. ranked[t] \in Seq(Posts) /\ offset[t] \in Nat /\ Len(ranked[t]) <= Cardinality(Posts)
  BY <1>1 DEF PageInv, TypeOK, RankedFits
<1>3. /\ page \in Seq(Posts) /\ SetOf(page) \subseteq SetOf(ranked[t])
      /\ next \in Nat /\ next <= Len(ranked[t]) /\ Len(ranked[t]) \in Nat
  BY <1>2, CutIsOfList DEF PageOf
<1> HIDE DEF page, next
<1>4. SetOf(page) \subseteq Posts
  BY <1>3 DEF SetOf
<1>5. next \in 0 .. Cardinality(Posts)
  BY <1>1, <1>2, <1>3
<1> QED
  BY <1>3, <1>4, <1>5 DEF page, next

\* The page is marked before it is answered: others only see more.
LEMMA MarkSeenKeepsPage ==
    ASSUME PageInv, NEW t \in Tabs, MarkSeen(t)
    PROVE  PageInv'
<1> DEFINE page == SetOf(PageOf(t))
<1>1. PICK marked \in SUBSET page :
          /\ seen' = seen \cup marked
          /\ seenStateFailed' \in BOOLEAN /\ failures' \in 0 .. MaxFailures
          /\ ~ seenStateFailed' => ~ seenStateFailed
  <2>1. failures \in 0 .. MaxFailures /\ seenStateFailed \in BOOLEAN
    BY DEF PageInv, TypeOK
  <2>2. \/ seen' = seen \cup page /\ UNCHANGED <<failures, seenStateFailed>>
        \/ SeenStateFails /\ \E marked \in SUBSET page : seen' = seen \cup marked
    BY DEF MarkSeen
  <2> HIDE DEF page
  <2>3. CASE seen' = seen \cup page /\ UNCHANGED <<failures, seenStateFailed>>
    BY <2>1, <2>3
  <2>4. CASE SeenStateFails /\ \E marked \in SUBSET page : seen' = seen \cup marked
    BY <2>1, <2>4, FeedBounds DEF SeenStateFails
  <2> QED
    BY <2>2, <2>3, <2>4
<1>2. /\ stage[t] = "mark" /\ stage' = [stage EXCEPT ![t] = "answer"]
      /\ UNCHANGED <<candidates, offset, gathered, ranked, client, expiries, shown, repeated, lost>>
  BY DEF MarkSeen
<1>3. seen' \subseteq Posts /\ seen \subseteq seen'
  <2>1. page \subseteq Posts
    BY RequestPage
  <2> HIDE DEF page
  <2> QED
    BY <1>1, <2>1 DEF PageInv, TypeOK
<1>4. TypeOK'
  BY <1>1, <1>2, <1>3 DEF PageInv, TypeOK, client
<1>5. RankedFits'
  BY <1>2 DEF PageInv, RankedFits
<1>6. GivenIsMarked'
  <2> SUFFICES ASSUME ~ seenStateFailed' PROVE GivenIsMarked'
    BY DEF GivenIsMarked
  <2>1. GivenIsMarked /\ ~ seenStateFailed
    BY <1>1 DEF PageInv
  <2>2. \A u \in Tabs : stage'[u] = stage[u] \/ (stage[u] = "mark" /\ stage'[u] = "answer")
    BY <1>2 DEF PageInv, TypeOK
  <2> QED
    BY <1>2, <1>3, <2>1, <2>2 DEF GivenIsMarked, SetOf
<1> QED
  BY <1>4, <1>5, <1>6 DEF PageInv

\* The page is given.
LEMMA DeliverKeepsPage ==
    ASSUME PageInv, NEW t \in Tabs, Deliver(t)
    PROVE  PageInv'
<1> DEFINE page == SetOf(PageOf(t))
           given == {t} \X {p \in page : p \in seen \/ seenStateFailed}
           next == NextOffset(ranked[t], offset[t])
<1>1. /\ stage[t] = "answer" /\ Finish(t)
      /\ nextCursor' = [nextCursor EXCEPT ![t] = next]
      /\ \E b \in BOOLEAN : more' = [more EXCEPT ![t] = b]
      /\ shown' = shown \cup given /\ repeated' = repeated \cup (shown \cap given)
      /\ UNCHANGED <<candidates, seen, expiries, failures, lost, seenStateFailed>>
  BY DEF Deliver, counters
<1>2. page \subseteq SetOf(ranked[t]) /\ page \subseteq Posts /\ next \in 0 .. Cardinality(Posts)
  BY RequestPage
<1> HIDE DEF page, next
<1>3. TypeOK'
  <2>1. /\ shown' \subseteq Tabs \X Posts /\ repeated' \subseteq shown'
    BY <1>1, <1>2 DEF PageInv, TypeOK
  <2>2. /\ nextCursor' \in [Tabs -> 0 .. Cardinality(Posts)] /\ more' \in [Tabs -> BOOLEAN]
    BY <1>1, <1>2 DEF PageInv, TypeOK
  <2>3. /\ stage' \in [Tabs -> {"idle", "filter", "rank", "mark", "answer"}]
        /\ offset' \in [Tabs -> 0 .. Cardinality(Posts)]
        /\ gathered' \in [Tabs -> SUBSET Posts] /\ ranked' \in [Tabs -> Seq(Posts)]
    BY <1>1, FinishTypes
  <2> QED
    BY <1>1, <2>1, <2>2, <2>3 DEF PageInv, TypeOK
<1>4. GivenIsMarked'
  <2> SUFFICES ASSUME ~ seenStateFailed' PROVE GivenIsMarked'
    BY DEF GivenIsMarked
  <2>1. GivenIsMarked /\ ~ seenStateFailed
    BY <1>1 DEF PageInv
  <2>2. shown \cap given = {} /\ repeated' = {}
    BY <1>1, <1>2, <2>1 DEF GivenIsMarked
  <2>3. ASSUME NEW u \in Tabs, NEW p \in Posts, <<u, p>> \in shown' PROVE p \in seen'
    BY <1>1, <2>1, <2>3 DEF GivenIsMarked
  <2>4. ASSUME NEW u \in Tabs, stage'[u] \in {"rank", "mark", "answer"}
        PROVE  /\ u # t /\ stage'[u] = stage[u] /\ gathered'[u] = gathered[u]
               /\ ranked'[u] = ranked[u]
               /\ \A p : <<u, p>> \in shown' => <<u, p>> \in shown
    <3>1. stage'[t] = "idle"
      BY <1>1, FinishTypes
    <3>2. u # t
      BY <2>4, <3>1
    <3>3. stage'[u] = stage[u] /\ gathered'[u] = gathered[u] /\ ranked'[u] = ranked[u]
      BY <1>1, <3>2, FinishTypes
    <3> QED
      BY <1>1, <3>2, <3>3
  <2>5. ASSUME NEW u \in Tabs
        PROVE  /\ stage'[u] = "rank" => \A p \in gathered'[u] : <<u, p>> \notin shown'
               /\ stage'[u] \in {"mark", "answer"}
                     => \A p \in SetOf(ranked'[u]) : <<u, p>> \notin shown'
    BY <2>1, <2>4 DEF GivenIsMarked
  <2> QED
    BY <2>2, <2>3, <2>5 DEF GivenIsMarked, SetOf
<1> QED
  BY <1>1, <1>3, <1>4, FinishTypes DEF PageInv

LEMMA GetFeedFailsKeepsPage ==
    ASSUME PageInv, NEW t \in Tabs, GetFeedFails(t)
    PROVE  PageInv'
<1>1. /\ Finish(t) /\ failures' \in 0 .. MaxFailures
      /\ lost' \subseteq lost \cup seen
      /\ UNCHANGED <<candidates, seen, client, expiries, shown, repeated, seenStateFailed>>
  BY FeedBounds DEF GetFeedFails, PageInv, TypeOK
<1>2. TypeOK'
  <2>1. lost' \subseteq Posts
    BY <1>1 DEF PageInv, TypeOK
  <2> QED
    BY <1>1, <2>1, FinishTypes DEF PageInv, TypeOK, client
<1>3. \A u \in Tabs : stage'[u] \in {"rank", "mark", "answer"} =>
            /\ stage'[u] = stage[u] /\ gathered'[u] = gathered[u] /\ ranked'[u] = ranked[u]
  BY <1>1, FinishTypes
<1>4. GivenIsMarked'
  BY <1>1, <1>3 DEF PageInv, GivenIsMarked, SetOf
<1> QED
  BY <1>1, <1>2, <1>4, FinishTypes DEF PageInv

LEMMA PageKeeps == PageInv /\ [Next]_vars => PageInv'
<1> SUFFICES ASSUME PageInv, [Next]_vars PROVE PageInv'
  OBVIOUS
<1>1. CASE UNCHANGED vars
  BY <1>1 DEF PageInv, TypeOK, RankedFits, GivenIsMarked, vars, request, client, counters,
              history, SetOf
<1>2. CASE Next
  BY <1>2, OutsideKeepsPage, BeginKeepsPage, FilterUnseenKeepsPage, RankKeepsPage,
     MarkSeenKeepsPage, DeliverKeepsPage, GetFeedFailsKeepsPage DEF Next, Serve
<1> QED
  BY <1>1, <1>2

\* The pages and what they are made of have their types: no cursor points past
\* what a ranked list can hold.
THEOREM FeedPageTypes == Spec => []TypeOK
<1> QED
  BY PageInitHolds, PageKeeps, PTL DEF Spec, PageInv

\* As long as the seen state answers, no tab is given a post twice before it may
\* be: for any number of tabs, whatever arrives, leaves, fails or is reset.
THEOREM NeverShownTwice == Spec => []NotShownTwice
<1>1. PageInv => NotShownTwice
  BY DEF PageInv, GivenIsMarked, NotShownTwice
<1> QED
  BY <1>1, PageInitHolds, PageKeeps, PTL DEF Spec

\* Whatever is ranked, each author's best posts are paged and no others.
THEOREM BestAreKept == Spec => []BestOfEachAuthor
<1>1. PageInv => BestOfEachAuthor
  <2> SUFFICES ASSUME PageInv, NEW t \in Tabs
               PROVE  LET s == ranked[t]
                          paged == Diversified(s)
                      IN  /\ SetOf(paged) = {s[i] : i \in Kept(s)}
                          /\ \A i, j \in DOMAIN paged : i < j =>
                                \E k, l \in Kept(s) : k < l /\ s[k] = paged[i] /\ s[l] = paged[j]
    BY DEF BestOfEachAuthor, Kept
  <2> DEFINE s == ranked[t]
             paged == Diversified(s)
  <2>1. s \in Seq(Posts)
    BY DEF PageInv, TypeOK
  <2> HIDE DEF s
  <2>2. PICK idx : KeptUpTo(s, Len(s), paged, idx)
    BY <2>1, DiversifiedKeeps
  <2>3. paged \in Seq(Posts) /\ DOMAIN paged = 1 .. Len(paged)
    BY <2>1, DiversifiedKeeps
  <2>4. Kept(s) \cap (1 .. Len(s)) = Kept(s)
    BY <2>1 DEF Kept
  <2> HIDE DEF paged
  <2>5. /\ idx \in [DOMAIN paged -> Kept(s)]
        /\ \A i, j \in DOMAIN paged : i < j => idx[i] < idx[j]
        /\ \A m \in Kept(s) : \E i \in DOMAIN paged : idx[i] = m
        /\ \A i \in DOMAIN paged : paged[i] = s[idx[i]]
    BY <2>2, <2>3, <2>4 DEF KeptUpTo
  <2>6. SetOf(paged) = {s[i] : i \in Kept(s)}
    BY <2>5 DEF SetOf
  <2>7. \A i, j \in DOMAIN paged : i < j =>
            \E k, l \in Kept(s) : k < l /\ s[k] = paged[i] /\ s[l] = paged[j]
    BY <2>5
  <2> QED
    BY <2>6, <2>7 DEF s, paged
<1> QED
  BY <1>1, PageInitHolds, PageKeeps, PTL DEF Spec

\* Whatever page is cut, the ads stand in their slots and every post of it, each
\* of which will be marked, on the page, in order.
THEOREM AdsNeverDisplace == Spec => []AdsDisplaceNothing
<1>1. PageInv => AdsDisplaceNothing
  <2> SUFFICES ASSUME PageInv, NEW t \in Tabs
               PROVE  LET page == Page(ranked[t], offset[t])
                          final == WithAds(page)
                          organic == DOMAIN final \ AdSlots
                      IN  /\ Len(final) <= PageSize
                          /\ \A i \in DOMAIN final \cap AdSlots : final[i] = Ad
                          /\ Cardinality(organic) = Len(page)
                          /\ \A i \in organic : final[i] = page[Cardinality(organic \cap 1 .. i)]
    BY DEF AdsDisplaceNothing
  <2>1. ranked[t] \in Seq(Posts) /\ offset[t] \in Nat
    <3>1. Cardinality(Posts) \in Nat
      BY PostsAssumption, FS_CardinalityType
    <3> QED
      BY <3>1 DEF PageInv, TypeOK
  <2>2. Page(ranked[t], offset[t]) \in Seq(Posts) /\ Len(Page(ranked[t], offset[t])) <= PageSize - 2
    BY <2>1, CutIsOfList
  <2> QED
    BY <2>2, AdsPlaced
<1> QED
  BY <1>1, PageInitHolds, PageKeeps, PTL DEF Spec

-----------------------------------------------------------------------------
(* The order that ranking-service sorts by respects what it reads, for every
   count and every age. *)
Candidates == [likes : Nat, comments : Nat, age : Nat]

\* Products of natural numbers are natural numbers; a product of positive ones
\* is positive.
LEMMA ProductNat ==
    ASSUME NEW a \in Nat, NEW b \in Nat
    PROVE  /\ a * b \in Nat
           /\ a > 0 /\ b > 0 => a * b > 0
  BY SMT

\* A product grows with its factors.
LEMMA ProductMonotone ==
    ASSUME NEW a \in Nat, NEW b \in Nat, NEW x \in Nat, NEW y \in Nat,
           a >= b, x >= y
    PROVE  a * x >= b * y
<1>1. a * x >= b * x
  BY SMT
<1>2. b * x >= b * y
  BY SMT
<1> QED
  BY <1>1, <1>2, ProductNat, SMT

\* It grows strictly if one of them does and the other is positive.
LEMMA ProductStrict ==
    ASSUME NEW a \in Nat, NEW b \in Nat, NEW x \in Nat, NEW y \in Nat,
           a >= b, x >= y, b > 0, y > 0, a > b \/ x > y
    PROVE  a * x > b * y
<1>1. CASE a > b
  <2>1. a * y > b * y
    BY <1>1, SMT
  <2>2. a * x >= a * y
    BY SMT
  <2> QED
    BY <2>1, <2>2, ProductNat, SMT
<1>2. CASE x > y
  <2>1. b * x > b * y
    BY <1>2, SMT
  <2>2. a * x >= b * x
    BY SMT
  <2> QED
    BY <2>1, <2>2, ProductNat, SMT
<1> QED
  BY <1>1, <1>2

\* More likes and comments are worth more before decay.
LEMMA EngagementMonotone ==
    ASSUME NEW c \in Candidates, NEW d \in Candidates,
           c.likes >= d.likes, c.comments >= d.comments
    PROVE  /\ Engagement(c) * Scale(d) \in Nat /\ Engagement(d) * Scale(c) \in Nat
           /\ Engagement(d) * Scale(c) > 0
           /\ Engagement(c) * Scale(d) >= Engagement(d) * Scale(c)
           /\ c.likes > d.likes \/ c.comments > d.comments
                => Engagement(c) * Scale(d) > Engagement(d) * Scale(c)
<1> DEFINE L == c.likes  C == c.comments  l == d.likes  k == d.comments
           x == (L + 10) * (l + 10)  y == (C + 5) * (k + 5)
           a == L * (l + 10)  b == l * (L + 10)
           e == C * (k + 5)   f == k * (C + 5)
<1>1. L \in Nat /\ C \in Nat /\ l \in Nat /\ k \in Nat /\ L >= l /\ C >= k
  BY DEF Candidates
<1>2. x \in Nat /\ y \in Nat /\ x > 0 /\ y > 0
  <2>1. L + 10 \in Nat /\ l + 10 \in Nat /\ C + 5 \in Nat /\ k + 5 \in Nat
        /\ L + 10 > 0 /\ l + 10 > 0 /\ C + 5 > 0 /\ k + 5 > 0
    BY <1>1, SMT
  <2> QED
    BY <2>1, ProductNat
<1>3. a \in Nat /\ b \in Nat /\ e \in Nat /\ f \in Nat
  <2>1. L + 10 \in Nat /\ l + 10 \in Nat /\ C + 5 \in Nat /\ k + 5 \in Nat
    BY <1>1, SMT
  <2> QED
    BY <1>1, <2>1, ProductNat
<1>4. a >= b /\ (L > l => a > b)
  BY <1>1, SMT
<1>5. e >= f /\ (C > k => e > f)
  BY <1>1, SMT
\* Multiplied out, both are sums of the same three kinds of products.
<1>6. Engagement(c) * Scale(d) = 160 * (a * y) + 150 * (e * x) + 86 * (x * y)
  <2>1. /\ Engagement(c) = 160 * (L * (C + 5)) + 150 * (C * (L + 10))
                             + 86 * ((L + 10) * (C + 5))
        /\ Scale(d) = (l + 10) * (k + 5)
    BY Zenon DEF Engagement, Scale
  <2> HIDE DEF L, C, l, k
  <2>2. (160 * (L * (C + 5)) + 150 * (C * (L + 10)) + 86 * ((L + 10) * (C + 5)))
            * ((l + 10) * (k + 5))
          = 160 * (a * y) + 150 * (e * x) + 86 * (x * y)
    BY <1>1, SMTT(60)
  <2> QED
    BY <2>1, <2>2, Zenon
<1>7. Engagement(d) * Scale(c) = 160 * (b * y) + 150 * (f * x) + 86 * (x * y)
  <2>1. /\ Engagement(d) = 160 * (l * (k + 5)) + 150 * (k * (l + 10))
                             + 86 * ((l + 10) * (k + 5))
        /\ Scale(c) = (L + 10) * (C + 5)
    BY Zenon DEF Engagement, Scale
  <2>2. (l + 10) * (L + 10) = x /\ (k + 5) * (C + 5) = y
    BY <1>1, SMT
  <2> HIDE DEF L, C, l, k
  <2>3. (160 * (l * (k + 5)) + 150 * (k * (l + 10)) + 86 * ((l + 10) * (k + 5)))
            * ((L + 10) * (C + 5))
          = 160 * (b * ((k + 5) * (C + 5))) + 150 * (f * ((l + 10) * (L + 10)))
              + 86 * (((l + 10) * (L + 10)) * ((k + 5) * (C + 5)))
    BY <1>1, SMTT(60)
  <2> QED
    BY <2>1, <2>2, <2>3, Zenon
<1>8. a * y \in Nat /\ b * y \in Nat /\ e * x \in Nat /\ f * x \in Nat /\ x * y \in Nat
      /\ x * y > 0
  BY <1>2, <1>3, ProductNat
<1>9. a * y >= b * y /\ e * x >= f * x
  BY <1>2, <1>3, <1>4, <1>5, ProductMonotone, SMT
<1>10. (L > l => a * y > b * y) /\ (C > k => e * x > f * x)
  <2>1. ASSUME L > l PROVE a * y > b * y
    <3> HIDE DEF a, b, y
    <3> QED
      BY <1>2, <1>3, <1>4, <2>1, SMT
  <2>2. ASSUME C > k PROVE e * x > f * x
    <3> HIDE DEF e, f, x
    <3> QED
      BY <1>2, <1>3, <1>5, <2>2, SMT
  <2> QED
    BY <2>1, <2>2
<1> QED
  <2> DEFINE u == Engagement(c) * Scale(d)  v == Engagement(d) * Scale(c)
             ay == a * y  by == b * y  ex == e * x  fx == f * x  xy == x * y
  <2>1. u = 160 * ay + 150 * ex + 86 * xy /\ v = 160 * by + 150 * fx + 86 * xy
    BY <1>6, <1>7
  <2>2. ay \in Nat /\ by \in Nat /\ ex \in Nat /\ fx \in Nat /\ xy \in Nat /\ xy > 0
        /\ ay >= by /\ ex >= fx
    BY <1>8, <1>9
  <2>3. (L > l => ay > by) /\ (C > k => ex > fx)
    BY <1>10
  <2> HIDE DEF u, v, ay, by, ex, fx, xy, L, l, C, k
  <2>4. u \in Nat /\ v \in Nat /\ v > 0 /\ u >= v /\ (L > l \/ C > k => u > v)
    BY <2>1, <2>2, <2>3, SMT
  <2> QED
    BY <2>4 DEF u, v, L, l, C, k

\* A post that has no fewer likes and comments than another and is no older,
\* and is ahead of it in one of the three, has the higher score: the sort of
\* ranking-service never puts it behind, whatever the numbers are.
THEOREM DeservingScoresHigher ==
    ASSUME NEW c \in Candidates, NEW d \in Candidates, Deserves(c, d)
    PROVE  ~ ScoresAtLeast(d, c)
<1> DEFINE u == Engagement(c) * Scale(d)  v == Engagement(d) * Scale(c)
           p == Day * (Day + d.age)  q == Day * (Day + c.age)
<1>1. /\ c.likes >= d.likes /\ c.comments >= d.comments /\ c.age <= d.age
      /\ c.likes > d.likes \/ c.comments > d.comments \/ c.age < d.age
  BY DEF Deserves, Candidates
<1>2. u \in Nat /\ v \in Nat /\ v > 0 /\ u >= v
      /\ (c.likes > d.likes \/ c.comments > d.comments => u > v)
  BY <1>1, EngagementMonotone
<1>3. p \in Nat /\ q \in Nat /\ q > 0 /\ p >= q /\ (c.age < d.age => p > q)
  <2> DEFINE m == Day + d.age  n == Day + c.age
  <2>1. Day \in Nat /\ Day > 0 /\ m \in Nat /\ n \in Nat /\ n > 0
        /\ m >= n /\ (c.age < d.age => m > n)
    BY <1>1, DayAssumption DEF Candidates
  <2> HIDE DEF m, n
  <2>2. Day * m \in Nat /\ Day * n \in Nat /\ Day * n > 0
    BY <2>1, ProductNat
  <2>3. Day * m >= Day * n
    BY <2>1, ProductMonotone, SMT
  <2>4. c.age < d.age => Day * m > Day * n
    BY <2>1, SMT
  <2> QED
    BY <2>2, <2>3, <2>4 DEF m, n
<1>4. u * p > v * q
  <2> HIDE DEF u, v, p, q
  <2> QED
    BY <1>1, <1>2, <1>3, ProductStrict
<1>5. u * p \in Nat /\ v * q \in Nat
  <2> HIDE DEF u, v, p, q
  <2> QED
    BY <1>2, <1>3, ProductNat
<1>6. ScoresAtLeast(d, c) <=> v * q >= u * p
  BY DEF ScoresAtLeast, Decay
<1> QED
  <2> HIDE DEF u, v, p, q
  <2> QED
    BY <1>4, <1>5, <1>6, SMT

-----------------------------------------------------------------------------

Results == [rows : SUBSET Posts, err : BOOLEAN]

HydrationTypes ==
    /\ candidates \in [Sources -> SUBSET Posts]
    /\ stage \in [Tabs -> {"idle", "filter", "rank", "mark", "answer"}]
    /\ gathered \in [Tabs -> SUBSET Posts]
    /\ ranked \in [Tabs -> Seq(Posts)]
    /\ asking \in [Tabs -> [Shards -> SUBSET Posts]]
    /\ results \in [Tabs -> Seq(Results)]
    /\ merged \in [Tabs -> SUBSET Posts]
    /\ firstErr \in [Tabs -> BOOLEAN]
    /\ step \in [Tabs -> {"none", "batch", "rank"}]
    /\ counts \in [Tabs -> [Posts -> Nat]]
    /\ commentCount \in [Posts -> Nat]
    /\ unscored \in [Tabs -> SUBSET Posts] /\ scoredAt \in [Tabs -> [Posts -> Nat]]
    /\ scoredFrom \in [Tabs -> Nat] /\ scoredTo \in [Tabs -> Nat]
    /\ now \in Nat

\* The request is in GetBatch or later only while FeedPage has it at its
\* ranking; before that no goroutine of it runs, and only after it there is a
\* ranked list.
StagesAgree ==
    \A t \in Tabs :
        /\ step[t] # "none" => stage[t] = "rank"
        /\ step[t] # "batch" => asking[t] = Nothing /\ results[t] = <<>>
        /\ stage[t] \notin {"mark", "answer"} => ranked[t] = <<>>

RowsIn(channel) == UNION {channel[i].rows : i \in DOMAIN channel}

\* Rows received, in the channel, or asked for.
InFlight(t) == merged[t] \cup RowsIn(results[t]) \cup UNION {asking[t][s] : s \in Shards}

\* While no error was sent every candidate of a known shard is in flight; once
\* the channel is closed without one, all of them have been received.
NothingMissing ==
    \A t \in Tabs :
        /\ step[t] = "batch" /\ ~ Doomed(t) => InFlight(t) = gathered[t] \cap Hydratable
        /\ step[t] = "rank" => merged[t] = gathered[t] \cap Hydratable

\* A list in the order of the scores that given counts have at given times.
SortedBy(list, count, at) ==
    \A i, j \in DOMAIN list : i < j =>
        ScoresAtLeast(Candidate(0, count[list[i]], Age(CreatedAt[list[i]], at[list[i]])),
                      Candidate(0, count[list[j]], Age(CreatedAt[list[j]], at[list[j]])))

\* The list in hand is in the order of the scores, each of its own instant.
RankedSorted == \A t \in Tabs : SortedBy(ranked[t], counts[t], scoredAt[t])

\* The posts of a request that have been scored.
ScoredPosts(t) ==
    (IF step[t] = "rank" THEN merged[t] \ unscored[t] ELSE {}) \cup SetOf(ranked[t])

\* They were scored between the first and the last scoring, which are past.
ScoredInTime ==
    \A t \in Tabs :
        /\ scoredFrom[t] <= now /\ scoredTo[t] <= now
        /\ \A p \in ScoredPosts(t) :
              scoredFrom[t] <= scoredAt[t][p] /\ scoredAt[t][p] <= scoredTo[t]

HInv == HydrationTypes /\ StagesAgree /\ NothingMissing /\ RankedSorted /\ ScoredInTime

-----------------------------------------------------------------------------
(* The channel and the goroutines                                           *)

LEMMA RowsAppended ==
    ASSUME NEW q \in Seq(Results), NEW r \in Results
    PROVE  RowsIn(Append(q, r)) = RowsIn(q) \cup r.rows
<1>1. /\ DOMAIN Append(q, r) = 1 .. Len(q) + 1 /\ DOMAIN q = 1 .. Len(q) /\ Len(q) \in Nat
      /\ Append(q, r)[Len(q) + 1] = r
      /\ \A i \in 1 .. Len(q) : Append(q, r)[i] = q[i]
  OBVIOUS
<1>2. RowsIn(q) \subseteq RowsIn(Append(q, r))
  BY <1>1 DEF RowsIn
<1>3. r.rows \subseteq RowsIn(Append(q, r))
  BY <1>1 DEF RowsIn
<1>4. ASSUME NEW p \in RowsIn(Append(q, r)) PROVE p \in RowsIn(q) \cup r.rows
  <2>1. PICK i \in DOMAIN Append(q, r) : p \in Append(q, r)[i].rows
    BY DEF RowsIn
  <2>2. CASE i = Len(q) + 1
    BY <1>1, <2>1, <2>2
  <2>3. CASE i \in 1 .. Len(q)
    BY <1>1, <2>1, <2>3 DEF RowsIn
  <2> QED
    BY <1>1, <2>1, <2>2, <2>3
<1> QED
  BY <1>2, <1>3, <1>4

LEMMA RowsReceived ==
    ASSUME NEW q \in Seq(Results), q # <<>>
    PROVE  RowsIn(q) = Head(q).rows \cup RowsIn(Tail(q))
<1>1. /\ DOMAIN q = 1 .. Len(q) /\ Len(q) \in Nat \ {0} /\ Head(q) = q[1]
      /\ Tail(q) \in Seq(Results) /\ DOMAIN Tail(q) = 1 .. Len(q) - 1
      /\ \A i \in 1 .. Len(q) - 1 : Tail(q)[i] = q[i + 1]
  OBVIOUS
<1>2. Head(q).rows \subseteq RowsIn(q)
  BY <1>1 DEF RowsIn
<1>3. RowsIn(Tail(q)) \subseteq RowsIn(q)
  <2> SUFFICES ASSUME NEW i \in 1 .. Len(q) - 1 PROVE Tail(q)[i].rows \subseteq RowsIn(q)
    BY <1>1 DEF RowsIn
  <2>1. i + 1 \in DOMAIN q /\ Tail(q)[i] = q[i + 1]
    BY <1>1
  <2> QED
    BY <2>1 DEF RowsIn
<1>4. ASSUME NEW p \in RowsIn(q) PROVE p \in Head(q).rows \cup RowsIn(Tail(q))
  <2>1. PICK i \in DOMAIN q : p \in q[i].rows
    BY DEF RowsIn
  <2>2. CASE i = 1
    BY <1>1, <2>1, <2>2
  <2>3. CASE i # 1
    <3>1. i - 1 \in DOMAIN Tail(q) /\ Tail(q)[i - 1] = q[i]
      BY <1>1, <2>1, <2>3
    <3> QED
      BY <2>1, <3>1 DEF RowsIn
  <2> QED
    BY <2>2, <2>3
<1> QED
  BY <1>2, <1>3, <1>4

LEMMA ChannelEmpty == RowsIn(<<>>) = {}
  BY DEF RowsIn

\* GroupByShard keeps exactly the posts that have a shard.
LEMMA Grouped ==
    ASSUME NEW posts \in SUBSET Posts
    PROVE  /\ GroupByShard(posts) \in [Shards -> SUBSET Posts]
           /\ UNION {GroupByShard(posts)[s] : s \in Shards} = posts \cap Hydratable
  BY HydratableAssumption DEF GroupByShard

\* Ages are numbers of seconds, and do not shrink as the clock goes on.
LEMMA AgeGrows ==
    ASSUME NEW created \in Int, NEW early \in Nat, NEW late \in Nat, early <= late
    PROVE  /\ Age(created, early) \in Nat /\ Age(created, late) \in Nat
           /\ Age(created, early) <= Age(created, late)
<1>1. Second \in Nat /\ Second > 0
  BY DayAssumption
<1>2. ASSUME NEW x \in Nat, NEW y \in Nat, x <= y
      PROVE  x \div Second \in Nat /\ y \div Second \in Nat /\ x \div Second <= y \div Second
  <2> DEFINE a == x \div Second  b == y \div Second
  <2>1. a \in Nat /\ b \in Nat
    BY <1>1
  <2>2. Second * a <= x /\ y < Second * (b + 1)
    BY <1>1
  <2> HIDE DEF a, b
  <2>3. ASSUME b + 1 <= a PROVE FALSE
    <3>1. Second * (b + 1) <= Second * a
      BY <1>1, <2>1, <2>3, ProductMonotone
    <3>2. Second * a \in Nat /\ Second * (b + 1) \in Nat
      BY <1>1, <2>1, ProductNat
    <3> QED
      BY <1>2, <2>2, <3>1, <3>2
  <2>4. a <= b
    BY <2>1, <2>3
  <2> QED
    BY <2>1, <2>4 DEF a, b
<1>3. CASE created < early
  BY <1>2, <1>3 DEF Age
<1>4. CASE ~ created < early
  <2>1. Age(created, early) = 0
    BY <1>4 DEF Age
  <2>2. Age(created, late) \in Nat
    BY <1>2 DEF Age
  <2> QED
    BY <2>1, <2>2
<1> QED
  BY <1>3, <1>4

LEMMA CandidateType ==
    ASSUME HydrationTypes, NEW t \in Tabs, NEW p \in Posts, NEW at \in Nat
    PROVE  CandidateOf(t, p, at) \in Candidates
<1>1. counts[t][p] \in Nat /\ CreatedAt[p] \in Int
  BY CreatedAssumption DEF HydrationTypes
<1>2. Age(CreatedAt[p], at) \in Nat
  <2>1. at <= at
    OBVIOUS
  <2> QED
    BY <1>1, <2>1, AgeGrows
<1> QED
  BY <1>1, <1>2 DEF CandidateOf, Candidate, Candidates

\* A list that stays, with its counts and its times, stays sorted; an empty one is.
LEMMA SortedKept ==
    ASSUME RankedSorted,
           \A t \in Tabs : \/ ranked'[t] = <<>>
                           \/ /\ ranked'[t] = ranked[t]
                              /\ scoredAt'[t] = scoredAt[t] /\ counts'[t] = counts[t]
    PROVE  RankedSorted'
<1>1. \A count, at : SortedBy(<<>>, count, at)
  BY DEF SortedBy
<1> QED
  BY <1>1 DEF RankedSorted

\* Nothing more is scored, and the clock does not go back.
LEMMA InTimeKept ==
    ASSUME HydrationTypes, ScoredInTime, now' \in Nat, now <= now',
           \A t \in Tabs :
               /\ ScoredPosts(t)' \subseteq ScoredPosts(t) \/ ScoredPosts(t)' = {}
               /\ \/ /\ scoredAt'[t] = scoredAt[t]
                     /\ scoredFrom'[t] = scoredFrom[t] /\ scoredTo'[t] = scoredTo[t]
                  \/ ScoredPosts(t)' = {} /\ scoredFrom'[t] = 0 /\ scoredTo'[t] = 0
    PROVE  ScoredInTime'
<1> SUFFICES ASSUME NEW t \in Tabs
             PROVE  /\ scoredFrom'[t] <= now' /\ scoredTo'[t] <= now'
                    /\ \A p \in ScoredPosts(t)' :
                          scoredFrom'[t] <= scoredAt'[t][p] /\ scoredAt'[t][p] <= scoredTo'[t]
  BY DEF ScoredInTime
<1>1. /\ scoredFrom[t] \in Nat /\ scoredTo[t] \in Nat /\ now \in Nat
      /\ scoredFrom[t] <= now /\ scoredTo[t] <= now
  BY DEF HydrationTypes, ScoredInTime
<1>2. scoredFrom'[t] <= now' /\ scoredTo'[t] <= now'
  BY <1>1
<1>3. \A p \in ScoredPosts(t)' :
          scoredFrom'[t] <= scoredAt'[t][p] /\ scoredAt'[t][p] <= scoredTo'[t]
  BY DEF ScoredInTime
<1> QED
  BY <1>2, <1>3

\* The part of the invariant that a step of the goroutines can disturb.
LEMMA FlightKept ==
    ASSUME HInv, HydrationTypes',
           UNCHANGED <<vars, step, counts, scoring, now>>,
           \A t \in Tabs : step[t] # "batch" =>
               asking'[t] = asking[t] /\ results'[t] = results[t] /\ merged'[t] = merged[t],
           \A t \in Tabs : step[t] = "batch" /\ ~ Doomed(t)'
               => ~ Doomed(t) /\ InFlight(t)' = InFlight(t)
    PROVE  HInv'
<1>0. UNCHANGED <<stage, gathered, ranked, unscored, scoredAt, scoredFrom, scoredTo>>
  BY DEF vars, request, scoring
<1>1. StagesAgree'
  BY <1>0 DEF HInv, StagesAgree
<1>2. NothingMissing'
  BY <1>0 DEF HInv, NothingMissing
<1>3. RankedSorted'
  BY <1>0, SortedKept DEF HInv
<1>4. ScoredInTime'
  <2>1. \A t \in Tabs : ScoredPosts(t)' = ScoredPosts(t)
    BY <1>0 DEF ScoredPosts, SetOf
  <2>2. now' \in Nat /\ now <= now'
    BY DEF HInv, HydrationTypes
  <2> QED
    BY <1>0, <2>1, <2>2, InTimeKept DEF HInv
<1> QED
  BY <1>1, <1>2, <1>3, <1>4 DEF HInv

\* A goroutine sends rows or an error: what it asked for moves into the channel.
LEMMA SendKeeps ==
    ASSUME HInv, NEW t \in Tabs, NEW s \in Shards, NEW r \in Results,
           r.rows = asking[t][s] \/ r.err,
           Send(t, s, r), UNCHANGED <<vars, step, counts, scoring, world>>
    PROVE  HInv'
<1>1. HydrationTypes'
  <2>1. Append(results[t], r) \in Seq(Results)
    BY DEF HInv, HydrationTypes
  <2>2. asking' \in [Tabs -> [Shards -> SUBSET Posts]]
    BY DEF HInv, HydrationTypes, Send
  <2>3. results' \in [Tabs -> Seq(Results)]
    BY <2>1 DEF HInv, HydrationTypes, Send
  <2> QED
    BY <2>2, <2>3 DEF HInv, HydrationTypes, Send, vars, request, scoring, world
<1>2. step[t] = "batch"
  BY DEF HInv, StagesAgree, Send, Nothing
<1>3. /\ results'[t] = Append(results[t], r) /\ merged' = merged /\ firstErr' = firstErr
      /\ asking'[t][s] = {}
      /\ \A x \in Shards : x # s => asking'[t][x] = asking[t][x]
      /\ \A u \in Tabs : u # t => asking'[u] = asking[u] /\ results'[u] = results[u]
  BY DEF HInv, HydrationTypes, Send
<1>4. ASSUME NEW u \in Tabs, ~ Doomed(u)' PROVE ~ Doomed(u) /\ InFlight(u)' = InFlight(u)
  <2>1. CASE u # t
    BY <1>3, <1>4, <2>1 DEF Doomed, InFlight
  <2>2. CASE u = t
    <3>1. /\ results[t] \in Seq(Results) /\ Len(results[t]) \in Nat
          /\ DOMAIN results[t] = 1 .. Len(results[t])
          /\ DOMAIN results'[t] = 1 .. Len(results[t]) + 1
          /\ results'[t][Len(results[t]) + 1] = r
          /\ \A i \in 1 .. Len(results[t]) : results'[t][i] = results[t][i]
      BY <1>3 DEF HInv, HydrationTypes
    <3>2. ~ r.err /\ ~ Doomed(t)
      BY <1>3, <1>4, <2>2, <3>1 DEF Doomed
    <3>3. RowsIn(results'[t]) = RowsIn(results[t]) \cup asking[t][s]
      BY <1>3, <3>1, <3>2, RowsAppended
    <3>4. asking[t][s] \cup UNION {asking'[t][x] : x \in Shards} = UNION {asking[t][x] : x \in Shards}
      BY <1>3
    <3>5. InFlight(t)' = merged[t] \cup RowsIn(results'[t]) \cup UNION {asking'[t][x] : x \in Shards}
      BY <1>3 DEF InFlight, RowsIn
    <3> QED
      BY <2>2, <3>2, <3>3, <3>4, <3>5 DEF InFlight
  <2> QED
    BY <2>1, <2>2
<1> QED
  <2>1. UNCHANGED <<vars, step, counts, scoring, now>>
    BY DEF world
  <2>2. \A u \in Tabs : step[u] # "batch" =>
            asking'[u] = asking[u] /\ results'[u] = results[u] /\ merged'[u] = merged[u]
    BY <1>2, <1>3
  <2> QED
    BY <1>1, <1>4, <2>1, <2>2, FlightKept

LEMMA QueryKeeps ==
    ASSUME HInv, NEW t \in Tabs, NEW s \in Shards,
           QueryPostMeta(t, s) \/ QueryPostMetaFails(t, s)
    PROVE  HInv'
<1>1. CASE QueryPostMeta(t, s)
  <2>1. asking[t][s] \in SUBSET Posts
    BY DEF HInv, HydrationTypes
  <2>2. [rows |-> asking[t][s], err |-> FALSE] \in Results
    BY <2>1 DEF Results
  <2> QED
    BY <1>1, <2>2, SendKeeps DEF QueryPostMeta, QueryShard
<1>2. CASE QueryPostMetaFails(t, s)
  <2>1. NoRows \in Results /\ NoRows.err
    BY DEF NoRows, Results
  <2> QED
    BY <1>2, <2>1, SendKeeps DEF QueryPostMetaFails, QueryFails
<1> QED
  BY <1>1, <1>2

\* The caller takes a result: rows move from the channel into its map.
LEMMA ReceiveKeeps ==
    ASSUME HInv, NEW t \in Tabs, ReceiveMetas(t)
    PROVE  HInv'
<1>0. /\ results[t] \in Seq(Results) /\ results[t] # <<>> /\ Head(results[t]) \in Results
      /\ Tail(results[t]) \in Seq(Results)
  BY DEF HInv, HydrationTypes, ReceiveMetas, Receive
<1>1. HydrationTypes'
  <2>1. Head(results[t]).rows \in SUBSET Posts /\ Head(results[t]).err \in BOOLEAN
    BY <1>0 DEF Results
  <2>2. merged' \in [Tabs -> SUBSET Posts] /\ results' \in [Tabs -> Seq(Results)]
    BY <1>0, <2>1 DEF HInv, HydrationTypes, ReceiveMetas, Receive
  <2>3. firstErr' \in [Tabs -> BOOLEAN]
    BY <2>1 DEF HInv, HydrationTypes, ReceiveMetas, Receive
  <2> QED
    BY <2>2, <2>3 DEF HInv, HydrationTypes, ReceiveMetas, Receive, vars, request, scoring, world
<1>2. step[t] = "batch"
  BY <1>0 DEF HInv, StagesAgree
<1>3. /\ results'[t] = Tail(results[t]) /\ merged'[t] = merged[t] \cup Head(results[t]).rows
      /\ firstErr'[t] = (firstErr[t] \/ Head(results[t]).err) /\ asking' = asking
      /\ \A u \in Tabs : u # t => /\ results'[u] = results[u] /\ merged'[u] = merged[u]
                                  /\ firstErr'[u] = firstErr[u]
  BY DEF HInv, HydrationTypes, ReceiveMetas, Receive
<1>4. ASSUME NEW u \in Tabs, ~ Doomed(u)' PROVE ~ Doomed(u) /\ InFlight(u)' = InFlight(u)
  <2>1. CASE u # t
    BY <1>3, <1>4, <2>1 DEF Doomed, InFlight
  <2>2. CASE u = t
    <3>1. ~ firstErr[t] /\ ~ Head(results[t]).err
      BY <1>3, <1>4, <2>2 DEF Doomed
    <3>2. ASSUME NEW i \in DOMAIN results[t] PROVE ~ results[t][i].err
      <4>1. CASE i = 1
        BY <1>0, <3>1, <4>1
      <4>2. CASE i # 1
        <5>1. i - 1 \in DOMAIN Tail(results[t]) /\ Tail(results[t])[i - 1] = results[t][i]
          BY <1>0, <4>2
        <5> QED
          BY <1>3, <1>4, <2>2, <5>1 DEF Doomed
      <4> QED
        BY <4>1, <4>2
    <3>3. RowsIn(results[t]) = Head(results[t]).rows \cup RowsIn(results'[t])
      BY <1>0, <1>3, RowsReceived
    <3>4. InFlight(t)' = merged'[t] \cup RowsIn(results'[t]) \cup UNION {asking[t][x] : x \in Shards}
      BY <1>3 DEF InFlight, RowsIn
    <3> QED
      BY <1>3, <2>2, <3>1, <3>2, <3>3, <3>4 DEF InFlight, Doomed
  <2> QED
    BY <2>1, <2>2
<1> QED
  <2>1. UNCHANGED <<vars, step, counts, scoring, now>>
    BY DEF world, ReceiveMetas
  <2>2. \A u \in Tabs : step[u] # "batch" =>
            asking'[u] = asking[u] /\ results'[u] = results[u] /\ merged'[u] = merged[u]
    BY <1>2, <1>3
  <2> QED
    BY <1>1, <1>4, <2>1, <2>2, FlightKept

-----------------------------------------------------------------------------
(* The other steps of a request                                             *)

LEMMA InitHolds == HydrationInit => HInv
<1> SUFFICES ASSUME HydrationInit PROVE HInv
  OBVIOUS
<1>1. HydrationTypes
  <2>1. Nothing \in [Shards -> SUBSET Posts] /\ NoCounts \in [Posts -> Nat]
    BY DEF Nothing, NoCounts
  <2>2. \A t \in Tabs : <<>> \in Seq(Posts) /\ <<>> \in Seq(Results)
    OBVIOUS
  <2> QED
    BY <2>1, <2>2 DEF HydrationInit, Init, GatherInit, HydrationTypes
<1>2. StagesAgree /\ NothingMissing
  BY DEF HydrationInit, Init, GatherInit, StagesAgree, NothingMissing
<1>3. RankedSorted
  BY DEF HydrationInit, Init, RankedSorted, SortedBy
<1>4. ScoredInTime
  BY DEF HydrationInit, Init, ScoredInTime, ScoredPosts, SetOf
<1> QED
  BY <1>1, <1>2, <1>3, <1>4 DEF HInv

LEMMA BeginGetBatchKeeps ==
    ASSUME HInv, NEW t \in Tabs, BeginGetBatch(t)
    PROVE  HInv'
<1>0. gathered[t] \in SUBSET Posts /\ stage[t] = "rank" /\ step[t] = "none" /\ results[t] = <<>>
  BY DEF HInv, HydrationTypes, StagesAgree, BeginGetBatch
<1>1. /\ asking'[t] = GroupByShard(gathered[t]) /\ merged'[t] = {} /\ firstErr'[t] = FALSE
      /\ step'[t] = "batch" /\ results' = results
      /\ \A u \in Tabs : u # t => /\ asking'[u] = asking[u] /\ merged'[u] = merged[u]
                                  /\ firstErr'[u] = firstErr[u] /\ step'[u] = step[u]
  BY DEF HInv, HydrationTypes, BeginGetBatch, Scatter
<1>2. HydrationTypes'
  <2>1. GroupByShard(gathered[t]) \in [Shards -> SUBSET Posts]
    BY <1>0, Grouped
  <2> QED
    BY <2>1 DEF HInv, HydrationTypes, BeginGetBatch, Scatter, vars, request, scoring, world
<1>3. StagesAgree'
  BY <1>0, <1>1 DEF HInv, StagesAgree, BeginGetBatch, vars, request
<1>4. NothingMissing'
  <2> SUFFICES ASSUME NEW u \in Tabs
               PROVE  /\ step'[u] = "batch" /\ ~ Doomed(u)'
                           => InFlight(u)' = gathered'[u] \cap Hydratable
                      /\ step'[u] = "rank" => merged'[u] = gathered'[u] \cap Hydratable
    BY DEF NothingMissing
  <2>0. gathered' = gathered
    BY DEF BeginGetBatch, vars, request
  <2>1. CASE u # t
    BY <1>1, <2>0, <2>1 DEF HInv, NothingMissing, Doomed, InFlight
  <2>2. CASE u = t
    <3>1. InFlight(t)' = UNION {GroupByShard(gathered[t])[x] : x \in Shards}
      BY <1>0, <1>1, ChannelEmpty DEF InFlight, RowsIn
    <3> QED
      BY <1>0, <1>1, <2>0, <2>2, <3>1, Grouped
  <2> QED
    BY <2>1, <2>2
<1>5. UNCHANGED <<ranked, counts, unscored, scoredAt, scoredFrom, scoredTo, now>>
  BY DEF BeginGetBatch, vars, request, scoring, world
<1>6. RankedSorted'
  BY <1>5, SortedKept DEF HInv
<1>7. ScoredInTime'
  <2>1. \A u \in Tabs : ScoredPosts(u)' \subseteq ScoredPosts(u)
    BY <1>1, <1>5 DEF ScoredPosts, SetOf
  <2>2. now' \in Nat /\ now <= now'
    BY <1>5 DEF HInv, HydrationTypes
  <2> QED
    BY <1>5, <2>1, <2>2, InTimeKept DEF HInv
<1> QED
  BY <1>2, <1>3, <1>4, <1>6, <1>7 DEF HInv

LEMMA BatchGetCountsKeeps ==
    ASSUME HInv, NEW t \in Tabs, BatchGetCounts(t)
    PROVE  HInv'
<1>0. /\ step[t] = "batch" /\ stage[t] = "rank" /\ asking[t] = Nothing /\ results[t] = <<>>
      /\ ~ firstErr[t] /\ ranked[t] = <<>>
  BY DEF HInv, HydrationTypes, StagesAgree, BatchGetCounts, Collected, WaitGroupDone
<1>1. PICK answered \in SUBSET merged[t] :
          counts' = [counts EXCEPT ![t] =
                        [p \in Posts |-> IF p \in answered THEN commentCount[p] ELSE 0]]
  BY DEF BatchGetCounts
<1>2. /\ step' = [step EXCEPT ![t] = "rank"]
      /\ unscored' = [unscored EXCEPT ![t] = merged[t]]
      /\ UNCHANGED <<vars, asking, results, merged, firstErr, scoredAt, scoredFrom, scoredTo, world>>
  BY DEF BatchGetCounts, gathering
<1>3. HydrationTypes'
  <2>1. [p \in Posts |-> IF p \in answered THEN commentCount[p] ELSE 0] \in [Posts -> Nat]
    BY DEF HInv, HydrationTypes
  <2> QED
    BY <1>1, <1>2, <2>1 DEF HInv, HydrationTypes, vars, request, world
<1>4. merged[t] = gathered[t] \cap Hydratable
  <2>1. ~ Doomed(t)
    BY <1>0 DEF Doomed
  <2>2. InFlight(t) = merged[t]
    BY <1>0, ChannelEmpty DEF InFlight, Nothing
  <2> QED
    BY <1>0, <2>1, <2>2 DEF HInv, NothingMissing
<1>5. StagesAgree'
  BY <1>0, <1>2 DEF HInv, HydrationTypes, StagesAgree, vars, request
<1>6. NothingMissing'
  <2> SUFFICES ASSUME NEW u \in Tabs
               PROVE  /\ step'[u] = "batch" /\ ~ Doomed(u)'
                           => InFlight(u)' = gathered'[u] \cap Hydratable
                      /\ step'[u] = "rank" => merged'[u] = gathered'[u] \cap Hydratable
    BY DEF NothingMissing
  <2>1. gathered' = gathered /\ merged' = merged
        /\ Doomed(u)' = Doomed(u) /\ InFlight(u)' = InFlight(u)
    BY <1>2 DEF vars, request, Doomed, InFlight
  <2>2. u # t => step'[u] = step[u]
    BY <1>2 DEF HInv, HydrationTypes
  <2>3. step'[t] = "rank"
    BY <1>2 DEF HInv, HydrationTypes
  <2> QED
    BY <1>4, <2>1, <2>2, <2>3 DEF HInv, NothingMissing
<1>7. RankedSorted'
  <2>1. \A u \in Tabs : \/ ranked'[u] = <<>>
                        \/ /\ ranked'[u] = ranked[u]
                           /\ scoredAt'[u] = scoredAt[u] /\ counts'[u] = counts[u]
    BY <1>0, <1>1, <1>2 DEF HInv, HydrationTypes, vars, request, world
  <2> QED
    BY <2>1, SortedKept DEF HInv
<1>8. ScoredInTime'
  <2>1. ranked' = ranked /\ ranked'[t] = <<>> /\ step'[t] = "rank" /\ merged'[t] \ unscored'[t] = {}
        /\ \A u \in Tabs : u # t => /\ step'[u] = step[u] /\ unscored'[u] = unscored[u]
                                    /\ merged'[u] = merged[u]
    BY <1>0, <1>2 DEF HInv, HydrationTypes, vars, request
  <2>2. ScoredPosts(t)' = {} /\ \A u \in Tabs : u # t => ScoredPosts(u)' = ScoredPosts(u)
    BY <2>1 DEF ScoredPosts, SetOf
  <2>3. now' \in Nat /\ now <= now'
    BY <1>2 DEF HInv, HydrationTypes, world
  <2> QED
    BY <1>2, <2>2, <2>3, InTimeKept DEF HInv
<1> QED
  BY <1>3, <1>5, <1>6, <1>7, <1>8 DEF HInv

\* One more candidate is scored, at this instant.
LEMMA ScoreCandidateKeeps ==
    ASSUME HInv, NEW t \in Tabs, NEW p \in Posts, ScoreCandidate(t, p)
    PROVE  HInv'
<1>1. /\ step[t] = "rank" /\ ranked[t] = <<>> /\ now \in Nat
      /\ scoredFrom[t] \in Nat /\ scoredTo[t] \in Nat
      /\ scoredFrom[t] <= now /\ scoredTo[t] <= now
  BY DEF HInv, HydrationTypes, StagesAgree, ScoredInTime, ScoreCandidate
<1>2. /\ unscored' = [unscored EXCEPT ![t] = unscored[t] \ {p}]
      /\ scoredAt' = [scoredAt EXCEPT ![t] = [scoredAt[t] EXCEPT ![p] = now]]
      /\ scoredFrom' = IF unscored[t] = merged[t] THEN [scoredFrom EXCEPT ![t] = now] ELSE scoredFrom
      /\ scoredTo' = [scoredTo EXCEPT ![t] = now]
      /\ UNCHANGED <<vars, asking, results, merged, firstErr, step, counts, commentCount, now>>
  BY DEF ScoreCandidate, gathering, world
<1>3. UNCHANGED <<candidates, stage, gathered, ranked>>
  BY <1>2 DEF vars, request
<1>4. HydrationTypes'
  <2>1. unscored' \in [Tabs -> SUBSET Posts]
    BY <1>2 DEF HInv, HydrationTypes
  <2>2. scoredAt' \in [Tabs -> [Posts -> Nat]]
    BY <1>1, <1>2 DEF HInv, HydrationTypes
  <2>3. scoredFrom' \in [Tabs -> Nat] /\ scoredTo' \in [Tabs -> Nat]
    BY <1>1, <1>2 DEF HInv, HydrationTypes
  <2> QED
    BY <1>2, <1>3, <2>1, <2>2, <2>3 DEF HInv, HydrationTypes
<1>5. StagesAgree'
  BY <1>2, <1>3 DEF HInv, StagesAgree
<1>6. NothingMissing'
  BY <1>2, <1>3 DEF HInv, NothingMissing, Doomed, InFlight, RowsIn
<1>7. \A u \in Tabs : u # t => /\ unscored'[u] = unscored[u] /\ scoredAt'[u] = scoredAt[u]
                               /\ scoredFrom'[u] = scoredFrom[u] /\ scoredTo'[u] = scoredTo[u]
  BY <1>2 DEF HInv, HydrationTypes
<1>8. RankedSorted'
  <2>1. \A u \in Tabs : \/ ranked'[u] = <<>>
                        \/ /\ ranked'[u] = ranked[u]
                           /\ scoredAt'[u] = scoredAt[u] /\ counts'[u] = counts[u]
    BY <1>1, <1>2, <1>3, <1>7
  <2> QED
    BY <2>1, SortedKept DEF HInv
<1>9. ScoredInTime'
  <2> SUFFICES ASSUME NEW u \in Tabs
               PROVE  /\ scoredFrom'[u] <= now' /\ scoredTo'[u] <= now'
                      /\ \A q \in ScoredPosts(u)' :
                            scoredFrom'[u] <= scoredAt'[u][q] /\ scoredAt'[u][q] <= scoredTo'[u]
    BY DEF ScoredInTime
  <2>1. CASE u # t
    <3>1. ScoredPosts(u)' = ScoredPosts(u)
      BY <1>2, <1>3, <1>7, <2>1 DEF ScoredPosts, SetOf
    <3> QED
      BY <1>2, <1>7, <2>1, <3>1 DEF HInv, ScoredInTime
  <2>2. CASE u = t
    <3>1. /\ scoredTo'[t] = now /\ now' = now
          /\ scoredFrom'[t] = IF unscored[t] = merged[t] THEN now ELSE scoredFrom[t]
          /\ scoredAt'[t][p] = now /\ \A q \in Posts : q # p => scoredAt'[t][q] = scoredAt[t][q]
      BY <1>2 DEF HInv, HydrationTypes
    <3>2. ScoredPosts(t)' = merged[t] \ (unscored[t] \ {p}) /\ ScoredPosts(t)' \subseteq Posts
          /\ ScoredPosts(t) = merged[t] \ unscored[t]
      BY <1>1, <1>2, <1>3 DEF ScoredPosts, SetOf, HInv, HydrationTypes
    <3>3. ASSUME NEW q \in ScoredPosts(t)'
          PROVE  scoredFrom'[t] <= scoredAt'[t][q] /\ scoredAt'[t][q] <= scoredTo'[t]
      <4>1. CASE q = p
        BY <1>1, <3>1, <4>1
      <4>2. CASE q # p
        <5>1. q \in ScoredPosts(t) /\ unscored[t] # merged[t]
          BY <3>2, <4>2
        <5>2. /\ scoredFrom[t] <= scoredAt[t][q] /\ scoredAt[t][q] <= scoredTo[t]
              /\ q \in Posts /\ scoredAt[t][q] \in Nat
          BY <3>2, <5>1 DEF HInv, HydrationTypes, ScoredInTime
        <5> QED
          BY <1>1, <3>1, <4>2, <5>1, <5>2
      <4> QED
        BY <4>1, <4>2
    <3> QED
      BY <1>1, <2>2, <3>1, <3>3
  <2> QED
    BY <2>1, <2>2
<1> QED
  BY <1>4, <1>5, <1>6, <1>8, <1>9 DEF HInv

\* ranking-service answers with the rows of the request, sorted.
LEMMA RankByScoreKeeps ==
    ASSUME HInv, NEW t \in Tabs, RankByScore(t)
    PROVE  HInv'
<1>1. PICK order \in SetToSeqs(merged[t]) :
          Sorted(order, t) /\ ranked' = [ranked EXCEPT ![t] = order]
  BY DEF RankByScore
<1>2. /\ step[t] = "rank" /\ stage[t] = "rank" /\ unscored[t] = {}
      /\ stage' = [stage EXCEPT ![t] = "mark"]
      /\ gathered' = [gathered EXCEPT ![t] = {}]
      /\ step' = [step EXCEPT ![t] = "none"]
      /\ DropGather(t)
      /\ UNCHANGED <<candidates, counts, unscored, scoredAt, scoredFrom, scoredTo, commentCount, now>>
  BY DEF HInv, StagesAgree, RankByScore, scoring, world
<1>3. order \in Seq(Posts) /\ SetOf(order) \subseteq merged[t]
  <2>1. order \in [1 .. Cardinality(merged[t]) -> merged[t]] /\ merged[t] \in SUBSET Posts
    BY DEF SetToSeqs, HInv, HydrationTypes
  <2>2. Cardinality(merged[t]) \in Nat
    BY <2>1, PostsAssumption, FS_Subset, FS_CardinalityType
  <2>3. order \in [1 .. Cardinality(merged[t]) -> Posts]
    BY <2>1
  <2> QED
    BY <2>1, <2>2, <2>3 DEF SetOf
<1>4. HydrationTypes'
  <2>1. <<>> \in Seq(Results) /\ Nothing \in [Shards -> SUBSET Posts]
    BY DEF Nothing
  <2> QED
    BY <1>1, <1>2, <1>3, <2>1 DEF HInv, HydrationTypes, DropGather
<1>5. /\ asking'[t] = Nothing /\ results'[t] = <<>> /\ step'[t] = "none" /\ stage'[t] = "mark"
      /\ ranked'[t] = order
      /\ \A u \in Tabs : u # t =>
            /\ asking'[u] = asking[u] /\ results'[u] = results[u] /\ merged'[u] = merged[u]
            /\ firstErr'[u] = firstErr[u] /\ step'[u] = step[u] /\ stage'[u] = stage[u]
            /\ gathered'[u] = gathered[u] /\ ranked'[u] = ranked[u]
  BY <1>1, <1>2 DEF HInv, HydrationTypes, DropGather
<1>6. StagesAgree'
  BY <1>5 DEF HInv, StagesAgree
<1>7. NothingMissing'
  <2>1. \A u \in Tabs : u # t => /\ Doomed(u)' = Doomed(u) /\ InFlight(u)' = InFlight(u)
    BY <1>5 DEF Doomed, InFlight
  <2> QED
    BY <1>5, <2>1 DEF HInv, NothingMissing
<1>8. RankedSorted'
  <2>1. SortedBy(order, counts[t], scoredAt[t])
    BY <1>1 DEF Sorted, SortedBy, Scored, CandidateOf
  <2> QED
    BY <1>2, <1>5, <2>1 DEF HInv, RankedSorted
<1>9. ScoredInTime'
  <2>1. \A u \in Tabs : ScoredPosts(u)' \subseteq ScoredPosts(u)
    <3>1. ScoredPosts(t)' = SetOf(order) /\ merged[t] \subseteq ScoredPosts(t)
      BY <1>2, <1>5 DEF ScoredPosts, SetOf
    <3>2. \A u \in Tabs : u # t => ScoredPosts(u)' = ScoredPosts(u)
      BY <1>2, <1>5 DEF ScoredPosts, SetOf
    <3> QED
      BY <1>3, <3>1, <3>2
  <2>2. now' \in Nat /\ now <= now'
    BY <1>2 DEF HInv, HydrationTypes
  <2> QED
    BY <1>2, <2>1, <2>2, InTimeKept DEF HInv
<1> QED
  BY <1>4, <1>6, <1>7, <1>8, <1>9 DEF HInv

\* A request that is over, with an answer or an error, leaves nothing behind.
LEMMA RequestOver ==
    ASSUME HInv, NEW t \in Tabs, Finish(t), Forget(t),
           \/ DropGather(t) /\ step' = [step EXCEPT ![t] = "none"]
           \/ step[t] = "none" /\ UNCHANGED <<asking, results, merged, firstErr, step>>,
           UNCHANGED <<candidates, commentCount, now>>
    PROVE  HInv'
<1>0. /\ step'[t] = "none" /\ step' \in [Tabs -> {"none", "batch", "rank"}]
      /\ scoredFrom'[t] = 0 /\ scoredTo'[t] = 0
      /\ \A u \in Tabs : u # t =>
            /\ step'[u] = step[u] /\ counts'[u] = counts[u] /\ unscored'[u] = unscored[u]
            /\ scoredAt'[u] = scoredAt[u] /\ scoredFrom'[u] = scoredFrom[u]
            /\ scoredTo'[u] = scoredTo[u]
  BY DEF HInv, HydrationTypes, Forget
<1>1. /\ asking'[t] = Nothing /\ results'[t] = <<>> /\ stage'[t] = "idle" /\ ranked'[t] = <<>>
      /\ \A u \in Tabs : u # t =>
            /\ asking'[u] = asking[u] /\ results'[u] = results[u] /\ merged'[u] = merged[u]
            /\ firstErr'[u] = firstErr[u] /\ stage'[u] = stage[u]
            /\ gathered'[u] = gathered[u] /\ ranked'[u] = ranked[u]
  BY DEF HInv, HydrationTypes, StagesAgree, DropGather, Finish
<1>2. HydrationTypes'
  <2>1. /\ <<>> \in Seq(Results) /\ <<>> \in Seq(Posts)
        /\ Nothing \in [Shards -> SUBSET Posts]
    BY DEF Nothing
  <2>2. /\ asking' \in [Tabs -> [Shards -> SUBSET Posts]] /\ results' \in [Tabs -> Seq(Results)]
        /\ merged' \in [Tabs -> SUBSET Posts] /\ firstErr' \in [Tabs -> BOOLEAN]
    <3>1. CASE DropGather(t)
      BY <2>1, <3>1 DEF HInv, HydrationTypes, DropGather
    <3>2. CASE UNCHANGED <<asking, results, merged, firstErr>>
      BY <3>2 DEF HInv, HydrationTypes
    <3> QED
      BY <3>1, <3>2
  <2>3. /\ stage' \in [Tabs -> {"idle", "filter", "rank", "mark", "answer"}]
        /\ gathered' \in [Tabs -> SUBSET Posts] /\ ranked' \in [Tabs -> Seq(Posts)]
    BY <2>1 DEF HInv, HydrationTypes, Finish
  <2>4. /\ counts' \in [Tabs -> [Posts -> Nat]] /\ unscored' \in [Tabs -> SUBSET Posts]
        /\ scoredAt' \in [Tabs -> [Posts -> Nat]]
        /\ scoredFrom' \in [Tabs -> Nat] /\ scoredTo' \in [Tabs -> Nat]
    BY DEF HInv, HydrationTypes, Forget, NoCounts
  <2> QED
    BY <1>0, <2>2, <2>3, <2>4 DEF HInv, HydrationTypes
<1>3. StagesAgree'
  BY <1>0, <1>1 DEF HInv, StagesAgree
<1>4. NothingMissing'
  <2>1. \A u \in Tabs : u # t => /\ Doomed(u)' = Doomed(u) /\ InFlight(u)' = InFlight(u)
    BY <1>1 DEF Doomed, InFlight
  <2> QED
    BY <1>0, <1>1, <2>1 DEF HInv, NothingMissing
<1>5. RankedSorted'
  BY <1>0, <1>1, SortedKept DEF HInv
<1>6. ScoredInTime'
  <2>1. ScoredPosts(t)' = {} /\ \A u \in Tabs : u # t => ScoredPosts(u)' = ScoredPosts(u)
    BY <1>0, <1>1 DEF ScoredPosts, SetOf
  <2>2. now' \in Nat /\ now <= now'
    BY DEF HInv, HydrationTypes
  <2> QED
    BY <1>0, <2>1, <2>2, InTimeKept DEF HInv
<1> QED
  BY <1>2, <1>3, <1>4, <1>5, <1>6 DEF HInv

LEMMA RequestFailsKeeps ==
    ASSUME HInv, NEW t \in Tabs, RequestFails(t)
    PROVE  HInv'
  BY RequestOver DEF RequestFails, GetFeedFails, world

LEMMA ReturnKeeps ==
    ASSUME HInv, NEW t \in Tabs, Return(t)
    PROVE  HInv'
<1>1. /\ Finish(t) /\ Forget(t) /\ stage[t] = "answer"
      /\ UNCHANGED <<asking, results, merged, firstErr, step, candidates, commentCount, now>>
  BY DEF Return, Deliver, gathering, world
<1>2. step[t] = "none"
  BY <1>1 DEF HInv, StagesAgree, HydrationTypes
<1> QED
  BY <1>1, <1>2, RequestOver

-----------------------------------------------------------------------------
(* Steps before and beside the ranking                                      *)

\* Of one request only a stage outside hydration and what it gathered change.
LEMMA OuterStageKeeps ==
    ASSUME HInv, NEW t \in Tabs, step[t] = "none",
           NEW to \in {"filter", "rank", "answer"}, ranked[t] = <<>> \/ to = "answer",
           NEW posts \in SUBSET Posts,
           stage' = [stage EXCEPT ![t] = to], gathered' = [gathered EXCEPT ![t] = posts],
           UNCHANGED <<candidates, ranked, hydrating, world>>
    PROVE  HInv'
<1>0. UNCHANGED <<asking, results, merged, firstErr, step, counts,
                  unscored, scoredAt, scoredFrom, scoredTo, commentCount, now>>
  BY DEF hydrating, gathering, scoring, world
<1>1. HydrationTypes'
  BY <1>0 DEF HInv, HydrationTypes
<1>2. \A u \in Tabs : u # t => stage'[u] = stage[u] /\ gathered'[u] = gathered[u]
  BY DEF HInv, HydrationTypes
<1>3. StagesAgree'
  BY <1>0, <1>2 DEF HInv, HydrationTypes, StagesAgree
<1>4. NothingMissing'
  <2>1. \A u \in Tabs : /\ Doomed(u)' = Doomed(u) /\ InFlight(u)' = InFlight(u)
    BY <1>0 DEF Doomed, InFlight
  <2> QED
    BY <1>0, <1>2, <2>1 DEF HInv, NothingMissing
<1>5. RankedSorted'
  BY <1>0, SortedKept DEF HInv
<1>6. ScoredInTime'
  <2>1. \A u \in Tabs : ScoredPosts(u)' = ScoredPosts(u)
    BY <1>0 DEF ScoredPosts, SetOf
  <2> QED
    BY <1>0, <2>1 DEF HInv, ScoredInTime
<1> QED
  BY <1>1, <1>3, <1>4, <1>5, <1>6 DEF HInv

\* Nothing of any request changes.
LEMMA OutsideKeeps ==
    ASSUME HInv, UNCHANGED <<request, hydrating>>,
           candidates' \in [Sources -> SUBSET Posts],
           commentCount' \in [Posts -> Nat], now' \in Nat, now <= now'
    PROVE  HInv'
<1>0. UNCHANGED <<stage, gathered, ranked, asking, results, merged, firstErr, step, counts,
                  unscored, scoredAt, scoredFrom, scoredTo>>
  BY DEF request, hydrating, gathering, scoring
<1>1. HydrationTypes' /\ StagesAgree'
  BY <1>0 DEF HInv, HydrationTypes, StagesAgree
<1>2. NothingMissing'
  BY <1>0 DEF HInv, NothingMissing, InFlight, Doomed
<1>3. RankedSorted'
  BY <1>0, SortedKept DEF HInv
<1>4. ScoredInTime'
  <2>1. \A u \in Tabs : ScoredPosts(u)' = ScoredPosts(u)
    BY <1>0 DEF ScoredPosts, SetOf
  <2> QED
    BY <1>0, <2>1, InTimeKept DEF HInv
<1> QED
  BY <1>1, <1>2, <1>3, <1>4 DEF HInv

LEMMA OtherStagesKeep ==
    ASSUME HInv, OtherStages, UNCHANGED <<hydrating, world>>
    PROVE  HInv'
<1>0. commentCount' \in [Posts -> Nat] /\ now' \in Nat /\ now <= now'
  BY DEF HInv, HydrationTypes, world
<1>1. ASSUME NEW c \in Sources, NEW p \in Posts, Arrives(c, p) \/ Leaves(c, p) PROVE HInv'
  <2>1. UNCHANGED request
    BY <1>1 DEF Arrives, Leaves
  <2>2. candidates \in [Sources -> SUBSET Posts]
    BY DEF HInv, HydrationTypes
  <2>3. candidates[c] \cup {p} \in SUBSET Posts /\ candidates[c] \ {p} \in SUBSET Posts
    BY <2>2
  <2>4. candidates' \in [Sources -> SUBSET Posts]
    BY <1>1, <2>2, <2>3 DEF Arrives, Leaves
  <2> QED
    BY <1>0, <2>1, <2>4, OutsideKeeps
<1>2. ASSUME (\E p \in Posts : SeenExpires(p)) \/ ResetSeenState PROVE HInv'
  <2>1. candidates' \in [Sources -> SUBSET Posts] /\ UNCHANGED request
    BY <1>2 DEF HInv, HydrationTypes, SeenExpires, ResetSeenState
  <2> QED
    BY <1>0, <2>1, OutsideKeeps
<1>3. ASSUME NEW t \in Tabs, Refresh(t) \/ LoadMore(t) PROVE HInv'
  <2>1. /\ stage[t] = "idle" /\ FanIn(t) /\ stage' = [stage EXCEPT ![t] = "filter"]
        /\ UNCHANGED <<candidates, ranked>>
    BY <1>3 DEF Refresh, LoadMore, Begin
  <2>2. step[t] = "none" /\ ranked[t] = <<>>
    BY <2>1 DEF HInv, HydrationTypes, StagesAgree
  <2>3. PICK posts \in SUBSET Posts : gathered' = [gathered EXCEPT ![t] = posts]
    BY <2>1, FanInPosts DEF HInv, HydrationTypes
  <2> QED
    BY <2>1, <2>2, <2>3, OuterStageKeeps
<1>4. ASSUME NEW t \in Tabs, FilterUnseen(t) PROVE HInv'
  <2>1. /\ stage[t] = "filter" /\ stage' = [stage EXCEPT ![t] = "rank"]
        /\ UNCHANGED <<candidates, ranked>>
    BY <1>4 DEF FilterUnseen
  <2>2. step[t] = "none" /\ ranked[t] = <<>>
    BY <2>1 DEF HInv, HydrationTypes, StagesAgree
  <2>3. \E dropped : gathered' = [gathered EXCEPT ![t] = gathered[t] \ dropped]
    BY <1>4 DEF FilterUnseen
  <2>4. PICK posts \in SUBSET Posts : gathered' = [gathered EXCEPT ![t] = posts]
    BY <2>3 DEF HInv, HydrationTypes
  <2> QED
    BY <2>1, <2>2, <2>4, OuterStageKeeps
<1>5. ASSUME NEW t \in Tabs, MarkSeen(t) PROVE HInv'
  <2>1. /\ stage[t] = "mark" /\ stage' = [stage EXCEPT ![t] = "answer"]
        /\ UNCHANGED <<candidates, ranked, gathered>>
    BY <1>5 DEF MarkSeen
  <2>2. step[t] = "none" /\ gathered[t] \in SUBSET Posts
        /\ gathered' = [gathered EXCEPT ![t] = gathered[t]]
    BY <2>1 DEF HInv, HydrationTypes, StagesAgree
  <2> QED
    BY <2>1, <2>2, OuterStageKeeps
<1> QED
  BY <1>1, <1>2, <1>3, <1>4, <1>5 DEF OtherStages

LEMMA WorldKeeps ==
    ASSUME HInv, Tick \/ \E p \in Hydratable : CommentCreated(p)
    PROVE  HInv'
<1>1. UNCHANGED <<candidates, request, hydrating>>
  BY DEF Tick, CommentCreated, vars
<1>2. /\ candidates \in [Sources -> SUBSET Posts] /\ commentCount \in [Posts -> Nat]
      /\ now \in Nat
  BY DEF HInv, HydrationTypes
<1>3. CASE Tick
  <2>1. now' \in Nat /\ now <= now' /\ commentCount' = commentCount
    BY <1>2, <1>3 DEF Tick
  <2> QED
    BY <1>1, <1>2, <2>1, OutsideKeeps
<1>4. ASSUME NEW p \in Hydratable, CommentCreated(p) PROVE HInv'
  <2>1. commentCount' = [commentCount EXCEPT ![p] = commentCount[p] + 1] /\ now' = now
    BY <1>4 DEF CommentCreated
  <2>2. commentCount[p] + 1 \in Nat
    BY <1>2, AuthorAssumption
  <2>3. commentCount' \in [Posts -> Nat]
    BY <1>2, <2>1, <2>2
  <2> QED
    BY <1>1, <1>2, <2>1, <2>3, OutsideKeeps
<1> QED
  BY <1>3, <1>4

LEMMA StepKeeps == HInv /\ [HydrationNext]_allVars => HInv'
<1> SUFFICES ASSUME HInv, [HydrationNext]_allVars PROVE HInv'
  OBVIOUS
<1>1. CASE Tick \/ \E p \in Hydratable : CommentCreated(p)
  BY <1>1, WorldKeeps
<1>2. ASSUME NEW t \in Tabs, Hydrate(t) PROVE HInv'
  BY <1>2, BeginGetBatchKeeps, QueryKeeps, ReceiveKeeps, BatchGetCountsKeeps,
     ScoreCandidateKeeps, RankByScoreKeeps DEF Hydrate
<1>3. ASSUME NEW t \in Tabs, GetBatchFails(t) \/ RequestFails(t) PROVE HInv'
  BY <1>3, RequestFailsKeeps DEF GetBatchFails
<1>4. CASE OtherStages /\ UNCHANGED <<hydrating, world>>
  BY <1>4, OtherStagesKeep
<1>5. ASSUME NEW t \in Tabs, Return(t) PROVE HInv'
  BY <1>5, ReturnKeeps
<1>6. CASE UNCHANGED allVars
  <2>1. /\ candidates' \in [Sources -> SUBSET Posts] /\ commentCount' \in [Posts -> Nat]
        /\ now' \in Nat /\ now <= now' /\ UNCHANGED <<request, hydrating>>
    BY <1>6 DEF HInv, HydrationTypes, allVars, vars, world
  <2> QED
    BY <2>1, OutsideKeeps
<1> QED
  BY <1>1, <1>2, <1>3, <1>4, <1>5, <1>6 DEF HydrationNext

-----------------------------------------------------------------------------
\* Whatever the shards, the counts and the clock do between the candidates and
\* the answer, though each candidate is scored at an instant of its own: a post
\* that is fresher or has more comments than another, and is behind it in
\* neither even if it was scored last and the other first, is never ranked
\* behind it.
THEOREM DeservingAlwaysFirst == HydrationSpec => []DeservingFirst
<1>1. HInv => DeservingFirst
  <2> SUFFICES ASSUME HInv, NEW t \in Tabs, NEW i \in DOMAIN ranked[t], NEW j \in DOMAIN ranked[t],
                      Deserves(CandidateOf(t, ranked[t][i], scoredTo[t]),
                               CandidateOf(t, ranked[t][j], scoredFrom[t]))
               PROVE  i < j
    BY DEF DeservingFirst
  <2> DEFINE p == ranked[t][i]  q == ranked[t][j]
             c == Scored(t, p)  d == Scored(t, q)
             A(x, at) == Age(CreatedAt[x], at)
  <2>1. /\ ranked[t] \in Seq(Posts) /\ i \in Nat /\ j \in Nat
        /\ scoredFrom[t] \in Nat /\ scoredTo[t] \in Nat
        /\ p \in Posts /\ q \in Posts /\ scoredAt[t][p] \in Nat /\ scoredAt[t][q] \in Nat
        /\ CreatedAt[p] \in Int /\ CreatedAt[q] \in Int
    <3>1. /\ ranked[t] \in Seq(Posts) /\ scoredAt[t] \in [Posts -> Nat]
          /\ scoredFrom[t] \in Nat /\ scoredTo[t] \in Nat
      BY DEF HInv, HydrationTypes
    <3>2. i \in Nat /\ j \in Nat /\ p \in Posts /\ q \in Posts
      BY <3>1
    <3> HIDE DEF p, q
    <3> QED
      BY <3>1, <3>2, CreatedAssumption
  <2>2. scoredAt[t][p] <= scoredTo[t] /\ scoredFrom[t] <= scoredAt[t][q]
    BY DEF HInv, ScoredInTime, ScoredPosts, SetOf
  <2>3. c \in Candidates /\ d \in Candidates
    BY <2>1, CandidateType DEF HInv, Scored
  <2>4. /\ A(p, scoredAt[t][p]) \in Nat /\ A(p, scoredTo[t]) \in Nat
        /\ A(q, scoredFrom[t]) \in Nat /\ A(q, scoredAt[t][q]) \in Nat
        /\ A(p, scoredAt[t][p]) <= A(p, scoredTo[t])
        /\ A(q, scoredFrom[t]) <= A(q, scoredAt[t][q])
    BY <2>1, <2>2, AgeGrows
  <2>5. /\ counts[t][p] >= counts[t][q] /\ A(p, scoredTo[t]) <= A(q, scoredFrom[t])
        /\ counts[t][p] # counts[t][q] \/ A(p, scoredTo[t]) # A(q, scoredFrom[t])
    BY DEF Deserves, CandidateOf, Candidate
  <2>6. /\ c = [likes |-> 0, comments |-> counts[t][p], age |-> A(p, scoredAt[t][p])]
        /\ d = [likes |-> 0, comments |-> counts[t][q], age |-> A(q, scoredAt[t][q])]
    BY DEF Scored, CandidateOf, Candidate
  <2>7. Deserves(c, d)
    <3> DEFINE a1 == A(p, scoredAt[t][p])  a2 == A(p, scoredTo[t])
               b1 == A(q, scoredFrom[t])  b2 == A(q, scoredAt[t][q])
    <3>1. a1 <= b2 /\ (counts[t][p] # counts[t][q] \/ a1 # b2)
      <4> HIDE DEF a1, a2, b1, b2
      <4>1. /\ a1 \in Nat /\ a2 \in Nat /\ b1 \in Nat /\ b2 \in Nat /\ a1 <= a2 /\ b1 <= b2
            /\ a2 <= b1 /\ (counts[t][p] # counts[t][q] \/ a2 # b1)
        BY <2>4, <2>5 DEF a1, a2, b1, b2
      <4> QED
        BY <4>1
    <3>2. c.comments >= d.comments /\ c.likes >= d.likes /\ c.age <= d.age
      BY <2>5, <2>6, <3>1
    <3>3. c # d
      BY <2>6, <3>1
    <3> QED
      BY <3>2, <3>3 DEF Deserves
  <2> HIDE DEF c, d
  <2>8. ~ ScoresAtLeast(d, c)
    BY <2>3, <2>7, DeservingScoresHigher
  <2>9. j < i => ScoresAtLeast(d, c)
    BY DEF HInv, RankedSorted, SortedBy, Scored, CandidateOf, c, d
  <2>10. i # j
    BY <2>7 DEF Deserves, c, d
  <2> QED
    BY <2>1, <2>8, <2>9, <2>10
<1> QED
  BY <1>1, InitHolds, StepKeeps, PTL DEF HydrationSpec

\* The pipeline of FeedPage is what the scatter-gather, the counts and the
\* scores implement: the ranked list has every candidate of a known shard and
\* no other post, or the request fails.
THEOREM HydrationRefinesGetFeed == HydrationSpec => ImplementsGetFeed
<1>1. HydrationInit => Init
  BY DEF HydrationInit
<1>2. HInv /\ [HydrationNext]_allVars => [Next]_vars
  <2> SUFFICES ASSUME HInv, [HydrationNext]_allVars PROVE [Next]_vars
    OBVIOUS
  <2>1. CASE Tick \/ \E p \in Hydratable : CommentCreated(p)
    BY <2>1 DEF Tick, CommentCreated
  <2>2. ASSUME NEW t \in Tabs, Hydrate(t) PROVE [Next]_vars
    <3>1. CASE RankByScore(t)
      <4>1. stage[t] = "rank" /\ merged[t] = gathered[t] \cap Hydratable
        BY <3>1 DEF HInv, StagesAgree, NothingMissing, RankByScore
      <4>2. Rank(t)
        BY <3>1, <4>1 DEF RankByScore, Rank
      <4> QED
        BY <4>2 DEF Next, Serve
    <3>2. CASE ~ RankByScore(t)
      BY <2>2, <3>2 DEF Hydrate, BeginGetBatch, QueryPostMeta, QueryPostMetaFails,
                        ReceiveMetas, BatchGetCounts, ScoreCandidate
    <3> QED
      BY <3>1, <3>2
  <2>3. ASSUME NEW t \in Tabs, GetBatchFails(t) \/ RequestFails(t) PROVE [Next]_vars
    BY <2>3 DEF GetBatchFails, RequestFails, Next
  <2>4. CASE OtherStages
    BY <2>4 DEF OtherStages, Next, Serve
  <2>5. ASSUME NEW t \in Tabs, Return(t) PROVE [Next]_vars
    BY <2>5 DEF Return, Next, Serve
  <2>6. CASE UNCHANGED allVars
    BY <2>6 DEF allVars
  <2> QED
    BY <2>1, <2>2, <2>3, <2>4, <2>5, <2>6 DEF HydrationNext
<1> QED
  BY <1>1, <1>2, InitHolds, StepKeeps, PTL DEF HydrationSpec, ImplementsGetFeed, Spec

\* What GetFeed promises of its pages holds with the shards, the goroutines and
\* the scores too: the pipeline they implement is FeedPage's.
THEOREM PagesAsPromised ==
    HydrationSpec => [](NotShownTwice /\ BestOfEachAuthor /\ AdsDisplaceNothing)
<1>1. Spec => [](NotShownTwice /\ BestOfEachAuthor /\ AdsDisplaceNothing)
  BY NeverShownTwice, BestAreKept, AdsNeverDisplace, PTL
<1> QED
  BY <1>1, HydrationRefinesGetFeed, PTL DEF ImplementsGetFeed
=============================================================================
