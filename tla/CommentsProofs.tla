--------------------------- MODULE CommentsProofs ---------------------------
(* The counter of a post against its rows, and what readers who share one    *)
(* fetch of its comments are given, however many there are of each.          *)
EXTENDS Comments, FiniteSetTheorems, SequenceTheorems, TLAPS

-----------------------------------------------------------------------------
(* ORDER BY: what a sorted list of a set of numbers is.                      *)

\* Counting the numbers up to each member numbers them in order.
LEMMA SortedExists ==
    ASSUME NEW S \in SUBSET Nat, IsFiniteSet(S)
    PROVE  \E list \in [1 .. Cardinality(S) -> S] :
              \A i, j \in DOMAIN list : i < j => list[i] < list[j]
<1> DEFINE n == Cardinality(S)
           upTo(c) == {d \in S : d <= c}
           rank == [c \in S |-> Cardinality(upTo(c))]
<1>1. ASSUME NEW c \in S
      PROVE  IsFiniteSet(upTo(c)) /\ rank[c] \in 1 .. n
    <2>1. upTo(c) \in SUBSET S /\ c \in upTo(c)
        OBVIOUS
    <2>2. IsFiniteSet(upTo(c)) /\ Cardinality(upTo(c)) <= n
        BY <2>1, FS_Subset
    <2>3. Cardinality(upTo(c)) \in Nat /\ Cardinality(upTo(c)) # 0 /\ n \in Nat
        BY <2>1, <2>2, FS_CardinalityType, FS_EmptySet
    <2>4. rank[c] = Cardinality(upTo(c))
        OBVIOUS
    <2> HIDE DEF rank, upTo, n
    <2> QED
        BY <2>2, <2>3, <2>4
<1>2. ASSUME NEW c \in S, NEW d \in S, c < d
      PROVE  rank[c] < rank[d]
    <2>1. upTo(c) \in SUBSET upTo(d) /\ d \in upTo(d) /\ d \notin upTo(c)
        <3>1. c \in Nat /\ d \in Nat /\ ~ d <= c
            BY <1>2
        <3>2. ASSUME NEW e \in S, e <= c PROVE e <= d
            BY <1>2, <3>1, <3>2
        <3>3. upTo(c) \subseteq upTo(d)
            BY <3>2
        <3>4. d <= d
            BY <3>1
        <3>5. d \in upTo(d) /\ d \notin upTo(c)
            BY <3>1, <3>4
        <3> HIDE DEF upTo
        <3> QED
            BY <3>3, <3>5
    <2>2. upTo(c) # upTo(d)
        BY <2>1
    <2>3. Cardinality(upTo(c)) <= Cardinality(upTo(d)) /\ Cardinality(upTo(c)) # Cardinality(upTo(d))
        BY <1>1, <2>1, <2>2, FS_Subset
    <2>4. Cardinality(upTo(c)) \in Nat /\ Cardinality(upTo(d)) \in Nat
        BY <1>1, FS_CardinalityType
    <2>5. rank[c] = Cardinality(upTo(c)) /\ rank[d] = Cardinality(upTo(d))
        OBVIOUS
    <2> HIDE DEF rank, upTo, n
    <2> QED
        BY <2>3, <2>4, <2>5
<1> HIDE DEF upTo
<1>3. n \in Nat /\ IsFiniteSet(1 .. n) /\ Cardinality(1 .. n) = n
    <2>1. n \in Nat
        BY FS_CardinalityType
    <2> HIDE DEF n
    <2> QED
        BY <2>1, FS_Interval
<1>4. rank \in Injection(S, 1 .. n)
    <2>1. rank \in [S -> 1 .. n]
        BY <1>1
    <2>2. ASSUME NEW c \in S, NEW d \in S, rank[c] = rank[d] PROVE c = d
        <3>1. rank[c] \in Nat /\ rank[d] \in Nat
            BY <1>1, <1>3
        <3>2. ~ c < d /\ ~ d < c
            BY <1>2, <2>2, <3>1
        <3>3. c \in Nat /\ d \in Nat
            OBVIOUS
        <3> QED
            BY <3>2, <3>3
    <2> HIDE DEF rank, n
    <2> QED
        BY <2>1, <2>2 DEF Injection, IsInjective
<1>5. rank \in Surjection(S, 1 .. n)
    BY <1>3, <1>4, FS_Injection
<1>6. \A k \in 1 .. n : \E c \in S : rank[c] = k
    BY <1>5 DEF Surjection
<1> DEFINE list == [k \in 1 .. n |-> CHOOSE c \in S : rank[c] = k]
<1> HIDE DEF rank
<1>7. ASSUME NEW k \in 1 .. n PROVE list[k] \in S /\ rank[list[k]] = k
    BY <1>6
<1>8. list \in [1 .. n -> S] /\ DOMAIN list = 1 .. n
    BY <1>7
<1>9. ASSUME NEW i \in 1 .. n, NEW j \in 1 .. n, i < j PROVE list[i] < list[j]
    <2>1. list[i] \in S /\ list[j] \in S /\ rank[list[i]] = i /\ rank[list[j]] = j
        BY <1>7
    <2> HIDE DEF list
    <2>2. ~ list[j] < list[i] /\ list[i] # list[j]
        <3>1. i \in Nat /\ j \in Nat
            BY <1>3
        <3>2. ASSUME list[j] < list[i] PROVE FALSE
            <4>1. rank[list[j]] < rank[list[i]]
                BY <1>2, <2>1, <3>2
            <4> QED
                BY <1>9, <2>1, <3>1, <4>1
        <3>3. list[i] # list[j]
            BY <1>9, <2>1, <3>1
        <3> QED
            BY <3>2, <3>3
    <2>3. list[i] \in Nat /\ list[j] \in Nat
        BY <2>1
    <2> QED
        BY <2>2, <2>3
<1> HIDE DEF list, n
<1>10. \E l \in [1 .. n -> S] : \A i, j \in DOMAIN l : i < j => l[i] < l[j]
    BY <1>8, <1>9
<1> QED
    BY <1>10 DEF n

\* So the query returns every row once, in order.
LEMMA ByCreatedAtIsTheSet ==
    ASSUME NEW S \in SUBSET Nat, IsFiniteSet(S)
    PROVE  /\ ByCreatedAt(S) \in Seq(S)
           /\ ToSet(ByCreatedAt(S)) = S
           /\ Len(ByCreatedAt(S)) = Cardinality(S)
<1> DEFINE n == Cardinality(S)
           list == ByCreatedAt(S)
<1>1. n \in Nat /\ IsFiniteSet(1 .. n) /\ Cardinality(1 .. n) = n
    <2>1. n \in Nat
        BY FS_CardinalityType
    <2> HIDE DEF n
    <2> QED
        BY <2>1, FS_Interval
<1>2. list \in [1 .. n -> S] /\ \A i, j \in DOMAIN list : i < j => list[i] < list[j]
    BY SortedExists DEF ByCreatedAt
<1> HIDE DEF list, n
<1>3. list \in Injection(1 .. n, S)
    <2>1. ASSUME NEW i \in 1 .. n, NEW j \in 1 .. n, list[i] = list[j] PROVE i = j
        <3>1. list[i] \in S /\ list[j] \in S /\ i \in Nat /\ j \in Nat /\ DOMAIN list = 1 .. n
            BY <1>1, <1>2
        <3>2. list[i] \in Nat /\ ~ list[i] < list[j] /\ ~ list[j] < list[i]
            <4>1. PICK m \in Nat : m = list[i] /\ m = list[j]
                BY <2>1, <3>1
            <4>2. ~ m < m
                OBVIOUS
            <4> QED
                BY <4>1, <4>2
        <3>3. ~ i < j /\ ~ j < i
            BY <1>2, <3>1, <3>2
        <3> QED
            BY <3>1, <3>3
    <2> QED
        BY <1>2, <2>1 DEF Injection, IsInjective
<1>4. list \in Surjection(1 .. n, S)
    <2>1. Cardinality(1 .. n) = Cardinality(S)
        BY <1>1 DEF n
    <2> QED
        BY <1>3, <2>1, FS_Injection
<1>5. ToSet(list) = S
    BY <1>2, <1>4 DEF ToSet, Surjection
<1>6. list \in Seq(S) /\ Len(list) = n
    BY <1>1, <1>2, SeqDef
<1> QED
    BY <1>5, <1>6 DEF list, n

-----------------------------------------------------------------------------
(* The counter.                                                              *)

\* How far its creation got tells where a comment is.
CreationParts ==
    /\ Len(authorOf) <= MaxComments
    /\ \A c \in 1 .. Len(creation) :
          /\ creation[c] = "insert" => c \notin rows /\ c \notin lost
          /\ creation[c] = "count" => c \in rows /\ c \notin lost
          /\ creation[c] = "answer" => c \in rows

\* The rows that are still to be counted.
Uncounted == {c \in rows : creation[c] = "count"}

CountTypes ==
    /\ authorOf \in Seq(Authors) /\ Len(authorOf) = Len(creation)
    /\ creation \in Seq({"insert", "count", "answer", "created", "failed"})
    /\ rows \subseteq 1 .. Len(creation) /\ count \in 0 .. MaxComments
    /\ known \subseteq rows /\ lost \subseteq rows
    /\ failures \in 0 .. MaxFailures

CountInv == CountTypes /\ CreationParts /\ CountAccounted

\* All these sets are finite.
LEMMA RowsFinite ==
    ASSUME CountInv
    PROVE  /\ IsFiniteSet(rows) /\ IsFiniteSet(Uncounted) /\ IsFiniteSet(lost)
           /\ Cardinality(rows) \in Nat /\ Cardinality(Uncounted) \in Nat /\ Cardinality(lost) \in Nat
           /\ count + Cardinality(Uncounted) + Cardinality(lost) = Cardinality(rows)
           /\ Len(creation) \in Nat /\ count \in Nat
<1>1. Len(creation) \in Nat /\ rows \in SUBSET (1 .. Len(creation)) /\ lost \in SUBSET rows
      /\ count \in Nat
    BY CommentBounds DEF CountInv, CountTypes
<1>2. IsFiniteSet(rows)
    <2>1. IsFiniteSet(1 .. Len(creation))
        BY <1>1, FS_Interval
    <2> QED
        BY <1>1, <2>1, FS_Subset
<1>3. IsFiniteSet(Uncounted) /\ IsFiniteSet(lost)
    BY <1>1, <1>2, FS_Subset DEF Uncounted
<1> QED
    BY <1>1, <1>2, <1>3, FS_CardinalityType DEF CountInv, CountAccounted, Uncounted

\* There are no more rows than comments were begun, so no more are counted.
LEMMA CountFits ==
    ASSUME NEW n \in Nat, n <= MaxComments, NEW R \in SUBSET (1 .. n),
           NEW k \in Nat, NEW u \in Nat, NEW l \in Nat, k + u + l = Cardinality(R)
    PROVE  k \in 0 .. MaxComments
<1>1. IsFiniteSet(1 .. n) /\ Cardinality(1 .. n) = n
    BY FS_Interval
<1>2. Cardinality(R) <= n
    BY <1>1, FS_Subset
<1> QED
    BY <1>2, CommentBounds

\* A creation moves on; the others stay where they are.
LEMMA CreationMoves ==
    ASSUME CountTypes, NEW c \in 1 .. Len(creation), NEW st \in {"count", "answer", "created", "failed"},
           creation' = [creation EXCEPT ![c] = st]
    PROVE  /\ creation' \in Seq({"insert", "count", "answer", "created", "failed"})
           /\ Len(creation') = Len(creation)
           /\ creation'[c] = st
           /\ \A d \in 1 .. Len(creation) : d # c => creation'[d] = creation[d]
BY DEF CountTypes

\* A comment that is begun is nowhere yet.
LEMMA BeginCounts ==
    ASSUME CountInv, NEW a \in Authors, BeginComment(a)
    PROVE  /\ CountInv' /\ rows \subseteq rows'
           /\ \A c \in rows : authorOf'[c] = authorOf[c]
<1> DEFINE n == Len(creation)
           St == {"insert", "count", "answer", "created", "failed"}
<1>1. /\ Len(authorOf) < MaxComments /\ authorOf' = Append(authorOf, a)
      /\ creation' = Append(creation, "insert")
      /\ UNCHANGED <<rows, count, lost, failures, known>>
    BY DEF BeginComment
<1>2. /\ authorOf \in Seq(Authors) /\ creation \in Seq(St) /\ "insert" \in St
      /\ Len(authorOf) = n /\ n \in Nat
      /\ rows \subseteq 1 .. n /\ known \subseteq rows /\ lost \subseteq rows
    BY DEF CountInv, CountTypes
<1>3. /\ authorOf' \in Seq(Authors) /\ Len(authorOf') = n + 1
      /\ \A c \in 1 .. n : authorOf'[c] = authorOf[c]
    BY <1>1, <1>2
<1>4. /\ creation' \in Seq(St) /\ Len(creation') = n + 1 /\ creation'[n + 1] = "insert"
      /\ \A c \in 1 .. n : creation'[c] = creation[c]
    <2> HIDE DEF St
    <2> QED
        BY <1>1, <1>2
<1> HIDE DEF n
<1>5. n + 1 \notin rows /\ 1 .. n \subseteq 1 .. (n + 1)
      /\ \A c \in 1 .. (n + 1) : c \in 1 .. n \/ c = n + 1
    BY <1>2
<1>6. CountTypes'
    BY <1>1, <1>2, <1>3, <1>4, <1>5 DEF CountInv, CountTypes
<1>7. CreationParts'
    <2>1. n + 1 <= MaxComments
        BY <1>1, <1>2, CommentBounds
    <2>2. \A c \in 1 .. n :
             /\ creation[c] = "insert" => c \notin rows /\ c \notin lost
             /\ creation[c] = "count" => c \in rows /\ c \notin lost
             /\ creation[c] = "answer" => c \in rows
        BY DEF CountInv, CreationParts, n
    <2> QED
        BY <1>1, <1>2, <1>3, <1>4, <1>5, <2>1, <2>2 DEF CreationParts
<1>8. CountAccounted'
    <2>1. {c \in rows' : creation'[c] = "count"} = {c \in rows : creation[c] = "count"}
        BY <1>1, <1>2, <1>4
    <2> QED
        BY <1>1, <2>1 DEF CountInv, CountAccounted
<1> QED
    BY <1>1, <1>2, <1>3, <1>6, <1>7, <1>8 DEF CountInv

\* What the counter misses changes as the rows do, or the counter does.
LEMMA CountMoves ==
    ASSUME CountInv, NEW c \in 1 .. Len(creation), NEW st \in {"count", "answer", "created", "failed"},
           creation' = [creation EXCEPT ![c] = st],
           failures' \in 0 .. MaxFailures, UNCHANGED authorOf,
           known' \subseteq rows',
           rows' \in {rows, rows \cup {c}}, lost' \in {lost, lost \cup {c}}, count' \in {count, count + 1},
           st \in {"count", "answer"} => c \in rows',
           st = "count" => lost' = lost /\ c \notin lost,
           lost' = lost \/ (c \in rows' /\ c \notin lost),
           \/ /\ creation[c] = "insert" /\ count' = count
              /\ \/ rows' = rows /\ lost' = lost /\ st # "count"
                 \/ rows' = rows \cup {c} /\ (st = "count" <=> lost' = lost)
                                           /\ (st # "count" <=> lost' = lost \cup {c})
           \/ /\ creation[c] = "count" /\ rows' = rows /\ st # "count"
              /\ \/ count' = count + 1 /\ lost' = lost
                 \/ count' = count /\ lost' = lost \cup {c}
           \/ /\ creation[c] \notin {"insert", "count"} /\ st # "count"
              /\ rows' = rows /\ lost' = lost /\ count' = count
    PROVE  CountInv' /\ rows \subseteq rows'
<1> DEFINE here == creation[c]
           St == {"insert", "count", "answer", "created", "failed"}
<1>1. /\ creation' \in Seq(St) /\ Len(creation') = Len(creation) /\ creation'[c] = st
      /\ \A d \in 1 .. Len(creation) : d # c => creation'[d] = creation[d]
    BY CreationMoves DEF CountInv
<1>2. /\ rows \subseteq 1 .. Len(creation) /\ rows' \subseteq 1 .. Len(creation)
      /\ lost \subseteq rows /\ lost' \subseteq rows' /\ Len(creation) <= MaxComments
    BY DEF CountInv, CountTypes, CreationParts
<1>3. /\ here = "insert" => c \notin rows /\ c \notin lost
      /\ here = "count" => c \in rows /\ c \notin lost
    BY DEF CountInv, CreationParts
<1>4. CreationParts'
    <2>1. ASSUME NEW d \in 1 .. Len(creation), d # c
          PROVE  /\ creation'[d] = "insert" => d \notin rows' /\ d \notin lost'
                 /\ creation'[d] = "count" => d \in rows' /\ d \notin lost'
                 /\ creation'[d] = "answer" => d \in rows'
        BY <1>1, <2>1 DEF CountInv, CreationParts
    <2>2. Len(authorOf') <= MaxComments
        BY DEF CountInv, CreationParts
    <2> QED
        BY <1>1, <2>1, <2>2 DEF CreationParts
<1>5. /\ IsFiniteSet(rows) /\ IsFiniteSet(Uncounted) /\ IsFiniteSet(lost)
      /\ Cardinality(rows) \in Nat /\ Cardinality(Uncounted) \in Nat /\ Cardinality(lost) \in Nat
      /\ count + Cardinality(Uncounted) + Cardinality(lost) = Cardinality(rows)
      /\ Len(creation) \in Nat /\ count \in Nat
    BY RowsFinite
<1>6. c \in Uncounted <=> here = "count"
    BY <1>3 DEF Uncounted
<1>7. Uncounted' = IF st = "count" THEN Uncounted \cup {c} ELSE Uncounted \ {c}
    BY <1>1, <1>2 DEF Uncounted
<1>8. /\ Cardinality(rows \cup {c}) = IF c \in rows THEN Cardinality(rows) ELSE Cardinality(rows) + 1
      /\ Cardinality(lost \cup {c}) = IF c \in lost THEN Cardinality(lost) ELSE Cardinality(lost) + 1
      /\ Cardinality(Uncounted \cup {c})
            = IF c \in Uncounted THEN Cardinality(Uncounted) ELSE Cardinality(Uncounted) + 1
      /\ Cardinality(Uncounted \ {c})
            = IF c \in Uncounted THEN Cardinality(Uncounted) - 1 ELSE Cardinality(Uncounted)
    BY <1>5, FS_AddElement, FS_RemoveElement
<1>9. count' + Cardinality(Uncounted') + Cardinality(lost') = Cardinality(rows')
    <2>1. CASE here = "insert"
        <3>1. c \notin rows /\ c \notin lost /\ c \notin Uncounted /\ count' = count
            BY <1>3, <1>6, <2>1
        <3>2. CASE rows' = rows /\ lost' = lost /\ st # "count"
            BY <1>5, <1>7, <1>8, <3>1, <3>2
        <3>3. CASE rows' = rows \cup {c} /\ st = "count" /\ lost' = lost
            BY <1>5, <1>7, <1>8, <3>1, <3>3
        <3>4. CASE rows' = rows \cup {c} /\ st # "count" /\ lost' = lost \cup {c}
            BY <1>5, <1>7, <1>8, <3>1, <3>4
        <3> QED
            BY <2>1, <3>2, <3>3, <3>4
    <2>2. CASE here = "count"
        <3>1. c \in Uncounted /\ c \notin lost /\ rows' = rows /\ Uncounted' = Uncounted \ {c}
            BY <1>3, <1>6, <1>7, <2>2
        <3>2. CASE count' = count + 1 /\ lost' = lost
            BY <1>5, <1>8, <3>1, <3>2
        <3>3. CASE count' = count /\ lost' = lost \cup {c}
            BY <1>5, <1>8, <3>1, <3>3
        <3> QED
            BY <2>2, <3>2, <3>3
    <2>3. CASE here \notin {"insert", "count"}
        BY <1>5, <1>6, <1>7, <1>8, <2>3
    <2> QED
        BY <2>1, <2>2, <2>3
<1>10. CountAccounted'
    BY <1>9 DEF CountAccounted, Uncounted
<1>11. count' \in 0 .. MaxComments
    <2>1. IsFiniteSet(rows') /\ IsFiniteSet(Uncounted') /\ IsFiniteSet(lost')
        <3>1. IsFiniteSet(rows \cup {c}) /\ IsFiniteSet(lost \cup {c})
              /\ IsFiniteSet(Uncounted \cup {c}) /\ IsFiniteSet(Uncounted \ {c})
            BY <1>5, FS_AddElement, FS_RemoveElement
        <3> QED
            BY <1>5, <1>7, <3>1
    <2>2. Cardinality(Uncounted') \in Nat /\ Cardinality(lost') \in Nat /\ count' \in Nat
        BY <1>5, <2>1, FS_CardinalityType
    <2> QED
        BY <1>2, <1>5, <1>9, <2>2, CountFits
<1>12. CountTypes'
    BY <1>1, <1>2, <1>11 DEF CountInv, CountTypes
<1>13. rows \subseteq rows'
    OBVIOUS
<1> QED
    BY <1>4, <1>10, <1>12, <1>13 DEF CountInv

\* Each step of CreateComment, and each of its failures, is such a move.
LEMMA CreateCounts ==
    ASSUME CountInv, CreateComment
    PROVE  /\ CountInv' /\ rows \subseteq rows'
           /\ \A c \in rows : authorOf'[c] = authorOf[c]
<1> DEFINE Result == /\ CountInv' /\ rows \subseteq rows'
                     /\ \A c \in rows : authorOf'[c] = authorOf[c]
<1>1. ASSUME NEW a \in Authors, BeginComment(a) PROVE Result
    BY <1>1, BeginCounts
<1>2. /\ known \subseteq rows /\ failures \in 0 .. MaxFailures
      /\ lost \subseteq rows /\ rows \subseteq 1 .. Len(creation)
    BY DEF CountInv, CountTypes
<1>3. ASSUME NEW c \in 1 .. Len(creation)
      PROVE  /\ creation[c] = "insert" => c \notin rows /\ c \notin lost
             /\ creation[c] = "count" => c \in rows /\ c \notin lost
             /\ creation[c] = "answer" => c \in rows
    BY DEF CountInv, CreationParts
<1>4. ASSUME NEW c \in 1 .. Len(creation), InsertComment(c) PROVE Result
    <2>1. /\ creation[c] = "insert" /\ rows' = rows \cup {c}
          /\ creation' = [creation EXCEPT ![c] = "count"]
          /\ UNCHANGED <<authorOf, count, lost, failures, known>>
        BY <1>4 DEF InsertComment
    <2>2. known' \subseteq rows' /\ failures' \in 0 .. MaxFailures /\ c \in rows' /\ c \notin lost
        BY <1>2, <1>3, <2>1
    <2>3. CountInv' /\ rows \subseteq rows'
        BY <2>1, <2>2, CountMoves
    <2> QED
        BY <2>1, <2>3
<1>5. ASSUME NEW c \in 1 .. Len(creation), IncrCommentCount(c) PROVE Result
    <2>1. /\ creation[c] = "count" /\ count' = count + 1
          /\ creation' = [creation EXCEPT ![c] = "answer"]
          /\ UNCHANGED <<authorOf, rows, lost, failures, known>>
        BY <1>5 DEF IncrCommentCount
    <2>2. known' \subseteq rows' /\ failures' \in 0 .. MaxFailures /\ c \in rows'
        BY <1>2, <1>3, <2>1
    <2>3. CountInv' /\ rows \subseteq rows'
        BY <2>1, <2>2, CountMoves
    <2> QED
        BY <2>1, <2>3
<1>6. ASSUME NEW c \in 1 .. Len(creation), ReturnComment(c) PROVE Result
    <2>1. /\ creation[c] = "answer" /\ known' = known \cup {c}
          /\ creation' = [creation EXCEPT ![c] = "created"]
          /\ UNCHANGED <<authorOf, rows, count, lost, failures>>
        BY <1>6 DEF ReturnComment
    <2>2. known' \subseteq rows' /\ failures' \in 0 .. MaxFailures
        BY <1>2, <1>3, <2>1
    <2>3. CountInv' /\ rows \subseteq rows'
        BY <2>1, <2>2, CountMoves
    <2> QED
        BY <2>1, <2>3
<1>7. ASSUME NEW c \in 1 .. Len(creation), CreateFails(c) PROVE Result
    <2>1. /\ creation[c] \in {"insert", "count", "answer"}
          /\ failures < MaxFailures /\ failures' = failures + 1
          /\ creation' = [creation EXCEPT ![c] = "failed"]
          /\ UNCHANGED <<authorOf, known>>
        BY <1>7 DEF CreateFails
    <2>2. failures' \in 0 .. MaxFailures
        BY <1>2, <2>1, CommentBounds
    <2>3. CASE creation[c] = "insert"
        <3>1. /\ UNCHANGED count
              /\ \/ UNCHANGED <<rows, lost>>
                 \/ rows' = rows \cup {c} /\ lost' = lost \cup {c}
            BY <1>7, <2>3 DEF CreateFails
        <3>2. c \notin lost /\ known' \subseteq rows'
            BY <1>2, <1>3, <2>1, <2>3, <3>1
        <3>3. CASE UNCHANGED <<rows, lost>>
            <4>1. CountInv' /\ rows \subseteq rows'
                BY <2>1, <2>2, <2>3, <3>1, <3>2, <3>3, CountMoves
            <4> QED
                BY <2>1, <4>1
        <3>4. CASE rows' = rows \cup {c} /\ lost' = lost \cup {c}
            <4>1. lost' # lost
                BY <3>2, <3>4
            <4>2. CountInv' /\ rows \subseteq rows'
                BY <2>1, <2>2, <2>3, <3>1, <3>2, <3>4, <4>1, CountMoves
            <4> QED
                BY <2>1, <4>2
        <3> QED
            BY <3>1, <3>3, <3>4
    <2>4. CASE creation[c] = "count"
        <3>1. /\ UNCHANGED rows
              /\ \/ count' = count + 1 /\ UNCHANGED lost
                 \/ lost' = lost \cup {c} /\ UNCHANGED count
            BY <1>7, <2>4 DEF CreateFails
        <3>2. c \notin lost /\ c \in rows' /\ known' \subseteq rows'
            BY <1>2, <1>3, <2>1, <2>4, <3>1
        <3>3. CountInv' /\ rows \subseteq rows'
            BY <2>1, <2>2, <2>4, <3>1, <3>2, CountMoves
        <3> QED
            BY <2>1, <3>3
    <2>5. CASE creation[c] = "answer"
        <3>1. UNCHANGED <<rows, count, lost>>
            BY <1>7, <2>5 DEF CreateFails
        <3>2. CountInv' /\ rows \subseteq rows'
            BY <1>2, <2>1, <2>2, <2>5, <3>1, CountMoves
        <3> QED
            BY <2>1, <3>2
    <2> QED
        BY <2>1, <2>3, <2>4, <2>5
<1> QED
    BY <1>1, <1>4, <1>5, <1>6, <1>7 DEF CreateComment

-----------------------------------------------------------------------------
(* The shared fetch.                                                         *)

Flight == [stage : {"query", "hydrate"}, leader : Readers, members : SUBSET Readers, left : BOOLEAN,
           list : Seq(Ids), named : Seq(BOOLEAN), names : SUBSET Authors]

\* A fetch lists rows, and looks at them in order once it has them.
FlightParts ==
    flight # NoFlight =>
        /\ flight \in Flight
        /\ flight.leader \in flight.members
        /\ ToSet(flight.list) \subseteq rows
        /\ Len(flight.named) <= Len(flight.list)
        /\ flight.stage = "query" => flight.named = <<>>

AnswerParts ==
    /\ DOMAIN call = Readers /\ reads \in 0 .. MaxReads
    /\ \A r \in Readers :
          /\ call[r].stage \in {"idle", "waiting", "answered", "failed"}
          /\ call[r].stage = "answered" => ToSet(call[r].list) \subseteq rows

\* The members of the fetch are those who wait, and all of them are owed the
\* same: what was known when it began, which the query finds.
SharedOwed ==
    /\ \A r \in Readers :
          call[r].stage = "waiting" <=> flight # NoFlight /\ r \in flight.members
    /\ \A q, r \in Readers :
          call[q].stage = "waiting" /\ call[r].stage = "waiting" => call[q].owed = call[r].owed
    /\ \A r \in Readers : call[r].stage = "waiting" =>
          /\ call[r].owed \subseteq rows
          /\ flight.stage = "hydrate" => call[r].owed \subseteq ToSet(flight.list)

\* A name that was found is in the cache of the fetch, and is used from then on.
NamesParts ==
    flight # NoFlight =>
        /\ \A i \in DOMAIN flight.named :
              flight.named[i] => authorOf[flight.list[i]] \in flight.names
        /\ \A i, j \in DOMAIN flight.named :
              /\ i < j
              /\ authorOf[flight.list[i]] = authorOf[flight.list[j]]
              /\ flight.named[i]
              => flight.named[j]

ReadInv == FlightParts /\ AnswerParts /\ SharedOwed /\ NamesParts /\ ListIsFresh /\ NameFoundIsKept

CommentsInv == CountInv /\ ReadInv

\* The types of a fetch under way.
LEMMA FlightTypes ==
    ASSUME FlightParts, flight # NoFlight
    PROVE  /\ flight \in Flight /\ flight.stage \in {"query", "hydrate"}
           /\ flight.leader \in flight.members /\ flight.members \subseteq Readers
           /\ flight.list \in Seq(Ids) /\ flight.named \in Seq(BOOLEAN) /\ flight.names \subseteq Authors
           /\ Len(flight.list) \in Nat /\ Len(flight.named) \in Nat
           /\ DOMAIN flight.list = 1 .. Len(flight.list)
           /\ DOMAIN flight.named = 1 .. Len(flight.named)
           /\ DOMAIN flight.named \subseteq DOMAIN flight.list
           /\ \A i \in DOMAIN flight.list : flight.list[i] \in rows
<1>1. flight \in Flight /\ flight.leader \in flight.members /\ ToSet(flight.list) \subseteq rows
      /\ Len(flight.named) <= Len(flight.list)
    BY DEF FlightParts
<1>2. flight.list \in Seq(Ids) /\ flight.named \in Seq(BOOLEAN) /\ flight.names \subseteq Authors
      /\ flight.members \subseteq Readers /\ flight.stage \in {"query", "hydrate"}
    BY <1>1 DEF Flight
<1>3. /\ Len(flight.list) \in Nat /\ Len(flight.named) \in Nat
      /\ DOMAIN flight.list = 1 .. Len(flight.list)
      /\ DOMAIN flight.named = 1 .. Len(flight.named)
    BY <1>2
<1>4. DOMAIN flight.named \subseteq DOMAIN flight.list
    BY <1>1, <1>3
<1>5. \A i \in DOMAIN flight.list : flight.list[i] \in rows
    BY <1>1 DEF ToSet
<1> QED
    BY <1>1, <1>2, <1>3, <1>4, <1>5

\* A comment that is created or lost changes nothing for those who read.
LEMMA CreateLeavesReads ==
    ASSUME CommentsInv, UNCHANGED readVars, rows \subseteq rows',
           \A c \in rows : authorOf'[c] = authorOf[c]
    PROVE  ReadInv'
<1> USE DEF readVars
<1>1. FlightParts' /\ AnswerParts' /\ SharedOwed'
    BY DEF CommentsInv, ReadInv, FlightParts, AnswerParts, SharedOwed
<1>2. NamesParts'
    <2> SUFFICES ASSUME flight # NoFlight
                 PROVE  /\ \A i \in DOMAIN flight.named :
                              flight.named[i] => authorOf'[flight.list[i]] \in flight.names
                        /\ \A i, j \in DOMAIN flight.named :
                              /\ i < j
                              /\ authorOf'[flight.list[i]] = authorOf'[flight.list[j]]
                              /\ flight.named[i]
                              => flight.named[j]
        BY DEF NamesParts
    <2>1. \A i \in DOMAIN flight.named : authorOf'[flight.list[i]] = authorOf[flight.list[i]]
        BY FlightTypes DEF CommentsInv, ReadInv
    <2> QED
        BY <2>1 DEF CommentsInv, ReadInv, NamesParts
<1>3. ListIsFresh'
    BY DEF CommentsInv, ReadInv, ListIsFresh
<1>4. NameFoundIsKept'
    <2> SUFFICES ASSUME NEW r \in Readers, call[r].stage = "answered",
                        NEW i \in DOMAIN call[r].list, NEW j \in DOMAIN call[r].list, i < j,
                        authorOf'[call[r].list[i]] = authorOf'[call[r].list[j]],
                        call[r].named[i]
                 PROVE  call[r].named[j]
        BY DEF NameFoundIsKept
    <2>1. call[r].list[i] \in rows /\ call[r].list[j] \in rows
        BY DEF CommentsInv, ReadInv, AnswerParts, ToSet
    <2>2. authorOf[call[r].list[i]] = authorOf[call[r].list[j]]
        BY <2>1
    <2> QED
        BY <2>2 DEF CommentsInv, ReadInv, NameFoundIsKept
<1> QED
    BY <1>1, <1>2, <1>3, <1>4 DEF ReadInv

\* What a step that gives no answer leaves of the answers given.
LEMMA AnswersStay ==
    ASSUME ReadInv, UNCHANGED <<rows, authorOf>>,
           \A r \in Readers : call'[r].stage = "answered" => call'[r] = call[r]
    PROVE  /\ ListIsFresh' /\ NameFoundIsKept'
           /\ \A r \in Readers : call'[r].stage = "answered" => ToSet(call'[r].list) \subseteq rows
<1>1. ListIsFresh'
    BY DEF ReadInv, ListIsFresh
<1>2. NameFoundIsKept'
    BY DEF ReadInv, NameFoundIsKept
<1> QED
    BY <1>1, <1>2 DEF ReadInv, AnswerParts

\* Readers change nothing that the counter is about.
LEMMA ReadLeavesCount ==
    ASSUME CountInv, UNCHANGED createVars, known' \subseteq rows, failures' \in 0 .. MaxFailures
    PROVE  CountInv'
BY DEF createVars, CountInv, CountTypes, CreationParts, CountAccounted

\* The entry the leader makes.
LEMMA TakeOffIs ==
    ASSUME NEW r \in Readers
    PROVE  /\ TakeOff(r) \in Flight /\ TakeOff(r) # NoFlight
           /\ TakeOff(r).stage = "query" /\ TakeOff(r).leader = r /\ TakeOff(r).members = {r}
           /\ TakeOff(r).list = <<>> /\ TakeOff(r).named = <<>>
<1>1. <<>> \in Seq(Ids) /\ <<>> \in Seq(BOOLEAN)
    OBVIOUS
<1> QED
    BY <1>1 DEF TakeOff, NoFlight, Flight

\* Who joins a fetch is owed what the others are; who begins one is owed all
\* that is known, which the query is yet to find.
LEMMA BeginListKeeps ==
    ASSUME CommentsInv, NEW r \in Readers, BeginList(r)
    PROVE  CommentsInv'
<1> DEFINE waiting == {q \in Readers : call[q].stage = "waiting"}
           owed == IF waiting = {} THEN known ELSE call[CHOOSE q \in waiting : TRUE].owed
           new == [stage |-> "waiting", owed |-> owed]
<1>1. /\ call[r] = NoCall /\ reads < MaxReads /\ reads' = reads + 1
      /\ flight' = IF flight = NoFlight
                   THEN TakeOff(r) ELSE [flight EXCEPT !.members = flight.members \cup {r}]
      /\ call' = [call EXCEPT ![r] = new]
      /\ UNCHANGED <<createVars, failures, known>>
    BY DEF BeginList, Wait
<1>2. UNCHANGED <<rows, authorOf>>
    BY <1>1 DEF createVars
<1>3. /\ FlightParts /\ AnswerParts /\ SharedOwed /\ NamesParts /\ ReadInv
      /\ DOMAIN call = Readers /\ reads \in 0 .. MaxReads /\ known \subseteq rows
      /\ CountInv /\ failures \in 0 .. MaxFailures
    BY DEF CommentsInv, ReadInv, AnswerParts, CountInv, CountTypes
<1>4. new.stage = "waiting" /\ new.owed = owed /\ call[r].stage = "idle"
    BY <1>1 DEF NoCall
<1> HIDE DEF new
<1>5. call'[r] = new /\ DOMAIN call' = Readers /\ \A q \in Readers \ {r} : call'[q] = call[q]
    BY <1>1, <1>3
<1>6. flight = NoFlight => waiting = {}
    BY <1>3 DEF SharedOwed
<1>7. flight # NoFlight => \A q \in waiting : call[q].owed = owed
    <2> SUFFICES ASSUME flight # NoFlight, NEW q \in waiting PROVE call[q].owed = owed
        OBVIOUS
    <2>1. PICK p \in waiting : owed = call[p].owed
        OBVIOUS
    <2> QED
        BY <1>3, <2>1 DEF SharedOwed
<1>8. owed \subseteq rows /\ (flight.stage = "hydrate" => flight = NoFlight \/ owed \subseteq ToSet(flight.list))
    <2>1. CASE waiting = {}
        <3>1. flight = NoFlight
            <4>1. flight # NoFlight => flight.leader \in waiting
                BY <1>3, FlightTypes DEF SharedOwed
            <4> QED
                BY <2>1, <4>1
        <3> QED
            BY <1>3, <2>1, <3>1
    <2>2. CASE waiting # {}
        <3>1. PICK p \in waiting : owed = call[p].owed
            BY <2>2
        <3> QED
            BY <1>3, <3>1 DEF SharedOwed
    <2> QED
        BY <2>1, <2>2
<1> HIDE DEF owed
<1>9. CountInv'
    BY <1>1, <1>3, ReadLeavesCount
<1>10. AnswerParts' /\ ListIsFresh' /\ NameFoundIsKept'
    <2>1. \A q \in Readers : call'[q].stage = "answered" => call'[q] = call[q]
        BY <1>4, <1>5
    <2>2. /\ ListIsFresh' /\ NameFoundIsKept'
          /\ \A q \in Readers : call'[q].stage = "answered" => ToSet(call'[q].list) \subseteq rows
        BY <1>2, <1>3, <2>1, AnswersStay
    <2>3. reads' \in 0 .. MaxReads
        BY <1>1, <1>3, CommentBounds
    <2>4. \A q \in Readers : call'[q].stage \in {"idle", "waiting", "answered", "failed"}
        BY <1>3, <1>4, <1>5 DEF AnswerParts
    <2> QED
        BY <1>2, <1>5, <2>2, <2>3, <2>4 DEF AnswerParts
<1>11. CASE flight = NoFlight
    <2>1. flight' = TakeOff(r)
        BY <1>1, <1>11
    <2>2. /\ flight' \in Flight /\ flight' # NoFlight
          /\ flight'.stage = "query" /\ flight'.leader = r /\ flight'.members = {r}
          /\ flight'.list = <<>> /\ flight'.named = <<>>
        BY <2>1, TakeOffIs
    <2>3. ToSet(flight'.list) = {} /\ Len(flight'.named) <= Len(flight'.list) /\ DOMAIN flight'.named = {}
        BY <2>2 DEF ToSet
    <2>4. FlightParts'
        BY <2>2, <2>3 DEF FlightParts
    <2>5. NamesParts'
        BY <2>3 DEF NamesParts
    <2>6. \A q \in Readers : call'[q].stage = "waiting" <=> q = r
        BY <1>4, <1>5, <1>6, <1>11
    <2>7. SharedOwed'
        BY <1>2, <1>4, <1>5, <1>8, <2>2, <2>6 DEF SharedOwed
    <2> QED
        BY <1>9, <1>10, <2>4, <2>5, <2>7 DEF CommentsInv, ReadInv
<1>12. CASE flight # NoFlight
    <2>1. flight \in Flight /\ flight' = [flight EXCEPT !.members = flight.members \cup {r}]
        BY <1>1, <1>3, <1>12, FlightTypes
    <2>2. /\ flight' \in Flight /\ flight'.stage = flight.stage /\ flight'.leader = flight.leader
          /\ flight'.members = flight.members \cup {r}
          /\ flight'.list = flight.list /\ flight'.named = flight.named /\ flight'.names = flight.names
        BY <2>1 DEF Flight
    <2>3. flight' # NoFlight
        BY <1>3, <1>12, <2>2, FlightTypes DEF NoFlight
    <2>4. FlightParts'
        BY <1>2, <1>3, <1>12, <2>2 DEF FlightParts
    <2>5. NamesParts'
        BY <1>2, <1>3, <1>12, <2>2 DEF NamesParts
    <2>6. \A q \in Readers : call'[q].stage = "waiting" => call'[q].owed = owed
        BY <1>4, <1>5, <1>7, <1>12
    <2>7. \A q \in Readers : call'[q].stage = "waiting" <=> q \in flight'.members
        BY <1>3, <1>4, <1>5, <1>12, <2>2 DEF SharedOwed
    <2>8. SharedOwed'
        BY <1>2, <1>8, <1>12, <2>2, <2>3, <2>6, <2>7 DEF SharedOwed
    <2> QED
        BY <1>9, <1>10, <2>4, <2>5, <2>8 DEF CommentsInv, ReadInv
<1> QED
    BY <1>11, <1>12

\* A step of the fetch that leaves the callers waiting, and may query the rows.
LEMMA FlightMoves ==
    ASSUME CommentsInv, flight # NoFlight, UNCHANGED <<createVars, call, reads, known>>,
           failures' \in 0 .. MaxFailures,
           flight' \in Flight, flight'.leader = flight.leader, flight'.members = flight.members,
           flight'.stage = "query" => flight'.named = <<>>,
           Len(flight'.named) <= Len(flight'.list),
           \/ flight'.stage = flight.stage /\ flight'.list = flight.list
           \/ ToSet(flight'.list) = rows,
           NamesParts'
    PROVE  CommentsInv'
<1>1. UNCHANGED <<rows, authorOf>> /\ FlightParts /\ AnswerParts /\ SharedOwed /\ ReadInv
    BY DEF createVars, CommentsInv, ReadInv
<1>2. CountInv'
    BY ReadLeavesCount DEF CommentsInv, CountInv, CountTypes
<1>3. flight' # NoFlight
    BY DEF Flight, NoFlight
<1>4. FlightParts'
    BY <1>1, <1>3 DEF FlightParts
<1>5. SharedOwed'
    BY <1>1, <1>3 DEF SharedOwed
<1>6. AnswerParts' /\ ListIsFresh' /\ NameFoundIsKept'
    BY <1>1 DEF ReadInv, AnswerParts, ListIsFresh, NameFoundIsKept
<1> QED
    BY <1>2, <1>4, <1>5, <1>6 DEF CommentsInv, ReadInv

\* The leader's client goes; its fetch goes on.
LEMMA LeaveKeeps ==
    ASSUME CommentsInv, LeaderLeaves
    PROVE  CommentsInv'
<1>1. /\ flight.stage \in {"query", "hydrate"} /\ failures < MaxFailures /\ failures' = failures + 1
      /\ flight' = [flight EXCEPT !.left = TRUE]
      /\ UNCHANGED <<createVars, call, reads, known>>
    BY DEF LeaderLeaves, Flying
<1>2. flight # NoFlight
    BY <1>1 DEF NoFlight
<1>3. /\ FlightParts /\ NamesParts /\ failures \in 0 .. MaxFailures
    BY DEF CommentsInv, ReadInv, CountInv, CountTypes
<1>4. flight \in Flight
    BY <1>2, <1>3, FlightTypes
<1>5. /\ flight' \in Flight /\ flight'.stage = flight.stage /\ flight'.leader = flight.leader
      /\ flight'.members = flight.members
      /\ flight'.list = flight.list /\ flight'.named = flight.named /\ flight'.names = flight.names
    BY <1>1, <1>4 DEF Flight
<1>6. NamesParts'
    BY <1>1, <1>2, <1>3, <1>5 DEF NamesParts, createVars
<1>7. failures' \in 0 .. MaxFailures
    BY <1>1, <1>3, CommentBounds
<1>8. Len(flight'.named) <= Len(flight'.list) /\ (flight'.stage = "query" => flight'.named = <<>>)
    BY <1>2, <1>3, <1>5 DEF FlightParts
<1> QED
    BY <1>1, <1>2, <1>5, <1>6, <1>7, <1>8, FlightMoves

\* The query finds every row there is.
LEMMA QueryKeeps ==
    ASSUME CommentsInv, ListByPost
    PROVE  CommentsInv'
<1> DEFINE list == ByCreatedAt(rows)
<1>1. /\ flight.stage = "query"
      /\ flight' = [flight EXCEPT !.stage = "hydrate", !.list = list]
      /\ UNCHANGED <<createVars, call, reads, failures, known>>
    BY DEF ListByPost
<1>2. flight # NoFlight
    BY <1>1 DEF NoFlight
<1>3. /\ FlightParts /\ CountInv /\ failures \in 0 .. MaxFailures
    BY DEF CommentsInv, ReadInv, CountInv, CountTypes
<1>4. flight \in Flight /\ flight.named = <<>>
    BY <1>1, <1>2, <1>3, FlightTypes DEF FlightParts
<1>5. list \in Seq(rows) /\ ToSet(list) = rows /\ Len(list) = Cardinality(rows)
    <2>1. rows \in SUBSET Nat /\ IsFiniteSet(rows)
        BY <1>3, RowsFinite DEF CountInv, CountTypes
    <2> QED
        BY <2>1, ByCreatedAtIsTheSet
<1>6. list \in Seq(Ids) /\ Len(list) \in Nat
    <2>1. rows \subseteq Ids
        <3>1. rows \subseteq 1 .. Len(creation) /\ Len(creation) \in Nat /\ Len(creation) <= MaxComments
            BY <1>3, RowsFinite DEF CountInv, CountTypes, CreationParts
        <3> QED
            BY <3>1, CommentBounds DEF Ids
    <2> HIDE DEF list
    <2> QED
        BY <1>5, <2>1
<1> HIDE DEF list
<1>7. /\ flight' \in Flight /\ flight'.stage = "hydrate" /\ flight'.leader = flight.leader
      /\ flight'.members = flight.members
      /\ flight'.list = list /\ flight'.named = <<>>
    BY <1>1, <1>4, <1>6 DEF Flight
<1>8. Len(<<>>) = 0 /\ DOMAIN <<>> = {}
    OBVIOUS
<1>9. NamesParts'
    BY <1>7, <1>8 DEF NamesParts
<1>10. Len(flight'.named) <= Len(flight'.list)
    BY <1>6, <1>7, <1>8
<1> QED
    BY <1>1, <1>2, <1>3, <1>5, <1>7, <1>9, <1>10, FlightMoves

\* Naming a comment may leave the cache as it is.
LEMMA SameNames ==
    ASSUME FlightParts, ToName, NEW named
    PROVE  [flight EXCEPT !.named = named] = [flight EXCEPT !.named = named, !.names = flight.names]
<1>1. flight \in Flight
    BY FlightTypes DEF ToName, NoFlight
<1> QED
    BY <1>1 DEF Flight

\* The next comment gets the name of its author, or none if it is not cached.
LEMMA NameKeeps ==
    ASSUME CommentsInv, ToName, NEW found \in BOOLEAN, NEW names,
           flight' = [flight EXCEPT !.named = Append(flight.named, found), !.names = names],
           names \in {flight.names, flight.names \cup {authorOf[Comment]}},
           found => authorOf[Comment] \in names,
           ~ found => authorOf[Comment] \notin flight.names,
           failures' \in 0 .. MaxFailures,
           UNCHANGED <<createVars, call, reads, known>>
    PROVE  CommentsInv'
<1> DEFINE k == Len(flight.named) + 1
<1>1. flight.stage = "hydrate" /\ Len(flight.named) < Len(flight.list)
    BY DEF ToName
<1>2. flight # NoFlight
    BY <1>1 DEF NoFlight
<1>3. FlightParts /\ NamesParts /\ CountInv /\ UNCHANGED authorOf
    BY DEF CommentsInv, ReadInv, createVars
<1>4. /\ flight \in Flight
      /\ flight.list \in Seq(Ids) /\ flight.named \in Seq(BOOLEAN) /\ flight.names \subseteq Authors
      /\ Len(flight.list) \in Nat /\ Len(flight.named) \in Nat
      /\ DOMAIN flight.list = 1 .. Len(flight.list)
      /\ DOMAIN flight.named = 1 .. Len(flight.named)
      /\ \A i \in DOMAIN flight.list : flight.list[i] \in rows
    BY <1>2, <1>3, FlightTypes
<1>5. k \in 1 .. Len(flight.list) /\ Comment = flight.list[k]
    BY <1>1, <1>4 DEF Comment
<1>6. authorOf[Comment] \in Authors
    <2>1. Comment \in 1 .. Len(authorOf) /\ authorOf \in Seq(Authors)
        BY <1>3, <1>4, <1>5 DEF CountInv, CountTypes
    <2> QED
        BY <2>1
<1>7. names \subseteq Authors /\ flight.names \subseteq names
    BY <1>4, <1>6
<1>8. /\ Append(flight.named, found) \in Seq(BOOLEAN)
      /\ Len(Append(flight.named, found)) = k
      /\ Append(flight.named, found)[k] = found
      /\ \A i \in 1 .. Len(flight.named) : Append(flight.named, found)[i] = flight.named[i]
      /\ DOMAIN Append(flight.named, found) = 1 .. k
    BY <1>4
<1>9. /\ flight' \in Flight /\ flight'.stage = flight.stage /\ flight'.leader = flight.leader
      /\ flight'.members = flight.members
      /\ flight'.list = flight.list /\ flight'.named = Append(flight.named, found)
      /\ flight'.names = names
    BY <1>4, <1>7, <1>8 DEF Flight
<1>10. \A i \in 1 .. k : i \in 1 .. Len(flight.named) \/ i = k
    BY <1>4
<1> HIDE DEF k
<1>11. /\ \A i \in DOMAIN flight.named : flight.named[i] => authorOf[flight.list[i]] \in flight.names
       /\ \A i, j \in DOMAIN flight.named :
             /\ i < j
             /\ authorOf[flight.list[i]] = authorOf[flight.list[j]]
             /\ flight.named[i]
             => flight.named[j]
    BY <1>2, <1>3 DEF NamesParts
<1>12. ASSUME NEW i \in 1 .. k, flight'.named[i] PROVE authorOf[flight.list[i]] \in names
    <2>1. CASE i \in 1 .. Len(flight.named)
        BY <1>4, <1>7, <1>8, <1>9, <1>11, <1>12, <2>1
    <2>2. CASE i = k
        BY <1>5, <1>8, <1>9, <1>12, <2>2
    <2> QED
        BY <1>10, <2>1, <2>2
<1>13. ASSUME NEW i \in 1 .. k, NEW j \in 1 .. k, i < j,
              authorOf[flight.list[i]] = authorOf[flight.list[j]], flight'.named[i]
       PROVE  flight'.named[j]
    <2>1. i \in 1 .. Len(flight.named)
        BY <1>4, <1>13 DEF k
    <2>2. flight.named[i] /\ authorOf[flight.list[i]] \in flight.names
        BY <1>4, <1>8, <1>9, <1>11, <1>13, <2>1
    <2>3. CASE j \in 1 .. Len(flight.named)
        BY <1>4, <1>8, <1>9, <1>11, <1>13, <2>1, <2>2, <2>3
    <2>4. CASE j = k
        BY <1>5, <1>8, <1>9, <1>13, <2>2, <2>4
    <2> QED
        BY <1>10, <2>3, <2>4
<1>14. NamesParts'
    BY <1>3, <1>8, <1>9, <1>12, <1>13 DEF NamesParts
<1>15. Len(flight'.named) <= Len(flight'.list) /\ flight'.stage # "query"
    BY <1>1, <1>5, <1>8, <1>9
<1> QED
    BY <1>2, <1>9, <1>14, <1>15, FlightMoves

\* The fetch is over: whoever waited is given its list, which has all it owed
\* them, or its error.
LEMMA GiveKeeps ==
    ASSUME CommentsInv, flight # NoFlight, NEW stage \in {"answered", "failed"}, Give(stage),
           stage = "answered" => flight.stage = "hydrate" /\ ~ ToName,
           flight' = NoFlight, failures' \in 0 .. MaxFailures,
           UNCHANGED <<createVars, reads, known>>
    PROVE  CommentsInv'
<1>1. /\ UNCHANGED <<rows, authorOf>> /\ FlightParts /\ AnswerParts /\ SharedOwed /\ NamesParts /\ ReadInv
      /\ CountInv /\ known \subseteq rows
    BY DEF createVars, CommentsInv, ReadInv, CountInv, CountTypes
<1>2. CountInv'
    BY <1>1, ReadLeavesCount
<1>3. /\ DOMAIN call' = Readers
      /\ \A r \in flight.members : r \in Readers =>
            call'[r].stage = stage /\ call'[r].list = flight.list
            /\ call'[r].named = flight.named /\ call'[r].owed = call[r].owed
      /\ \A r \in Readers \ flight.members : call'[r] = call[r]
    BY DEF Give
<1>4. \A r \in Readers : call[r].stage = "waiting" <=> r \in flight.members
    BY <1>1 DEF SharedOwed
<1>5. FlightParts' /\ NamesParts'
    BY DEF FlightParts, NamesParts
<1>6. SharedOwed'
    <2>1. \A r \in Readers : call'[r].stage # "waiting"
        BY <1>3, <1>4
    <2> QED
        BY <2>1 DEF SharedOwed
<1>7. AnswerParts'
    BY <1>1, <1>3 DEF AnswerParts, FlightParts
<1>8. ListIsFresh'
    <2> SUFFICES ASSUME NEW r \in Readers, call'[r].stage = "answered"
                 PROVE  call'[r].owed \subseteq ToSet(call'[r].list)
        BY DEF ListIsFresh
    <2>1. CASE r \in flight.members
        BY <1>1, <1>3, <1>4, <2>1 DEF SharedOwed
    <2>2. CASE r \notin flight.members
        BY <1>1, <1>3, <2>2 DEF ReadInv, ListIsFresh
    <2> QED
        BY <2>1, <2>2
<1>9. NameFoundIsKept'
    <2> SUFFICES ASSUME NEW r \in Readers, call'[r].stage = "answered",
                        NEW i \in DOMAIN call'[r].list, NEW j \in DOMAIN call'[r].list, i < j,
                        authorOf[call'[r].list[i]] = authorOf[call'[r].list[j]],
                        call'[r].named[i]
                 PROVE  call'[r].named[j]
        BY <1>1 DEF NameFoundIsKept
    <2>1. CASE r \in flight.members
        <3>1. flight.stage = "hydrate" /\ ~ Len(flight.named) < Len(flight.list)
            BY <1>3, <2>1 DEF ToName
        <3>2. DOMAIN flight.named = DOMAIN flight.list
            BY <1>1, <3>1, FlightTypes DEF FlightParts
        <3> QED
            BY <1>1, <1>3, <2>1, <3>2 DEF NamesParts
    <2>2. CASE r \notin flight.members
        BY <1>1, <1>3, <2>2 DEF ReadInv, NameFoundIsKept
    <2> QED
        BY <2>1, <2>2
<1> QED
    BY <1>2, <1>5, <1>6, <1>7, <1>8, <1>9 DEF CommentsInv, ReadInv

\* What an answer shows is rows, and known from then on.
LEMMA ReturnKeeps ==
    ASSUME CommentsInv, NEW r \in Readers, ReturnList(r)
    PROVE  CommentsInv'
<1>1. /\ call[r].stage \in {"answered", "failed"}
      /\ known' = IF call[r].stage = "answered" THEN known \cup ToSet(call[r].list) ELSE known
      /\ call' = [call EXCEPT ![r] = NoCall]
      /\ UNCHANGED <<createVars, flight, reads, failures>>
    BY DEF ReturnList
<1>2. /\ UNCHANGED <<rows, authorOf>> /\ FlightParts /\ AnswerParts /\ SharedOwed /\ NamesParts /\ ReadInv
      /\ CountInv /\ known \subseteq rows /\ failures \in 0 .. MaxFailures
    BY <1>1 DEF createVars, CommentsInv, ReadInv, CountInv, CountTypes
<1>3. known' \subseteq rows
    BY <1>1, <1>2 DEF AnswerParts
<1>4. CountInv'
    BY <1>1, <1>2, <1>3, ReadLeavesCount
<1>5. /\ call'[r].stage = "idle" /\ DOMAIN call' = Readers
      /\ \A q \in Readers \ {r} : call'[q] = call[q]
    BY <1>1, <1>2 DEF AnswerParts, NoCall
<1>6. FlightParts' /\ NamesParts'
    BY <1>1, <1>2 DEF FlightParts, NamesParts
<1>7. \A q \in Readers : call'[q].stage = "waiting" => q # r /\ call'[q] = call[q]
    BY <1>5
<1>8. \A q \in Readers : call[q].stage = "waiting" => q # r /\ call'[q] = call[q]
    BY <1>1, <1>5
<1>9. SharedOwed'
    BY <1>1, <1>2, <1>7, <1>8 DEF SharedOwed
<1>10. AnswerParts' /\ ListIsFresh' /\ NameFoundIsKept'
    <2>1. \A q \in Readers : call'[q].stage = "answered" => call'[q] = call[q]
        BY <1>5
    <2>2. /\ ListIsFresh' /\ NameFoundIsKept'
          /\ \A q \in Readers : call'[q].stage = "answered" => ToSet(call'[q].list) \subseteq rows
        BY <1>2, <2>1, AnswersStay
    <2> QED
        BY <1>1, <1>2, <1>5, <2>2 DEF AnswerParts
<1> QED
    BY <1>4, <1>6, <1>9, <1>10 DEF CommentsInv, ReadInv

\* Every step keeps the invariant.
LEMMA CommentsStep == CommentsInv /\ [Next]_vars => CommentsInv'
<1> SUFFICES ASSUME CommentsInv, [Next]_vars PROVE CommentsInv'
    OBVIOUS
<1>1. CASE CreateComment
    <2>1. /\ CountInv' /\ rows \subseteq rows' /\ \A c \in rows : authorOf'[c] = authorOf[c]
        BY <1>1, CreateCounts DEF CommentsInv
    <2>2. UNCHANGED readVars
        BY <1>1 DEF CreateComment, BeginComment, InsertComment, IncrCommentCount, ReturnComment, CreateFails
    <2>3. ReadInv'
        BY <2>1, <2>2, CreateLeavesReads
    <2> QED
        BY <2>1, <2>3 DEF CommentsInv
<1>2. CASE \E r \in Readers : BeginList(r) \/ ReturnList(r)
    BY <1>2, BeginListKeeps, ReturnKeeps
<1>3. CASE LeaderLeaves
    BY <1>3, LeaveKeeps
<1>4. CASE ListByPost
    BY <1>4, QueryKeeps
<1>5. failures \in 0 .. MaxFailures /\ MaxFailures \in Nat
    BY CommentBounds DEF CommentsInv, CountInv, CountTypes
<1>7. CASE NameFromCache
    <2>1. /\ ToName /\ authorOf[Comment] \in flight.names
          /\ flight' = [flight EXCEPT !.named = Append(flight.named, TRUE)]
          /\ UNCHANGED <<createVars, call, reads, failures, known>>
        BY <1>7 DEF NameFromCache
    <2>2. flight' = [flight EXCEPT !.named = Append(flight.named, TRUE), !.names = flight.names]
        BY <2>1, SameNames DEF CommentsInv, ReadInv
    <2> QED
        BY <1>5, <2>1, <2>2, NameKeeps
<1>8. CASE NameFromUsers
    <2>1. /\ ToName /\ authorOf[Comment] \notin flight.names
          /\ UNCHANGED <<createVars, call, reads, known>>
        BY <1>8 DEF NameFromUsers
    <2>2. CASE /\ UNCHANGED failures
               /\ flight' = [flight EXCEPT !.named = Append(flight.named, TRUE),
                                            !.names = flight.names \cup {authorOf[Comment]}]
        BY <1>5, <2>1, <2>2, NameKeeps
    <2>3. CASE /\ failures' = failures \/ (failures < MaxFailures /\ failures' = failures + 1)
               /\ flight' = [flight EXCEPT !.named = Append(flight.named, FALSE)]
        <3>1. flight' = [flight EXCEPT !.named = Append(flight.named, FALSE), !.names = flight.names]
            BY <2>1, <2>3, SameNames DEF CommentsInv, ReadInv
        <3>2. failures' \in 0 .. MaxFailures
            BY <1>5, <2>3
        <3> QED
            BY <2>1, <3>1, <3>2, NameKeeps
    <2> QED
        BY <1>8, <2>2, <2>3 DEF NameFromUsers
<1>9. CASE Land
    <2>1. flight # NoFlight
        BY <1>9 DEF Land, NoFlight
    <2> QED
        BY <1>5, <1>9, <2>1, GiveKeeps DEF Land
<1>10. CASE ListFails
    <2>1. flight # NoFlight
        BY <1>10 DEF ListFails, NoFlight
    <2>2. failures' \in 0 .. MaxFailures
        BY <1>5, <1>10 DEF ListFails
    <2> QED
        BY <1>10, <2>1, <2>2, GiveKeeps DEF ListFails
<1>11. CASE UNCHANGED vars
    <2>1. UNCHANGED <<authorOf, creation, rows, count, lost, flight, call, reads, failures, known>>
        BY <1>11 DEF vars, createVars, readVars
    <2>2. CountInv'
        BY <2>1, <1>5, ReadLeavesCount DEF CommentsInv, CountInv, CountTypes, createVars
    <2>3. ReadInv'
        BY <2>1, CreateLeavesReads DEF readVars
    <2> QED
        BY <2>2, <2>3 DEF CommentsInv
<1> QED
    BY <1>1, <1>2, <1>3, <1>4, <1>7, <1>8, <1>9, <1>10, <1>11 DEF Next, Fetch

\* Nothing was asked for yet.
LEMMA CommentsInit == Init => CommentsInv
<1> SUFFICES ASSUME Init PROVE CommentsInv
    OBVIOUS
<1>1. /\ authorOf = <<>> /\ creation = <<>> /\ rows = {} /\ count = 0
      /\ flight = NoFlight /\ call = [r \in Readers |-> NoCall]
      /\ reads = 0 /\ failures = 0 /\ known = {} /\ lost = {}
    BY DEF Init
<1>2. CountTypes /\ CreationParts
    BY <1>1, CommentBounds DEF CountTypes, CreationParts
<1>3. CountAccounted
    <2>1. {c \in rows : creation[c] = "count"} = {} /\ Cardinality({}) = 0
        BY <1>1, FS_EmptySet
    <2> QED
        BY <1>1, <2>1 DEF CountAccounted
<1>4. \A r \in Readers : call[r].stage = "idle"
    BY <1>1 DEF NoCall
<1>5. ReadInv
    BY <1>1, <1>4, CommentBounds DEF ReadInv, FlightParts, AnswerParts, SharedOwed, NamesParts, ListIsFresh, NameFoundIsKept
<1> QED
    BY <1>2, <1>3, <1>5 DEF CommentsInv, CountInv

\* The invariant of comments: the counter's part and the readers'.
THEOREM CommentsInvariant == Spec => []CommentsInv
BY CommentsInit, CommentsStep, PTL DEF Spec

\* Types of the comments' state.
THEOREM CommentTypes == Spec => []TypeOK
<1>1. CommentsInv => TypeOK
    BY FlightTypes DEF CommentsInv, CountInv, CountTypes, ReadInv, AnswerParts, TypeOK, FlightParts
<1> QED
    BY <1>1, CommentsInvariant, PTL

\* However many comments are created at once, and wherever INSERT and INCR fail
\* or the process dies, the counter misses the rows still to be counted and
\* those whose INCR was lost, and no others.
THEOREM CountNeverAhead == Spec => []CountAccounted
<1>1. CommentsInv => CountAccounted
    BY DEF CommentsInv, CountInv
<1> QED
    BY <1>1, CommentsInvariant, PTL

\* However many readers join a fetch and whenever, the list each is given has
\* what was acknowledged or shown to anybody before that fetch began.
THEOREM SharedListIsFresh == Spec => []ListIsFresh
<1>1. CommentsInv => ListIsFresh
    BY DEF CommentsInv, ReadInv
<1> QED
    BY <1>1, CommentsInvariant, PTL

\* Whoever leaves or fails during the fetch, a username it found stands at every
\* later comment of that author.
THEOREM FoundNamesStay == Spec => []NameFoundIsKept
<1>1. CommentsInv => NameFoundIsKept
    BY DEF CommentsInv, ReadInv
<1> QED
    BY <1>1, CommentsInvariant, PTL
=============================================================================
