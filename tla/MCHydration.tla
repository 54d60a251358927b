---------------------------- MODULE MCHydration ----------------------------
(* Small instances of Hydration.                                            *)
EXTENDS Hydration, TLC

CONSTANTS a1, p1, p2, f1, x1, x2, x3

\* All posts are of one author.
OneAuthor == [p \in Posts |-> a1]

\* Posts on two shards; f1 names a shard that does not exist.
TwoShards == p1 :> x1 @@ p2 :> x2 @@ f1 :> x3

\* p2 is half a second younger.
HalfASecond == p1 :> -1 @@ p2 :> 0 @@ f1 :> 0
=============================================================================
