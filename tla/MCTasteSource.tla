--------------------------- MODULE MCTasteSource ---------------------------
(* Small instances of TasteSource.                                          *)
EXTENDS TasteSource, TLC

CONSTANTS p0, p1, a1, a2, x1, x2, r1

\* Two authors: on two shards, and keyed into two partitions.
TwoPartitions == a1 :> p0 @@ a2 :> p1
TwoShards == a1 :> x1 @@ a2 :> x2

OneUser == r1 :> a1
=============================================================================
