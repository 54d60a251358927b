--------------------------- MODULE MCFeedSources ---------------------------
(* Small instances of FeedSources: two followers make a celebrity of the    *)
(* cutoff 1, and there may be two of those.                                 *)
EXTENDS FeedSources, TLC

CONSTANTS a1, a2, p0, r1, r2, s1

OnePartition == [a \in Authors |-> p0]

OneUser == [s \in Sessions |-> r1]
SwapAuthors == Permutations(Authors)

\* r2 follows everybody at first: an author is a celebrity once r1 does, too.
OneMoreFollower ==
    /\ SourcesInit
    /\ {r2} \X Authors \subseteq follows

MCSpec == OneMoreFollower /\ [][SourcesNext]_sourceVars
=============================================================================
