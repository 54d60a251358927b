---------------------------- MODULE MCEngagement ----------------------------
(* Small instances of Engagement: two users whose IDs fall into the same    *)
(* sub-counter of the post.                                                 *)
EXTENDS Engagement, TLC

CONSTANTS u1, u2, r1, r2

SameSubShard == [u \in Users |-> 0]

\* The requests are interchangeable.
RequestSymmetry == Permutations(Requests)
=============================================================================
