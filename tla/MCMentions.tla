----------------------------- MODULE MCMentions -----------------------------
(* Small instances of Mentions.                                             *)
EXTENDS Mentions, TLC

CONSTANTS n1, n2, p0, p1, s1, s2

\* Two shards with two virtual nodes each.  n2 is after the last of them and
\* wraps around to shard 0; n1 is placed on shard 1.
TwoShards == <<0, 1>>

Crc == n1 :> 25 @@ n2 :> 45 @@
       <<0, 0>> :> 10 @@ <<1, 0>> :> 20 @@ <<0, 1>> :> 30 @@ <<1, 1>> :> 40

SortedNodes == <<<<0, 0>>, <<1, 0>>, <<0, 1>>, <<1, 1>>>>

\* Users 1 and 3 share a partition.
ByParity == [i \in 1 .. MaxUsers |-> IF i = 2 THEN p1 ELSE p0]

\* Signups are interchangeable; no liveness is checked of them.
SignupSymmetry == Permutations({s1, s2})
=============================================================================
