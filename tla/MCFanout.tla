------------------------------ MODULE MCFanout ------------------------------
(* Small instances of Fanout.                                               *)
EXTENDS FanoutRefines, TLC

CONSTANTS a1, a2, p0, p1, r1, r2

\* One author.
OnePartition == a1 :> p0

\* Two authors, on two partitions.
TwoPartitions == a1 :> p0 @@ a2 :> p1

\* r1 is active and follows a1, r2 is dormant and follows a2; r2 makes a
\* celebrity of a1 if he follows him, too.
StartGraph ==
    /\ Init
    /\ active = r1 :> TRUE @@ r2 :> FALSE
    /\ follows \in {{<<r1, a1>>, <<r2, a2>>}, {<<r1, a1>>, <<r2, a1>>, <<r2, a2>>}}

MCFairSpec == StartGraph /\ [][Next]_vars /\ WF_vars(Worker)
=============================================================================
