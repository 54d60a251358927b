----------------------------- MODULE MCTimeline -----------------------------
(* Small instances of Timeline: one reader with two requests at once.       *)
EXTENDS Timeline, TLC

CONSTANTS a1, p0, r1, s1, s2

OnePartition == a1 :> p0

OneUser == [s \in Sessions |-> r1]

\* The requests are interchangeable.
SessionSymmetry == Permutations(Sessions)

-----------------------------------------------------------------------------
\* Bound: a steady follower whose activity lapses at some moment or has
\* lapsed, and a worker younger than its stub's deadline: other changes of the
\* graph and the deadline concern the deliveries alone, which Fanout_worker
\* checks.  The worker crashes once or fails at one record; a post whose
\* publish fails is like one that is not published yet.
Steady ==
    /\ follows = Readers \X Authors
    /\ ~ stubExpired
    /\ crashes + Cardinality({i \in handled[p0] : log[p0][i] \notin completed}) <= 1
    /\ \A p \in DOMAIN authorOf : p \in publishing \/ \E i \in DOMAIN log[p0] : log[p0][i] = p
=============================================================================
