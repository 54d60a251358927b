----------------------------- MODULE MCFeedPage -----------------------------
(* Small instances of FeedPage: most posts are of one author.               *)
EXTENDS FeedPage

CONSTANTS a1, a2, q1

\* The post q1 is of another author than the rest.
OneOther == [p \in Posts |-> IF p = q1 THEN a2 ELSE a1]

\* Tabs are alike, and so are the posts of one author.
TabAndPostSymmetry == Permutations(Tabs) \cup Permutations(Posts \ {q1})

\* Bound: what follows a failed call to the seen state is not explored, as
\* NotShownTwice says nothing of it.
SeenStateAnswers == ~ seenStateFailed
=============================================================================
