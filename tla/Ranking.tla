------------------------------ MODULE Ranking ------------------------------
(* The score of ranking-service, exactly: every probability is a fraction   *)
(* of integers, so that scores are compared by cross-multiplication.  With  *)
(* decay = 1 / (1 + age in days), pLike = likes / (likes + 10) * decay and  *)
(* pComment = comments / (comments + 5) * decay, and the default weights,   *)
(*   score = decay * (1.6 * likes / (likes + 10)                            *)
(*                    + 1.5 * comments / (comments + 5) + 0.86) - 0.45.     *)
(* (pShare is 0.3 * pLike, pDwell 0.7 * decay, pHide 0.15 - 0.1 * decay.)   *)
EXTENDS Integers

CONSTANTS
    Second,     \* ticks of the clock in a second
    Day         \* seconds in 24 hours

ASSUME DayAssumption == Second \in Nat \ {0} /\ Day \in Nat \ {0}

\* What score_candidate reads of a post: its counts and its age.
Candidate(likes, comments, age) ==
    [likes |-> likes, comments |-> comments, age |-> age]

\* num_seconds().max(0): whole seconds, and 0 for a post of a clock ahead of
\* ranking-service's.
Age(created, at) == IF created < at THEN (at - created) \div Second ELSE 0

\* Mutant of Decay: grows with age.
DecayReversed(c) == [num |-> Day + c.age, den |-> Day]

\* recency_decay
Decay(c) == [num |-> Day, den |-> Day + c.age]

Scale(c) == (c.likes + 10) * (c.comments + 5)

\* 100 times the weighted sum of the probabilities, times Scale, before decay.
Engagement(c) ==
      160 * (c.likes * (c.comments + 5))
    + 150 * (c.comments * (c.likes + 10))
    +  86 * Scale(c)

\* score(c) >= score(d): the constant -0.45 cancels.
ScoresAtLeast(c, d) ==
    (Engagement(c) * Scale(d)) * (Decay(c).num * Decay(d).den)
        >= (Engagement(d) * Scale(c)) * (Decay(d).num * Decay(c).den)

\* c is fresher than d, or has more comments or likes, and is behind d in
\* none of the three.
Deserves(c, d) ==
    /\ c # d
    /\ c.likes >= d.likes /\ c.comments >= d.comments /\ c.age <= d.age
=============================================================================
