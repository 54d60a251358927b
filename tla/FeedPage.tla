------------------------------ MODULE FeedPage ------------------------------
(* FeedService.GetFeed for one viewer: gather candidates, drop what was     *)
(* seen, rank, cap the posts of an author, cut a page at the cursor's       *)
(* offset, insert ads, mark the page seen.  Several tabs of the viewer may  *)
(* be inside GetFeed at once, and the candidates change under them.         *)
EXTENDS Naturals, Sequences, FiniteSets, SequencesExt

CONSTANTS
    Posts, Authors, AuthorOf,
    Hydratable,         \* posts whose ID names a shard of the topology
    Sources,            \* in-network, celebrity, vector
    Tabs,               \* clients of the viewer: each waits for its answer
                        \*   before it asks again
    Ad,
    PageSize, MaxPostsPerAuthor,
    AdSlots,            \* 3 and 8
    MaxExpiries,        \* bound: seen posts that come of age, resets, and
                        \*   candidates that fall out of their source
    MaxFailures         \* bound: calls that fail inside GetFeed

ASSUME AuthorAssumption == AuthorOf \in [Posts -> Authors] /\ Hydratable \subseteq Posts
ASSUME PageAssumption ==
    /\ PageSize \in Nat /\ MaxPostsPerAuthor \in Nat \ {0}
    /\ AdSlots \subseteq Nat \ {0} /\ IsFiniteSet(AdSlots) /\ Cardinality(AdSlots) = 2
    /\ PageSize > 2
ASSUME SourcesAssumption == IsFiniteSet(Sources)
ASSUME FeedBounds == MaxExpiries \in Nat /\ MaxFailures \in Nat

VARIABLES
    candidates,     \* what each source would answer now
    seen,           \* seen:user:<id>: members within SEEN_STATE_TTL_SECONDS
    stage, offset,  \* of the request of each tab: position, cursor.Offset
    gathered,       \* its local "ordered", then "unseen"
    ranked,         \* the answer of ranking-service
    nextCursor,     \* the offset in the tab's latest cursor
    more,           \* the tab shows "load more": its last page was not empty
    expiries, failures,     \* counters of the bounds
    shown,          \* history: <<t, p>>: p given to t since it was unseen
    repeated,       \* history: <<t, p>>: p given to t twice since then
    lost,           \* history: marked, and an answer with it did not arrive
    seenStateFailed \* history: a call to the seen state has failed

request == <<stage, offset, gathered, ranked>>
client  == <<nextCursor, more>>
counters == <<expiries, failures>>
history == <<shown, repeated, lost, seenStateFailed>>
vars    == <<candidates, seen, request, client, counters, history>>

SetOf(s) == {s[i] : i \in DOMAIN s}

AuthorCount(s, a) == Cardinality({i \in DOMAIN s : AuthorOf[s[i]] = a})

\* Mutant of Diversified: off by one.
DiversifiedOneMore(s) ==
    FoldLeft(LAMBDA out, p :
                 IF AuthorCount(out, AuthorOf[p]) > MaxPostsPerAuthor THEN out
                 ELSE Append(out, p),
             <<>>, s)

\* applyDiversity
Diversified(s) ==
    FoldLeft(LAMBDA out, p :
                 IF AuthorCount(out, AuthorOf[p]) >= MaxPostsPerAuthor THEN out
                 ELSE Append(out, p),
             <<>>, s)

AtMost(m, n) == IF m < n THEN m ELSE n

\* Mutant of Start: off by one.
StartOneLater(s, from) == AtMost(from + 1, Len(s))

\* start of the page, clamped to the list.
Start(s, from) == AtMost(from, Len(s))

\* end of the page: two slots are reserved for ads.
End(s, from) == AtMost(Start(s, from) + PageSize - 2, Len(s))

Page(s, from) == SubSeq(Diversified(s), Start(Diversified(s), from) + 1, End(Diversified(s), from))

\* The offset in the next cursor.
NextOffset(s, from) == End(Diversified(s), from)

\* Mutant of WithAds: an ad takes the place of a post.
WithAdsInstead(items) ==
    LET Place(acc, pos) ==
            IF acc.done THEN acc
            ELSE IF pos \in AdSlots THEN [acc EXCEPT !.out = Append(@, Ad), !.placed = @ + 1]
            ELSE IF acc.placed >= Len(items) THEN [acc EXCEPT !.done = TRUE]
            ELSE [acc EXCEPT !.out = Append(@, items[acc.placed + 1]), !.placed = @ + 1]
    IN  FoldLeft(Place, [out |-> <<>>, placed |-> 0, done |-> FALSE],
                 [pos \in 1 .. PageSize |-> pos]).out

\* insertAds: the slots in turn; it stops at the first one with nothing left
\* to put into it.
WithAds(items) ==
    LET Place(acc, pos) ==
            IF acc.done THEN acc
            ELSE IF pos \in AdSlots THEN [acc EXCEPT !.out = Append(@, Ad)]
            ELSE IF acc.placed >= Len(items) THEN [acc EXCEPT !.done = TRUE]
            ELSE [acc EXCEPT !.out = Append(@, items[acc.placed + 1]), !.placed = @ + 1]
    IN  FoldLeft(Place, [out |-> <<>>, placed |-> 0, done |-> FALSE],
                 [pos \in 1 .. PageSize |-> pos]).out

-----------------------------------------------------------------------------
Init ==
    /\ candidates = [c \in Sources |-> {}]
    /\ seen = {}
    /\ stage = [t \in Tabs |-> "idle"] /\ offset = [t \in Tabs |-> 0]
    /\ gathered = [t \in Tabs |-> {}] /\ ranked = [t \in Tabs |-> <<>>]
    /\ nextCursor = [t \in Tabs |-> 0] /\ more = [t \in Tabs |-> FALSE]
    /\ expiries = 0 /\ failures = 0
    /\ shown = {} /\ repeated = {} /\ lost = {} /\ seenStateFailed = FALSE

\* The fan-out, a celebrity or the vector index brings a post.
Arrives(c, p) ==
    /\ p \notin candidates[c]
    /\ candidates' = [candidates EXCEPT ![c] = @ \cup {p}]
    /\ UNCHANGED <<seen, request, client, counters, history>>

\* A post falls out of a source: trimmed, beyond its limit, or unfollowed.
Leaves(c, p) ==
    /\ expiries < MaxExpiries
    /\ p \in candidates[c]
    /\ expiries' = expiries + 1
    /\ candidates' = [candidates EXCEPT ![c] = @ \ {p}]
    /\ UNCHANGED <<seen, request, client, failures, history>>

\* SEEN_STATE_TTL_SECONDS after it was marked, the post may be shown again.
SeenExpires(p) ==
    /\ expiries < MaxExpiries
    /\ p \in seen
    /\ expiries' = expiries + 1
    /\ seen' = seen \ {p}
    /\ shown' = shown \ (Tabs \X {p}) /\ repeated' = repeated \ (Tabs \X {p})
    /\ lost' = lost \ {p}
    /\ UNCHANGED <<candidates, request, client, failures, seenStateFailed>>

\* ResetSeenState: DEL.
ResetSeenState ==
    /\ expiries < MaxExpiries
    /\ expiries' = expiries + 1
    /\ seen' = {} /\ shown' = {} /\ repeated' = {} /\ lost' = {}
    /\ UNCHANGED <<candidates, request, client, failures, seenStateFailed>>

\* What sources of which some failed give together: a failed one gives nothing,
\* or what the celebrities' outboxes that did answer hold.
Gathered(failed) ==
    LET sound == UNION {candidates[c] : c \in Sources \ failed}
        rest  == UNION {candidates[c] : c \in failed}
    IN  {sound \cup part : part \in SUBSET rest}

\* fanIn, then merge and dedupe.
FanIn(t) ==
    \E failed \in SUBSET Sources :
        /\ failures + Cardinality(failed) <= MaxFailures
        /\ failures' = failures + Cardinality(failed)
        /\ \E some \in Gathered(failed) : gathered' = [gathered EXCEPT ![t] = some]

\* GetFeed up to the answers of the sources, one step: before them it reads
\* only the cursor, which is the tab's own.
Begin(t, from) ==
    /\ stage[t] = "idle"
    /\ offset' = [offset EXCEPT ![t] = from]
    /\ FanIn(t)
    /\ stage' = [stage EXCEPT ![t] = "filter"]
    /\ UNCHANGED <<candidates, seen, ranked, more, expiries, history>>

\* The feed is loaded with no cursor, and the tab forgets the one it had.
Refresh(t) == Begin(t, 0) /\ nextCursor' = [nextCursor EXCEPT ![t] = 0]

\* The button is there as long as the last page was not empty.
LoadMore(t) == more[t] /\ Begin(t, nextCursor[t]) /\ UNCHANGED nextCursor

SeenStateFails ==
    /\ failures < MaxFailures /\ failures' = failures + 1
    /\ seenStateFailed' = TRUE

\* Mutant of FilterUnseen: a cursor is trusted to be past what was shown.
FilterUnseenAtOffsetZero(t) ==
    /\ stage[t] = "filter"
    /\ gathered' = IF offset[t] = 0 THEN [gathered EXCEPT ![t] = @ \ seen] ELSE gathered
    /\ stage' = [stage EXCEPT ![t] = "rank"]
    /\ UNCHANGED <<candidates, seen, offset, ranked, client, counters, history>>

\* seenState.FilterUnseen, a pipeline of ZSCOREs: one that is not answered
\* reads as a score of 0, and its post as unseen.
FilterUnseen(t) ==
    /\ stage[t] = "filter"
    /\ \/ gathered' = [gathered EXCEPT ![t] = @ \ seen] /\ UNCHANGED <<failures, seenStateFailed>>
       \/ /\ SeenStateFails
          /\ \E answered \in SUBSET seen :
                gathered' = [gathered EXCEPT ![t] = @ \ answered]
    /\ stage' = [stage EXCEPT ![t] = "rank"]
    /\ UNCHANGED <<candidates, seen, offset, ranked, client, expiries, shown, repeated, lost>>

\* Hydration, which drops IDs of unknown shards, and ranking: scores move with
\* time and comments, and equal scores come in the order of a Go map, so every
\* order is possible.
Rank(t) ==
    /\ stage[t] = "rank"
    /\ \E order \in SetToSeqs(gathered[t] \cap Hydratable) : ranked' = [ranked EXCEPT ![t] = order]
    /\ stage' = [stage EXCEPT ![t] = "mark"]
    /\ gathered' = [gathered EXCEPT ![t] = {}]
    /\ UNCHANGED <<candidates, seen, offset, client, counters, history>>

\* The tab's request is over.
Finish(t) ==
    /\ stage' = [stage EXCEPT ![t] = "idle"]
    /\ offset' = [offset EXCEPT ![t] = 0]
    /\ gathered' = [gathered EXCEPT ![t] = {}]
    /\ ranked' = [ranked EXCEPT ![t] = <<>>]

\* What is cut for the tab's request.
PageOf(t) == Page(ranked[t], offset[t])

\* MarkSeen, a pipeline of ZADDs whose failure is logged.
MarkSeen(t) ==
    /\ stage[t] = "mark"
    /\ \/ seen' = seen \cup SetOf(PageOf(t)) /\ UNCHANGED <<failures, seenStateFailed>>
       \/ /\ SeenStateFails
          /\ \E marked \in SUBSET SetOf(PageOf(t)) : seen' = seen \cup marked
    /\ stage' = [stage EXCEPT ![t] = "answer"]
    /\ UNCHANGED <<candidates, offset, gathered, ranked, client, expiries, shown, repeated, lost>>

\* The tab is given the page, with the next cursor.  A post whose mark has
\* lapsed by then is unseen again.
Deliver(t) ==
    LET given == {t} \X {p \in SetOf(PageOf(t)) : p \in seen \/ seenStateFailed}
    IN  /\ stage[t] = "answer"
        /\ nextCursor' = [nextCursor EXCEPT ![t] = NextOffset(ranked[t], offset[t])]
        /\ more' = [more EXCEPT ![t] = PageOf(t) # <<>>]
        /\ shown' = shown \cup given
        /\ repeated' = repeated \cup (shown \cap given)
        /\ Finish(t)
        /\ UNCHANGED <<candidates, seen, counters, lost, seenStateFailed>>

\* GetBatch fails on one shard, or ranking-service does; or the process or the
\* connection goes, at any point.  What was marked stays marked.
GetFeedFails(t) ==
    /\ stage[t] # "idle" /\ failures < MaxFailures
    /\ failures' = failures + 1
    /\ lost' = IF stage[t] = "answer" THEN lost \cup (SetOf(PageOf(t)) \cap seen) ELSE lost
    /\ Finish(t)
    /\ UNCHANGED <<candidates, seen, client, expiries, shown, repeated, seenStateFailed>>

Serve(t) == FilterUnseen(t) \/ Rank(t) \/ MarkSeen(t) \/ Deliver(t)

Next ==
    \/ \E c \in Sources, p \in Posts : Arrives(c, p) \/ Leaves(c, p)
    \/ \E p \in Posts : SeenExpires(p)
    \/ ResetSeenState
    \/ \E t \in Tabs : Refresh(t) \/ LoadMore(t) \/ Serve(t) \/ GetFeedFails(t)

Spec == Init /\ [][Next]_vars

-----------------------------------------------------------------------------
\* Types; a cursor never points past what a ranked list can hold.
TypeOK ==
    /\ candidates \in [Sources -> SUBSET Posts] /\ seen \subseteq Posts
    /\ stage \in [Tabs -> {"idle", "filter", "rank", "mark", "answer"}]
    /\ offset \in [Tabs -> 0 .. Cardinality(Posts)]
    /\ nextCursor \in [Tabs -> 0 .. Cardinality(Posts)]
    /\ gathered \in [Tabs -> SUBSET Posts]
    /\ ranked \in [Tabs -> Seq(Posts)] /\ more \in [Tabs -> BOOLEAN]
    /\ expiries \in 0 .. MaxExpiries /\ failures \in 0 .. MaxFailures
    /\ shown \subseteq Tabs \X Posts /\ repeated \subseteq shown
    /\ lost \subseteq Posts /\ seenStateFailed \in BOOLEAN

\* Unless a call to the seen state failed, a tab is never given a post twice
\* within the TTL, whatever other tabs, arrivals, cursors and failures of the
\* sources and of the ranking do between.
NotShownTwice == ~seenStateFailed => repeated = {}

\* The rule runs after ranking and before the cut: a post is left out of the
\* paged list exactly when its author already has MaxPostsPerAuthor better
\* ones, and the rest keep their rank.
BestOfEachAuthor ==
    \A t \in Tabs :
        LET s == ranked[t]
            paged == Diversified(s)
            Better(i) == {j \in 1 .. i - 1 : AuthorOf[s[j]] = AuthorOf[s[i]]}
            kept == {i \in DOMAIN s : Cardinality(Better(i)) < MaxPostsPerAuthor}
        IN  /\ SetOf(paged) = {s[i] : i \in kept}
            /\ \A i, j \in DOMAIN paged : i < j =>
                  \E k, l \in kept : k < l /\ s[k] = paged[i] /\ s[l] = paged[j]

\* Ads push organic posts down but never off the page, and every post marked
\* seen is on the page that is returned, in its order.
AdsDisplaceNothing ==
    \A t \in Tabs :
        LET page == Page(ranked[t], offset[t])
            final == WithAds(page)
            organic == DOMAIN final \ AdSlots
        IN  /\ Len(final) <= PageSize
            /\ \A i \in DOMAIN final \cap AdSlots : final[i] = Ad
            /\ Cardinality(organic) = Len(page)
            /\ \A i \in organic : final[i] = page[Cardinality(organic \cap 1 .. i)]

\* A candidate that does not fall out of its source is shown in the end to a
\* viewer who keeps refreshing, whatever the ranking prefers and whatever else
\* comes and goes: what was shown makes room.  A forged ID takes no place.  The
\* one exception is a post that was marked seen for an answer that got lost.
RefreshReachesEveryPost ==
    \A c \in Sources, p \in Hydratable :
        p \in candidates[c] ~>
            (p \notin candidates[c] \/ p \in lost \/ \E t \in Tabs : <<t, p>> \in shown)
=============================================================================
