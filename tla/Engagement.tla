----------------------------- MODULE Engagement -----------------------------
(* Likes of one post in post-ingestion-service: Like and Unlike requests,   *)
(* each a thread of Redis and Postgres calls with no lock and no            *)
(* transaction across them.  The row in the likes table decides; the        *)
(* counter (split into sub-counters, with a cached sum), the liker's        *)
(* user_likes set and the rate limiter's window live in Redis.              *)
EXTENDS Naturals, Integers, FiniteSets, FiniteSetsExt

CONSTANTS
    Users,
    Requests,       \* handler threads
    SubShards,      \* 0 .. numCounterShards - 1
    SubShardOf,     \* counterShard
    None,
    RateLimit,      \* likes and unlikes of a post by a user in a window
    SerialUsers,    \* a user waits for one answer before the next call
    MaxCalls,       \* bound: calls of Like and Unlike
    MaxFailures     \* bound: failed Redis or Postgres calls, and dead threads

ASSUME SubShardAssumption == SubShardOf \in [Users -> SubShards]
ASSUME LimitAssumption == RateLimit \in Nat \ {0} /\ SerialUsers \in BOOLEAN
ASSUME FiniteAssumption == IsFiniteSet(Users) /\ IsFiniteSet(Requests) /\ IsFiniteSet(SubShards)
ASSUME CallAssumption == MaxCalls \in Nat /\ MaxFailures \in Nat

VARIABLES
    liked,          \* Postgres: the users with a row in likes
    likeState,      \* Redis: the users whose user_likes set has the post
    subCount,       \* Redis: likes:count:<post>:<sub-shard>
    sumCache,       \* Redis: likes:count:<post>:sum, None if absent
    windowCount,    \* Redis: ratelimit:like:<user>:<post>, 0 if absent
    windowExpires,  \* that key has a TTL
    req,            \* the calls in progress
    calls, failures,        \* counters of the bounds
    outcome,        \* history: how the last call of each user that got past
                    \*   the limiter ended
    lostDecrements, \* history: rows deleted by calls that died uncounted
    lostClamps      \* history: calls that died or failed before their SET 0

stores  == <<liked, likeState, subCount, sumCache>>
windows == <<windowCount, windowExpires>>
history == <<outcome, lostDecrements, lostClamps>>
vars    == <<stores, windows, req, calls, failures, history>>

Kinds == {"like", "unlike"}
Stages == {"idle", "allow", "expire", "row", "mark", "count", "clamp", "invalidate",
           "read", "sum", "cacheSum"}

\* created or deleted is "changed"; total is the local of GetLikeCount.
Call == [stage : Stages, user : Users \cup {None}, kind : Kinds, changed : BOOLEAN, total : Int]

NoCall == [stage |-> "idle", user |-> None, kind |-> "like", changed |-> FALSE, total |-> 0]

UserOf(r) == req[r].user
InFlight(u) == {r \in Requests : UserOf(r) = u}
CountKey(r) == SubShardOf[UserOf(r)]

\* MGET of all the sub-counters.
SumOfSubCounts == MapThenSumSet(LAMBDA k : subCount[k], SubShards)

-----------------------------------------------------------------------------
Init ==
    /\ liked = {} /\ likeState = {}
    /\ subCount = [k \in SubShards |-> 0] /\ sumCache = None
    /\ windowCount = [u \in Users |-> 0] /\ windowExpires = [u \in Users |-> FALSE]
    /\ req = [r \in Requests |-> NoCall]
    /\ calls = 0 /\ failures = 0
    /\ outcome = [u \in Users |-> "none"]
    /\ lostDecrements = [k \in SubShards |-> 0]
    /\ lostClamps = [k \in SubShards |-> 0]

Begin(r, u, kind) ==
    /\ req[r] = NoCall
    /\ calls < MaxCalls
    /\ SerialUsers => InFlight(u) = {}
    /\ calls' = calls + 1
    /\ req' = [req EXCEPT ![r] = [NoCall EXCEPT !.stage = "allow", !.user = u, !.kind = kind]]
    /\ UNCHANGED <<stores, windows, failures, history>>

At(r, stage) == req[r].stage = stage

GoTo(r, stage) == req' = [req EXCEPT ![r].stage = stage]

\* Mutant of Allow: takes INCR to return the old value.
AllowWithOldCount(r) ==
    LET count == windowCount[UserOf(r)] + 1
    IN  /\ At(r, "allow")
        /\ windowCount' = [windowCount EXCEPT ![UserOf(r)] = count]
        /\ \/ count = 0 /\ GoTo(r, "expire")
           \/ count # 0 /\ count <= RateLimit /\ GoTo(r, "row")
           \/ count # 0 /\ count > RateLimit /\ req' = [req EXCEPT ![r] = NoCall]
        /\ UNCHANGED <<stores, windowExpires, calls, failures, history>>

\* RateLimiter.Allow: INCR.  The first hit of a window goes on to start its
\* expiry; a refused call returns ErrRateLimited.
Allow(r) ==
    LET count == windowCount[UserOf(r)] + 1
    IN  /\ At(r, "allow")
        /\ windowCount' = [windowCount EXCEPT ![UserOf(r)] = count]
        /\ \/ count = 1 /\ GoTo(r, "expire")
           \/ count > 1 /\ count <= RateLimit /\ GoTo(r, "row")
           \/ count > 1 /\ count > RateLimit /\ req' = [req EXCEPT ![r] = NoCall]
        /\ UNCHANGED <<stores, windowExpires, calls, failures, history>>

\* EXPIRE on the window's key.
StartWindow(r) ==
    /\ At(r, "expire")
    /\ windowExpires' = [windowExpires EXCEPT ![UserOf(r)] = windowCount[UserOf(r)] > 0]
    /\ GoTo(r, "row")
    /\ UNCHANGED <<stores, windowCount, calls, failures, history>>

WindowEnds(u) ==
    /\ windowExpires[u]
    /\ windowExpires' = [windowExpires EXCEPT ![u] = FALSE]
    /\ windowCount' = [windowCount EXCEPT ![u] = 0]
    /\ UNCHANGED <<stores, req, calls, failures, history>>

\* Mutant of ChangeRow: ON CONFLICT DO UPDATE affects a row each time.
ChangeRowAlways(r) ==
    /\ At(r, "row")
    /\ liked' = IF req[r].kind = "like" THEN liked \cup {UserOf(r)} ELSE liked \ {UserOf(r)}
    /\ req' = [req EXCEPT ![r].stage = "mark", ![r].changed = TRUE]
    /\ UNCHANGED <<likeState, subCount, sumCache, windows, calls, failures, history>>

\* INSERT ... ON CONFLICT DO NOTHING, or DELETE: RowsAffected() > 0.
ChangeRow(r) ==
    /\ At(r, "row")
    /\ liked' = IF req[r].kind = "like" THEN liked \cup {UserOf(r)} ELSE liked \ {UserOf(r)}
    /\ req' = [req EXCEPT ![r].stage = "mark", ![r].changed = (liked' # liked)]
    /\ UNCHANGED <<likeState, subCount, sumCache, windows, calls, failures, history>>

\* Mutants of MarkState: only when the row changed; and counting each call.
MarkStateIfChanged(r) ==
    /\ At(r, "mark")
    /\ likeState' = CASE ~ req[r].changed -> likeState
                      [] req[r].kind = "like" -> likeState \cup {UserOf(r)}
                      [] OTHER -> likeState \ {UserOf(r)}
    /\ GoTo(r, IF req[r].changed THEN "count" ELSE "read")
    /\ UNCHANGED <<liked, subCount, sumCache, windows, calls, failures, history>>

MarkStateAndCount(r) ==
    /\ At(r, "mark")
    /\ likeState' = IF req[r].kind = "like" THEN likeState \cup {UserOf(r)}
                                            ELSE likeState \ {UserOf(r)}
    /\ GoTo(r, "count")
    /\ UNCHANGED <<liked, subCount, sumCache, windows, calls, failures, history>>

\* MarkLiked (SADD) or MarkUnliked (SREM), whether or not the row changed.
MarkState(r) ==
    /\ At(r, "mark")
    /\ likeState' = IF req[r].kind = "like" THEN likeState \cup {UserOf(r)}
                                            ELSE likeState \ {UserOf(r)}
    /\ GoTo(r, IF req[r].changed THEN "count" ELSE "read")
    /\ UNCHANGED <<liked, subCount, sumCache, windows, calls, failures, history>>

IncrLikeCount(r) ==
    /\ At(r, "count") /\ req[r].kind = "like"
    /\ subCount' = [subCount EXCEPT ![CountKey(r)] = @ + 1]
    /\ GoTo(r, "invalidate")
    /\ UNCHANGED <<liked, likeState, sumCache, windows, calls, failures, history>>

\* Mutant of DecrLikeCount: leaves a negative count as it is.
DecrUnclamped(r) ==
    /\ At(r, "count") /\ req[r].kind = "unlike"
    /\ subCount' = [subCount EXCEPT ![CountKey(r)] = @ - 1]
    /\ GoTo(r, "invalidate")
    /\ UNCHANGED <<liked, likeState, sumCache, windows, calls, failures, history>>

DecrLikeCount(r) ==
    /\ At(r, "count") /\ req[r].kind = "unlike"
    /\ subCount' = [subCount EXCEPT ![CountKey(r)] = @ - 1]
    /\ GoTo(r, IF subCount'[CountKey(r)] < 0 THEN "clamp" ELSE "invalidate")
    /\ UNCHANGED <<liked, likeState, sumCache, windows, calls, failures, history>>

\* SET 0, some time after the DECR that went below.
Clamp(r) ==
    /\ At(r, "clamp")
    /\ subCount' = [subCount EXCEPT ![CountKey(r)] = 0]
    /\ GoTo(r, "invalidate")
    /\ UNCHANGED <<liked, likeState, sumCache, windows, calls, failures, history>>

\* DEL of the cached sum.
InvalidateSum(r) ==
    /\ At(r, "invalidate")
    /\ sumCache' = None
    /\ GoTo(r, "read")
    /\ UNCHANGED <<liked, likeState, subCount, windows, calls, failures, history>>

\* The call answers with a count.
Return(r) ==
    /\ req' = [req EXCEPT ![r] = NoCall]
    /\ outcome' = [outcome EXCEPT ![UserOf(r)] = req[r].kind]

\* GetLikeCount: GET of the cached sum.
ReadSum(r) ==
    /\ At(r, "read")
    /\ \/ sumCache # None /\ Return(r)
       \/ sumCache = None /\ GoTo(r, "sum") /\ UNCHANGED outcome
    /\ UNCHANGED <<stores, windows, calls, failures, lostDecrements, lostClamps>>

AddSubCounts(r) ==
    /\ At(r, "sum")
    /\ req' = [req EXCEPT ![r].stage = "cacheSum", ![r].total = SumOfSubCounts]
    /\ UNCHANGED <<stores, windows, calls, failures, history>>

\* SET of the sum with its TTL: what was added up may have changed since.
CacheSum(r) ==
    /\ At(r, "cacheSum")
    /\ sumCache' = req[r].total
    /\ Return(r)
    /\ UNCHANGED <<liked, likeState, subCount, windows, calls, failures,
                   lostDecrements, lostClamps>>

\* sumCacheTTLSeconds later.
SumExpires ==
    /\ sumCache # None
    /\ sumCache' = None
    /\ UNCHANGED <<liked, likeState, subCount, windows, req, calls, failures, history>>

\* The clamp the request in hand was about to make is not made.
LoseClamp(r) ==
    lostClamps' = IF At(r, "clamp") THEN [lostClamps EXCEPT ![CountKey(r)] = @ + 1] ELSE lostClamps

\* A call of Redis whose error the code does not look at, or takes for a miss.
FailureIgnored(r) ==
    /\ failures < MaxFailures
    /\ failures' = failures + 1
    /\ \/ At(r, "expire") /\ GoTo(r, "row") /\ UNCHANGED outcome
       \/ At(r, "clamp") /\ GoTo(r, "invalidate") /\ UNCHANGED outcome
       \/ At(r, "invalidate") /\ GoTo(r, "read") /\ UNCHANGED outcome
       \/ At(r, "read") /\ GoTo(r, "sum") /\ UNCHANGED outcome
       \/ At(r, "cacheSum") /\ Return(r)
    /\ LoseClamp(r)
    /\ UNCHANGED <<stores, windows, calls, lostDecrements>>

\* A call whose error ends the request, or the process dies under it.
RequestFails(r) ==
    /\ failures < MaxFailures
    /\ ~ At(r, "idle")
    /\ failures' = failures + 1
    /\ outcome' = [outcome EXCEPT ![UserOf(r)] = "failed"]
    /\ lostDecrements' =
           IF req[r].kind = "unlike" /\ req[r].changed /\ req[r].stage \in {"mark", "count"}
           THEN [lostDecrements EXCEPT ![CountKey(r)] = @ + 1]
           ELSE lostDecrements
    /\ LoseClamp(r)
    /\ req' = [req EXCEPT ![r] = NoCall]
    /\ UNCHANGED <<stores, windows, calls>>

Step(r) ==
    \/ Allow(r) \/ StartWindow(r)
    \/ ChangeRow(r) \/ MarkState(r)
    \/ IncrLikeCount(r) \/ DecrLikeCount(r) \/ Clamp(r) \/ InvalidateSum(r)
    \/ ReadSum(r) \/ AddSubCounts(r) \/ CacheSum(r)

Next ==
    \/ \E r \in Requests, u \in Users, kind \in Kinds : Begin(r, u, kind)
    \/ \E r \in Requests : Step(r) \/ FailureIgnored(r) \/ RequestFails(r)
    \/ \E u \in Users : WindowEnds(u)
    \/ SumExpires

Spec == Init /\ [][Next]_vars

\* Threads run, and Redis drops the keys whose TTL is over.
FairSpec ==
    /\ Spec
    /\ \A r \in Requests : WF_vars(Step(r))
    /\ \A u \in Users : WF_vars(WindowEnds(u))

-----------------------------------------------------------------------------
\* Every counter is an integer key of Redis that INCR and DECR can work on, and
\* no window counts more calls than were made.
TypeOK ==
    /\ liked \subseteq Users /\ likeState \subseteq Users
    /\ subCount \in [SubShards -> Int]
    /\ sumCache \in Int \cup {None}
    /\ windowCount \in [Users -> 0 .. MaxCalls] /\ windowExpires \in [Users -> BOOLEAN]
    /\ req \in [Requests -> Call]
    /\ calls \in 0 .. MaxCalls /\ failures \in 0 .. MaxFailures
    /\ outcome \in [Users -> Kinds \cup {"none", "failed"}]
    /\ lostDecrements \in [SubShards -> 0 .. MaxFailures]
    /\ lostClamps \in [SubShards -> 0 .. MaxFailures]

\* Rows changed whose change has not reached the counter yet.
Uncounted(k, kind) ==
    Cardinality({r \in Requests :
        /\ req[r].kind = kind /\ req[r].changed
        /\ req[r].stage \in {"mark", "count"} /\ CountKey(r) = k})

\* What a sub-counter should say of the rows, given the requests under way.
Due(k) ==
    Cardinality({u \in liked : SubShardOf[u] = k}) - Uncounted(k, "like") + Uncounted(k, "unlike")

\* As long as nothing fails and each user makes one call at a time, every
\* sub-counter agrees with the rows (liking twice counts once, unliking twice
\* discounts once), however the requests of the users interleave.
ExactWithoutFailures == failures = 0 => \A k \in SubShards : subCount[k] = Due(k)

\* Failures make the counter too low, never too high, but for the rows deleted
\* by a request that died before its DECR: no retry counts a like twice, and
\* no SET 0 lifts the counter above the rows.
OvercountNeedsLostDecrement ==
    \A k \in SubShards : subCount[k] <= Due(k) + lostDecrements[k]

\* Read your own writes: between two calls of a user the last of which
\* succeeded, the row, the user_likes set and that answer agree, whatever
\* failed halfway before.
OwnLikeVisible ==
    \A u \in Users :
        InFlight(u) = {} /\ outcome[u] \in Kinds =>
            (u \in liked) = (outcome[u] = "like") /\ (u \in likeState) = (u \in liked)

\* Unless something fails, a user refused by the limiter is let in again: refused
\* calls count too, but the window they fall into was given its end by its
\* first call, however long that one takes.
RefusedUserReleased ==
    \A u \in Users :
        windowCount[u] > RateLimit ~> windowCount[u] = 0 \/ failures > 0

\* DECR and the SET 0 that repairs it are two commands, and other requests come
\* between them: a sub-counter is below zero by no more than there are requests
\* that have yet to set it to 0, or died before.
NegativeAwaitsClamp ==
    \A k \in SubShards :
        subCount[k] + Cardinality({r \in Requests : At(r, "clamp") /\ CountKey(r) = k})
            + lostClamps[k] >= 0

\* engagement_service.go, of a failed MarkLiked: the row is correct, so it is
\* "a visible-lag bug, not a data-loss one": once every user's last call has
\* succeeded, the counters count every like.
RetriedLikeCounted ==
    (\A u \in Users : InFlight(u) = {} /\ outcome[u] # "failed")
        => \A k \in SubShards : subCount[k] >= Cardinality({u \in liked : SubShardOf[u] = k})
=============================================================================
