------------------------------ MODULE Timeline ------------------------------
(* The in-network source of feed-aggregation-service (inNetworkCandidates)  *)
(* beside the fan-out: readers look for the hot inbox, fall back to the     *)
(* cold one and promote it, while the worker goes on writing both.          *)
EXTENDS Fanout

CONSTANTS
    Sessions,               \* GetFeed requests that may run at once
    UserOf                  \* the user of each

ASSUME SessionAssumption == UserOf \in [Sessions -> Readers]

VARIABLES
    reading,    \* where in inNetworkCandidates the request is
    coldRead,   \* its local "cold"
    zadds,      \* commands of its Promote that Redis has executed
    promoted    \* history: <<u, p>> copied from the cold to the hot tier

readVars == <<reading, coldRead, zadds, promoted>>
allVars == <<vars, readVars>>

fanoutVars == <<postVars, graphVars, crashes, offsets, job, stubExpired, cold, outbox, history>>

ReadStages == {"idle", "hit", "miss", "promote"}

TimelineInit ==
    /\ Init
    /\ reading = [s \in Sessions |-> "idle"]
    /\ coldRead = [s \in Sessions |-> <<>>] /\ zadds = [s \in Sessions |-> 0]
    /\ promoted = {}

-----------------------------------------------------------------------------
\* hotInbox.Exists: a sorted set without members is no key.
CheckExists(s) ==
    /\ reading[s] = "idle"
    /\ reading' = [reading EXCEPT ![s] = IF HotInbox(UserOf[s]) = {} THEN "miss" ELSE "hit"]
    /\ UNCHANGED <<vars, coldRead, zadds, promoted>>

\* hotInbox.GetInbox: the answer comes from the hot tier alone, and the read
\* leaves both tiers as they are.
GetInbox(s) ==
    /\ reading[s] = "hit"
    /\ reading' = [reading EXCEPT ![s] = "idle"]
    /\ UNCHANGED <<vars, coldRead, zadds, promoted>>

\* coldInbox.Get; an empty inbox ends the read.
GetCold(s) ==
    /\ reading[s] = "miss"
    /\ coldRead' = [coldRead EXCEPT ![s] = cold[UserOf[s]]]
    /\ reading' = [reading EXCEPT ![s] = IF cold[UserOf[s]] = <<>> THEN "idle" ELSE "promote"]
    /\ UNCHANGED <<vars, zadds, promoted>>

\* The score Promote gives to the entry at i: the first gets the highest.
PromotedScore(s, i) == Len(s) + 1 - i

\* Mutants of Promoted: the key deleted first, the key set instead of added to,
\* and the time of the promotion as score.
PromotedIntoFresh(z, s, i) ==
    [p \in Posts |-> IF p = s[i] THEN PromotedScore(s, i) ELSE IF i = 1 THEN 0 ELSE z[p]]

PromotedAlone(z, s, i) ==
    [p \in Posts |-> IF p = s[i] THEN PromotedScore(s, i) ELSE 0]

PromotedByTime(z, s, i) == [z EXCEPT ![s[i]] = PushScore(MaxPosts) + 1]

\* ZADD of the entry at i, whether or not it is a member already.
Promoted(z, s, i) == [z EXCEPT ![s[i]] = PromotedScore(s, i)]

\* Promote is a pipeline, not a transaction: its ZADDs are executed in turn,
\* and writes of others may come between them.
Promote(s) ==
    /\ reading[s] = "promote"
    /\ zadds[s] < Len(coldRead[s])
    /\ hot' = [hot EXCEPT ![UserOf[s]] = Promoted(@, coldRead[s], zadds[s] + 1)]
    /\ promoted' = promoted \cup {<<UserOf[s], coldRead[s][zadds[s] + 1]>>}
    /\ zadds' = [zadds EXCEPT ![s] = @ + 1]
    /\ UNCHANGED <<fanoutVars, reading, coldRead>>

\* The request is done with the in-network source.
DropRead(s) ==
    /\ reading' = [reading EXCEPT ![s] = "idle"]
    /\ coldRead' = [coldRead EXCEPT ![s] = <<>>]
    /\ zadds' = [zadds EXCEPT ![s] = 0]

\* cold[:limit] is returned.  If Promote failed on its way, its error is logged
\* and the ZADDs executed so far stay.
ReturnCold(s) ==
    /\ reading[s] = "promote"
    /\ DropRead(s)
    /\ UNCHANGED <<vars, promoted>>

\* Redis or Badger fails, or the process dies: no candidates.
ReadFails(s) ==
    /\ reading[s] # "idle"
    /\ DropRead(s)
    /\ UNCHANGED <<vars, promoted>>

Read(s) ==
    \/ CheckExists(s)
    \/ GetInbox(s)
    \/ GetCold(s)
    \/ Promote(s)
    \/ ReturnCold(s)
    \/ ReadFails(s)

TimelineNext ==
    \/ Next /\ UNCHANGED readVars
    \/ \E s \in Sessions : Read(s)

TimelineSpec == TimelineInit /\ [][TimelineNext]_allVars

-----------------------------------------------------------------------------
\* Types of the fan-out and of the requests: whatever promotion does, the hot
\* inboxes keep positive scores, and no pipeline runs past the cold inbox.
TimelineTypeOK ==
    /\ TypeOK
    /\ reading \in [Sessions -> ReadStages]
    /\ coldRead \in [Sessions -> Seq(Posts)]
    /\ zadds \in [Sessions -> 0 .. MaxColdTierItems]
    /\ promoted \subseteq Readers \X Posts

\* What was promoted stays in the hot inbox until the inbox is full: neither a
\* second request that promotes another copy of the cold inbox, nor a push that
\* was under way, nor a redelivery takes it out of an inbox with room.
PromotedKept ==
    \A s \in promoted :
        InHot(s[1], s[2]) \/ Cardinality(HotInbox(s[1])) >= MaxItems

\* A request that races the fan-out never ranks a promoted post above one that
\* was pushed: promoted scores stay below every epoch millisecond.  (A post
\* that a redelivery put into both tiers has no rank to defend.)
PushesOutrankPromoted ==
    \A s \in pushed \ appended, t \in promoted \ pushed :
        s[1] = t[1] /\ InHot(s[1], s[2]) => Outranks(hot[s[1]], s[2], t[2])
=============================================================================
