SPECIFICATION FairSpec
CONSTANTS
    None = None
    u1 = u1
    u2 = u2
    r1 = r1
    r2 = r2
    Users = {u1, u2}
    Requests = {r1, r2}
    SubShards = {0, 1}
    SubShardOf <- SameSubShard
    RateLimit = 2
    SerialUsers = TRUE
    MaxCalls = 3
    MaxFailures = 2
INVARIANTS OvercountNeedsLostDecrement OwnLikeVisible ExactWithoutFailures NegativeAwaitsClamp
PROPERTIES RefusedUserReleased
\* The number of calls is bounded: the instance ends.
CHECK_DEADLOCK FALSE
