SPECIFICATION Spec
CONSTANTS
    None = None
    u1 = u1
    u2 = u2
    r1 = r1
    r2 = r2
    Users = {u1, u2}
    Requests = {r1, r2}
    SubShards = {0, 1}
    SubShardOf <- SameSubShard
    RateLimit = 3
    SerialUsers = TRUE
    MaxCalls = 2
    MaxFailures = 1
SYMMETRY RequestSymmetry
INVARIANTS RetriedLikeCounted
\* The number of calls is bounded: the instance ends.
CHECK_DEADLOCK FALSE
