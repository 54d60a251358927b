SPECIFICATION FairSpec
CONSTANTS
    post0 = post0
    post2 = post2
    notify0 = notify0
    posts = posts
    notifications = notifications
    Gens = {post0, post2, notify0}
    ShardOf <- SeededShards
    ServiceOf <- Services
    SequenceSpan = 2
    ShardSpan = 3
    MaxTime = 3
    MaxIssued = 4
INVARIANTS UniqueInService MonotonicWithinShard
PROPERTIES SpinTerminates
\* The clock and the number of calls are bounded: the instance ends.
CHECK_DEADLOCK FALSE
