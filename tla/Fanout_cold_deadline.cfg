SPECIFICATION Spec
CONSTANTS
    None = None
    a1 = a1
    a2 = a2
    p0 = p0
    p1 = p1
    r1 = r1
    r2 = r2
    Readers = {r1}
    Authors = {a1}
    Partitions = {p0}
    PartitionOf <- OnePartition
    CelebrityCutoff = 1
    MaxItems = 1
    ColdTierReliable = TRUE
    MaxColdTierItems = 1
    MaxPosts = 2
    MaxCrashes = 1
    MaxGraphChanges = 1
INVARIANTS DormantNotLost
CHECK_DEADLOCK FALSE
