SPECIFICATION MCFairSpec
CONSTANTS
    None = None
    a1 = a1
    a2 = a2
    p0 = p0
    p1 = p1
    r1 = r1
    r2 = r2
    Readers = {r1, r2}
    Authors = {a1, a2}
    Partitions = {p0, p1}
    PartitionOf <- TwoPartitions
    CelebrityCutoff = 1
    MaxItems = 2
    ColdTierReliable = FALSE
    MaxColdTierItems = 1
    MaxPosts = 2
    MaxCrashes = 1
    MaxGraphChanges = 1
PROPERTIES RedeliveryHarmless EveryRecordCommitted ConsumesAtLeastOnce
INVARIANTS NoRecordSkipped StableFollowersServed OnlyFollowersServed AppendedKept
CHECK_DEADLOCK FALSE
