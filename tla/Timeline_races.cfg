SPECIFICATION TimelineSpec
CONSTANTS
    None = None
    a1 = a1
    p0 = p0
    r1 = r1
    s1 = s1
    s2 = s2
    Readers = {r1}
    Authors = {a1}
    Partitions = {p0}
    PartitionOf <- OnePartition
    Sessions = {s1, s2}
    UserOf <- OneUser
    CelebrityCutoff = 1
    MaxItems = 2
    MaxColdTierItems = 2
    ColdTierReliable = TRUE
    MaxPosts = 3
    MaxCrashes = 1
    MaxGraphChanges = 1
CONSTRAINT Steady
SYMMETRY SessionSymmetry
INVARIANTS PushedKept PromotedKept PushesOutrankPromoted
CHECK_DEADLOCK FALSE
