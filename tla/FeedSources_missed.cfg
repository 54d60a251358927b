SPECIFICATION MCSpec
CONSTANTS
    None = None
    a1 = a1
    a2 = a2
    p0 = p0
    r1 = r1
    r2 = r2
    s1 = s1
    Readers = {r1, r2}
    Authors = {a1, a2}
    Partitions = {p0}
    PartitionOf <- OnePartition
    Sessions = {s1}
    UserOf <- OneUser
    CelebrityCutoff = 1
    InNetworkCandidateLimit = 1
    CelebrityCandidateLimit = 1
    MaxItems = 3
    MaxColdTierItems = 3
    ColdTierReliable = TRUE
    MaxPosts = 2
    MaxCrashes = 0
    MaxGraphChanges = 1
INVARIANTS CountIsDegree MissedForAReason
CHECK_DEADLOCK FALSE
SYMMETRY SwapAuthors
