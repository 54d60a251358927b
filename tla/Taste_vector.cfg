SPECIFICATION TasteFairSpec
CONSTANTS
    None = None
    p0 = p0
    p1 = p1
    a1 = a1
    a2 = a2
    x1 = x1
    x2 = x2
    r1 = r1
    Partitions = {p0, p1}
    Authors = {a1, a2}
    PartitionOf <- TwoPartitions
    Shards = {x1, x2}
    ShardOf <- TwoShards
    Requests = {r1}
    UserOf <- OneUser
    TasteSeedPostLimit = 1
    VectorCandidateLimit = 1
    MaxPosts = 2
    MaxFailures = 1
    MaxRestarts = 1
INVARIANTS CandidatesHydrate SeedsFromAllShards
PROPERTIES SourceAlwaysReturns EveryPostIndexed PipelineAtLeastOnce
