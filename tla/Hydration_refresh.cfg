SPECIFICATION HydrationFairSpec
CONSTANTS
    a1 = a1
    p1 = p1
    p2 = p2
    f1 = f1
    x1 = x1
    x2 = x2
    x3 = x3
    Ad = Ad
    Authors = {a1}
    AuthorOf <- OneAuthor
    Posts = {p1, p2, f1}
    Hydratable = {p1, p2}
    Shards = {x1, x2}
    ShardOf <- TwoShards
    CreatedAt <- HalfASecond
    Sources = {inNetwork}
    Tabs = {t1}
    PageSize = 3
    MaxPostsPerAuthor = 1
    AdSlots = {1, 3}
    MaxExpiries = 1
    MaxFailures = 1
    Second = 2
    Day = 1
    MaxTicks = 2
    MaxComments = 1
INVARIANTS DeservingFirst
PROPERTIES RefreshReachesEveryPost ImplementsGetFeed
