SPECIFICATION Spec
CONSTANTS
    None = None
    n1 = n1
    n2 = n2
    p0 = p0
    p1 = p1
    s1 = s1
    s2 = s2
    Keys = {n1, n2}
    Topology <- TwoShards
    VirtualNodesPerShard = 2
    Hash <- Crc
    Nodes <- SortedNodes
    Signups = {s1, s2}
    MaxUsers = 3
    MaxSignupFailures = 1
    Partitions = {p0, p1}
    PartitionOf <- ByParity
    MaxPosts = 2
    MaxFailures = 1
    MaxRestarts = 1
SYMMETRY SignupSymmetry
INVARIANTS UsernameUnique DirectoryTrue MentionsDelivered NotifiedWithReason
PROPERTIES NotifierAtLeastOnce
\* Users and posts are bounded: the instance ends.
CHECK_DEADLOCK FALSE
