SPECIFICATION Spec
CONSTANTS
    p1 = p1
    p2 = p2
    p3 = p3
    NoPost = NoPost
    Posts <- MCPosts
    Works <- MCWorks
    QueueCap = 3
    MaxPending = 2
    MaxFaults = 1
    LoopBound = 2
INVARIANTS
    SpinnersHaveRequests
    PostsKept
    AccountWhole
    VotesSettle
PROPERTY
    LocalReachesWorker
CHECK_DEADLOCK FALSE
