SPECIFICATION MCNetSpec
CONSTANTS
    a1 = a1
    a2 = a2
    i1 = i1
    i2 = i2
    l1 = l1
    NoRequest = NoRequest
    ApiRequests = {a1, a2}
    ImageRequests = {i1, i2}
    LocalJobs = {l1}
    Workloads = {{a1, a2, i1}, {a1, a2, l1}, {a1, i1, i2}, {a1, i1, l1}}
    ApiCap = 2
    ImageCap = 1
    MaxSpawnFailures = 1
INVARIANTS
    QueuesBounded
    SentAsAsked
    EveryHandlerHasOneAnswer
PROPERTIES
    NothingIsLeftWaiting
