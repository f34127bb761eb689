SPECIFICATION FairSessionSpec
CONSTANTS
    live = live
    late = late
    Live = live
    Late = late
    Slots <- Both
    Offered = {}
    Grace = 1
    MaxSession = 2
    StaleAfter = 2
    HeartbeatEvery = 1
    MaxTime = 2
    MaxSessions = 0
    MaxFaults = 0
    MaxStarts = 2
    MaxUnsent = 1
    MaxTimeouts = 1
    MaxRestarts = 1
INVARIANT
    FlagsMatchCalls
PROPERTY
    StudyIsWitnessed
CHECK_DEADLOCK FALSE
