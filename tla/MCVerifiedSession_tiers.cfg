SPECIFICATION SessionSpec
CONSTANTS
    live = live
    late = late
    Live = live
    Late = late
    Slots <- Both
    Offered = {}
    Grace = 2
    MaxSession = 4
    StaleAfter = 2
    HeartbeatEvery = 1
    MaxTime = 6
    MaxSessions = 0
    MaxFaults = 0
    MaxStarts = 2
    MaxUnsent = 1
    MaxTimeouts = 0
    MaxRestarts = 1
INVARIANT
    OneTierPerMinute
CHECK_DEADLOCK FALSE
