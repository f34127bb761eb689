CONSTANTS
    Tps = 2
    Configs <- Presets
    None = None
    MaxWall = 8
    MaxStart = 4
    MaxSegments = 3
SPECIFICATION FairSpec
INVARIANTS
    SegmentsWellFormed
    NeverEarly
    NoInstantLoggedTwice
    FullCountdown
PROPERTIES
    DisplayMonotone
    LedgerSpec
    CountdownEnds
CHECK_DEADLOCK FALSE
