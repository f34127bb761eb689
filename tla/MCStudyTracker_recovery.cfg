CONSTANTS
    Tps = 1
    Configs <- Presets
    DefaultConfig <- Pomodoro
    None = None
    MaxWall = 5
    MaxStart = 2
    MaxSegments = 2
    AliveGap = 0
    AbandonAfter = 2
    DayLength = 4
    LocalOffset = 1
    MaxCrashes = 2
    MaxFailures = 1
SPECIFICATION TrackerFairSpec
INVARIANTS NoInstantInTwoSessions LossAccountedFor CreditedWasWorked
PROPERTIES SessionsDurable LeftRunningIsSettled
CHECK_DEADLOCK FALSE
