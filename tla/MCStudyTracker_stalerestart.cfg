CONSTANTS
    Tps = 1
    Configs <- ExamPresets
    DefaultConfig <- Pomodoro
    None = None
    MaxWall = 7
    MaxStart = 2
    MaxSegments = 2
    AliveGap = 1
    AbandonAfter = 3
    DayLength = 4
    LocalOffset = 1
    MaxCrashes = 1
    MaxFailures = 0
SPECIFICATION TrackerSpec
PROPERTIES DeadlineSurvivesRestart
CHECK_DEADLOCK FALSE
