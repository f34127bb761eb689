SPECIFICATION Spec
CONSTANTS
    Parts = {"store"}
    Suits = {"hearts", "clubs"}
    TableLimit = 2
    DailyPuzzles = 2
    MaxDay = 1
    MaxFailures = 1
    MaxDepth = 20
    ThrowDepth = 1
    None = None
    Deals <- AcceptedDeals
    Letters = {"a", "b", "c"}
    Words <- FiveWords
    Countries = {1, 2, 3, 4, 5, 6}
    Borders <- Atlases
    Kinds = {"wordle", "country", "travle"}
    Hashes <- Tables
    MaxGuesses = 3
    MinSteps = 2
    MaxSteps = 3
    LastDay = 1
    NoSalt = NoSalt
    Unknown = Unknown
    Games = {g1, g2}
    Hours = {8}
    Offset = 0
    OnFireAt = 2
    VeteranAt = 3
    RockAt = 1
    GardenAt = 1
    LastDate = 1
    MaxUnits = 2
    MaxLostWrites = 1
    MaxLaunches = 2
    Never = Never
    Minute = 2
    DefaultMinutes = 2
    Faces = {1, 3}
    LastBreath = 3
    LastSecond = 6
    NoAnchor = NoAnchor
    DayLength = 4
    LocalOffset = 1
    Horizon = 12
    MaxSegments = 3
    WeekLength = 3
    LastPlanned = 8
    PlanHorizon = 9
    NoDate = NoDate
    Profiles <- Backups
    NewCourse = "c3"
    NewSemester = "s2"
    NewHoliday <- Exam
    Pressures = {0, 22}
    MaxFailedSaves = 1
    MaxEdits = 3
    Minutes = {25, 60}
    CourseIds = {"c1"}
    General = "general"
    Milestones = {60, 85}
    Ranges = {3, 6}
    Week = Week
    LastStudyDay = 4
    MaxSessions = 3
    Versions = {1, 2}
    MaxSaves = 2
    MaxMishaps = 2
    Releases <- Published
    MaxChecks = 2
    MaxFaults = 2
    Drawings = {d1, d2}
    Mine = mine
    ThumbCapacity = 1
    MaxRequests = 6
PROPERTIES
    FutureStoreUntouched
CHECK_DEADLOCK FALSE
