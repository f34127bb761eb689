SPECIFICATION Spec
CONSTANTS
    c1 = c1
    c2 = c2
    u1 = u1
    u2 = u2
    u3 = u3
    s1 = s1
    s2 = s2
    t1 = t1
    t2 = t2
    f1 = f1
    f2 = f2
    Slots = {c1, c2}
    Offered = {"start", "heartbeat", "finish", "settle", "reconcile"}
    Grace = 1
    MaxSession = 2
    StaleAfter = 1
    MaxTime = 2
    MaxSessions = 2
    MaxFaults = 1
    Users = {u1, u2, u3}
    Squads = {s1, s2}
    NoSquad = NoSquad
    MaxMembers = 2
    SquadSlots = {c1, c2}
    MaxSquadCalls = 3
    MaxSquadFaults = 1
    Author = u1
    Viewer = u2
    Emoji = {1}
    Options = {1, 2}
    ImageLimit = 3
    FeedSlots = {c1, c2}
    MaxDrawings = 1
    MaxFeedCalls = 4
    MaxFeedFaults = 1
    Players = {u1, u2}
    Themes = {t1, t2}
    NoTheme = NoTheme
    NoPlayer = NoPlayer
    LastDay = 1
    SkribblSlots = {c1, c2}
    MaxSkribblCalls = 3
    MaxSkribblFaults = 1
    MaxMinutes = 2
    ScoreSlots = {c1, c2}
    MaxScoreCalls = 4
    MaxScoreFaults = 1
    Accounts = {u1, u2}
    Codes = {f1, f2}
    NoCode = NoCode
    Standalone = {"honeypot_field"}
    Weak = {"format_atypical", "implausible_stat_growth"}
    SignupLimit = 1
    MaxTotal = 2
    AccountSlots = {c1, c2}
    MaxAccountCalls = 3
    MaxAccountFaults = 1
SYMMETRY AnySlot
INVARIANTS
    CreditedExactlyOnce
    GapCreditedOnce
    SquadsKept
    FeedKept
    SkribblKept
    SyncKept
CHECK_DEADLOCK FALSE
