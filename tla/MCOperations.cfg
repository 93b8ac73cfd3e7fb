SPECIFICATION OperationsSpec
CONSTANTS
    Notifications = {n1, n2}
    MaxAttempts = 5
    MaxCrashes = 1
    Site <- MCSite
    NoRef = NoRef
    Interval <- MCInterval
    MaxJitter = 1
    Sweepers = {s1, s2}
    WindowRows <- MCWindows
    MaxNow = 2
    MaxChanges = 1
    MaxDeaths = 1
    MaxOverlaps = 1
    MaxVersions = 2
    MaxFetchErrors = 2
    Alerts = {a1}
    NoAlert = NoAlert
    Critical = a1
    CriticalTiers = 2
    Pagers = {u1, u2}
    Policy <- MCPolicy
    Users <- MCUsers
    Sweeps = {w1, w2}
    Operators = {o1}
    MaxClock = 2
    MaxEscCrashes = 1
CHECK_DEADLOCK FALSE
INVARIANTS
    OperationsTypeOK
    LogTellsTheStory
    SettledIsFinal
    NeverGivenUpEarly
    RepeatsAreExplained
    FewDuplicates
    LadderInOrder
    AckStopsEscalation
    OnlyCrashesLosePages
PROPERTIES
    EveryNotificationEnds
    NoCheckStarves
    DashboardCatchesUp
    OpenAlertsEscalate
