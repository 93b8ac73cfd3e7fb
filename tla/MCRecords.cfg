SPECIFICATION RecordsSpec
CONSTANTS
    MonthsAhead = 3
    FirstMonth <- MCFirstMonth
    LastMonth <- MCLastMonth
    RowsKept = 3
    Recipients = {m1}
    Month = 2
    PageSpan = 2
    LastTick = 4
    MaxLost = 1
    FlapSweeps = {f1, f2}
    FlapCycles = 2
    FlapWindow = 2
    Lookback = 2
    WarnTicks = 2
    Cooldown <- MCCooldown
    DiskLevels = {80, 95}
    FlapTicks = 2
    Users = {u1, u2}
    FirstAdmins = {u1}
    Handlers = {h1, h2}
    Threshold = 2
    LockTicks = 1
    TokenTicks = 2
    LastAccTick = 2
    MaxCalls = 4
    MaxExits = 1
    Gear = {g1, g2}
    Cameras = {g1}
    Editors = {e1, e2}
    Resync = Resync
    Nowhere = Nowhere
    Urls = {a}
    OpenUrls = {}
    MaxEdits = 2
    MaxMishaps = 1
    MaxRestarts = 1
    Probes = {"p1", "p2"}
    Duties <- MCDuties
    Callers = {c1}
    MaxTurns = 2
    MaxLooks = 2
    Runs = {r1, r2}
    DayLength = 2
    RunAt = 1
    RawRetention = 2
    DailyRetention = 3
    MaxClock = 5
    MaxCrashes = 1
SYMMETRY WorkerSymmetry
CHECK_DEADLOCK FALSE
INVARIANTS
    RecordsTypeOK
    ReportCountsDowntime
    PageAgreesWithReport
    MailedFiguresStayTrue
    AlertsAreSpaced
    LockoutIsExact
    RightsAreCurrent
    TrailIsComplete
    PathsFollowDevices
    RecentResultsKept
    NeverOvercounted
    NoDayVanishes
    VerdictsTellTruth
