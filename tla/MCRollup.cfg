SPECIFICATION Spec
CONSTANTS
    Runs = {r1}
    DayLength = 2
    RunAt = 1
    RawRetention = 2
    DailyRetention = 5
    MaxClock = 7
    MaxCrashes = 0
CHECK_DEADLOCK FALSE
INVARIANTS
    DeletedResultsAreCounted
