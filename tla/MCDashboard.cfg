SPECIFICATION DashSpec
CONSTANTS
    MaxVersions = 1
    MaxFetchErrors = 0
CHECK_DEADLOCK FALSE
PROPERTIES
    MissedPushesArePolled
