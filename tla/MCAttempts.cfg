SPECIFICATION Spec
CONSTANTS
    Notifications = {n1}
    MaxAttempts = 5
    MaxCrashes = 0
CHECK_DEADLOCK FALSE
INVARIANTS
    AtMostMaxAttempts
