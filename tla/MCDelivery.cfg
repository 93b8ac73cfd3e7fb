SPECIFICATION Spec
CONSTANTS
    Notifications = {n1, n2}
    MaxAttempts = 5
    MaxCrashes = 0
CHECK_DEADLOCK FALSE
INVARIANTS
    OneRowPerAttempt
