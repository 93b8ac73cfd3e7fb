SPECIFICATION EscFairSpec
CONSTANTS
    Alerts = {a1, a2}
    NoAlert = NoAlert
    Critical = a1
    CriticalTiers = 2
    Pagers = {u1}
    Policy <- MCPolicy
    Users <- MCUsers
    Sweeps = {s1}
    Operators = {o1}
    MaxClock = 2
    MaxEscCrashes = 1
INVARIANTS
    RecoveryStopsEscalation
