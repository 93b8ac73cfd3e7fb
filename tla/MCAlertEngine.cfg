SPECIFICATION Spec
CONSTANTS
    Devices = {nvr, cam1, cam2}
    NoDevice = NoDevice
    Nvr = nvr
    Flapper = cam1
    Parent <- MCParent
    Handlers = {h1, h2}
    Recipients = {r1}
    NewStates <- MCNewStates
    StormWindow = 1
    NvrEvents = 1
    FlapperEvents = 3
    OtherEvents = 1
    MaxEvents <- MCMaxEvents
    MaxClock = 2
    MaxCrashes = 1
SYMMETRY MCSymmetry
CHECK_DEADLOCK FALSE
INVARIANTS
    TypeOK
    AlertsAnswerEvents
    PagesMatchAlerts
    BurstGroupsBounded
