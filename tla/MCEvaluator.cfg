SPECIFICATION Spec
CONSTANTS
    Devices = {cam}
    NoDevice = NoDevice
    Nvr = nvr
    Camera = cam
    Parent <- MCParent
    Workers = {w1, w2}
    NoWorker = NoWorker
    DownThreshold = 3
    UpThreshold = 2
    Outcomes = {"OK", "DEGRADED", "FAIL"}
    NvrResults = 0
    CameraResults = 5
    MaxResults <- MCMaxResults
    MaxQueued = 1
    MaxCrashes = 1
SYMMETRY WorkerSymmetry
INVARIANTS
    TypeOK
    CountersMatchResults
    EventsAreAChain
    OnlyCrashesLoseAlerts
PROPERTIES
    StateFollowsResults
