SPECIFICATION ProgressSpec
CONSTANTS
    Devices = {nvr, cam}
    NoDevice = NoDevice
    Nvr = nvr
    Camera = cam
    Parent <- MCParent
    Workers = {w1, w2}
    NoWorker = NoWorker
    DownThreshold = 1
    UpThreshold = 1
    Outcomes = {"OK", "FAIL"}
    NvrResults = 2
    CameraResults = 4
    MaxResults <- MCMaxResults
    MaxQueued = 1
    MaxCrashes = 1
INVARIANTS
    SuppressionIsCovered
    OutagesEndWithRecovery
PROPERTIES
    EveryCheckEnds
