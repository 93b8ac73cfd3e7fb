SPECIFICATION Spec
CONSTANTS
    Devices = {cam}
    NoDevice = NoDevice
    Nvr = nvr
    Camera = cam
    Parent <- MCParent
    Workers = {w1, w2}
    NoWorker = NoWorker
    DownThreshold = 3
    UpThreshold = 2
    Outcomes = {"OK", "FAIL"}
    NvrResults = 0
    CameraResults = 4
    MaxResults <- MCMaxResults
    MaxQueued = 1
    MaxCrashes = 0
SYMMETRY WorkerSymmetry
INVARIANTS
    MaintenanceStopsDowntime
