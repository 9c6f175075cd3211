SPECIFICATION WorkersSpec
CONSTANTS
    Parts = {"stream"}
    pod = pod listedPod = listedPod container = container
    j1 = j1 j2 = j2
    Workers = {pod}
    Named = {pod}
    Listed = {}
    Dispatched = {pod}
    Called = {}
    Ephemeral = {}
    Loops = {"health", "cleanup", "sweep"}
    LifeMaxFaults = 0
    SJobs = {j1}
    Lossy = FALSE
    StreamMaxFaults = 1
CHECK_DEADLOCK FALSE
INVARIANTS
    ResultsSurvive
