SPECIFICATION WorkersSpec
CONSTANTS
    Parts = {"life", "stream", "pair"}
    pod = pod listedPod = listedPod container = container
    j1 = j1 j2 = j2
    Workers = {pod, listedPod, container}
    Named = {pod, listedPod}
    Listed = {listedPod}
    Dispatched = {pod}
    Called = {listedPod}
    Ephemeral = {container}
    Loops = {"health", "cleanup", "sweep"}
    LifeMaxFaults = 1
    SJobs = {j1, j2}
    Lossy = TRUE
    StreamMaxFaults = 2
CHECK_DEADLOCK FALSE
INVARIANTS
    ForgottenIsDestroyed
    ResultOnce
    LeavesEmptyHanded
    ChannelIsRead
PROPERTIES
    ContainersAreReclaimed
    GhostRowsLeave
    BusyEnds
    WorkerReconnects
    JobsAreAnswered
