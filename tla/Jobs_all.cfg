SPECIFICATION JobsSpec
CONSTANTS
    Parts = {"handlers", "logs"}
    j1 = j1 w1 = w1 t1 = t1 d1 = d1 f1 = f1 f2 = f2
    NoJob = NoJob
    NoWorker = NoWorker
    Jobs = {j1}
    Workers = {w1}
    Tasks = {t1}
    Dispatchers = {d1}
    MaxInFlight = 1
    MaxAttempts = 3
    AttemptsBound = 5
    StreamBound = 2
    Followers = {f1, f2}
    WithHistory = {f2}
    PairLines = 2
    MaxLines = 3
    BatchLines = 2
    WireCap = 2
    LogBufferSize = 2
    FollowerCap = 1
CHECK_DEADLOCK FALSE
INVARIANTS
    TypeOK
    AttemptsBudget
    LogTypeOK
    LinesInOrder
    ResultComesLast
    FollowersMissNothing
PROPERTIES
    TerminalIsFinal
    LogsAreFinalized
    FollowersEnd
