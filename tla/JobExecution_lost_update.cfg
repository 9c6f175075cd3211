SPECIFICATION CheckedSpec
CONSTANTS
    j1 = j1 j2 = j2 w1 = w1 w2 = w2 t1 = t1 t2 = t2 d1 = d1 d2 = d2
    NoJob = NoJob
    NoWorker = NoWorker
    Jobs = {j1}
    Workers = {w1}
    Tasks = {t1, t2}
    Dispatchers = {d1}
    MaxInFlight = 2
    MaxAttempts = 3
    AttemptsBound = 5
    StreamBound = 1
CHECK_DEADLOCK FALSE
PROPERTIES
    TerminalIsFinal
