SPECIFICATION QueueSpec
CONSTANTS
    j1 = j1 j2 = j2 w1 = w1 w2 = w2 t1 = t1 t2 = t2 d1 = d1 d2 = d2
    NoJob = NoJob
    NoWorker = NoWorker
    Jobs = {j1, j2}
    Workers = {w1}
    Tasks = {t1}
    Dispatchers = {d1}
    MaxInFlight = 2
    MaxAttempts = 1
    AttemptsBound = 1
    StreamBound = 0
CHECK_DEADLOCK FALSE
PROPERTIES
    PendingIsQueued
    PendingIsTaken
