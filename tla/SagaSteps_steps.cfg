CONSTANTS
    j1 = j1
    w1 = w1
    w2 = w2
    r1 = r1
    r2 = r2
    NoJob = NoJob
    NoWorker = NoWorker
    Jobs = {j1}
    Workers = {w1, w2}
    Registered = {w1}
    Runs = {r1, r2}
    Services = {"execution", "provisioning", "cancellation", "timeout", "recovery", "cleanup"}
    May <- MCMay
    MaxFaults = 2
SPECIFICATION MCSpec
CHECK_DEADLOCK FALSE
INVARIANTS TypeOK RunJobOnce SucceededWasSent RollbackIsHonest
PROPERTIES ExecutionRespectsTerminal SagaEnds
