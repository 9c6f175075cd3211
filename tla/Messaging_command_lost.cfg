SPECIFICATION MessagingSpec
CONSTANTS
    e1 = e1 e2 = e2 r1 = r1 b1 = b1 k1 = k1 m1 = m1 NoMessage = NoMessage
    Parts = {"commands"}
    Events = {e1, e2}
    Poison = {e2}
    Relays = {r1}
    BatchSize = 2
    MaxRetries = 2
    MaxCrashes = 1
    FailureThreshold = 3
    SuccessThreshold = 2
    Window = 6
    RatePercent = 50
    Commands = {b1, k1}
    Carried = {k1}
    CmdBatchSize = 1
    CmdMaxRetries = 2
    CmdMaxFaults = 3
    Messages = {m1}
    MaxDeliver = 2
    MaxStarts = 3
    MaxConsumerFaults = 2
CHECK_DEADLOCK FALSE
PROPERTIES
    CommandsSurvive
