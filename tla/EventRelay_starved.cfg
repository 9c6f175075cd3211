SPECIFICATION FairSpec
CONSTANTS
    e1 = e1 e2 = e2 r1 = r1
    Events = {e1, e2}
    Poison = {e2}
    Relays = {r1}
    BatchSize = 1
    MaxRetries = 2
    MaxCrashes = 1
    FailureThreshold = 3
    SuccessThreshold = 2
    Window = 6
    RatePercent = 50
CHECK_DEADLOCK FALSE
PROPERTIES
    EventsArePublished
