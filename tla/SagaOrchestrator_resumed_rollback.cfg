SPECIFICATION SerialSpec
CONSTANTS
    s1 = s1 s2 = s2 c1 = c1 c2 = c2 p1 = p1 p2 = p2
    NoSaga = NoSaga
    Sagas = {s1}
    Provisioning = {}
    NSteps = 2
    HasCompensation = {1, 2}
    Consumers = {c1}
    Pollers = {}
    Reactive = {}
    MaxConcurrent = 1
    MaxCalls = 2
PROPERTIES
    RollbackGoesOn
