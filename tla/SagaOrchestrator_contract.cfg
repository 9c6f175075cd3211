SPECIFICATION SerialSpec
CONSTANTS
    s1 = s1 s2 = s2 c1 = c1 c2 = c2 p1 = p1 p2 = p2
    NoSaga = NoSaga
    Sagas = {s1, s2}
    Provisioning = {s2}
    NSteps = 4
    HasCompensation = {2, 3}
    Consumers = {c1}
    Pollers = {p1, p2}
    Reactive = {p2}
    MaxConcurrent = 1
    MaxCalls = 3
INVARIANTS
    TypeOK
    StepCompletedOnce
    ActiveIsExact
PROPERTIES
    ContractSpec
