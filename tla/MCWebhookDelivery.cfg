SPECIFICATION Spec
CONSTANTS
    Api = Api
    Celery = Celery
    Processes = {Api, Celery}
    Callers <- MCCallers
    ProcessOf <- MCProcessOf
    FailThreshold = 2
    Deliveries = {d1, d2}
    TaskWorkers = {w1}
    Sweepers = {s1}
    ApiThreads = {a1}
    Replayers = {a1}
    MaxRetries = 1
    RetryDelays = 1
    BatchSize = 2
    MaxCrashes = 1
    TaskRetries = 1
SYMMETRY MCSymmetry
INVARIANTS
    TypeOK
    NeverWedged
    OneSender
    AttemptsBounded
PROPERTIES
    DeliveredIsFinal
CHECK_DEADLOCK FALSE
