SPECIFICATION Spec
CONSTANTS
    Api = Api
    Celery = Celery
    Processes = {Api, Celery}
    Callers <- MCCallers
    ProcessOf <- MCProcessOf
    FailThreshold = 2
    Deliveries = {d1}
    TaskWorkers = {}
    Sweepers = {s1}
    ApiThreads = {a1, a2}
    Replayers = {a1, a2}
    MaxRetries = 1
    RetryDelays = 1
    BatchSize = 2
    MaxCrashes = 0
    TaskRetries = 1
PROPERTY
    DeliveredIsFinal
CHECK_DEADLOCK FALSE
