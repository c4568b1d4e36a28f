SPECIFICATION FairSpec
CONSTANTS
    Api = Api
    Celery = Celery
    Processes = {Api, Celery}
    Callers <- MCCallers
    ProcessOf <- MCProcessOf
    FailThreshold = 1
    Deliveries = {d1, d2}
    TaskWorkers = {w1}
    Sweepers = {s1}
    ApiThreads = {a1}
    Replayers = {}
    MaxRetries = 1
    RetryDelays = 1
    BatchSize = 1
    MaxCrashes = 0
    TaskRetries = 0
PROPERTIES
    EveryRetryIsMade
CHECK_DEADLOCK FALSE
