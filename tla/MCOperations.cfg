SPECIFICATION Spec
CONSTANTS
    JobRequests = {r1, r2}
    NoJob = none
    MaxJobRetries = 1
    MaxTaskRetries = 1
    InflightLimit = 1
    MaxStored = 2
    MaxCrashes = 1
    Importers = {w1, w2}
    OutageIds = {u1, u2}
    OutageKeys = {u1, u2}
    Contents = {c1}
    Invalid = none
    NoOne = none
    MaxBatch = 2
    MaxRowId = 4
    MaxSortValue = 2
    PageLimit = 2
    QueueLimit = 3
    MaxChanges = 1
    HookRequests = {r1, r2, r3}
    FirstHook = r0
    Pairs = {v1, v2}
    HookCap = 2
    EventBudget = 1
    DisputeRequests = {r1, r2, r3, d4}
    Baseline = base
    NoResult = none
    Publishers = {r1, r2, r3}
    Processes = {p1, p2}
    Unconditional = unc
    Defaults = dft
    Pieces = {"None", "high", "low", "a", "b"}
    Reported <- MCReported
    Queries <- MCQueries
    Mttrs = {1, 2}
    Threshold = 1
    Days = {1, 2}
    Reporters = {w1, w2}
    MaxSlaRows = 2
    MaxLedger = 4
    PageSize = 2
    FetchAttempts = 2
    Pollers = {bg, c1, c2}
    Background = bg
    NoPoller = none
    MaxSequence = 2
    MaxProcessed = 3
    PollBudget = 2
    PollRetries = 1
    IndexWorkers = {w1, w2}
    Hashes = {u1, u2}
    MaxPayments = 2
    IndexBatch = 1
    IndexAttempts = 2
SYMMETRY MCSymmetry
INVARIANTS
    TypeOK
    SubmissionsDeduplicated
    SuccessIsReal
    RolledBackLeavesLost
    CursorWalkExact
    TombstoneGetsNoEvent
    LatestWasAwarded
    PublishedOnSeenVersion
    PlainQueriesUnmixed
    CursorPassesHandled
    AskedAsDue
    CursorLeavesNoneOut
CHECK_DEADLOCK FALSE
