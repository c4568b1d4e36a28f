SPECIFICATION Spec
CONSTANTS
    AuthRequests = {r1, r2, r3}
    FirstToken = t0
    LegacyToken = t1
    NoToken = none
    MaxFailed = 2
    CredRequests = {r1, r2, r3}
    Scopes = {s1}
    Providers = {w1, w2}
    Attempts = {w1, w2}
    Prefixes = {r1, r2, r3}
    NoPrefix = none
    RequestLimit = 1
    Entropy = 2
    MaxAttempts = 3
    IdemRequests = {r1, r2, r3}
    Actors = {a1}
    Keys = {k1}
    Payloads = {w1, w2}
    Workers = {k1}
    MaxCompleted = 0
    Nobody = none
    WalletRequests = {r1, r2, r3}
    Owners = {o1, o2}
    NoAddress = none
    AuditWriters = {w1, w2}
    Archivers = {a1, a2}
    NoWriter = none
    MaxEntries = 2
    AuditBatch = 1
SYMMETRY MCSymmetry
INVARIANTS
    TypeOK
    RotatedTokenGone
    RetiredIsRefused
    RetryNotHandledAgain
    AttemptsLimited
    AnswersNameOneWallet
    AppendsFollowTail
    ChainVerifies
PROPERTIES
    TokensLiveOnce
    LockSurvivesLogin
CHECK_DEADLOCK FALSE
