SPECIFICATION Spec
CONSTANTS
    None = None
    Outages = {o1}
    Requests = {r1, r2, r3}
    Severities = {"critical", "low"}
    SLA_CONFIG <- MCConfig
    Mttrs = {15, 16}
    Times = {t1, t2}
    MaxEdits = 1
SYMMETRY MCSymmetry
INVARIANTS
    TypeOK
    ExactlyOneLatest
    PaidOncePerResult
    SettledOutageKept
    RecomputeInputsFresh
    NotifiedAfterPayment
PROPERTIES
    MttrWrittenOnce
    ResultsOnlySuperseded
CHECK_DEADLOCK FALSE
