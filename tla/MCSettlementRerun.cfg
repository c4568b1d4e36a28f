SPECIFICATION Spec
CONSTANTS
    None = None
    Outages = {o1}
    Requests = {r1, r2, r3}
    Severities = {"critical"}
    SLA_CONFIG <- MCConfig
    Mttrs = {16}
    Times = {t1}
    MaxEdits = 1
INVARIANT
    UnchangedInputsSameResult
CHECK_DEADLOCK FALSE
