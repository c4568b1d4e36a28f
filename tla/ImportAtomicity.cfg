SPECIFICATION ImportSpec
CONSTANTS
    Importers = {w1}
    OutageIds = {u1}
    OutageKeys = {u1}
    Contents = {c1}
    Invalid = none
    NoOne = none
    MaxBatch = 1
INVARIANT AllOrNothing
CHECK_DEADLOCK FALSE
