SPECIFICATION Spec
CONSTANTS
    None = None
    Worker = Worker
    Payments = {p1}
    Handlers = {h1, h2}
    Processes = {Worker}
    ProcessOf <- MCProcessOf
    Nonces = {n1}
    MAX_RETRIES = 2
    MaxFallback = 2
SYMMETRY MCSymmetry
PROPERTY
    ConfirmedIsFinal
