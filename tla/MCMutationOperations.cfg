SPECIFICATION Spec
CONSTANTS
    t1 = t1
    t2 = t2
    t3 = t3
    p1 = p1
    p2 = p2
    k1 = k1
    k2 = k2
    d = d
    None = None
    Thread = {t1, t2, t3}
    Process = {p1, p2}
    ProcessOf <- TwoProcesses
    Request <- MCRequest
    MaxKeys = 1
INVARIANTS
    ExactlyOnce
    SuccessIsDurable
    ReservationsExact
PROPERTIES
    NoResurrection
SYMMETRY Symmetry
CONSTRAINT TwoAtATime
