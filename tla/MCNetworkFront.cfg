SPECIFICATION FairSpec
CONSTANTS
    Conn = {c1, c2, c3}
    Worker = {w1}
    MaxInFlight = 2
    Free = Free
INVARIANTS
    PermitsExact
PROPERTIES
    DeadlineInterrupts
    AcceptedIsServed
CHECK_DEADLOCK FALSE
