SPECIFICATION Spec
CONSTANTS
    Turns = 1
    Worker = {w1, w2}
    Operation <- NoOperation
    MaxAttempts = 3
    Good = 2
    Environment <- Denied
PROPERTY
    BlocksNeedAuthority
CHECK_DEADLOCK FALSE
