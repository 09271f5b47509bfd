SPECIFICATION FairSpec
CONSTANTS
    Turns = 2
    Worker = {w1}
    Operation <- MCOperation
    MaxAttempts = 2
    Good = 3
    Environment <- MCEnvironment
INVARIANTS
    RecoveryComplete
PROPERTIES
    BlocksNeedAuthority
    LanesServed
    CapabilityRetried
CHECK_DEADLOCK FALSE
