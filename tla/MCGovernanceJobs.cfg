SPECIFICATION Spec
CONSTANTS
    Caller = {c1, c2}
    OwnerOf <- SharedOwner
    Turns = 2
    Plan = {p, q}
    Generation = {1, 2}
    MaxAttempts = 2
    LeaseSecs = 2
    RetryBase = 1
    RetryMax = 1
    MaxActive = 2
    MaxTerminal = 1
    PageLimit = 2
    Ops <- AllOps
    MaxRevision = 7
    MaxTime = 4
    None = None
SYMMETRY Symmetry
CONSTRAINT Explored
INVARIANTS
    AppliedOnce
    AcksAreApplied
    IndexAgrees
PROPERTIES
    CursorCoversTurns
    WithdrawnGetNoJob
    LeaseFenced
    RecoveryAdvances
CHECK_DEADLOCK FALSE
