SPECIFICATION Spec
CONSTANTS
    s1 = s1
    s2 = s2
    Source = {s1, s2}
    NTools = 2
    Feeds <- MCFeeds
    MaxAttempts = 2
    MaxEpoch = 3
    Raised = 4
    Worker = {w1, w2}
    Environment <- MCEnvironment
SYMMETRY Symmetry
INVARIANTS
    ReadsAreFenced
    ReadyIsComplete
    RootClosesJob
    ScanCoversInventory
PROPERTY
    CapacityNeedsResume
CHECK_DEADLOCK FALSE
