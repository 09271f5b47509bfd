SPECIFICATION MCSpec
CONSTANTS
    c1 = c1
    c2 = c2
    i1 = i1
    i2 = i2
    Caller = {c1, c2}
    Identity = {i1, i2}
    Handle = {h1}
    Entry = {e1, e2}
    MaxAttachments = 2
    None = None
INVARIANTS
    CutCallsDoNotComplete
    ShutdownMeansStopped
PROPERTIES
    NoAdmissionAfterStop
    WakeIsFollowedByScan
    MissedSignalIsNoFailure
CHECK_DEADLOCK FALSE
