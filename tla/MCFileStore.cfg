SPECIFICATION FairSpec
CONSTANTS
    t1 = t1
    t2 = t2
    p1 = p1
    p2 = p2
    a = a
    b = b
    v1 = v1
    v2 = v2
    e1 = e1
    e2 = e2
    e3 = e3
    Absent = Absent
    NoThread = NoThread
    NoKey = NoKey
    NoJournal = NoJournal
    NoImage = NoImage
    NoRequest = NoRequest
    Thread = {t1, t2}
    Process = {p1, p2}
    ProcessOf <- TwoProcesses
    Key = {a, b}
    Value = {v1, v2}
    Event = {e1, e2, e3}
    Request <- MCRequests
    InitDocs <- InitialDocs
    KvMaxEntries = 2
    EventLogMaxItems = 2
INVARIANTS
    ReadsOneState
    NeverDamaged
    WithinCapacity
PROPERTIES
    CallsReturn
    ImplementsAtomicStore
