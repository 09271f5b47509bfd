SPECIFICATION EntryFairSpec
CONSTANTS
    Caller = {c1, c2}
    Identity = {i1, i2}
    Handle = {h1, h2}
    Entry = {e1, e2}
    MaxAttachments = 2
    None = None
    s1 = s1
    s2 = s2
    i1 = i1
    i2 = i2
    Scope = {s1, s2}
    IdentityOf <- EachItsOwn
    MaxRuntimes = 1
INVARIANTS
    ActiveIsRegistered
    NoSplitScope
    ClosedIsUnused
PROPERTIES
    RequestsReturn
