SPECIFICATION PolicySpec
CONSTANTS
    o1 = o1
    o2 = o2
    o3 = o3
    rule = rule
    t1 = t1
    t2 = t2
    None = None
    Thread = {t1, t2}
    Op = {o1, o2, o3}
    Rule = {rule}
    Request <- MCRequest
SYMMETRY Symmetry
INVARIANTS
    AuditReconstructs
PROPERTIES
    OldRemovalSparesLater
