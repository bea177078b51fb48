SPECIFICATION Spec
CONSTANTS
    p1 = p1
    p2 = p2
    r1 = r1
    r2 = r2
    r3 = r3
    v1 = v1
    v2 = v2
    t1 = t1
    t2 = t2
    None = None
    Parent = {p1, p2}
    Record = {r1, r3}
    ParentOf <- MCParentOf
    Value = {v1}
    Task = {t1, t2}
SYMMETRY Symmetry
INVARIANTS
    PublishedNumberOwned
    SettledStatus
CHECK_DEADLOCK FALSE
