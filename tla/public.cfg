SPECIFICATION PSpec
CONSTANTS
    f1 = f1
    g1 = g1
    g2 = g2
    r1 = r1
    r2 = r2
    d1 = d1
    d2 = d2
    q1 = q1
    q2 = q2
    c1 = c1
    k1 = k1
    k2 = k2
    EP = EP
    None = None
    Family = {f1, g1, g2}
    Recid = {r1, d1, d2}
    FamilyOf <- MCFamilyOf
    Request = {q1}
    Community = {c1}
    Enrolled = {c1}
    ReadOnly = {}
    Prefix <- MCPrefix
    IncludeYear = {c1}
    Years = {2026}
    Deletable = {r1, d1}
    Call = {k1, k2}
    CopyRecid = {d1, d2}
SYMMETRY Symmetry
INVARIANTS
    MarkerNamesACopy
    OneCopyWhenUndisturbed
CHECK_DEADLOCK FALSE
