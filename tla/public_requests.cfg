SPECIFICATION PSpec
CONSTANTS
    f1 = f1
    g1 = g1
    g2 = g2
    r1 = r1
    r2 = r2
    d1 = d1
    d2 = d2
    q1 = q1
    q2 = q2
    c1 = c1
    k1 = k1
    k2 = k2
    EP = EP
    None = None
    Family = {f1, g1}
    Recid = {r1, r2, d1}
    FamilyOf <- MCFamilyOf
    Request = {q1, q2}
    Community = {c1}
    Enrolled = {c1}
    ReadOnly = {}
    Prefix <- MCPrefix
    IncludeYear = {c1}
    Years = {2026}
    Deletable = {r1}
    Call = {k1}
    CopyRecid = {d1}
SYMMETRY Symmetry
INVARIANTS
    NumbersOnParentsIssued
    CopyCarriesAcceptedNumber
    CopiesNeverUnderReview
CHECK_DEADLOCK FALSE
