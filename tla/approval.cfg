SPECIFICATION Spec
CONSTANTS
    f1 = f1
    f2 = f2
    r1 = r1
    r2 = r2
    r3 = r3
    q1 = q1
    q2 = q2
    c1 = c1
    EP = EP
    None = None
    Family = {f1, f2}
    Recid = {r1, r2, r3}
    FamilyOf <- MCFamilyOf
    Request = {q1, q2}
    Community = {c1}
    Enrolled = {c1}
    ReadOnly = {}
    Prefix <- MCPrefix
    IncludeYear = {c1}
    Years = {2026, 2027}
    Deletable = {r1, r2}
SYMMETRY Symmetry
INVARIANTS
    NoSharedNumber
    ApprovalMatchesRequest
    GrantsMatchRequests
    ReadableOnlyUnderReview
    IndInv
PROPERTIES
    ClosedForGood
    ImplementsCounter
CHECK_DEADLOCK FALSE
