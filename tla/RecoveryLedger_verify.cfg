SPECIFICATION Spec
CONSTANTS
    c1 = c1  m1 = m1  u1 = u1  u2 = u2
    k1 = k1  k2 = k2  k3 = k3  h1 = h1  h2 = h2
    None = None
    Cases <- OneCase
    Measurements <- OneMeasurement
    CaseOf <- SameCase
    Users <- TwoUsers
    Keys <- ThreeKeys
    Amounts <- UnitAmount
    Decisions = {"rejected"}
    Handlers <- TwoHandlers
SYMMETRY Symmetry
CHECK_DEADLOCK FALSE
INVARIANTS
    LedgerIsSound
    DutiesSegregated
    VerifiedOnce
    ReversalsBounded
PROPERTIES
    PostedIsImmutable
