SPECIFICATION Spec
CONSTANTS
    r1 = r1
    r2 = r2
    e1 = e1
    e2 = e2
    e3 = e3
    Versions = {v1}
    Fields = {f1}
    Users = {u1, u2}
    Runs = {r1, r2}
    InputsOf <- OneEach
    Entities = {e1, e2, e3}
    EntityOf <- SameEntity
    Seeded = {e1, e2}
    NoEntity = NoEntity
    Decisions = {"confirm", "reject", "defer"}
    Verdicts = {"accepted", "rejected"}
SYMMETRY Interchangeable
CHECK_DEADLOCK FALSE
INVARIANTS
    ReviewIsSound
    UsedVersionIsGoverned
    NoAutoMerge
    NothingHidden
