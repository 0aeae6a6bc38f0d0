SPECIFICATION Spec
CONSTANTS
    Users = {u1, u2}
    Admins = {}
    Actions = {a1, a2}
    Others = {}
    MaxEvents = 0
    MaxRows = 1
    Inputs = {i1, i2}
    Sound = {i1}
    Recommendations = {r1}
    Parts = {p}
    MaxExecutions = 1
    MaxDecisions = 2
    MaxLinks = 2
SYMMETRY Interchangeable
CHECK_DEADLOCK FALSE
INVARIANTS
    SolvingIsSound
    AuthorityIsCurrent
    ConvertedOnce
