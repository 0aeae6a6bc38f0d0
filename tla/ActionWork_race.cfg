SPECIFICATION ActionSpec
CONSTANTS
    Users = {u1, u2}
    Admins = {u1}
    Actions = {a1}
    Others = {o1}
    MaxEvents = 6
    MaxRows = 2
SYMMETRY Interchangeable
CHECK_DEADLOCK FALSE
INVARIANTS
    ValueIsSound
    WorkIsAuthorised
    TrailExplainsStatus
