SPECIFICATION Spec
CONSTANTS
    o1 = o1
    o2 = o2
    w1 = w1
    w2 = w2
    NoKey = NoKey
    Orgs = {o1, o2}
    Workers = {w1, w2}
    OrgOf <- OneEach
    Requests <- GatedOrNot
    Jobs = {j1}
    RetryLimit = 1
    MaxLease = 4
INVARIANTS
    RowsAreSound
    RunningIsRecoverable
    ExecutionsBounded
PROPERTIES
    SettledIsFinal
    ClaimableSettles
