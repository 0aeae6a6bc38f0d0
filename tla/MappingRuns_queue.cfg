SPECIFICATION Spec
CONSTANTS
    MaxRuns = 2
    Keys = {k1, k2}
    Fingerprints = {"p"}
    Workers = {w1, w2}
    Clients = {c1, c2}
    Fields = {f1}
    RecoverLimit = 1
    MaxFaults = 1
SYMMETRY Interchangeable
CHECK_DEADLOCK FALSE
INVARIANTS
    RunsAreSound
    LostOnlyToFailure
    EvidenceIsFromCompletion
PROPERTIES
    CommittedRunIsFinal
    ImplementsCustody
