SPECIFICATION Spec
CONSTANTS
    MaxRuns = 2
    Keys = {k1, k2}
    Fingerprints = {"p"}
    Workers = {w1, w2}
    Clients = {c1}
    Fields = {}
    RecoverLimit = 2
    MaxFaults = 1
PROPERTIES
    QueuedIsTaken
    StrandedIsRecovered
CHECK_DEADLOCK FALSE
