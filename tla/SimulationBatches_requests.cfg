SPECIFICATION Spec
CONSTANTS
    Simulations = {s1}
    Batches = {b1, b2}
    Requests = {h1, h2}
    Families = {f1}
    MaxCases = 2
    MaxRuns = 2
SYMMETRY Interchangeable
CHECK_DEADLOCK FALSE
INVARIANTS
    ReviewIsBacked
    TruthIsolation
    StrandedOnlyByLoss
