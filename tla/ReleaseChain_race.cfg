SPECIFICATION Spec
CONSTANTS
    i1 = i1
    i2 = i2
    j1 = j1
    c1 = c1
    c2 = c2
    m1 = m1
    h1 = h1
    h2 = h2
    None = None
    Items <- OneItem
    Jobs <- OneJob
    Heads <- TwoHeads
    Shas <- OneSha
    Envs <- NoEnvs
    Handlers <- TwoHandlers
    RetryLimit = 0
SYMMETRY Symmetry
INVARIANTS
    RetestIsSound
    RetestStrandsOnlyByLoss
PROPERTIES
    KeepsCustody
