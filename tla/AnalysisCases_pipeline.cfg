SPECIFICATION Spec
CONSTANTS
    m = m
    o = o
    Users = {u1}
    Datasets = {m, o}
    DomainOf <- TwoDomains
    Relevant = {"maintenance"}
    Rules <- ThreeRules
    Needs <- RuleNeeds
    NeedsTrust <- RuleTrusts
    Faults <- AllFaults
    MaxRuns = 1
CHECK_DEADLOCK FALSE
INVARIANTS
    PublicationIsSound
    StatusTellsLoss
    PublishedOnTrust
    FindingsArriveTogether
