SPECIFICATION Spec
CONSTANTS
    m = m
    o = o
    Users = {u1, u2}
    Datasets = {m}
    DomainOf <- OneDomain
    Relevant = {}
    Rules <- NoRules
    Needs <- RuleNeeds
    NeedsTrust <- RuleTrusts
    Faults <- NoFaults
    MaxRuns = 2
INVARIANTS
    CaseShowsARun
PROPERTIES
    RunSettles
CHECK_DEADLOCK FALSE
