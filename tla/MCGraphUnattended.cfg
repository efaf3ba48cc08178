CONSTANTS
    a = a
    b = b
    h1 = h1
    h2 = h2
    Nodes = {a, b}
    Handlers = {h1}
    Plans <- BothPlans
    Options <- Unattended
    MaxLaunch = 2
    MaxCalls = 2
    Faults = {}
SPECIFICATION Spec
INVARIANTS TypeOK CapHolds DependentsSeeMergedBranches CompleteMeansMerged RunningHasNodes
