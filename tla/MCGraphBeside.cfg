CONSTANTS
    a = a
    b = b
    h1 = h1
    h2 = h2
    Nodes = {a, b}
    Handlers = {h1}
    Plans <- ChainOnly
    Options <- Gated
    MaxLaunch = 1
    MaxCalls = 2
    Faults = {"save", "commit"}
SPECIFICATION Spec
INVARIANTS PausedPlanCanBeApproved ReviewedNodeCanBeAccepted DoneMeansCommitted
PROPERTIES RestartRemembersGraph DoneSurvivesRestart
