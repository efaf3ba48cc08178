CONSTANTS
    a = a
    b = b
    h1 = h1
    h2 = h2
    Nodes = {a, b}
    Handlers = {h1}
    Plans <- FanOnly
    Options <- Plain
    MaxLaunch = 1
    MaxCalls = 1
    Faults = {}
SPECIFICATION FairSpec
PROPERTY StalledGraphPauses
