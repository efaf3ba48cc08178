CONSTANTS
    a = a
    b = b
    h1 = h1
    h2 = h2
    Nodes = {a, b}
    Handlers = {h1}
    Plans <- ChainOnly
    Options <- Alone
    MaxLaunch = 2
    MaxCalls = 1
    Faults = {"save"}
SPECIFICATION FairSpec
PROPERTIES GraphSettles DoneIsFinal
