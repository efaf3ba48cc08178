CONSTANTS
    a = a
    b = b
    h1 = h1
    h2 = h2
    Nodes = {a, b}
    Handlers = {h1, h2}
    Plans <- ChainOnly
    Options <- Gated
    MaxLaunch = 2
    MaxCalls = 4
    Faults = {}
SPECIFICATION Spec
SYMMETRY HandlerSymmetry
INVARIANTS ReviewGate
PROPERTY DoneIsFinal
