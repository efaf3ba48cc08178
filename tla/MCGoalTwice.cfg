CONSTANTS
    r1 = r1
    r2 = r2
    d1 = d1
    h1 = h1
    h2 = h2
    Runs = {r1}
    Dirs = {d1}
    DirOf <- OneDir
    Custom = {r1}
    Handlers = {h1, h2}
    Cap = 1
    Budget = 0
    IdleLimit = 1
    NoTextLimit = 1
    MaxCalls = 2
    MaxIter = 3
SPECIFICATION Spec
INVARIANTS TypeOK NoIterationIsSkipped TerminalIsAnnounced
SYMMETRY HandlerSymmetry
