CONSTANTS
    r1 = r1
    r2 = r2
    d1 = d1
    h1 = h1
    h2 = h2
    Runs = {r1}
    Dirs = {d1}
    DirOf <- OneDir
    Custom = {}
    Handlers = {h1}
    Cap = 2
    Budget = 1
    IdleLimit = 2
    NoTextLimit = 2
    MaxCalls = 0
    MaxIter = 2
SPECIFICATION FairSpec
PROPERTIES SilentRunsEscalate ReportsAreActedOn ClosedRunsAreDropped
