CONSTANTS
    MaxConnects = 2
    MaxEvents = 3
SPECIFICATION FairSpec
INVARIANTS TypeOK EntryIsWatched
PROPERTIES ClosedWorkspaceDisconnects DeadConnectionIsNoticed
CHECK_DEADLOCK FALSE
