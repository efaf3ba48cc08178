CONSTANTS
    MaxConnects = 2
    MaxEvents = 2
SPECIFICATION FairSpec
PROPERTIES MonitorsRemoveTheirOwn DisconnectHolds
CHECK_DEADLOCK FALSE
