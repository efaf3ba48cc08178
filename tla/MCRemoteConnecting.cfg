CONSTANTS
    MaxConnects = 2
    MaxEvents = 2
SPECIFICATION FairSpec
PROPERTY ConnectingEnds
CHECK_DEADLOCK FALSE
