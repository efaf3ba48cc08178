CONSTANTS
    i1 = i1
    Ids <- MCIds
    Attachments = {}
    Sizes <- MCSizes
    AutoId <- MCAutoId
    MaxAuto = 0
    MaxStreams = 1
    MaxOpens = 2
    MaxData = 1
    PipeSize = 1
SPECIFICATION FairDaemonSpec
INVARIANTS DaemonTypeOK OpenConnsAreOwned
PROPERTIES StreamsAsPromised SubscribedStreamsEnd RequestsAreAnswered
CHECK_DEADLOCK FALSE
