SPECIFICATION FairSpec
CONSTANTS
    NoSnapshot = NoSnapshot
    Clients = {c1}
    Slots = {n1, n2}
    MaxConnections = 1
    MaxSeq = 3
    MaxProducers = 2
    MaxFaults = 2
INVARIANT ChannelInv
PROPERTIES ViewersSeeLatestValue EveryViewerConverges
CHECK_DEADLOCK FALSE
