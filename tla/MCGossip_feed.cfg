SPECIFICATION FairSpec
CONSTANTS
    Clients = {c1}
    Pubkeys = {p1}
    Infos <- MCInfos
    StartupCount = 1
    MaxEvents = 5
    RingCapacity = 1
    ChannelCapacity = 1
    MaxResnapshotAttempts = 1
PROPERTIES ImplementsTopologyView DeadClientReleased EventuallySynchronised
CHECK_DEADLOCK FALSE
