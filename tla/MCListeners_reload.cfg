CONSTANTS
    Conns <- MCConns
    Ips = {ip1}
    NoIp = NoIp
    Transport <- MCTransport
    MaxIpConncur = 2
    Files <- MCFiles
    InitialFiles <- MCInitialFiles
    Bundles <- MCBundles
    NamesOf <- MCNamesOf
    HostNames <- MCHostNames
    MaxWrites = 2
SPECIFICATION ListenersSpec
INVARIANTS LimitHolds WatchersCurrent NameGetsItsCert
PROPERTIES HandshakesApart
CHECK_DEADLOCK FALSE
