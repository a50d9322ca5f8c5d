SPECIFICATION FairSpec
CONSTANTS
    d1 = d1
    d2 = d2
    c1 = c1
    c3 = c3
    None = None
    Node = {1, 2}
    Store <- PairStore
    Daemon <- PairDaemon
    Home <- PairHome
    Peers <- OneWayPeers
    Conn = {k1}
    MaxOps = 2
    Limit = 1
    MaxRounds = 2
    MaxWriteErrors = 0
    MaxLost = 1
PROPERTIES
    DaemonsConverge
    DaemonsFetch
    ImplementsReplicatedOpLog
