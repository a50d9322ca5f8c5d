SPECIFICATION Spec
CONSTANTS
    d1 = d1
    d2 = d2
    c1 = c1
    c3 = c3
    None = None
    Node = {1, 2}
    Store <- PairStore
    Daemon <- PairDaemon
    Home <- PairHome
    Peers <- PairPeers
    Conn = {k1}
    MaxOps = 3
    Limit = 1
    MaxRounds = 2
    MaxWriteErrors = 1
    MaxLost = 1
INVARIANTS
    TypeOK
    NoFork
    NoGaps
    SummaryDurable
PROPERTIES
    QuietEndMeansSynced
