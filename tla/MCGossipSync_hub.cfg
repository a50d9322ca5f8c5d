SPECIFICATION Spec
CONSTANTS
    d1 = d1
    d2 = d2
    c1 = c1
    c3 = c3
    None = None
    Node = {1, 2, 3}
    Store <- HubStore
    Daemon <- HubDaemon
    Home <- HubHome
    Peers <- HubPeers
    Conn = {k1, k2}
    MaxOps = 2
    Limit = 1
    MaxRounds = 2
    MaxWriteErrors = 0
    MaxLost = 0
INVARIANTS
    NoFork
    NoGaps
PROPERTIES
    QuietEndMeansSynced
SYMMETRY
    ConnSymmetry
