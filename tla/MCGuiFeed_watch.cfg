SPECIFICATION FeedSpec
CONSTANTS
    c1 = c1
    c2 = c2
    Node = {1, 2}
    MaxOps = 20
    Limit = 1
    MaxProposals = 1
    MaxCommits = 1
    Scale = 6
    Proc = {c1, c2}
    Home <- PairHome
    Pushers = {c1}
    Configs <- Either
    MaxUserOps = 1
    MaxSaveErrors = 0
    AllowImmediate = FALSE
    Watched = 1
INVARIANTS
    FeedTypeOK
PROPERTIES
    ShownCompletedCertified
    ViewAgrees
