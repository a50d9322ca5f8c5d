SPECIFICATION Spec
CONSTANTS
    c1 = c1
    c2 = c2
    Node = {1, 2}
    MaxOps = 20
    Limit = 1
    MaxProposals = 1
    MaxCommits = 1
    Scale = 6
    Proc = {c1, c2}
    Home <- PairHome
    Pushers = {c1, c2}
    Configs <- Changing
    MaxUserOps = 2
    MaxSaveErrors = 0
    AllowImmediate = FALSE
INVARIANTS
    TypeOK
    CertBacked
    ExecutedCertified
    OwnVoteIsLatest
PROPERTIES
    CompletedStays
