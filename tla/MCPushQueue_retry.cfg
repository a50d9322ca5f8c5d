SPECIFICATION FairSpec
CONSTANTS
    c1 = c1
    c2 = c2
    Node = {1, 2}
    MaxOps = 20
    Limit = 1
    MaxProposals = 2
    MaxCommits = 1
    Scale = 6
    Proc = {c1, c2}
    Home <- PairHome
    Pushers = {c1}
    Configs <- Explicit
    MaxUserOps = 1
    MaxSaveErrors = 1
    AllowImmediate = TRUE
INVARIANTS
    ExecutedCertified
PROPERTIES
    CertifiedCompletes
    CompletedStays
