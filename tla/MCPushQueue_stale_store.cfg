SPECIFICATION Spec
CONSTANTS
    c1 = c1
    c2 = c2
    Node = {1}
    MaxOps = 20
    Limit = 1
    MaxProposals = 2
    MaxCommits = 1
    Scale = 6
    Proc = {c1}
    Home <- AloneHome
    Pushers = {c1}
    Configs <- Discovered
    MaxUserOps = 0
    MaxSaveErrors = 0
    AllowImmediate = FALSE
INVARIANTS
    LogLoads
CHECK_DEADLOCK FALSE
