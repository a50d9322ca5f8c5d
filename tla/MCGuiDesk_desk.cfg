SPECIFICATION DeskSpec
CONSTANTS
    Resting = TRUE
    Merging = TRUE
    Rebasing = TRUE
    Unborn = TRUE
    Broken = TRUE
    File = {"ab", "b"}
    Rest <- Cut
    Commit = {"c1", "c2"}
    Disks <- Worlds
    TwoDecimals <- Decimals
    Typing <- Keys
    Targets = {"", "v1", "-x"}
    Words = {"", "1"}
    Dashed <- Dashes
    Values <- Numbers
    Todos <- Lists
    RefLists <- Picks
    CliLines <- Lines
    MaxInputs = 3
    MaxChanges = 1
INVARIANTS
    DeskTypeOK
    SelectionsListed
    EditorFollowsSelection
    DiffFollowsScope
    Understood
    CliRunsTyped
PROPERTIES
    RefreshKeepsInput
    SaveResolves
    ViewCatchesUp
