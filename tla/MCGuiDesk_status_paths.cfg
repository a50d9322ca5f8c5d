SPECIFICATION DeskSpec
CONSTANTS
    Resting = TRUE
    Merging = FALSE
    Rebasing = FALSE
    Unborn = FALSE
    Broken = FALSE
    File = {"ab", "b"}
    Rest <- Cut
    Commit = {"c1", "c2"}
    Disks <- Worlds
    TwoDecimals <- Decimals
    Typing <- Keys
    Targets = {"", "v1", "-x"}
    Words = {"", "1"}
    Dashed <- Dashes
    Values <- Numbers
    Todos <- Lists
    RefLists <- Picks
    CliLines <- Lines
    MaxInputs = 1
    MaxChanges = 1
PROPERTIES
    StatusPathsReal
