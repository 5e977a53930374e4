SPECIFICATION FairSpec
CONSTANTS
    p1 = p1
    p2 = p2
    Proc = {p1, p2}
    Group <- SharedGroup
    OwnGroup = 0
    Ancestors <- ChildOfFirst
    Acting = {p2}
    AutoKill = TRUE
    DwellSec = 2
    WarmupSec = 1
    MaxLag = 1
    Keys = {"y", "n", "w"}
PROPERTIES
    KillsAreEarned
    HotIsKilled
CHECK_DEADLOCK FALSE
