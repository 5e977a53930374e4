SPECIFICATION FairSpec
CONSTANTS
    Pid = {p1, p2}
    Bin = {sh, bad}
    NoBin = NoBin
    Shells = {sh}
    Parents = {sh, bad}
    Supervised = {p2}
    OneGroup = FALSE
    Known = {bad}
    Keys = {"y", "b", "l"}
    Manages = TRUE
    SlowReuse = TRUE
    MaxInc = 1
    MaxRisky = 2
    MaxExec = 0
    RingSize = 1
    QueueSize = 4
INVARIANTS
    SupervisedIsLeftAlone
PROPERTIES
    BurstIsSettled
CHECK_DEADLOCK FALSE
