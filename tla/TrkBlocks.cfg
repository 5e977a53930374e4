SPECIFICATION Spec
CONSTANTS
    Pid = {p1}
    Bin = {sh, bad}
    NoBin = NoBin
    Shells = {sh}
    Parents = {sh, bad}
    Supervised = {}
    OneGroup = FALSE
    Known = {bad}
    Keys = {"n", "x", "b", "d"}
    Manages = FALSE
    SlowReuse = TRUE
    MaxInc = 2
    MaxRisky = 2
    MaxExec = 2
    RingSize = 8
    QueueSize = 4
INVARIANTS
    TypeOK
    CleanReuse
    BlocksAgree
CHECK_DEADLOCK FALSE
