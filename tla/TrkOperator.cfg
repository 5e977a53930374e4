SPECIFICATION Spec
CONSTANTS
    Pid = {p1}
    Bin = {sh, bad}
    NoBin = NoBin
    Shells = {sh}
    Parents = {sh, bad}
    Supervised = {}
    OneGroup = FALSE
    Known = {bad}
    Keys = {"y", "n", "b", "k", "d", "l", "w", "x"}
    Manages = FALSE
    SlowReuse = TRUE
    MaxInc = 2
    MaxRisky = 2
    MaxExec = 1
    RingSize = 2
    QueueSize = 4
INVARIANTS
    PromptsMatchPending
    TrustReachesKernel
CHECK_DEADLOCK FALSE
