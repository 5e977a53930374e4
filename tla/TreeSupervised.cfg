SPECIFICATION Spec
CONSTANTS
    p1 = p1
    p2 = p2
    Pid = {p1, p2}
    NoPid = NoPid
    Seeded = {p2}
    Threads = {}
    Strays = {p2}
    RootPid = {p1}
    RootShared = FALSE
    Leaves = {}
    Trusts = {FALSE}
    Loses = FALSE
    EarlyFork = FALSE
    EarlyEnd = FALSE
    SlowReuse = TRUE
    WatchMax = 1
    MaxLevel = 1
    MaxInc = 3
    MaxNode = 2
    MaxScored = 1
    RingSize = 2
INVARIANTS
    TypeOK
    SettledTreeIsTrue
    ExactlyTreeIsMuted
    KillHitsTheTree
CHECK_DEADLOCK FALSE
