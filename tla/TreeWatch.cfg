SPECIFICATION Spec
CONSTANTS
    p1 = p1
    p2 = p2
    Pid = {p1, p2}
    NoPid = NoPid
    Seeded = {p1}
    Threads = {}
    Strays = {}
    RootPid = {}
    RootShared = FALSE
    Leaves = {}
    Trusts = {TRUE, FALSE}
    Loses = FALSE
    EarlyFork = FALSE
    EarlyEnd = FALSE
    SlowReuse = TRUE
    WatchMax = 1
    MaxLevel = 2
    MaxInc = 1
    MaxNode = 2
    MaxScored = 2
    RingSize = 2
INVARIANTS
    WatchTellsDeath
PROPERTIES
    WatchHoldsWorst
    ForensicKept
CHECK_DEADLOCK FALSE
