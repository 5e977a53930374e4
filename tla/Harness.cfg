SPECIFICATION FairSpec
CONSTANTS
    Task = {t0, t1, t2}
    Child = t0
    NoTask = none
    Launcher = {"launch", "harness_run", "debug"}
    Keys = {"y", "n", "k", "A"}
    TtyFails = TRUE
    RecvEnds = TRUE
    MaxTraps = 3
INVARIANTS
    IInv
PROPERTIES
    GateSpec
    LauncherIsFreed
    DeadTreeEnds
CHECK_DEADLOCK FALSE
