SPECIFICATION FairSpec
CONSTANTS
    Task = {t1, t2}
    NoTask = NoTask
    Keys = {"DENY"}
    Token <- MCToken
    RecvEnds = TRUE
    MaxCalls = 1
    MaxLaunch = 1
PROPERTIES
    DeliveredDecisionIsAnswered
    StopReleasesEverything
    DeadTreeEndsSupervision
CHECK_DEADLOCK FALSE
