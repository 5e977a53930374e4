SPECIFICATION FairSpec
CONSTANTS
    Files <- ClashOrHidden
    MaxLaunch = 2
    MaxAsk = 1
    MaxHold = 1
    MaxLine = 2
    Room = 1
    EarlySignal = FALSE
INVARIANTS
    TakenIsShown
    TextIsForThisChild
    JoinedBeforeFreed
    BoxKeysAreDistinct
PROPERTIES
    AskComesUp
    
    ConsoleComesBack
CHECK_DEADLOCK FALSE
