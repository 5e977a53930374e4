SPECIFICATION Spec
CONSTANTS
    Hash = {h1, h2}
    Thread = {ui, sup}
    UiThread = ui
    NoThread = NoThread
    MaxOps = 3
    MaxCrash = 2
SYMMETRY HashSymmetry
INVARIANTS
    KeptIsOnDisk
PROPERTIES
    LossIsFlagged
    DurableSpec
CHECK_DEADLOCK FALSE
