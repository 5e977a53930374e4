SPECIFICATION Spec
CONSTANTS
    edr = edr
    p1 = p1
    p2 = p2
    p3 = p3
    a = a
    b = b
    Thread = {a, b}
    Proc = {edr, p1, p2, p3}
    Outside = init
    Self = edr
    Homes <- MCHomes
    Lineages <- MCLineages
    Weights = {0, 1}
    Ceiling = 2
    Depth = 1
    Room = 4
    Evicts = {p2}
    MaxCalls = 3
    MaxEpoch = 1
    MaxChanges = 1
INVARIANTS
    BurstsAreArmed
    ArmedBeforeHook
    HookIsJust
CHECK_DEADLOCK FALSE
