SPECIFICATION Spec
CONSTANTS
    Task = {t1, t2}
    NoTask = NoTask
    Keys = {"ALLOW", "KILL", "BLACKLIST", "WHITELIST"}
    Token <- MCToken
    RecvEnds = TRUE
    MaxCalls = 2
    MaxLaunch = 2
SYMMETRY TaskSymmetry
INVARIANTS
    AnswerFollowsChoice
    PromptIsCurrent
    EffectsMatchAnswers
PROPERTY GateSpec
CHECK_DEADLOCK FALSE
