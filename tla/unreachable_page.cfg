SPECIFICATION Spec
CONSTANTS
    Trace <- CoreTrace
    FenceOf <- OneFence
    Orchestrators = {orch_a}
    NoOwner = nobody
    Scenarios <- PagerCutOff
    FirstSeverity = "P2"
    MaxForkDepth = 3
    MaxCompAttempts = 2
    MaxAttempts = 3
    CrashAt <- Anywhere
    MaxCrash = 1
    MaxExpire = 0
    MaxRedeliver = 0
    MaxReconcile = 0
INVARIANTS
    PagesExplained
CHECK_DEADLOCK FALSE
