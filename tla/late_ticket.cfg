SPECIFICATION Spec
CONSTANTS
    Trace <- CoreTrace
    FenceOf <- OneFence
    Orchestrators = {orch_a}
    NoOwner = nobody
    Scenarios <- LateTicket
    FirstSeverity = "P2"
    MaxForkDepth = 3
    MaxCompAttempts = 2
    MaxAttempts = 3
    CrashAt <- Anywhere
    MaxCrash = 0
    MaxExpire = 0
    MaxRedeliver = 1
    MaxReconcile = 0
PROPERTIES NoBlindPage
CHECK_DEADLOCK FALSE
