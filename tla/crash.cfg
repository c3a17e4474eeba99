SPECIFICATION FairSpec
CONSTANTS
    Trace <- CoreTrace
    FenceOf <- OneFence
    Orchestrators = {orch_a, orch_b}
    NoOwner = nobody
    Scenarios <- CrashScenarios
    FirstSeverity = "P2"
    MaxForkDepth = 3
    MaxCompAttempts = 2
    MaxAttempts = 3
    CrashAt <- Anywhere
    MaxCrash = 1
    MaxExpire = 0
    MaxRedeliver = 0
    MaxReconcile = 0
INVARIANTS
    TypeOK AckedIsSettled CleanAbandonment IntentBeforeEffect JournalTruthful PassIsTrue FailIsTrue PaneTrue
PROPERTIES NoBlindPage UndoneInReverse NoLoss
CHECK_DEADLOCK FALSE
