SPECIFICATION OverlapSpec
CONSTANTS
    Trace <- ShortTrace
    FenceOf <- SERVICE_FOR_TOOL
    Orchestrators = {orch_a, orch_b}
    NoOwner = nobody
    Scenarios <- LeaderScenarios
    FirstSeverity = "P2"
    MaxForkDepth = 3
    MaxCompAttempts = 1
    MaxAttempts = 3
    CrashAt <- Undoing
    MaxCrash = 1
    MaxExpire = 1
    MaxRedeliver = 0
    MaxReconcile = 0
    Threads = {1, 2, 3}
    MaxLeave = 1
INVARIANTS
    CompensateOnlyDead DeposedOnce JournalTruthful
PROPERTIES LeadershipHolds
SYMMETRY SymmetricOwners
CHECK_DEADLOCK FALSE
