SPECIFICATION Spec
CONSTANTS
    Trace <- STEP_LABELS
    FenceOf <- OneFence
    Orchestrators = {orch_a}
    NoOwner = nobody
    Scenarios <- SweepScenarios
    FirstSeverity = "P2"
    MaxForkDepth = 3
    MaxCompAttempts = 2
    MaxAttempts = 3
    CrashAt <- CRASH_PHASES
    MaxCrash = 1
    MaxExpire = 0
    MaxRedeliver = 1
    MaxReconcile = 1
INVARIANTS
    NoDuplication PagesExplained BoundedAmbiguity BranchesTrue BoardsTrue
CHECK_DEADLOCK FALSE
