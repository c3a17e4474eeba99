SPECIFICATION Spec
CONSTANTS
    orch_a = orch_a
    orch_b = orch_b
    orch_c = orch_c
    journal_a = journal_a
    journal_b = journal_b
    Threads = {orch_a, orch_b}
    Writers = {orch_a, orch_b}
    Handles = {journal_a}
    HandleOf <- OneHandle
    Scopes = {workflow}
    NoThread = nobody
    NoHandle = none
    MaxCalls = 2
    MaxCrashes = 0
INVARIANTS
    EpochsUnique
CHECK_DEADLOCK FALSE
