SPECIFICATION FairSpec
CONSTANTS
    orch_a = orch_a
    orch_b = orch_b
    orch_c = orch_c
    journal_a = journal_a
    journal_b = journal_b
    Threads = {orch_a, orch_b, orch_c}
    Writers = {orch_c}
    Handles = {journal_a, journal_b}
    HandleOf <- TwoHandles
    Scopes = {workflow}
    NoThread = nobody
    NoHandle = none
    MaxCalls = 2
    MaxCrashes = 1
INVARIANTS
    EpochsUnique GrantsDurable AppendTells
PROPERTIES
    CallsReturn
CHECK_DEADLOCK FALSE
