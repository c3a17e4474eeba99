SPECIFICATION Spec
CONSTANTS
    Runs = {first, second}
    Services <- TwoServices
    Scenarios = {"poison", "zombie", "redelivery"}
    Patient = TRUE
    MaxEpoch = 2
    MaxOutages = 1
INVARIANTS
    FencesAdmit OracleOfRun FaultsFresh
CHECK_DEADLOCK FALSE
