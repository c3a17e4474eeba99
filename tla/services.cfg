SPECIFICATION Spec
CONSTANTS
    Requests = {req_a, req_b, req_c}
    Keys = {key_x, key_y}
    PureKeys = {key_y}
    NoKey = no_key
    MaxEpoch = 2
    MaxLost = 1
INVARIANTS
    TypeOK AnswersTrue LedgerTrue LateComerRefused
SYMMETRY Alike
CHECK_DEADLOCK FALSE
