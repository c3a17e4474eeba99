SPECIFICATION Spec
CONSTANTS
    Requests = {req_a, req_b}
    Keys = {key_x}
    PureKeys = {}
    NoKey = no_key
    MaxEpoch = 1
    MaxLost = 0
PROPERTIES
    HoldsOnce
CHECK_DEADLOCK FALSE
