CONSTANTS
    Configs <- AllConfigs
    Requests = {r1, r2}
SPECIFICATION Spec
INVARIANT ComesUp
CHECK_DEADLOCK FALSE
