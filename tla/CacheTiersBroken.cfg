\* Two misses of one key.
SPECIFICATION Spec
CONSTANTS
    Procs = {p}
    Requests = {r1, r2, r3}
    Keys = {k}
    ENABLE_L1_CACHE = TRUE
    ENABLE_L2_CACHE = TRUE
    L1_MAX_SIZE = 1
    L1_TTL = 1
    L2_TTL = 1
    MAX_IN_FLIGHT = 2
    MAX_CALL = 0
    LAST_TICK = 2
    None = None
CHECK_DEADLOCK FALSE
SYMMETRY Symmetry
INVARIANT L2FailureIsHarmless
