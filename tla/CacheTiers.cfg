\* Two processes over one table; every request chooses its process and its key.
SPECIFICATION Spec
CONSTANTS
    Procs = {p, q}
    Requests = {r1, r2, r3}
    Keys = {k, k2}
    ENABLE_L1_CACHE = TRUE
    ENABLE_L2_CACHE = TRUE
    L1_MAX_SIZE = 1
    L1_TTL = 1
    L2_TTL = 1
    MAX_IN_FLIGHT = 2
    MAX_CALL = 1
    LAST_TICK = 5
    None = None
CHECK_DEADLOCK FALSE
SYMMETRY Symmetry
INVARIANTS TypeOK AnswerIsGenuine InvalidatedIsGone
