\* RequeuedIsExecuted after one crash and one restart.
SPECIFICATION FairSpec
CONSTANTS
    Jobs = {j1}
    Procs = {p1, p2}
    None = None
    MAX_STARTUP_RETRIES = 1
    Overlap = FALSE
    DBErrors = FALSE
PROPERTY RequeuedIsExecuted
