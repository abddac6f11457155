\* One process at a time, two jobs, a database that answers.
SPECIFICATION FairSpec
CONSTANTS
    Jobs = {j1, j2}
    Procs = {p1, p2}
    None = None
    MAX_STARTUP_RETRIES = 1
    Overlap = FALSE
    DBErrors = FALSE
INVARIANT NoLeftovers
PROPERTIES  TaskSettles
