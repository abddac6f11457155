\* Servers whose lives overlap, and any database call may raise.
SPECIFICATION Spec
CONSTANTS
    Jobs = {j1, j2}
    Procs = {p1, p2, p3}
    None = None
    MAX_STARTUP_RETRIES = 1
    Overlap = TRUE
    DBErrors = TRUE
SYMMETRY Symmetry
INVARIANTS OneWorkerPerJob RetryBound CompletedHasResult NothingResumable
PROPERTY CheckpointNeverRegresses
