\* CompletedIsFinal against overlapping starts.
SPECIFICATION Spec
CONSTANTS
    Jobs = {j1, j2}
    Procs = {p1, p2, p3}
    None = None
    MAX_STARTUP_RETRIES = 1
    Overlap = TRUE
    DBErrors = FALSE
SYMMETRY Symmetry
PROPERTY CompletedIsFinal
