\* Two requests, one sidecar that may die once.
SPECIFICATION FairSpec
CONSTANTS
    Clients = {c1, c2}
    Timeouts = {2, 5}
    SANDBOX_TIMEOUT = 2
    CLIENT_BUFFER = 1
    REAPER_GRACE = 2
    KILL_TIMEOUT = 1
    MAX_CONCURRENT = 2
    MAX_CRASHES = 1
    None = None
CHECK_DEADLOCK FALSE
INVARIANTS TypeOK SlotsAreBalanced NoStrayContainer ReaperSparesOrdinaryRuns
PROPERTY EveryRunIsReclaimed
