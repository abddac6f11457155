\* Two submissions after a first and two polls each; three pages and two generations;
\* a stream of up to four pieces over a vendor of each kind; up to two tests.
SPECIFICATION FlowsSpec
CONSTANTS
    MAX_SUBMITS = 3
    MAX_POLLS = 2
    Failures = {"timeout", "401"}
    Pages = {1, 2, 3}
    Rows = {g1, g2}
    MAX_REQUESTS = 4
    claude = claude
    openai = openai
    mock = mock
    Keyed = {claude, openai, mock}
    Mock = {mock}
    MarkFinish = {openai}
    MAX_PIECES = 4
    Names = {n1, n2}
    Codes = {c1, c2}
    Blank = blank
    MAX_TESTS = 2
    None = None
\* A flow rests when its requests are answered and the bounds are reached.
CHECK_DEADLOCK FALSE
INVARIANTS
    FlagsTellWhatIsOutstanding ResultIsOfTheJobShown  CollectsOneAnswer
     FailureIsExplained
PROPERTIES TextGrowsOrRestarts EverythingEnds
