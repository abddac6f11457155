\* Two handlers and one key; two threads over two midnights, the second of which
\* ends the month; two threads that route over three providers; one generation.
SPECIFICATION ServicesSpec
CONSTANTS
    Requests = {r1, r2}
    Emails = {e1, e2}
    Passwords = {p1, p2}
    Keys = {k1}
    LIFETIME = 1
    LAST_HOUR = 1
    MAX_RESTARTS = 1
    Anonymous = anonymous
    Threads = {t1, t2}
    Billed = {gemini, claude}
    Workflows = {w1}
    Costs = {1}
    DAYS_PER_MONTH = 2
    LAST_DAY = 2
    MAX_HISTORY = 2
    Keyed = {"OpenRouter", "Gemini"}
    Strategies = {"HealthAware"}
    Latencies = {1000, 21000}
    MAX_SAMPLES = 2
    MAX_RECORDS = 3
    MAX_RETRIES = 2
    Usages = {u1, u2}
    None = None
SYMMETRY Symmetry
\* Each part rests when a bound is reached or its request has ended.
CHECK_DEADLOCK FALSE
INVARIANTS
    AllTypesOK BooksAgree DayIsComplete SelectionIsSound
    AccountIsTheRegistrants AdmissionIsWarranted OutcomeIsTold
