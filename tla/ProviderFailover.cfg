\* Two calls share the books of three providers, one of which has no key.
SPECIFICATION FairSpec
CONSTANTS
    p1 = p1
    p2 = p2
    p3 = p3
    Calls = {c1, c2}
    Registry <- Three
    Keyed = {p1, p3}
    MAX_RETRIES = 2
    COUNT_LIMIT = 6
    Raised = {"timeout", "authentication", "unexpected"}
    None = None
INVARIANTS  RetryBudget
PROPERTIES  ImplementsRouting CallEnds
