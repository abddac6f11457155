\* One job under every combination of the settings, with up to two mutants.
SPECIFICATION FairSpec
CONSTANTS
    Settings <- AllSettings
    Mutants = {m1, m2}
    None = None
INVARIANTS StoredResultIsOfStoredTests QualityIsOfStoredTests
PROPERTIES RepairsOnlyBrokenCode Settles
