\* The configuration of HealAndScore.cfg.
SPECIFICATION Spec
CONSTANTS
    Settings <- AllSettings
    Mutants = {m1, m2}
    None = None
INVARIANT SidecarErrorIsError
