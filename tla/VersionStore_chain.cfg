CONSTANTS
    Paths = {a}
    MaxRuns = 4
    MaxChain = 2
    DeltaVersioning = TRUE
    EnvEvents = {"prune"}
    None = None
    Wrong = Wrong
SPECIFICATION Spec
INVARIANT RetainedExact
CHECK_DEADLOCK FALSE
