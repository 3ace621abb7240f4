CONSTANTS
    Paths = {a, b}
    MaxRuns = 3
    MaxChain = 2
    DeltaVersioning = TRUE
    EnvEvents = {"delete", "interrupt", "crash", "fault"}
    None = None
    Wrong = Wrong
SPECIFICATION Spec
SYMMETRY PathSymmetry
INVARIANTS ReplacedBytesOnDisk BrowseIsHistory ResolveIsHistory
CHECK_DEADLOCK FALSE
