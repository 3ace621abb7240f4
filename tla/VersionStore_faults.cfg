CONSTANTS
    Paths = {a}
    MaxRuns = 3
    MaxChain = 2
    DeltaVersioning = TRUE
    EnvEvents = {"delete", "interrupt", "crash", "fault", "prune", "manualPrune"}
    None = None
    Wrong = Wrong
SPECIFICATION FairSpec
INVARIANTS BasesLive
PROPERTIES MaintenanceKeepsExact 
CHECK_DEADLOCK FALSE
