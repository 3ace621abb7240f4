CONSTANTS
    Pushes = {p}
    Pulls = {q}
    Limits = {1}
    MaxUsed = 1
    MaxRuns = 2
    MaxEvents = 2
    Attempts = 2
    Exits = {0, 23, 143}
    Reports = {"missing", "ok", "fail"}
    Pinned = FALSE
    Enforcement = "refuse"
    None = None
SPECIFICATION Spec
INVARIANTS CompletedIsRemeasured
PROPERTIES RefusedOnEvidence WipedOnlyIfEmptiedLate
CHECK_DEADLOCK FALSE
