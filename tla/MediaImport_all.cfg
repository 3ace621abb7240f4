CONSTANTS
    Kinds = {"drive", "online"}
    Cards = {c1, c2}
    Files = {f1, f2}
    AutoImport = {c1}
    Archives = {a1, a2}
    MaxVersion = 2
    MaxRuns = 2
    MaxEvents = 2
    None = None
SPECIFICATION Spec
INVARIANTS CheckpointMeansImported
PROPERTIES DeletedWasUploaded CancelledIsQuiet CancelEnds
CHECK_DEADLOCK FALSE
