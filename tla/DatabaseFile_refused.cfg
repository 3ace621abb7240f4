CONSTANTS
    Latest = 1
    MaxBackups = 2
    Keep = 1
    MaxCommits = 1
    MaxRequests = 2
    MaxStaging = 1
    MaxStarts = 4
    MaxFaults = 2
    None = None
    Torn = Torn
SPECIFICATION Spec
INVARIANT RollbackRemains
CHECK_DEADLOCK FALSE
