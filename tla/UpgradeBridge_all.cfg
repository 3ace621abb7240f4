CONSTANTS
    Latest = 1
    MaxBackups = 2
    Keep = 1
    MaxCommits = 1
    MaxRequests = 3
    MaxStaging = 1
    MaxStarts = 3
    MaxFaults = 1
    KeepUpgrade = 2
    None = None
    Torn = Torn
SPECIFICATION BridgeSpec
INVARIANT GatesStayOpen
PROPERTY RestoreIsAtomic BackupsOutliveFailures
CHECK_DEADLOCK FALSE
