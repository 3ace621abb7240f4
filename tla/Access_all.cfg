CONSTANTS
    Local = {a, b}
    Proxy = {p}
    AutoRole = "viewer"
    Idle = 1
    Absolute = 2
    RecoveryLife = 2
    LockAfter = 2
    MaxLock = 2
    RetainFor = 1
    MaxTime = 3
    MaxSessions = 2
    MaxRecoveries = 2
    MaxAsked = 3
    MaxEvents = 2
    a = a
    b = b
    p = p
    None = None
SPECIFICATION Spec
SYMMETRY LocalSymmetry
INVARIANT FailuresAllCount
PROPERTY SessionsLiveOnce
CHECK_DEADLOCK FALSE
