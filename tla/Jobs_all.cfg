CONSTANTS
    Features = {"ssd-backup", "hyper-backup", "rclone"}
    MaxRuns = 3
    MaxRetries = 1
    EnvEvents = {"cancel", "reschedule", "peerShutdown", "shutdown", "crash"}
    Lookback = 2
    MaxAge = 1
    Intervals = {1, 3}
    Backoff = 1
    Ahead = 1
    Period = 2
    Grace = 1
    Keep = 2
    MaxTime = 4
    MaxBeats = 2
    MaxReposts = 1
    MaxEvents = 1
    None = None
SPECIFICATION JobsSpec
INVARIANTS RunningHasExecutor HealsOnNextRound
PROPERTIES SsdOutcomeFinal CancelledStays ClaimReleased RecordedOnce PruneKeepsHealth
CHECK_DEADLOCK FALSE
