CONSTANTS
    Boots = {b1, b2}
    NoPeer = none
    Revisions = {1}
    NoRevision = 0
    HeartbeatOnlineMs = 1
    HeartbeatOfflineMs = 2
    SnapshotMaxAgeMs = 1
    CtsStopMs = 1
    CtsOfflineMs = 2
    Keys <- Conflicting
    CacheCapacity = 1
    RetentionMs = 2
    MaxGeneration = 3
    QueueCapacity = 4
    Inputs = {"HELLO", "HELLO_ACK", "HEARTBEAT", "TIME_SYNC", "COMMAND", "LEASE", "PLAN", "CTS", "RESET"}
    LocalRevision = 1
    Generations = {1}
    Offset <- SameOffset
    Stages = {"COMPLETED"}
    LeaseIds = {1}
    LeaseMs = 1
    PendingCapacity = 1
    HeartbeatPeriodMs = 4
    SyncTimeoutMs = 1
    MappingMaxAgeMs = 3
    CaptureOnly = FALSE
    HookMayFail = FALSE
    MaxTime = 2
SPECIFICATION MCSpec
INVARIANTS
    TypeOK
    SessionsAreFresh
    ReportedWasExecuted
PROPERTY
    ImplementsDelivery
SYMMETRY BootSymmetry
CHECK_DEADLOCK FALSE
