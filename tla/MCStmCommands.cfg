CONSTANTS
    Boots = {b1}
    NoPeer = none
    Revisions = {1}
    NoRevision = 0
    HeartbeatOnlineMs = 2
    HeartbeatOfflineMs = 3
    SnapshotMaxAgeMs = 2
    CtsStopMs = 1
    CtsOfflineMs = 2
    Keys <- TwoTtls
    CacheCapacity = 2
    RetentionMs = 2
    MaxGeneration = 4
    QueueCapacity = 2
    Inputs = {"HELLO", "HELLO_ACK", "HEARTBEAT", "TIME_SYNC", "COMMAND", "TX"}
    LocalRevision = 1
    Generations = {1}
    Offset <- SameOffset
    Stages = {"COMPLETED"}
    LeaseIds = {1}
    LeaseMs = 1
    PendingCapacity = 2
    HeartbeatPeriodMs = 4
    SyncTimeoutMs = 1
    MappingMaxAgeMs = 3
    CaptureOnly = TRUE
    HookMayFail = FALSE
    MaxTime = 2
SPECIFICATION MCSpec
INVARIANT
    PendingIsOpen
PROPERTY
    DeliversOnce
CHECK_DEADLOCK FALSE
