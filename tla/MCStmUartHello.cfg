CONSTANTS
    Boots = {b1}
    NoPeer = none
    Revisions = {1, 2}
    NoRevision = 0
    HeartbeatOnlineMs = 1
    HeartbeatOfflineMs = 2
    SnapshotMaxAgeMs = 1
    CtsStopMs = 1
    CtsOfflineMs = 2
    Keys <- OneCommand
    CacheCapacity = 1
    RetentionMs = 2
    MaxGeneration = 4
    QueueCapacity = 2
    Inputs = {"HELLO", "HELLO_ACK", "HEARTBEAT", "CTS", "TX", "TX_ERROR", "REPEATS", "RESET", "UNSUPPORTED", "ERRORS", "SIMPLE"}
    LocalRevision = 1
    Generations = {1}
    Offset <- SameOffset
    Stages = {"COMPLETED"}
    LeaseIds = {1}
    LeaseMs = 1
    PendingCapacity = 1
    HeartbeatPeriodMs = 4
    SyncTimeoutMs = 1
    MappingMaxAgeMs = 3
    CaptureOnly = TRUE
    HookMayFail = FALSE
    MaxTime = 2
SPECIFICATION FairHSpec
PROPERTY
    HelloRepeats
CHECK_DEADLOCK FALSE
