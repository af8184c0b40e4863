CONSTANTS
    Boots = {b1}
    NoPeer = none
    Revisions = {1, 2}
    NoRevision = 0
    HeartbeatOnlineMs = 2
    HeartbeatOfflineMs = 3
    SnapshotMaxAgeMs = 2
    CtsStopMs = 1
    CtsOfflineMs = 2
    Keys <- OneCommand
    CacheCapacity = 1
    RetentionMs = 2
    MaxGeneration = 4
    QueueCapacity = 5
    Inputs = {"HELLO", "HELLO_ACK", "HEARTBEAT"}
    LocalRevision = 1
    Generations = {1}
    Offset <- SameOffset
    Stages = {"COMPLETED"}
    LeaseIds = {1}
    LeaseMs = 1
    PendingCapacity = 1
    HeartbeatPeriodMs = 4
    SyncTimeoutMs = 1
    MappingMaxAgeMs = 3
    CaptureOnly = TRUE
    HookMayFail = FALSE
    MaxTime = 1
SPECIFICATION HSpec
INVARIANT AdmitsMatchingRevision
CHECK_DEADLOCK FALSE
