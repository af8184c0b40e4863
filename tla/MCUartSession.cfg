CONSTANTS
    b1 = b1
    b2 = b2
    NoPeer = NoPeer
    Boots <- MCBoots
    Revisions <- MCRevisions
    NoRevision <- MCNoRevision
    HeartbeatOnlineMs = 2
    HeartbeatOfflineMs = 3
    SnapshotMaxAgeMs = 2
    CtsStopMs = 1
    CtsOfflineMs = 3
    MaxTime = 5
    MaxGeneration = 3
SPECIFICATION FairSpec
INVARIANTS
    TypeOK
    AdmissionHasEvidence
    NoRevivalWithoutHello
    NoFormerStateInSession
    SessionInv
PROPERTIES
    SessionEndsForCause
    DeadSessionTornDown
CHECK_DEADLOCK FALSE
