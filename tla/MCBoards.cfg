CONSTANTS
    Old = 5
    Period = 1
    DeadlineTime = 2
    Budget = 1
    HealthWindow = 3
    FeedPeriod = 2
    SampleInterval = 2
    DogLimit = 4
    MaxSilence = 6
    EspPeriod = 2
    EspDeadline = 4
    EspBudget = 1
    EspTimeout = 6
    \* Slots that are retired after two uses.
    Slots = {0, 1, 2}
    Data = {"d1", "d2"}
    MaxGen = 2
SPECIFICATION MCSpec
INVARIANTS
    WorkerHeard
    EspCoreSound
PROPERTY
    FaultEndsInReset
CHECK_DEADLOCK FALSE
