\* A sequence space of 10, queues of two messages, and the strictest window: it
\* knows the newest number only and refuses whatever is older.
CONSTANTS
    QueueCapacity = 2
    Modulus = 10
    WindowSize = 1
    Keys <- MCKeys
    Patience = 3
    Watched = {2}
SPECIFICATION FairSpec
INVARIANTS
    TypeOK
    CriticalIsFresh
    LossInhibits
    StateCoalesced
PROPERTY
    CriticalLeaves
CHECK_DEADLOCK FALSE
