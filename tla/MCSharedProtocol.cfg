\* The replay window over more than one turn of the sequence space, then the
\* command cache, the session, the requests and the link keys.
CONSTANTS
    Modulus = 8
    WindowSize = 3
    MaxPacket = 11
    Keys <- MCKeys
    CacheCapacity = 2
    RetentionMs = 3
    MaxGeneration = 4
    Results = {"COMPLETED", "REJECTED"}
    CacheTtls = {1, 2}
    MaxTime = 4
    SessionTypes = {"HELLO", "CAPABILITIES", "TIME_SYNC", "STATE_SNAPSHOT", "COMMAND_REQUEST"}
    Protections = {TRUE, FALSE}
    SessionModulus = 16
    SessionWindow = 4
    TimeModulus = 16
    SessionStart = 15
    SessionEnd = 16
    SampleTarget = 2
    RxLimit = 1
    ErrorLimit = 1
    ErrorPeriod = 2
    FailureLimit = 2
    BackoffBase = 1
    BackoffSteps = 1
    BackoffMax = 2
    MaxAge = 0
    MaxSequence = 5
    InFlight = 1
    MaxSessions = 2
    QosSlots = 2
    MaxAttempts = 3
    Initial = 2
    Shortest = 1
    Longest = 3
    Margin = 1
    QosModulus = 16
    QosTtls = {5}
    Tokens = {1}
    Requests = 2
    QosStart = 12
    QosEnd = 18
    FirstSequence = 13
    KeyGenerations = 8
    Roots = {"r1"}
SPECIFICATION MCSpec
INVARIANTS
    PartsTyped
    SessionEarned
    CacheSound
    CodecSound
PROPERTIES
    SessionGuarded
    ResultStable
    FilterIsExact
    QosTrue
    KeysAdvance
CHECK_DEADLOCK FALSE
