CONSTANTS
    \* The web shell.
    ChallengeTtl = 1
    TokenTtl = 3
    FailureWindow = 1
    FailureLimit = 1
    Lockout = 1
    Fds = {f1, f2}
    f1 = f1
    f2 = f2
    Hold = 1
    Window = 2
    Idle = 2
    PreAuth = 2
    Request = 2
    Heartbeat = 3
    Io = 1
    \* The login on its own.
    LockChallenge = 2
    LockToken = 3
    LockWindow = 3
    LockLimit = 3
    LockTime = 2
    \* The command tracker: two tokens for one slot, over the wrap of the clock.
    Tokens = {"a", "b"}
    Slots = {0}
    Ttl = 3
    FirstDelay = 1
    LastDelay = 2
    MaxRetries = 1
    Wrap = 5
    MaxAnswers = 1
    \* The adaptive volume.
    Attack = 4
    Release = 5
    StepInterval = 7
    FeedbackFreeze = 2
    ManualHold = 7
    Gap = 3
    MaxOffset = 3
    \* The automatic sport mode.
    Modes = {"NORMAL", "ECO", "SPORT"}
    SpeedConfirm = 4
    AccelConfirm = 2
    ExitConfirm = 2
    MinimumHold = 3
    CommandTimeout = 3
    \* The display: a day of six minutes, night after the fourth with a minute of grace.
    LampOn = 2
    LampOff = 3
    WarnOn = 2
    WarnOff = 2
    HeadOn = 3
    HeadOff = 2
    DimAfter = 4
    Day = 6
    Sunrise = 2
    Sunset = 4
    Grace = 1
    Manual = 70
    Night = 30
    Ramp = 40
SPECIFICATION MCSpec
SYMMETRY FdSymmetry
INVARIANTS
    SessionIsOwned
    BareIsBounded
    ShellSound
PROPERTIES
    LoginLocks
    TrackerTrue
    AutomationsOnEvidence
CHECK_DEADLOCK FALSE
