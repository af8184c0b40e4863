------------------------------ MODULE MCEsp32 ------------------------------
(***************************************************************************)
(* The applications: the diagnostic bridge's web shell, its start and stop *)
(* and its login on its own, the controller's command tracker and          *)
(* automations, and the communicator's automatic sport mode.  A behaviour  *)
(* moves one of them, `part`.                                              *)
(***************************************************************************)
EXTENDS BridgeWeb, TLC

CONSTANTS
    LockChallenge, LockToken, LockWindow, LockLimit, LockTime,  \* of BridgeAuth
    Tokens, Slots, Ttl, FirstDelay, LastDelay, MaxRetries, Wrap, MaxAnswers,
                                                                \* of CommandTracker
    Attack, Release, StepInterval, FeedbackFreeze, ManualHold, Gap, MaxOffset,
                                                                \* of AdaptiveVolume
    Modes, SpeedConfirm, AccelConfirm, ExitConfirm, MinimumHold, CommandTimeout,
                                                                \* of AutoSport
    LampOn, LampOff, WarnOn, WarnOff, HeadOn, HeadOff, DimAfter, Day, Sunrise, Sunset,
    Grace, Manual, Night, Ramp                                  \* of DisplayWarnings

VARIABLES
    part,
    login, wrongTries, locked,                          \* BridgeAuth
    stage, held, dns, asked, after, tries,              \* BridgeStart
    commands, clock, age, frames, answers, peer,        \* CommandTracker
    sport, car, order, pressed, last, demand,           \* AutoSport
    volume, orders, applied, quiet, recalled, calm, heard,   \* AdaptiveVolume
    brightness, headlamp, run                           \* DisplayWarnings

\* Without the web shell around it: longer times, three failures.
Lock == INSTANCE BridgeAuth WITH
    ChallengeTtl <- LockChallenge, TokenTtl <- LockToken, FailureWindow <- LockWindow,
    FailureLimit <- LockLimit, Lockout <- LockTime,
    auth <- login, wrong <- wrongTries, lockedFor <- locked

Shell == INSTANCE BridgeStart WITH pc <- stage

Tracker == INSTANCE CommandTracker WITH slots <- commands, now <- clock

Sport == INSTANCE AutoSport WITH state <- sport

Volume == INSTANCE AdaptiveVolume WITH state <- volume

Panel == INSTANCE DisplayWarnings WITH
    Idle <- DimAfter, b <- brightness, h <- headlamp

\* The instances satisfy what the theorems assume.
ASSUME TrackerInstance == Tracker!TrackerAssumption
ASSUME LoginInstance == Lock!AuthAssumption
ASSUME WebInstance == AuthAssumption
ASSUME SportInstance == Sport!SportAssumption
ASSUME VolumeInstance == Volume!VolumeAssumption
ASSUME PanelInstance == Panel!PanelAssumption

webVars     == <<wvars, wrong, lockedFor>>
loginVars   == <<login, wrongTries, locked>>
startVars   == <<stage, held, dns, asked, after, tries>>
trackerVars == <<commands, clock, age, frames, answers, peer>>
sportVars   == <<sport, car, order, pressed, last, demand>>
volumeVars  == <<volume, orders, applied, quiet, recalled, calm, heard>>
displayVars == <<brightness, headlamp, run>>
otherVars   == <<loginVars, startVars, trackerVars, sportVars, volumeVars, displayVars>>

MCInit ==
    /\ part \in {"web", "login", "start", "tracker", "sport", "volume", "display"}
    /\ WInit /\ Lock!Init /\ Shell!Init /\ Tracker!Init /\ Panel!Init
    /\ Sport!Init /\ (part # "sport" => car = "NORMAL")
    /\ Volume!Init /\ (part # "volume" => applied = 0)

MCNext ==
    /\ UNCHANGED part
    /\ \/ part = "web" /\ WNext /\ UNCHANGED otherVars
       \/ /\ part # "web" /\ UNCHANGED webVars
          /\ \/ part = "login" /\ Lock!Next
             \/ part # "login" /\ UNCHANGED loginVars
          /\ \/ part = "start" /\ Shell!Next
             \/ part # "start" /\ UNCHANGED startVars
          /\ \/ part = "tracker" /\ Tracker!Next
             \/ part # "tracker" /\ UNCHANGED trackerVars
          /\ \/ part = "sport" /\ Sport!Next
             \/ part # "sport" /\ UNCHANGED sportVars
          /\ \/ part = "volume" /\ Volume!Next
             \/ part # "volume" /\ UNCHANGED volumeVars
          /\ \/ part = "display" /\ Panel!Next
             \/ part # "display" /\ UNCHANGED displayVars

MCSpec == MCInit /\ [][MCNext]_<<part, webVars, otherVars>>

FdSymmetry == Permutations(Fds)

-----------------------------------------------------------------------------
\* The shell is not stopped for a worker that is alive, and nothing that is in
\* use is given back.
ShellSound ==
    /\ part = "web" => WTypeOK /\ NoFalseAlarm
    /\ part = "start" => Shell!NothingInUseIsGone

\* A locked login stays locked, and few attempts fail between lock-outs.
LoginLocks == [](part = "login" => Lock!FailuresBounded) /\ Lock!LockoutHolds

\* What the user is told of a command is true and does not change.
TrackerTrue ==
    [](part = "tracker" => Tracker!TypeOK /\ Tracker!StatusIsTrue) /\ Tracker!OneOutcome

\* The automations act on whole evidence only, give way to the driver and undo
\* only what they did themselves.
AutomationsOnEvidence ==
    /\ [](/\ part = "volume" => Volume!TypeOK /\ Volume!OneOrder
          /\ part = "sport" => Sport!TypeOK
          /\ part = "display" => Panel!TypeOK)
    /\ Volume!KnobFirst /\ Volume!StepsOnEvidence
    /\ Sport!RestoresItsOwn /\ Sport!EntersOnDemand
    /\ Panel!EvidenceIsWhole
=============================================================================
