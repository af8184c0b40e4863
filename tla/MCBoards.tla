------------------------------ MODULE MCBoards ------------------------------
(***************************************************************************)
(* The owner tasks and watchdogs of both chips, and the message pool of    *)
(* the ESP32 core: a behaviour moves one of them, `part`.                  *)
(***************************************************************************)
EXTENDS StmCore, FiniteSets

CONSTANTS
    EspPeriod, EspDeadline, EspBudget, EspTimeout,      \* of EspCore
    Slots, Data, MaxGen                                 \* of EspPool

VARIABLES
    part,
    bridge, pc, core, subscribed, progress, started, wake, dog, web, late,
                                                        \* EspCore
    slots, stats, issued                                \* EspPool

Esp == INSTANCE EspCore WITH
    Period <- EspPeriod, DeadlineTime <- EspDeadline, Budget <- EspBudget,
    Timeout <- EspTimeout

Pool == INSTANCE EspPool

\* The instances satisfy what the theorems assume.
ASSUME EspInstance == Esp!EspCoreAssumption
ASSUME PoolInstance == IsFiniteSet(Slots) /\ MaxGen \in Nat \ {0}

espVars  == <<bridge, pc, core, subscribed, progress, started, wake, dog, web, late>>
poolVars == <<slots, stats, issued>>

MCInit ==
    /\ part \in {"stm", "esp", "pool"}
    /\ Init /\ (part # "stm" => watched = CHOOSE w \in Workers : TRUE)
    /\ Esp!Init /\ (part # "esp" => bridge)
    /\ Pool!Init

MCNext ==
    /\ UNCHANGED part
    /\ \/ part = "stm" /\ Next /\ UNCHANGED <<espVars, poolVars>>
       \/ part = "esp" /\ Esp!Next /\ UNCHANGED <<vars, poolVars>>
       \/ part = "pool" /\ Pool!Next /\ UNCHANGED <<vars, espVars>>

\* Each component's own fairness, owed only while it is the one that moves.
MCSpec ==
    /\ MCInit /\ [][MCNext]_<<part, vars, espVars, poolVars>>
    /\ WF_vars(part = "stm" /\ Tick) /\ WF_vars(part = "stm" /\ WaitReset)
    /\ WF_espVars(part = "esp" /\ Esp!Tick) /\ WF_espVars(part = "esp" /\ Esp!Bites)

-----------------------------------------------------------------------------
\* A latched fault of the communicator, and a task of an ESP32 that stops or
\* hangs, end in a reset of the chip: nothing feeds the watchdog again.
FaultEndsInReset == FaultResets /\ Esp!StopEndsInReset

\* A required worker is silent for a bounded time only.
WorkerHeard == part = "stm" => TypeOK /\ SilenceBounded

\* An ESP32 that fed its watchdog too late never feeds it again and idles with
\* its web shell off; a token names the message it was given out for.
EspCoreSound ==
    /\ part = "esp" => Esp!TypeOK /\ Esp!LateFeedIsLast /\ Esp!NoWebInIdle
    /\ part = "pool" => Pool!TokenNamesItsMessage /\ Pool!StatsTrue
=============================================================================
