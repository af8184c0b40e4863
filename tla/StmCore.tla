------------------------------ MODULE StmCore ------------------------------
(***************************************************************************)
(* The STM32 image around the UART worker: app/boot.c and app/main.c (the  *)
(* order of starting), module/scheduler.c (workers, deadlines, votes and   *)
(* the watchdog), the clocks, the health check and the resets of           *)
(* platform/stm32g474/core_hw.c, and the stack watermark.                  *)
(*                                                                         *)
(* One step of real time moves three counters: SysTick's milliseconds,     *)
(* TIM2's microseconds (counted here in the same unit) and the independent *)
(* watchdog, which resets the chip.  Either of the first two may stop.     *)
(* A time stamp is kept as its age on the counter it was read from, which  *)
(* is all the code computes from it (a difference modulo 2^32; the         *)
(* watchdog bites long before an age comes near that).                     *)
(* Callbacks do not re-enter the scheduler, so FAULT_REENTRY is left out.  *)
(***************************************************************************)
EXTENDS Integers

CONSTANTS
    Old,            \* bound: ages are not told apart from here on
    Period,         \* [1 ms] of both workers
    DeadlineTime,   \* [10 ms] of both workers
    Budget,         \* [1 ms, 0.1 ms] one run of a worker
    HealthWindow,   \* [20 ms] CANVIEW_STM_HEALTH_WINDOW_MS
    FeedPeriod,     \* [10 ms] CANVIEW_STM_FEED_PERIOD_MS
    SampleInterval, \* [4 ms] HEALTH_SAMPLE_INTERVAL_MS
    DogLimit,       \* [375 ms] IWDG_RELOAD
    MaxSilence      \* the longest a required worker may be without progress

\* A worker may have voted just after a feed, be silent until the next feed,
\* which its vote allows, and until the watchdog bites after that one.
ASSUME StmCoreAssumption ==
    /\ DogLimit \in Nat \ {0} /\ MaxSilence \in Nat
    /\ 2 * (DogLimit - 1) <= MaxSilence

Workers == 1 .. 2       \* the UART worker, then canview_stm_board_health
Count == 2

VARIABLES
    life,       \* what main() is at
    hw,         \* canview_stm_hardware_t with the counters behind it
    health,     \* the samples of canview_stm_board_health
    sched,      \* canview_stm_scheduler_t
    watched,    \* history: one of the workers
    silence     \* history: real time since that worker last made progress

vars == <<life, hw, health, sched, watched, silence>>

\* stack: whether less than CANVIEW_STM_STACK_MIN_FREE_BYTES was ever left.
PowerOn == [msRuns |-> TRUE, usRuns |-> TRUE, dogOn |-> FALSE, dog |-> 0,
            fault |-> FALSE, stack |-> FALSE]
NoSamples == [sampled |-> FALSE, prevMs |-> 0, prevUs |-> 0, winMs |-> 0, winUs |-> 0]
NoScheduler == [pc |-> "idle", i |-> 1, now |-> 0, begun |-> 0, started |-> {},
                votes |-> {}, lastRun |-> [w \in Workers |-> 0],
                progress |-> [w \in Workers |-> 0], lastStep |-> 0,
                lastFeed |-> 0, stepUs |-> 0]

Init ==
    /\ life = "safe" /\ hw = PowerOn /\ health = NoSamples
    /\ sched = NoScheduler /\ silence = 0 /\ watched \in Workers

-----------------------------------------------------------------------------
(* Time, resets and what goes wrong in hardware.                            *)

Restart ==
    /\ life' = "safe" /\ hw' = PowerOn /\ health' = NoSamples
    /\ sched' = NoScheduler /\ silence' = 0 /\ UNCHANGED watched

DogBites == hw.dogOn /\ hw.dog + 1 = DogLimit

\* time_start has set SysTick and TIM2 going, and somebody still reads them.
Timed == life \in {"main", "running"}

Older(age) == IF age < Old THEN age + 1 ELSE age
OlderMs(age) == IF Timed /\ hw.msRuns THEN Older(age) ELSE age
OlderUs(age) == IF Timed /\ hw.usRuns THEN Older(age) ELSE age

TimePasses ==
    /\ ~DogBites
    /\ hw' = IF hw.dogOn THEN [hw EXCEPT !.dog = @ + 1] ELSE hw
    /\ silence' = IF life = "running" /\ silence <= MaxSilence
                  THEN silence + 1 ELSE silence
    /\ health' = IF ~health.sampled THEN health
                 ELSE [health EXCEPT !.prevMs = OlderMs(@), !.prevUs = OlderUs(@),
                                     !.winMs = OlderMs(@), !.winUs = OlderUs(@)]
    /\ sched' = IF life # "running" THEN sched
                ELSE [sched EXCEPT
                        !.now = IF sched.pc = "idle" THEN 0 ELSE OlderMs(@),
                        !.begun = IF sched.pc = "in" THEN OlderUs(@) ELSE 0,
                        !.stepUs = IF sched.pc = "idle" THEN 0 ELSE OlderUs(@),
                        !.lastStep = OlderMs(@), !.lastFeed = OlderMs(@),
                        !.lastRun = [w \in Workers |-> OlderMs(@[w])],
                        !.progress = [w \in Workers |-> OlderUs(@[w])]]
    /\ UNCHANGED <<life, watched>>

Tick == TimePasses \/ (DogBites /\ Restart)

\* Starts with TIM2 and SysTick running; each may stop later on.
ClockStops ==
    /\ Timed
    /\ \/ hw' = [hw EXCEPT !.msRuns = FALSE]
       \/ hw' = [hw EXCEPT !.usRuns = FALSE]
    /\ UNCHANGED <<life, health, sched, watched, silence>>

\* NMI_Handler (the clock security system) and HardFault_Handler.
CrashReset == life # "safe" /\ Restart

StackRunsLow ==
    /\ life = "running" /\ sched.pc = "in"
    /\ hw' = [hw EXCEPT !.stack = TRUE]
    /\ UNCHANGED <<life, health, sched, watched, silence>>

-----------------------------------------------------------------------------
(* boot.c and main.c                                                        *)

NextStage(s) == CASE s = "safe" -> "watchdog" [] s = "watchdog" -> "clock"
                  [] s = "clock" -> "time" [] s = "time" -> "main"

\* The action of the stage succeeds: the watchdog starts to run in the second.
BootStage ==
    /\ life \in {"safe", "watchdog", "clock", "time"}
    /\ life' = NextStage(life)
    /\ hw' = IF life = "watchdog" THEN [hw EXCEPT !.dogOn = TRUE] ELSE hw
    /\ UNCHANGED <<health, sched, watched, silence>>

\* latch_fault, core_fault and canview_stm_board_wait_reset.
\* Nothing reads the scheduler any more.
Faulted == /\ life' = "waiting" /\ sched' = NoScheduler /\ health' = NoSamples
           /\ UNCHANGED <<watched, silence>>

\* A stage or a check of main() before the scheduler fails.
BootFails ==
    /\ life \in {"safe", "watchdog", "clock", "time", "main"}
    /\ hw' = [hw EXCEPT !.fault = TRUE]
    /\ Faulted

\* Mutant: the test is the wrong way round.
WaitReset_Swapped == life = "waiting" /\ hw.dogOn /\ Restart

\* Without a watchdog the wait is a software reset.
WaitReset == life = "waiting" /\ ~hw.dogOn /\ Restart

canview_stm_scheduler_init ==
    /\ life = "main"
    /\ life' = "running"
    /\ sched' = NoScheduler
    /\ UNCHANGED <<hw, health, watched, silence>>

-----------------------------------------------------------------------------
(* canview_stm_board_health                                                 *)

NewMs == health.sampled /\ health.prevMs > 0
WindowDue == health.sampled /\ health.winMs >= SampleInterval

\* The two clocks disagree about the time since the last sample.
Drifts ==
    /\ NewMs
    /\ \/ health.prevMs > HealthWindow
       \/ health.prevUs = 0
       \/ health.prevUs > health.prevMs + 1

SlowTimer == WindowDue /\ 2 * health.winUs < health.winMs

Healthy == ~hw.fault /\ ~hw.stack /\ ~Drifts /\ ~SlowTimer

SampledHealth ==
    [sampled |-> TRUE,
     prevMs |-> IF NewMs THEN 0 ELSE health.prevMs,
     prevUs |-> IF NewMs THEN 0 ELSE health.prevUs,
     winMs |-> IF WindowDue THEN 0 ELSE health.winMs,
     winUs |-> IF WindowDue THEN 0 ELSE health.winUs]

-----------------------------------------------------------------------------
(* canview_stm_scheduler_step                                               *)

Fault == hw' = [hw EXCEPT !.fault = TRUE] /\ Faulted

Late(w) == sched.progress[w] > DeadlineTime

StepBegins ==
    /\ life = "running" /\ sched.pc = "idle"
    /\ IF sched.lastStep > HealthWindow THEN Fault
       ELSE /\ sched' = [sched EXCEPT !.pc = "next", !.lastStep = 0]
            /\ UNCHANGED <<life, hw, health, watched, silence>>

NotDue(w) == w \in sched.started /\ sched.lastRun[w] - sched.now < Period

AfterWorker(s) == IF s.i = Count THEN [s EXCEPT !.pc = "end"]
                  ELSE [s EXCEPT !.pc = "next", !.i = @ + 1]

\* The deadline is checked before the run, so that a late success cannot
\* cover it up.
WorkerConsidered ==
    /\ life = "running" /\ sched.pc = "next"
    /\ IF Late(sched.i) THEN Fault
       ELSE /\ sched' = IF NotDue(sched.i) THEN AfterWorker(sched)
                        ELSE [sched EXCEPT !.pc = "in"]
            /\ UNCHANGED <<life, hw, health, watched, silence>>

\* RESOURCE_BUSY is neither progress nor failure.
Outcomes(w) == IF w = 1 THEN {"ok", "busy", "failed"}
               ELSE IF Healthy THEN {"ok"} ELSE {"failed"}

Voted(w, outcome) ==
    [sched EXCEPT !.begun = 0, !.lastRun[w] = sched.now, !.started = @ \cup {w},
                  !.progress[w] = IF outcome = "ok" THEN 0 ELSE @,
                  !.votes = IF outcome = "ok" THEN @ \cup {w} ELSE @]

WorkerReturns ==
    /\ life = "running" /\ sched.pc = "in"
    /\ \E outcome \in Outcomes(sched.i) :
          IF \/ sched.begun > Budget
             \/ Late(sched.i) \/ outcome = "failed"
          THEN Fault
          ELSE /\ sched' = AfterWorker(Voted(sched.i, outcome))
               /\ silence' = IF outcome = "ok" /\ sched.i = watched
                             THEN 0 ELSE silence
               /\ health' = IF sched.i = 2 THEN SampledHealth ELSE health
               /\ UNCHANGED <<life, hw, watched>>

StepOverdue == \/ sched.stepUs > HealthWindow
               \/ \E w \in Workers : Late(w)

\* Mutant: the votes of the last feed count again.
Unfed_KeepsVotes(s) == s

Unfed(s) == [s EXCEPT !.votes = {}]

FeedDue == /\ sched.votes = Workers
           /\ sched.lastFeed - sched.now >= FeedPeriod

StepOver == [sched EXCEPT !.pc = "idle", !.i = 1, !.now = 0, !.stepUs = 0]

\* The watchdog is fed after one more health check.
StepEnds ==
    /\ life = "running" /\ sched.pc = "end"
    /\ IF StepOverdue \/ (FeedDue /\ ~Healthy) THEN Fault
       ELSE /\ IF FeedDue
               THEN /\ hw' = [hw EXCEPT !.dog = 0]
                    /\ health' = SampledHealth
                    /\ sched' = Unfed([StepOver EXCEPT !.lastFeed = sched.now])
               ELSE sched' = StepOver /\ UNCHANGED <<hw, health>>
            /\ UNCHANGED <<life, watched, silence>>

Boot == BootStage \/ BootFails \/ WaitReset \/ canview_stm_scheduler_init
Step == StepBegins \/ WorkerConsidered \/ WorkerReturns \/ StepEnds
Environment == Tick \/ ClockStops \/ CrashReset \/ StackRunsLow

Next == Boot \/ Step \/ Environment

\* Time passes whatever the software does; the reset instruction executes.
Fairness == WF_vars(Tick) /\ WF_vars(WaitReset)

Spec == Init /\ [][Next]_vars /\ Fairness

-----------------------------------------------------------------------------
TypeOK ==
    /\ life \in {"safe", "watchdog", "clock", "time", "main", "running", "waiting"}
    /\ hw \in [msRuns : BOOLEAN, usRuns : BOOLEAN, dogOn : BOOLEAN,
               dog : 0 .. DogLimit - 1, fault : BOOLEAN, stack : BOOLEAN]
    /\ sched.pc \in {"idle", "next", "in", "end"} /\ sched.i \in Workers
    /\ sched.votes \subseteq Workers /\ sched.started \subseteq Workers
    /\ watched \in Workers /\ silence \in 0 .. MaxSilence + 1

(* However a required worker stops making progress (it hangs, it answers    *)
(* busy for ever, a clock stops under it, it runs late), the chip is reset  *)
(* within a fixed time: the two clocks, the votes and the watchdog leave no *)
(* gap through which a dead worker stays alive.                             *)
SilenceBounded == silence <= MaxSilence

(* A fault once latched, in the boot or by the scheduler, ends in a reset;  *)
(* no later success of a worker feeds the watchdog again.                   *)
FaultResets == hw.fault ~> life = "safe"
=============================================================================
