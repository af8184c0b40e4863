------------------------------ MODULE EspCore ------------------------------
(***************************************************************************)
(* The owner task of the ESP32-S3 boards: start-up, the periodic health    *)
(* check and the task watchdog (TWDT).  The two ESP32 shells run           *)
(* canview_esp_core_boot; the Diagnostic Bridge boots with the watchdog    *)
(* deferred, starts its web shell and then arms the watchdog.  Clocks are  *)
(* ages in ticks; time passes between any two statements, as when the task *)
(* is preempted or an interrupt or a cache stall holds it up.              *)
(***************************************************************************)
EXTENDS Integers

CONSTANTS
    Period,     \* CANVIEW_ESP_CORE_PERIOD_MS
    DeadlineTime,   \* CANVIEW_ESP_CORE_DEADLINE_US
    Budget,     \* CANVIEW_ESP_CORE_BUDGET_US
    Timeout     \* CONFIG_ESP_TASK_WDT_TIMEOUT_S

\* What the proofs need of the constants; MCBoards evaluates it.
EspCoreAssumption == {Timeout, Period, DeadlineTime, Budget} \subseteq Nat

VARIABLES
    bridge,     \* the Diagnostic Bridge's app_main, not esp_core.c's
    pc,         \* what the owner task does next
    core,       \* canview_esp_core_t: state, fault, watchdog_ready
    subscribed, \* the task is subscribed to the TWDT
    progress,   \* age of last_progress_us
    started,    \* age of `started` of the check under way
    wake,       \* age of wake_tick, -1 before wait_started
    dog,        \* age of the last TWDT reset
    web,        \* the bridge's web shell: "off", "on"
    late        \* history: the TWDT was fed later than a deadline allows

vars == <<bridge, pc, core, subscribed, progress, started, wake, dog, web, late>>
Ages == <<progress, started, wake, dog>>

Starting == [state |-> "STARTING", fault |-> "NONE", ready |-> FALSE]

Init == /\ bridge \in BOOLEAN
        /\ pc = "safe_gpio" /\ core = Starting /\ subscribed = FALSE
        /\ progress = 0 /\ started = 0 /\ wake = -1 /\ dog = 0
        /\ web = "off" /\ late = FALSE

Older(age) == IF age > Timeout THEN age ELSE age + 1

Tick == /\ subscribed => dog < Timeout
        /\ progress' = Older(progress) /\ started' = Older(started)
        /\ wake' = (IF wake < 0 THEN wake ELSE Older(wake))
        /\ dog' = Older(dog)
        /\ UNCHANGED <<bridge, pc, core, subscribed, web, late>>

\* The chip restarts.
Restart == /\ pc' = "safe_gpio" /\ core' = Starting /\ subscribed' = FALSE
           /\ progress' = 0 /\ started' = 0 /\ wake' = -1 /\ dog' = 0
           /\ web' = "off" /\ late' = FALSE
           /\ UNCHANGED bridge

Bites == subscribed /\ dog >= Timeout /\ Restart

-----------------------------------------------------------------------------
\* Where app_main goes when a step has failed: the bridge stops a web shell
\* it has started before it idles.
AfterFailure == IF web = "on" THEN "stop_web" ELSE "idle"

\* fail: the first fault stays.
Fail(fault) ==
    /\ core' = [core EXCEPT !.state = "FAULT",
                            !.fault = IF @ = "NONE" THEN fault ELSE @]
    /\ pc' = AfterFailure
    /\ UNCHANGED <<bridge, subscribed, Ages, web, late>>

Goto(next) == pc' = next /\ UNCHANGED <<bridge, core, subscribed, Ages, web, late>>

Stepping == core.state = "SAFE_BENCH"

\* A port call that reports an error.
PortFails == \/ pc = "safe_gpio" /\ Fail("SAFE_GPIO")
             \/ pc \in {"watchdog", "feed"} /\ Fail("WATCHDOG")
             \/ pc \in {"clock", "again", "armed"} /\ Fail("CLOCK")
             \/ pc = "sample" /\ Fail("MEMORY")

SafeGpio == pc = "safe_gpio" /\ Goto(IF bridge THEN "clock" ELSE "watchdog")

\* watchdog_start: esp_task_wdt_add starts the count.
WatchdogStart ==
    /\ pc = "watchdog"
    /\ subscribed' = TRUE /\ dog' = 0
    /\ core' = IF bridge THEN core ELSE [core EXCEPT !.ready = TRUE]
    /\ pc' = IF bridge THEN "armed" ELSE "clock"
    /\ UNCHANGED <<bridge, progress, started, wake, web, late>>

\* The rest of canview_esp_core_arm_watchdog.
Armed == /\ pc = "armed"
         /\ core' = [core EXCEPT !.ready = TRUE] /\ progress' = 0
         /\ pc' = "wait"
         /\ UNCHANGED <<bridge, subscribed, started, wake, dog, web, late>>

\* The first now_us of boot_impl and of canview_esp_core_step.
Clock == /\ pc = "clock"
         /\ IF Stepping /\ progress = 0 THEN Fail("CLOCK")
            ELSE IF Stepping /\ progress > DeadlineTime THEN Fail("DEADLINE")
            ELSE /\ started' = 0 /\ pc' = "sample"
                 /\ UNCHANGED <<bridge, core, subscribed, progress, wake, dog,
                                web, late>>

\* The sample port and memory_valid.
Sample(valid) == /\ pc = "sample"
                 /\ IF valid THEN Goto("again") ELSE Fail("MEMORY")

\* The second now_us; boot ends here.
Again ==
    /\ pc = "again"
    /\ IF Stepping /\ progress > DeadlineTime THEN Fail("DEADLINE")
       ELSE IF started > Budget THEN Fail("BUDGET")
       ELSE IF Stepping THEN Goto("feed")
       ELSE /\ core' = [core EXCEPT !.state = "SAFE_BENCH"]
            /\ progress' = 0
            /\ pc' = IF bridge THEN "start_web" ELSE "wait"
            /\ UNCHANGED <<bridge, subscribed, started, wake, dog, web, late>>

\* Mutant: the feed forgets the deadline of the progress.
Overdue_Budget == started > Budget

\* The deadline canview_esp_core_step gives to feed.
Overdue == progress > DeadlineTime \/ started > Budget

\* feed, in three statements: the time before, esp_task_wdt_reset, the time
\* after.
FeedCheck == /\ pc = "feed"
             /\ IF Overdue THEN Fail("WATCHDOG") ELSE Goto("reset")

FeedReset == /\ pc = "reset"
             /\ dog' = 0 /\ pc' = "fed"
             /\ late' = (late \/ progress > DeadlineTime \/ started > Budget)
             /\ UNCHANGED <<bridge, core, subscribed, progress, started, wake,
                            web>>

\* Mutant: the time after the reset is not compared.
FeedDone_NoSecondLook ==
    /\ pc = "fed" /\ progress' = 0 /\ pc' = "wait"
    /\ UNCHANGED <<bridge, core, subscribed, started, wake, dog, web, late>>

FeedDone ==
    /\ pc = "fed"
    /\ IF Overdue THEN Fail("WATCHDOG")
       ELSE /\ progress' = 0 /\ pc' = "wait"
            /\ UNCHANGED <<bridge, core, subscribed, started, wake, dog, web,
                           late>>

\* wait_period: xTaskDelayUntil reports a wake time already passed, and
\* app_main leaves its loop.
WaitPeriod ==
    /\ pc = "wait"
    /\ IF wake >= Period THEN Goto(AfterFailure)
       ELSE /\ wake' = (IF wake < 0 THEN 0 ELSE wake) /\ pc' = "waiting"
            /\ UNCHANGED <<bridge, core, subscribed, progress, started, dog,
                           web, late>>

Wakes == /\ pc = "waiting" /\ wake >= Period
         /\ wake' = wake - Period
         /\ pc' = IF bridge THEN "poll" ELSE "clock"
         /\ UNCHANGED <<bridge, core, subscribed, progress, started, dog, web,
                        late>>

-----------------------------------------------------------------------------
\* The bridge's app_main around its web shell.  A start that fails may keep
\* resources; credentials may be missing before it.
StartWeb(outcome) ==
    /\ pc = "start_web"
    /\ web' = IF outcome \in {"OK", "RETAINED"} THEN "on" ELSE "off"
    /\ pc' = CASE outcome = "OK"             -> "watchdog"
               [] outcome = "NO_CREDENTIALS" -> "idle"
               [] OTHER                      -> "stop_web"
    /\ UNCHANGED <<bridge, core, subscribed, Ages, late>>

PollWeb(ok) == pc = "poll" /\ Goto(IF ok THEN "clock" ELSE "stop_web")

\* Mutant: the second failure is only reported.
StopWeb_Reported(ok) ==
    /\ pc \in {"stop_web", "stop_again"}
    /\ web' = IF ok THEN "off" ELSE web
    /\ pc' = IF pc = "stop_web" /\ ~ok THEN "stop_again" ELSE "idle"
    /\ UNCHANGED <<bridge, core, subscribed, Ages, late>>

\* Mutant: the bridge leaves the watchdog when its web shell has stopped.
StopWeb_Unsubscribes(ok) ==
    /\ pc \in {"stop_web", "stop_again"}
    /\ IF ok THEN /\ web' = "off" /\ pc' = "idle" /\ subscribed' = FALSE
                  /\ UNCHANGED <<bridge, core, Ages, late>>
       ELSE IF pc = "stop_web" THEN Goto("stop_again")
       ELSE Restart

\* stop_web_with_retry and restart_after_cleanup_failure.
StopWeb(ok) ==
    /\ pc \in {"stop_web", "stop_again"}
    /\ IF ok THEN /\ web' = "off" /\ pc' = "idle"
                  /\ UNCHANGED <<bridge, core, subscribed, Ages, late>>
       ELSE IF pc = "stop_web" THEN Goto("stop_again")
       ELSE Restart

Owner == \/ PortFails \/ SafeGpio \/ WatchdogStart \/ Armed \/ Clock
         \/ \E valid \in BOOLEAN : Sample(valid)
         \/ Again \/ FeedCheck \/ FeedReset \/ FeedDone \/ WaitPeriod \/ Wakes
         \/ \E o \in {"OK", "RETAINED", "FAILED", "NO_CREDENTIALS"} : StartWeb(o)
         \/ \E ok \in BOOLEAN : PollWeb(ok) \/ StopWeb(ok)

Next == Owner \/ Tick \/ Bites

\* Time goes on and the hardware does its part; the owner task owes nothing.
Spec == Init /\ [][Next]_vars /\ WF_vars(Tick) /\ WF_vars(Bites)

-----------------------------------------------------------------------------
TypeOK ==
    /\ core.state \in {"STARTING", "SAFE_BENCH", "FAULT"}
    /\ core.fault = "NONE" <=> core.state # "FAULT"
    /\ {progress, started, dog} \subseteq 0 .. Timeout + 1
    /\ wake \in -1 .. Timeout + 1
    /\ web = "on" => bridge

\* A feed that came too late, because the task was held up between the check
\* and the reset, is the last one: the core is in FAULT, or about to see it.
LateFeedIsLast == late => pc = "fed" \/ core.state = "FAULT"

\* Web resources never outlive the service: the task idles only with its web
\* shell stopped.
NoWebInIdle == pc = "idle" => web = "off"

\* From the time the core counts on the watchdog, a task that has stopped for
\* whatever reason, or hangs, ends in a restart of the chip.
StopEndsInReset == (core.ready /\ pc \in {"idle", "poll", "feed"})
                     ~> (~core.ready \/ pc = "clock" \/ pc = "reset")
=============================================================================
