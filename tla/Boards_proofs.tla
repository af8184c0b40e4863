---------------------------- MODULE Boards_proofs ----------------------------
(***************************************************************************)
(* Proofs about the boards' cores, for all times: the ESP32 owner task     *)
(* under its watchdog, with time passing between any two of its            *)
(* statements, the message pool for any number of slots and generations,   *)
(* and the workers of the communicator under scheduler and watchdog.       *)
(***************************************************************************)
EXTENDS MCBoards, FiniteSetTheorems, TLAPS

(* The ESP32 core.                                                          *)

Faults == {"NONE", "SAFE_GPIO", "WATCHDOG", "CLOCK", "MEMORY", "DEADLINE", "BUDGET"}

\* A core in FAULT has left its loop for good, and a feed that came too late is
\* still seen to be late by the check that follows it.
CoreInv ==
    /\ Esp!TypeOK /\ Esp!LateFeedIsLast /\ Esp!NoWebInIdle
    /\ core \in [state : {"STARTING", "SAFE_BENCH", "FAULT"}, fault : Faults,
                 ready : BOOLEAN]
    /\ core.state = "FAULT" => pc \in {"idle", "stop_web", "stop_again"}
    /\ pc = "fed" /\ late => Esp!Overdue
    /\ pc = "start_web" => bridge
    /\ web \in {"off", "on"}

LEMMA OlderFacts ==
  ASSUME Esp!EspCoreAssumption, NEW age \in 0 .. EspTimeout + 1
  PROVE  Esp!Older(age) \in 0 .. EspTimeout + 1 /\ Esp!Older(age) >= age
  BY DEF Esp!Older, Esp!EspCoreAssumption

\* The first fault stays, and the loop is left.
LEMMA FailInv ==
  ASSUME CoreInv, NEW f \in Faults \ {"NONE"}, Esp!Fail(f)
  PROVE  CoreInv'
<1>1. /\ core' = [state |-> "FAULT", fault |-> IF core.fault = "NONE" THEN f ELSE core.fault,
                  ready |-> core.ready]
      /\ pc' = (IF web = "on" THEN "stop_web" ELSE "idle")
      /\ UNCHANGED <<bridge, subscribed, progress, started, wake, dog, web, late>>
  BY DEF Esp!Fail, Esp!Ages, Esp!AfterFailure, CoreInv
<1>2. /\ core'.state = "FAULT" /\ core'.fault \in Faults \ {"NONE"}
      /\ core'.ready \in BOOLEAN
  BY <1>1 DEF CoreInv
<1>3. Esp!TypeOK'
  BY <1>1, <1>2 DEF CoreInv, Esp!TypeOK
<1>4. Esp!LateFeedIsLast' /\ Esp!NoWebInIdle'
  BY <1>1, <1>2 DEF Esp!LateFeedIsLast, Esp!NoWebInIdle, CoreInv, Esp!TypeOK
<1>5. core' \in [state : {"STARTING", "SAFE_BENCH", "FAULT"}, fault : Faults, ready : BOOLEAN]
  BY <1>1, <1>2
<1> QED
  BY <1>1, <1>2, <1>3, <1>4, <1>5 DEF CoreInv

\* A step to another place in the loop, with nothing else changed.
LEMMA GotoInv ==
  ASSUME CoreInv, NEW to, Esp!Goto(to), core.state # "FAULT" \/ to \in {"idle", "stop_web", "stop_again"},
         late => core.state = "FAULT", to = "idle" => web = "off", to = "start_web" => bridge
  PROVE  CoreInv'
<1>1. pc' = to /\ UNCHANGED <<bridge, core, subscribed, progress, started, wake, dog, web, late>>
  BY DEF Esp!Goto, Esp!Ages
<1>2. Esp!TypeOK'
  BY <1>1 DEF CoreInv, Esp!TypeOK
<1>3. Esp!LateFeedIsLast' /\ Esp!NoWebInIdle'
  BY <1>1 DEF Esp!LateFeedIsLast, Esp!NoWebInIdle
<1>4. core.state = "FAULT" => to \in {"idle", "stop_web", "stop_again"}
  OBVIOUS
<1> QED
  BY <1>1, <1>2, <1>3, <1>4 DEF CoreInv

LEMMA RestartInv == ASSUME Esp!EspCoreAssumption, CoreInv, Esp!Restart PROVE CoreInv'
<1>1. /\ core' = [state |-> "STARTING", fault |-> "NONE", ready |-> FALSE]
      /\ pc' = "safe_gpio" /\ progress' = 0 /\ started' = 0 /\ wake' = -1 /\ dog' = 0
      /\ web' = "off" /\ late' = FALSE /\ bridge' = bridge
  BY DEF Esp!Restart, Esp!Starting
<1> QED
  BY <1>1 DEF Esp!EspCoreAssumption, CoreInv, Esp!TypeOK, Esp!LateFeedIsLast, Esp!NoWebInIdle, Faults

LEMMA TickInv == ASSUME Esp!EspCoreAssumption, CoreInv, Esp!Tick PROVE CoreInv'
<1>1. /\ progress' = Esp!Older(progress) /\ started' = Esp!Older(started)
      /\ wake' = (IF wake < 0 THEN wake ELSE Esp!Older(wake)) /\ dog' = Esp!Older(dog)
      /\ UNCHANGED <<bridge, pc, core, subscribed, web, late>>
  BY DEF Esp!Tick
<1>2. /\ progress \in 0 .. EspTimeout + 1 /\ started \in 0 .. EspTimeout + 1
      /\ dog \in 0 .. EspTimeout + 1 /\ wake \in -1 .. EspTimeout + 1
  BY DEF CoreInv, Esp!TypeOK
<1>3. /\ progress' \in 0 .. EspTimeout + 1 /\ started' \in 0 .. EspTimeout + 1
      /\ dog' \in 0 .. EspTimeout + 1 /\ progress' >= progress /\ started' >= started
  BY <1>1, <1>2, OlderFacts
<1>4. wake' \in -1 .. EspTimeout + 1
  <2>1. CASE wake < 0
    BY <1>1, <1>2, <2>1
  <2>2. CASE ~(wake < 0)
    <3>1. wake \in 0 .. EspTimeout + 1
      BY <1>2, <2>2
    <3>2. Esp!Older(wake) \in 0 .. EspTimeout + 1
      BY <3>1, OlderFacts
    <3> QED
      BY <1>1, <2>2, <3>2 DEF Esp!EspCoreAssumption
  <2> QED
    BY <2>1, <2>2
<1>5. Esp!TypeOK'
  BY <1>1, <1>3, <1>4 DEF CoreInv, Esp!TypeOK
<1>6. pc = "fed" /\ late => Esp!Overdue'
  <2>1. /\ {progress, progress', started, started'} \subseteq Int
        /\ EspDeadline \in Int /\ EspBudget \in Int
    BY <1>2, <1>3 DEF Esp!EspCoreAssumption
  <2> QED
    BY <1>1, <1>3, <2>1 DEF CoreInv, Esp!Overdue
<1> QED
  BY <1>1, <1>5, <1>6 DEF CoreInv, Esp!LateFeedIsLast, Esp!NoWebInIdle

\* Anywhere in the loop but after a feed the core has no late feed behind it.
LEMMA NotLate ==
  ASSUME CoreInv, pc \notin {"fed", "idle", "stop_web", "stop_again"}
  PROVE  ~late /\ core.state # "FAULT"
  BY DEF CoreInv, Esp!LateFeedIsLast

LEMMA OwnerInv == ASSUME Esp!EspCoreAssumption, CoreInv, Esp!Owner PROVE CoreInv'
<1>1. CASE Esp!PortFails
  BY <1>1, FailInv DEF Esp!PortFails, Faults
<1>2. CASE Esp!SafeGpio
  <2> SUFFICES ASSUME NEW to \in {"clock", "watchdog"}, Esp!Goto(to), pc = "safe_gpio"
               PROVE  CoreInv'
    BY <1>2 DEF Esp!SafeGpio
  <2> QED
    BY NotLate, GotoInv
<1>3. CASE Esp!WatchdogStart
  <2>1. /\ pc = "watchdog" /\ dog' = 0 /\ pc' \in {"armed", "clock"}
        /\ core' = (IF bridge THEN core ELSE [core EXCEPT !.ready = TRUE])
        /\ UNCHANGED <<bridge, progress, started, wake, web, late>>
    BY <1>3 DEF Esp!WatchdogStart
  <2>2. ~late /\ core.state # "FAULT"
    BY <2>1, NotLate
  <2>3. /\ core' \in [state : {"STARTING", "SAFE_BENCH", "FAULT"}, fault : Faults, ready : BOOLEAN]
        /\ core'.state = core.state /\ core'.fault = core.fault
    BY <2>1 DEF CoreInv
  <2> QED
    BY <2>1, <2>2, <2>3 DEF Esp!EspCoreAssumption, CoreInv, Esp!TypeOK, Esp!LateFeedIsLast, Esp!NoWebInIdle
<1>4. CASE Esp!Armed
  <2>1. /\ pc = "armed" /\ progress' = 0 /\ pc' = "wait"
        /\ core' = [core EXCEPT !.ready = TRUE]
        /\ UNCHANGED <<bridge, started, wake, dog, web, late>>
    BY <1>4 DEF Esp!Armed
  <2>2. ~late /\ core.state # "FAULT"
    BY <2>1, NotLate
  <2>3. /\ core' \in [state : {"STARTING", "SAFE_BENCH", "FAULT"}, fault : Faults, ready : BOOLEAN]
        /\ core'.state = core.state /\ core'.fault = core.fault
    BY <2>1 DEF CoreInv
  <2> QED
    BY <2>1, <2>2, <2>3 DEF Esp!EspCoreAssumption, CoreInv, Esp!TypeOK, Esp!LateFeedIsLast, Esp!NoWebInIdle
<1>5. CASE Esp!Clock
  <2>1. ASSUME started' = 0, pc' = "sample", pc = "clock",
               UNCHANGED <<bridge, core, subscribed, progress, wake, dog, web, late>>
        PROVE  CoreInv'
    BY <2>1, NotLate DEF Esp!EspCoreAssumption, CoreInv, Esp!TypeOK, Esp!LateFeedIsLast, Esp!NoWebInIdle
  <2> QED
    BY <1>5, <2>1, FailInv DEF Esp!Clock, Faults
<1>6. ASSUME NEW valid \in BOOLEAN, Esp!Sample(valid) PROVE CoreInv'
  <2>1. CASE valid
    BY <1>6, <2>1, NotLate, GotoInv DEF Esp!Sample
  <2>2. CASE ~valid
    BY <1>6, <2>2, FailInv DEF Esp!Sample, Faults
  <2> QED
    BY <2>1, <2>2
<1>7. CASE Esp!Again
  <2>1. ~late /\ core.state # "FAULT" /\ pc = "again"
    BY <1>7, NotLate DEF Esp!Again
  <2>2. ASSUME core' = [core EXCEPT !.state = "SAFE_BENCH"], progress' = 0,
               pc' = (IF bridge THEN "start_web" ELSE "wait"),
               UNCHANGED <<bridge, subscribed, started, wake, dog, web, late>>
        PROVE  CoreInv'
    <3>1. /\ core' \in [state : {"STARTING", "SAFE_BENCH", "FAULT"}, fault : Faults, ready : BOOLEAN]
          /\ core'.state = "SAFE_BENCH" /\ core'.fault = core.fault
      BY <2>2 DEF CoreInv
    <3> QED
      BY <2>1, <2>2, <3>1 DEF Esp!EspCoreAssumption, CoreInv, Esp!TypeOK, Esp!LateFeedIsLast, Esp!NoWebInIdle
  <2>3. ASSUME Esp!Goto("feed") PROVE CoreInv'
    BY <2>1, <2>3, GotoInv
  <2> QED
    BY <1>7, <2>2, <2>3, FailInv DEF Esp!Again, Faults
<1>8. CASE Esp!FeedCheck
  <2>1. ASSUME Esp!Goto("reset"), pc = "feed" PROVE CoreInv'
    BY <2>1, NotLate, GotoInv
  <2> QED
    BY <1>8, <2>1, FailInv DEF Esp!FeedCheck, Faults
<1>9. CASE Esp!FeedReset
  <2>1. /\ pc = "reset" /\ dog' = 0 /\ pc' = "fed"
        /\ late' = (late \/ progress > EspDeadline \/ started > EspBudget)
        /\ UNCHANGED <<bridge, core, subscribed, progress, started, wake, web>>
    BY <1>9 DEF Esp!FeedReset
  <2>2. ~late /\ core.state # "FAULT"
    BY <2>1, NotLate
  <2>3. late' => Esp!Overdue'
    BY <2>1, <2>2 DEF Esp!Overdue
  <2> QED
    BY <2>1, <2>2, <2>3 DEF Esp!EspCoreAssumption, CoreInv, Esp!TypeOK, Esp!LateFeedIsLast, Esp!NoWebInIdle
<1>10. CASE Esp!FeedDone
  <2>1. CASE Esp!Overdue
    BY <1>10, <2>1, FailInv DEF Esp!FeedDone, Faults
  <2>2. CASE ~Esp!Overdue
    <3>1. /\ pc = "fed" /\ progress' = 0 /\ pc' = "wait"
          /\ UNCHANGED <<bridge, core, subscribed, started, wake, dog, web, late>>
      BY <1>10, <2>2 DEF Esp!FeedDone
    <3>2. ~late /\ core.state # "FAULT"
      BY <2>2, <3>1 DEF CoreInv
    <3> QED
      BY <3>1, <3>2 DEF Esp!EspCoreAssumption, CoreInv, Esp!TypeOK, Esp!LateFeedIsLast, Esp!NoWebInIdle
  <2> QED
    BY <2>1, <2>2
<1>11. CASE Esp!WaitPeriod
  <2>1. pc = "wait" /\ ~late /\ core.state # "FAULT"
    BY <1>11, NotLate DEF Esp!WaitPeriod
  <2>2. CASE wake >= EspPeriod
    <3>1. Esp!Goto(IF web = "on" THEN "stop_web" ELSE "idle")
      BY <1>11, <2>2 DEF Esp!WaitPeriod, Esp!AfterFailure
    <3>2. web \in {"off", "on"}
      BY DEF CoreInv
    <3> QED
      BY <2>1, <3>1, <3>2, GotoInv
  <2>3. CASE ~(wake >= EspPeriod)
    <3>1. /\ wake' = (IF wake < 0 THEN 0 ELSE wake) /\ pc' = "waiting"
          /\ UNCHANGED <<bridge, core, subscribed, progress, started, dog, web, late>>
      BY <1>11, <2>3 DEF Esp!WaitPeriod
    <3>2. wake' \in -1 .. EspTimeout + 1
      BY <3>1 DEF Esp!EspCoreAssumption, CoreInv, Esp!TypeOK
    <3> QED
      BY <2>1, <3>1, <3>2 DEF CoreInv, Esp!TypeOK, Esp!LateFeedIsLast, Esp!NoWebInIdle
  <2> QED
    BY <2>2, <2>3
<1>12. CASE Esp!Wakes
  <2>1. /\ pc = "waiting" /\ wake >= EspPeriod /\ wake' = wake - EspPeriod
        /\ pc' \in {"poll", "clock"}
        /\ UNCHANGED <<bridge, core, subscribed, progress, started, dog, web, late>>
    BY <1>12 DEF Esp!Wakes
  <2>2. ~late /\ core.state # "FAULT"
    BY <2>1, NotLate
  <2>3. wake' \in -1 .. EspTimeout + 1
    BY <2>1 DEF Esp!EspCoreAssumption, CoreInv, Esp!TypeOK
  <2> QED
    BY <2>1, <2>2, <2>3 DEF CoreInv, Esp!TypeOK, Esp!LateFeedIsLast, Esp!NoWebInIdle
<1>13. ASSUME NEW o \in {"OK", "RETAINED", "FAILED", "NO_CREDENTIALS"}, Esp!StartWeb(o)
       PROVE  CoreInv'
  <2>1. /\ pc = "start_web" /\ web' = (IF o \in {"OK", "RETAINED"} THEN "on" ELSE "off")
        /\ pc' = (CASE o = "OK" -> "watchdog" [] o = "NO_CREDENTIALS" -> "idle"
                    [] OTHER -> "stop_web")
        /\ UNCHANGED <<bridge, core, subscribed, progress, started, wake, dog, late>>
    BY <1>13 DEF Esp!StartWeb, Esp!Ages
  <2>2. ~late /\ core.state # "FAULT" /\ bridge
    BY <2>1, NotLate DEF CoreInv
  <2>3. pc' \in {"watchdog", "idle", "stop_web"} /\ (pc' = "idle" => web' = "off")
    BY <2>1
  <2> QED
    BY <2>1, <2>2, <2>3 DEF CoreInv, Esp!TypeOK, Esp!LateFeedIsLast, Esp!NoWebInIdle
<1>14. ASSUME NEW ok \in BOOLEAN, Esp!PollWeb(ok) PROVE CoreInv'
  <2>1. pc = "poll" /\ Esp!Goto(IF ok THEN "clock" ELSE "stop_web")
    BY <1>14 DEF Esp!PollWeb
  <2> QED
    BY <2>1, NotLate, GotoInv
<1>15. ASSUME NEW ok \in BOOLEAN, Esp!StopWeb(ok) PROVE CoreInv'
  <2>1. pc \in {"stop_web", "stop_again"} /\ (late => core.state = "FAULT")
    BY <1>15 DEF Esp!StopWeb, CoreInv, Esp!LateFeedIsLast
  <2>2. CASE ok
    <3>1. /\ web' = "off" /\ pc' = "idle"
          /\ UNCHANGED <<bridge, core, subscribed, progress, started, wake, dog, late>>
      BY <1>15, <2>2 DEF Esp!StopWeb, Esp!Ages
    <3> QED
      BY <2>1, <3>1 DEF CoreInv, Esp!TypeOK, Esp!LateFeedIsLast, Esp!NoWebInIdle
  <2>3. CASE ~ok /\ pc = "stop_web"
    BY <1>15, <2>1, <2>3, GotoInv DEF Esp!StopWeb
  <2>4. CASE ~ok /\ pc # "stop_web"
    BY <1>15, <2>4, RestartInv DEF Esp!StopWeb
  <2> QED
    BY <2>2, <2>3, <2>4
<1> QED
  BY <1>1, <1>2, <1>3, <1>4, <1>5, <1>6, <1>7, <1>8, <1>9, <1>10, <1>11, <1>12, <1>13,
     <1>14, <1>15 DEF Esp!Owner

\* Wherever the owner task is held up between its look at the clock and the
\* feed, a feed that came too late is the last one, and the task never idles
\* with its web shell on.
THEOREM LateFeedEnds ==
  Esp!Init /\ [][Esp!Next]_(Esp!vars)
    => [](Esp!TypeOK /\ Esp!LateFeedIsLast /\ Esp!NoWebInIdle)
<1>0. Esp!EspCoreAssumption
  BY EspInstance
<1>1. Esp!Init => CoreInv
  BY <1>0 DEF Esp!Init, Esp!Starting, Esp!EspCoreAssumption, CoreInv, Esp!TypeOK, Esp!LateFeedIsLast, Esp!NoWebInIdle, Faults
<1>2. CoreInv /\ [Esp!Next]_(Esp!vars) => CoreInv'
  <2> SUFFICES ASSUME CoreInv, [Esp!Next]_(Esp!vars) PROVE CoreInv'
    OBVIOUS
  <2>1. CASE UNCHANGED Esp!vars
    <3>1. UNCHANGED <<bridge, pc, core, subscribed, progress, started, wake, dog, web, late>>
      BY <2>1 DEF Esp!vars
    <3> QED
      BY <3>1 DEF CoreInv, Esp!TypeOK, Esp!LateFeedIsLast, Esp!NoWebInIdle, Esp!Overdue
  <2>2. CASE Esp!Bites
    BY <1>0, <2>2, RestartInv DEF Esp!Bites
  <2> QED
    BY <1>0, <2>1, <2>2, OwnerInv, TickInv DEF Esp!Next
<1>3. CoreInv => Esp!TypeOK /\ Esp!LateFeedIsLast /\ Esp!NoWebInIdle
  BY DEF CoreInv
<1> QED
  BY <1>1, <1>2, <1>3, PTL

-----------------------------------------------------------------------------
(* The message pool: a token names its message as long as it is held and   *)
(* nothing afterwards, and the counters are those of the slots.            *)

Token == [slot : Slots, gen : Nat, data : Data, live : BOOLEAN]

\* No token is ahead of the generation of its slot, so the next one to be
\* handed out is new; a live token is what its slot was acquired for, and a
\* dead one is not its slot's generation while that is in use.
TokenInv ==
    /\ issued \subseteq Token
    /\ DOMAIN slots = Slots
    /\ \A s \in Slots : slots[s].gen \in Nat
    /\ slots = [s \in Slots |-> slots[s]]
    /\ \A t \in issued :
         /\ t.gen <= slots[t.slot].gen
         /\ t.live => slots[t.slot] = [used |-> TRUE, gen |-> t.gen, data |-> t.data]
         /\ ~t.live => ~Pool!Found(t)

LEMMA InitTokenInv == Pool!Init => TokenInv
  BY DEF Pool!Init, TokenInv

LEMMA AcquireTokenInv ==
  ASSUME TokenInv, NEW s \in Slots, NEW d \in Data, Pool!Acquire(s, d)
  PROVE  TokenInv'
<1> DEFINE g == slots[s].gen + 1
           new == [slot |-> s, gen |-> g, data |-> d, live |-> TRUE]
<1>1. g \in Nat /\ slots[s].gen \in Nat /\ slots[s].gen < g
  BY DEF TokenInv
<1>2. slots' = [slots EXCEPT ![s] = [used |-> TRUE, gen |-> g, data |-> d]]
  BY DEF Pool!Acquire
<1>3. issued' = issued \cup {new}
  BY DEF Pool!Acquire
<1> HIDE DEF g
<1>4. /\ slots'[s] = [used |-> TRUE, gen |-> g, data |-> d]
      /\ \A r \in Slots : r # s => slots'[r] = slots[r]
  BY <1>2 DEF TokenInv
<1>5. DOMAIN slots' = Slots /\ slots' = [r \in Slots |-> slots'[r]]
  BY <1>2 DEF TokenInv
<1>6. \A r \in Slots : slots'[r].gen \in Nat
  BY <1>1, <1>4 DEF TokenInv
<1>7. new \in Token
  BY <1>1 DEF Token
<1>8. ASSUME NEW t \in issued
      PROVE  /\ t.gen <= slots'[t.slot].gen
             /\ t.live => slots'[t.slot] = [used |-> TRUE, gen |-> t.gen, data |-> t.data]
             /\ ~t.live => ~Pool!Found(t)'
  <2>1. t \in Token /\ t.slot \in Slots /\ t.gen \in Nat
    BY DEF TokenInv, Token
  <2>2. CASE t.slot # s
    BY <2>1, <2>2, <1>4 DEF TokenInv, Pool!Found
  <2>3. CASE t.slot = s
    <3>1. t.gen <= slots[s].gen
      BY <2>3 DEF TokenInv
    <3>2. t.gen < g
      BY <3>1, <1>1, <2>1
    <3>3. ~t.live
      <4>1. ~slots[s].used
        BY DEF Pool!Acquire, Pool!Free
      <4>2. t.live => slots[s] = [used |-> TRUE, gen |-> t.gen, data |-> t.data]
        BY <2>3 DEF TokenInv
      <4> QED
        BY <4>1, <4>2
    <3> QED
      BY <2>1, <2>3, <3>2, <3>3, <1>1, <1>4 DEF Pool!Found
  <2> QED
    BY <2>2, <2>3
<1>9. /\ new.gen <= slots'[new.slot].gen
      /\ slots'[new.slot] = [used |-> TRUE, gen |-> new.gen, data |-> new.data]
  BY <1>1, <1>4
<1> HIDE DEF new
<1> QED
  <2>1. new.live
    BY DEF new
  <2>2. issued' \subseteq Token
    BY <1>3, <1>7 DEF TokenInv
  <2> QED
    BY <2>1, <2>2, <1>3, <1>5, <1>6, <1>8, <1>9 DEF TokenInv

LEMMA ReleaseTokenInv ==
  ASSUME TokenInv, NEW t \in issued, Pool!Release(t)
  PROVE  TokenInv'
<1> DEFINE old == [t EXCEPT !.live = FALSE]
<1>1. t \in Token /\ t.slot \in Slots /\ t.gen \in Nat
  BY DEF TokenInv, Token
<1>2. t.live /\ slots[t.slot] = [used |-> TRUE, gen |-> t.gen, data |-> t.data]
  BY DEF TokenInv, Pool!Release, Token
<1>3. slots' = [slots EXCEPT ![t.slot] = [used |-> FALSE, gen |-> t.gen]]
  BY <1>2 DEF Pool!Release
<1>4. /\ slots'[t.slot] = [used |-> FALSE, gen |-> t.gen]
      /\ \A r \in Slots : r # t.slot => slots'[r] = slots[r]
  BY <1>1, <1>3 DEF TokenInv
<1>5. DOMAIN slots' = Slots /\ slots' = [r \in Slots |-> slots'[r]]
  BY <1>3 DEF TokenInv
<1>6. \A r \in Slots : slots'[r].gen \in Nat
  BY <1>1, <1>4 DEF TokenInv
<1>7. old \in Token /\ old.slot = t.slot /\ old.gen = t.gen /\ ~old.live
  BY <1>1 DEF Token
<1>8. issued' = (issued \ {t}) \cup {old}
  BY DEF Pool!Release
<1>9. ASSUME NEW u \in issued, u # t
      PROVE  /\ u.gen <= slots'[u.slot].gen
             /\ u.live => slots'[u.slot] = [used |-> TRUE, gen |-> u.gen, data |-> u.data]
             /\ ~u.live => ~Pool!Found(u)'
  <2>1. u \in Token /\ u.slot \in Slots /\ u.gen \in Nat
    BY DEF TokenInv, Token
  <2>2. CASE u.slot # t.slot
    BY <2>1, <2>2, <1>4 DEF TokenInv, Pool!Found
  <2>3. CASE u.slot = t.slot
    <3>1. ~u.live
      <4>1. SUFFICES ASSUME u.live PROVE FALSE
        OBVIOUS
      <4>2. slots[t.slot] = [used |-> TRUE, gen |-> u.gen, data |-> u.data]
        BY <4>1, <2>3 DEF TokenInv
      <4>3. u.gen = t.gen /\ u.data = t.data
        BY <4>2, <1>2
      <4> QED
        BY <4>1, <4>3, <1>1, <1>2, <1>9, <2>1, <2>3 DEF Token
    <3>2. u.gen <= t.gen
      <4>1. u.gen <= slots[t.slot].gen
        BY <2>3 DEF TokenInv
      <4> QED
        BY <4>1, <1>2
    <3> QED
      BY <2>3, <3>1, <3>2, <1>4 DEF Pool!Found
  <2> QED
    BY <2>2, <2>3
<1>10. /\ old.gen <= slots'[old.slot].gen
       /\ ~Pool!Found(old)'
  BY <1>1, <1>4, <1>7 DEF Pool!Found
<1> HIDE DEF old
<1>11. issued' \subseteq Token
  BY <1>7, <1>8 DEF TokenInv
<1> QED
  BY <1>5, <1>6, <1>7, <1>8, <1>9, <1>10, <1>11 DEF TokenInv

LEMMA NextTokenInv == TokenInv /\ [Pool!Next]_(Pool!vars) => TokenInv'
<1> SUFFICES ASSUME TokenInv, [Pool!Next]_(Pool!vars) PROVE TokenInv'
  OBVIOUS
<1>1. CASE UNCHANGED Pool!vars
  BY <1>1 DEF TokenInv, Pool!vars, Pool!Found
<1> QED
  BY <1>1, AcquireTokenInv, ReleaseTokenInv DEF Pool!Next

\* A token reads the message it was issued for until it is released, and
\* nothing ever after: canview_esp_pool_copy never hands out what another
\* owner has put into the slot since.
THEOREM TokensNameTheirMessage == Pool!Spec => []Pool!TokenNamesItsMessage
<1>1. TokenInv => Pool!TokenNamesItsMessage
  <2> SUFFICES ASSUME TokenInv, NEW t \in issued
               PROVE  Pool!Copy(t) = IF t.live THEN {t.data} ELSE {}
    BY DEF Pool!TokenNamesItsMessage
  <2>1. t.live \in BOOLEAN
    BY DEF TokenInv, Token
  <2>2. CASE t.live
    <3>1. slots[t.slot] = [used |-> TRUE, gen |-> t.gen, data |-> t.data]
      BY <2>2 DEF TokenInv
    <3> QED
      BY <2>2, <3>1 DEF Pool!Copy, Pool!Found
  <2>3. CASE ~t.live
    BY <2>3 DEF TokenInv, Pool!Copy
  <2> QED
    BY <2>1, <2>2, <2>3
<1> QED
  BY <1>1, InitTokenInv, NextTokenInv, PTL DEF Pool!Spec

\* The counters with the shape of the slots; a slot in use has a generation.
StatsInv ==
    /\ slots = [s \in Slots |-> slots[s]]
    /\ \A s \in Slots : slots[s].used \in BOOLEAN
    /\ stats = [used |-> stats.used, high |-> stats.high, retired |-> stats.retired]
    /\ stats.high \in Nat
    /\ Pool!StatsTrue

\* The slots in use, and those that are used up.
InUse == {s \in Slots : slots[s].used}
UsedUp == {s \in Slots : ~slots[s].used /\ slots[s].gen = MaxGen}

LEMMA CountsAreNumbers ==
  ASSUME IsFiniteSet(Slots)
  PROVE  /\ IsFiniteSet(InUse) /\ IsFiniteSet(UsedUp)
         /\ Cardinality(InUse) \in Nat /\ Cardinality(UsedUp) \in Nat
         /\ Cardinality(Slots) \in Nat /\ Cardinality(InUse) <= Cardinality(Slots)
<1>1. InUse \in SUBSET Slots /\ UsedUp \in SUBSET Slots
  BY DEF InUse, UsedUp
<1> QED
  BY <1>1, FS_Subset, FS_CardinalityType

\* The counting operator of the instance is the library's.
LEMMA SameCardinality == \A S : Pool!Cardinality(S) = Cardinality(S)
  BY Zenon DEF Pool!Cardinality, Cardinality

LEMMA StatsAreSlots ==
  Pool!StatsTrue <=> /\ stats.used = Cardinality(InUse)
                     /\ stats.retired = Cardinality(UsedUp)
                     /\ stats.high \in stats.used .. Cardinality(Slots)
  BY SameCardinality DEF Pool!StatsTrue, InUse, UsedUp

LEMMA AcquireStats ==
  ASSUME IsFiniteSet(Slots), StatsInv, NEW s \in Slots, NEW d \in Data, Pool!Acquire(s, d)
  PROVE  StatsInv'
<1> DEFINE new == [used |-> TRUE, gen |-> slots[s].gen + 1, data |-> d]
<1>1. /\ ~slots[s].used /\ slots[s].gen # MaxGen
      /\ slots' = [slots EXCEPT ![s] = new]
      /\ stats' = [stats EXCEPT !.used = @ + 1,
                                !.high = IF @ > stats.used THEN @ ELSE @ + 1]
  BY DEF Pool!Acquire, Pool!Free
<1>2. new.used = TRUE
  OBVIOUS
<1> HIDE DEF new
<1>3. /\ slots' = [r \in Slots |-> slots'[r]]
      /\ \A r \in Slots : slots'[r] = IF r = s THEN new ELSE slots[r]
  BY <1>1 DEF StatsInv
<1>4. InUse' = InUse \cup {s} /\ s \notin InUse /\ UsedUp' = UsedUp
  BY <1>1, <1>2, <1>3 DEF InUse, UsedUp
<1>5. Cardinality(InUse') = Cardinality(InUse) + 1 /\ Cardinality(UsedUp') = Cardinality(UsedUp)
  BY <1>4, CountsAreNumbers, FS_AddElement
<1>6. InUse' \in SUBSET Slots
  BY <1>4 DEF InUse
<1>7. Cardinality(InUse') <= Cardinality(Slots)
  BY <1>6, FS_Subset
<1>8. /\ stats'.used = stats.used + 1 /\ stats'.retired = stats.retired
      /\ stats'.high = IF stats.high > stats.used THEN stats.high ELSE stats.high + 1
      /\ stats' = [used |-> stats'.used, high |-> stats'.high, retired |-> stats'.retired]
  BY <1>1 DEF StatsInv
<1>9. /\ stats.used = Cardinality(InUse) /\ stats.retired = Cardinality(UsedUp)
      /\ stats.high \in stats.used .. Cardinality(Slots) /\ stats.high \in Nat
  BY StatsAreSlots DEF StatsInv
<1>10. stats'.high \in stats'.used .. Cardinality(Slots) /\ stats'.high \in Nat
  BY <1>5, <1>7, <1>8, <1>9, CountsAreNumbers
<1>11. Pool!StatsTrue'
  BY <1>5, <1>8, <1>9, <1>10, SameCardinality DEF Pool!StatsTrue, InUse, UsedUp
<1> QED
  BY <1>2, <1>3, <1>8, <1>10, <1>11 DEF StatsInv

LEMMA ReleaseStats ==
  ASSUME IsFiniteSet(Slots), StatsInv, NEW t, t.slot \in Slots, Pool!Release(t)
  PROVE  StatsInv'
<1> DEFINE s == t.slot
           freed == [used |-> FALSE, gen |-> slots[s].gen]
           full == slots[s].gen = MaxGen
<1>1. /\ slots[s].used /\ slots' = [slots EXCEPT ![s] = freed]
      /\ stats' = [stats EXCEPT !.used = @ - 1,
                                !.retired = IF full THEN @ + 1 ELSE @]
  BY DEF Pool!Release, Pool!Found
<1>2. freed.used = FALSE /\ freed.gen = slots[s].gen
  OBVIOUS
<1> HIDE DEF freed
<1>3. /\ slots' = [r \in Slots |-> slots'[r]]
      /\ \A r \in Slots : slots'[r] = IF r = s THEN freed ELSE slots[r]
  BY <1>1 DEF StatsInv
<1>4. InUse' = InUse \ {s} /\ s \in InUse
  BY <1>1, <1>2, <1>3 DEF InUse
<1>5. UsedUp' = (IF full THEN UsedUp \cup {s} ELSE UsedUp) /\ s \notin UsedUp
  BY <1>1, <1>2, <1>3 DEF UsedUp
<1>6. Cardinality(InUse') = Cardinality(InUse) - 1
  BY <1>4, CountsAreNumbers, FS_RemoveElement
<1>7. Cardinality(UsedUp') = IF full THEN Cardinality(UsedUp) + 1 ELSE Cardinality(UsedUp)
  BY <1>5, CountsAreNumbers, FS_AddElement
<1>8. /\ stats'.used = stats.used - 1 /\ stats'.high = stats.high
      /\ stats'.retired = IF full THEN stats.retired + 1 ELSE stats.retired
      /\ stats' = [used |-> stats'.used, high |-> stats'.high, retired |-> stats'.retired]
  BY <1>1 DEF StatsInv
<1>9. /\ stats.used = Cardinality(InUse) /\ stats.retired = Cardinality(UsedUp)
      /\ stats.high \in stats.used .. Cardinality(Slots) /\ stats.high \in Nat
  BY StatsAreSlots DEF StatsInv
<1>10. stats'.high \in stats'.used .. Cardinality(Slots) /\ stats'.high \in Nat
  BY <1>6, <1>8, <1>9, CountsAreNumbers
<1>11. Pool!StatsTrue'
  <2> HIDE DEF full
  <2> QED
    BY <1>6, <1>7, <1>8, <1>9, <1>10, SameCardinality DEF Pool!StatsTrue, InUse, UsedUp
<1> QED
  BY <1>2, <1>3, <1>8, <1>10, <1>11 DEF StatsInv

\* The counters of the pool are the state of its slots, and the high-water mark
\* lies between what is in use and what there is.
THEOREM PoolStatsTrue == Pool!Spec => []Pool!StatsTrue
<1>0. IsFiniteSet(Slots) /\ MaxGen # 0
  BY PoolInstance
<1>1. Pool!Init => StatsInv
  <2> SUFFICES ASSUME Pool!Init PROVE StatsInv
    OBVIOUS
  <2>1. /\ slots = [s \in Slots |-> [used |-> FALSE, gen |-> 0]]
        /\ stats = [used |-> 0, high |-> 0, retired |-> 0]
    BY DEF Pool!Init
  <2>2. InUse = {}
    BY <2>1 DEF InUse
  <2>3. UsedUp = {}
    BY <1>0, <2>1 DEF UsedUp
  <2>4. Cardinality(InUse) = 0 /\ Cardinality(UsedUp) = 0
    BY <2>2, <2>3, FS_EmptySet
  <2>5. Pool!StatsTrue
    BY <1>0, <2>1, <2>4, CountsAreNumbers, StatsAreSlots
  <2>6. /\ slots = [s \in Slots |-> slots[s]]
        /\ \A s \in Slots : slots[s].used \in BOOLEAN
    BY <2>1
  <2> QED
    BY <2>1, <2>5, <2>6 DEF StatsInv
<1>2. StatsInv /\ TokenInv /\ [Pool!Next]_(Pool!vars) => StatsInv'
  <2> SUFFICES ASSUME StatsInv, TokenInv, [Pool!Next]_(Pool!vars) PROVE StatsInv'
    OBVIOUS
  <2>1. CASE UNCHANGED Pool!vars
    BY <2>1 DEF Pool!vars, StatsInv, Pool!StatsTrue
  <2>2. ASSUME NEW t \in issued, Pool!Release(t) PROVE StatsInv'
    <3>1. t.slot \in Slots
      BY DEF TokenInv, Token
    <3> QED
      BY <1>0, <2>2, <3>1, ReleaseStats
  <2> QED
    BY <2>1, <2>2, AcquireStats, <1>0 DEF Pool!Next
<1>3. StatsInv => Pool!StatsTrue
  BY DEF StatsInv
<1> QED
  BY <1>1, <1>2, <1>3, InitTokenInv, NextTokenInv, PTL DEF Pool!Spec

\* The ESP32 core and the pool are the parts of MCSpec that move while `part`
\* says so.
LEMMA EspOfBoth == MCSpec => Esp!Init /\ [][Esp!Next]_(Esp!vars)
<1>1. MCInit => Esp!Init
  BY DEF MCInit
<1>2. [MCNext]_<<part, vars, espVars, poolVars>> => [Esp!Next]_(Esp!vars)
  BY DEF MCNext, espVars, Esp!vars
<1> QED
  BY <1>1, <1>2, PTL DEF MCSpec

LEMMA PoolOfBoth == MCSpec => Pool!Spec
<1>1. MCInit => Pool!Init
  BY DEF MCInit
<1>2. [MCNext]_<<part, vars, espVars, poolVars>> => [Pool!Next]_(Pool!vars)
  BY DEF MCNext, poolVars, Pool!vars
<1> QED
  BY <1>1, <1>2, PTL DEF MCSpec, Pool!Spec

\* An ESP32 that fed its watchdog too late never feeds it again and idles with
\* its web shell off; a token names the message it was given out for.
THEOREM TheEspCoreIsSound == MCSpec => []EspCoreSound
<1>1. /\ Esp!TypeOK /\ Esp!LateFeedIsLast /\ Esp!NoWebInIdle
      /\ Pool!TokenNamesItsMessage /\ Pool!StatsTrue
      => EspCoreSound
  BY DEF EspCoreSound
<1> QED
  BY <1>1, EspOfBoth, PoolOfBoth, LateFeedEnds, TokensNameTheirMessage, PoolStatsTrue, PTL
-----------------------------------------------------------------------------
(* The workers of the communicator.                                         *)

SchedFields == {"pc", "i", "now", "begun", "started", "votes", "lastRun", "progress",
                "lastStep", "lastFeed", "stepUs"}

\* The scheduler's record, as far as the argument goes.
SchedTyped(s) ==
    /\ s = [f \in SchedFields |-> s[f]]
    /\ s.pc \in {"idle", "next", "in", "end"} /\ s.i \in Workers
    /\ s.votes \subseteq Workers /\ s.started \subseteq Workers

\* While the workers run the watchdog does.  A vote that is not yet spent was
\* cast after the last feed, so its worker is silent no longer than the watchdog
\* has counted; a worker without one was heard before that feed, by less than a
\* whole count.
HeardInv ==
    /\ life \in {"safe", "watchdog", "clock", "time", "main", "running", "waiting"}
    /\ hw \in [msRuns : BOOLEAN, usRuns : BOOLEAN, dogOn : BOOLEAN,
               dog : 0 .. DogLimit - 1, fault : BOOLEAN, stack : BOOLEAN]
    /\ SchedTyped(sched)
    /\ watched \in Workers /\ silence \in Nat
    /\ life \in {"clock", "time", "main", "running"} => hw.dogOn
    /\ life \notin {"running", "waiting"} => silence = 0
    /\ watched \in sched.votes => silence <= hw.dog
    /\ silence <= hw.dog + (DogLimit - 1)

LEMMA EmptyScheduler == SchedTyped(NoScheduler) /\ NoScheduler.votes = {}
  BY DEF NoScheduler, SchedTyped, SchedFields, Workers

LEMMA RestartHeard ==
  ASSUME HeardInv, Restart
  PROVE  HeardInv'
<1>1. /\ life' = "safe" /\ sched' = NoScheduler /\ silence' = 0 /\ watched' = watched
      /\ hw' = [msRuns |-> TRUE, usRuns |-> TRUE, dogOn |-> FALSE, dog |-> 0,
                fault |-> FALSE, stack |-> FALSE]
  BY DEF Restart, PowerOn
<1>2. /\ hw' \in [msRuns : BOOLEAN, usRuns : BOOLEAN, dogOn : BOOLEAN,
                  dog : 0 .. DogLimit - 1, fault : BOOLEAN, stack : BOOLEAN]
      /\ hw'.dog = 0
  BY <1>1, StmCoreAssumption
<1>3. silence' <= hw'.dog + (DogLimit - 1)
  BY <1>1, <1>2, StmCoreAssumption
<1> QED
  BY <1>1, <1>2, <1>3, EmptyScheduler DEF HeardInv

LEMMA FaultedHeard ==
  ASSUME HeardInv, Faulted, hw' = [hw EXCEPT !.fault = TRUE]
  PROVE  HeardInv'
<1>1. /\ life' = "waiting" /\ sched' = NoScheduler
      /\ UNCHANGED <<watched, silence>>
  BY DEF Faulted
<1>2. /\ hw' \in [msRuns : BOOLEAN, usRuns : BOOLEAN, dogOn : BOOLEAN,
                  dog : 0 .. DogLimit - 1, fault : BOOLEAN, stack : BOOLEAN]
      /\ hw'.dog = hw.dog
  BY DEF HeardInv
<1> QED
  BY <1>1, <1>2, EmptyScheduler DEF HeardInv

\* A step that leaves the silence, the count and the votes alone.
LEMMA KeepsHeard ==
  ASSUME HeardInv, SchedTyped(sched'), sched'.votes \subseteq sched.votes,
         UNCHANGED <<life, hw, watched, silence>>
  PROVE  HeardInv'
  BY DEF HeardInv

LEMMA TimePassesHeard == ASSUME HeardInv, TimePasses PROVE HeardInv'
<1>1. /\ ~DogBites /\ UNCHANGED <<life, watched>>
      /\ hw' = IF hw.dogOn THEN [hw EXCEPT !.dog = hw.dog + 1] ELSE hw
      /\ silence' = IF life = "running" /\ silence <= MaxSilence
                    THEN silence + 1 ELSE silence
  BY DEF TimePasses, HeardInv
<1>2. hw.dog \in 0 .. DogLimit - 1 /\ silence \in Nat /\ hw.dogOn \in BOOLEAN
  BY DEF HeardInv
<1>3. /\ hw' \in [msRuns : BOOLEAN, usRuns : BOOLEAN, dogOn : BOOLEAN,
                  dog : 0 .. DogLimit - 1, fault : BOOLEAN, stack : BOOLEAN]
      /\ hw'.dog = (IF hw.dogOn THEN hw.dog + 1 ELSE hw.dog) /\ hw'.dogOn = hw.dogOn
  <2>1. CASE hw.dogOn
    <3>1. hw.dog + 1 \in 0 .. DogLimit - 1
      BY <1>1, <1>2, <2>1, StmCoreAssumption DEF DogBites
    <3> QED
      BY <1>1, <2>1, <3>1 DEF HeardInv
  <2>2. CASE ~hw.dogOn
    BY <1>1, <2>2 DEF HeardInv
  <2> QED
    BY <2>1, <2>2
<1>4. SchedTyped(sched') /\ sched'.votes = sched.votes
  <2>1. CASE life # "running"
    BY <2>1 DEF TimePasses, HeardInv
  <2>2. CASE life = "running"
    <3>1. PICK now, begun, step, lastStep, lastFeed, lastRun, heard :
            sched' = [sched EXCEPT !.now = now, !.begun = begun, !.stepUs = step,
                                   !.lastStep = lastStep, !.lastFeed = lastFeed,
                                   !.lastRun = lastRun, !.progress = heard]
      BY <2>2 DEF TimePasses
    <3> QED
      BY <3>1 DEF HeardInv, SchedTyped, SchedFields
  <2> QED
    BY <2>1, <2>2
<1>5. silence' \in Nat /\ (life = "running" => silence' <= silence + 1)
      /\ (life # "running" => silence' = silence)
  BY <1>1, <1>2
<1>6. life = "running" => hw'.dog = hw.dog + 1
  BY <1>3 DEF HeardInv
<1>7. hw'.dog >= hw.dog
  BY <1>2, <1>3
<1>8. hw'.dog \in Nat /\ hw.dog \in Nat /\ DogLimit \in Nat
  BY <1>2, <1>3, StmCoreAssumption
<1>9. watched \in sched.votes => silence' <= hw'.dog
  BY <1>2, <1>5, <1>6, <1>7, <1>8 DEF HeardInv
<1>10. silence' <= hw'.dog + (DogLimit - 1)
  BY <1>2, <1>5, <1>6, <1>7, <1>8 DEF HeardInv
<1> QED
  BY <1>1, <1>3, <1>4, <1>5, <1>9, <1>10 DEF HeardInv

LEMMA BootHeard == ASSUME HeardInv, Boot PROVE HeardInv'
<1>1. CASE BootStage
  <2>1. /\ life \in {"safe", "watchdog", "clock", "time"} /\ life' = NextStage(life)
        /\ hw' = IF life = "watchdog" THEN [hw EXCEPT !.dogOn = TRUE] ELSE hw
        /\ UNCHANGED <<sched, watched, silence>>
    BY <1>1 DEF BootStage
  <2>2. /\ life' \in {"watchdog", "clock", "time", "main"}
        /\ life' = "watchdog" <=> life = "safe"
        /\ life' = "clock" <=> life = "watchdog"
    BY <2>1 DEF NextStage
  <2>3. /\ hw' \in [msRuns : BOOLEAN, usRuns : BOOLEAN, dogOn : BOOLEAN,
                    dog : 0 .. DogLimit - 1, fault : BOOLEAN, stack : BOOLEAN]
        /\ hw'.dog = hw.dog /\ (hw.dogOn => hw'.dogOn)
        /\ life = "watchdog" => hw'.dogOn
    BY <2>1 DEF HeardInv
  <2> QED
    BY <2>1, <2>2, <2>3 DEF HeardInv
<1>2. CASE BootFails
  BY <1>2, FaultedHeard DEF BootFails
<1>3. CASE WaitReset
  BY <1>3, RestartHeard DEF WaitReset
<1>4. CASE canview_stm_scheduler_init
  BY <1>4, EmptyScheduler DEF canview_stm_scheduler_init, HeardInv
<1> QED
  BY <1>1, <1>2, <1>3, <1>4 DEF Boot

LEMMA AfterWorkerTyped ==
  ASSUME NEW s, SchedTyped(s)
  PROVE  SchedTyped(AfterWorker(s)) /\ AfterWorker(s).votes = s.votes
<1>1. CASE s.i = Count
  BY <1>1 DEF AfterWorker, SchedTyped, SchedFields
<1>2. CASE s.i # Count
  <2>1. AfterWorker(s) = [s EXCEPT !.pc = "next", !.i = s.i + 1]
    BY <1>2 DEF AfterWorker, SchedTyped
  <2>2. s.i + 1 \in Workers
    BY <1>2 DEF SchedTyped, Workers, Count
  <2> QED
    BY <2>1, <2>2 DEF SchedTyped, SchedFields
<1> QED
  BY <1>1, <1>2

LEMMA StepHeard == ASSUME HeardInv, Step PROVE HeardInv'
<1>0. SchedTyped(sched)
  BY DEF HeardInv
<1>1. CASE StepBegins
  <2>1. CASE sched.lastStep > HealthWindow
    BY <1>1, <2>1, FaultedHeard DEF StepBegins, Fault
  <2>2. CASE ~(sched.lastStep > HealthWindow)
    <3>1. /\ sched' = [sched EXCEPT !.pc = "next", !.lastStep = 0]
          /\ UNCHANGED <<life, hw, watched, silence>>
      BY <1>1, <2>2 DEF StepBegins
    <3>2. SchedTyped(sched') /\ sched'.votes = sched.votes
      BY <1>0, <3>1 DEF SchedTyped, SchedFields
    <3> QED
      BY <3>1, <3>2, KeepsHeard
  <2> QED
    BY <2>1, <2>2
<1>2. CASE WorkerConsidered
  <2>1. CASE Late(sched.i)
    BY <1>2, <2>1, FaultedHeard DEF WorkerConsidered, Fault
  <2>2. CASE ~Late(sched.i)
    <3>1. /\ sched' = (IF NotDue(sched.i) THEN AfterWorker(sched)
                       ELSE [sched EXCEPT !.pc = "in"])
          /\ UNCHANGED <<life, hw, watched, silence>>
      BY <1>2, <2>2 DEF WorkerConsidered
    <3>2. SchedTyped([sched EXCEPT !.pc = "in"]) /\ [sched EXCEPT !.pc = "in"].votes = sched.votes
      BY <1>0 DEF SchedTyped, SchedFields
    <3>3. SchedTyped(sched') /\ sched'.votes = sched.votes
      BY <1>0, <3>1, <3>2, AfterWorkerTyped
    <3> QED
      BY <3>1, <3>3, KeepsHeard
  <2> QED
    BY <2>1, <2>2
<1>3. CASE WorkerReturns
  <2>1. ASSUME Fault PROVE HeardInv'
    BY <2>1, FaultedHeard DEF Fault
  <2>2. ASSUME NEW outcome \in Outcomes(sched.i),
               sched' = AfterWorker(Voted(sched.i, outcome)),
               silence' = IF outcome = "ok" /\ sched.i = watched THEN 0 ELSE silence,
               UNCHANGED <<life, hw, watched>>
        PROVE  HeardInv'
    <3> DEFINE v == Voted(sched.i, outcome)
    <3>1. /\ SchedTyped(v)
          /\ v.votes = IF outcome = "ok" THEN sched.votes \cup {sched.i} ELSE sched.votes
      <4>1. sched.i \in Workers
        BY <1>0 DEF SchedTyped
      <4>2. PICK lastRun, heard :
              v = [sched EXCEPT !.begun = 0, !.lastRun = lastRun,
                     !.started = sched.started \cup {sched.i}, !.progress = heard,
                     !.votes = IF outcome = "ok" THEN sched.votes \cup {sched.i}
                               ELSE sched.votes]
        <5>1. v = [sched EXCEPT !.begun = 0,
                     !.lastRun = [sched.lastRun EXCEPT ![sched.i] = sched.now],
                     !.started = sched.started \cup {sched.i},
                     !.progress = [sched.progress EXCEPT ![sched.i] =
                                     IF outcome = "ok" THEN 0 ELSE sched.progress[sched.i]],
                     !.votes = IF outcome = "ok" THEN sched.votes \cup {sched.i}
                               ELSE sched.votes]
          BY <1>0 DEF Voted, SchedTyped, SchedFields
        <5> QED
          BY <5>1
      <4> HIDE DEF v
      <4> QED
        BY <1>0, <4>1, <4>2 DEF SchedTyped, SchedFields
    <3>2. SchedTyped(sched') /\ sched'.votes = v.votes
      BY <2>2, <3>1, AfterWorkerTyped
    <3> HIDE DEF v
    <3>3. CASE outcome = "ok" /\ sched.i = watched
      <4>1. silence' = 0 /\ hw'.dog \in Nat /\ silence' <= hw'.dog + (DogLimit - 1)
        BY <2>2, <3>3, StmCoreAssumption DEF HeardInv
      <4>2. life = "running"
        BY <1>3 DEF WorkerReturns
      <4>3. silence' <= hw'.dog
        BY <4>1
      <4> QED
        BY <2>2, <3>2, <4>1, <4>2, <4>3 DEF HeardInv
    <3>4. CASE ~(outcome = "ok" /\ sched.i = watched)
      <4>1. silence' = silence /\ (watched \in sched'.votes => watched \in sched.votes)
        BY <2>2, <3>1, <3>2, <3>4
      <4> QED
        BY <2>2, <3>2, <4>1 DEF HeardInv
    <3> QED
      BY <3>3, <3>4
  <2> QED
    BY <1>3, <2>1, <2>2 DEF WorkerReturns
<1>4. CASE StepEnds
  <2> DEFINE over == [sched EXCEPT !.pc = "idle", !.i = 1, !.now = 0, !.stepUs = 0]
  <2>0. SchedTyped(over) /\ over.votes = sched.votes /\ StepOver = over
    <3>1. 1 \in Workers
      BY DEF Workers
    <3>2. SchedTyped(over) /\ over.votes = sched.votes
      BY <1>0, <3>1 DEF SchedTyped, SchedFields
    <3>3. StepOver = over
      BY Zenon DEF StepOver
    <3> QED
      BY <3>2, <3>3
  <2>1. CASE StepOverdue \/ (FeedDue /\ ~Healthy)
    BY <1>4, <2>1, FaultedHeard DEF StepEnds, Fault
  <2>2. CASE ~(StepOverdue \/ (FeedDue /\ ~Healthy)) /\ ~FeedDue
    <3>1. sched' = over /\ UNCHANGED <<life, hw, watched, silence>>
      BY <1>4, <2>0, <2>2 DEF StepEnds
    <3> QED
      BY <2>0, <3>1, KeepsHeard
  <2>3. CASE ~(StepOverdue \/ (FeedDue /\ ~Healthy)) /\ FeedDue
    <3>1. /\ sched' = Unfed([over EXCEPT !.lastFeed = sched.now])
          /\ hw' = [hw EXCEPT !.dog = 0] /\ UNCHANGED <<life, watched, silence>>
      BY <1>4, <2>0, <2>3 DEF StepEnds
    <3>2. SchedTyped(sched') /\ sched'.votes = {}
      <4> HIDE DEF over
      <4>1. sched' = [over EXCEPT !.lastFeed = sched.now, !.votes = {}]
        BY <2>0, <3>1 DEF Unfed, SchedTyped, SchedFields
      <4> QED
        BY <2>0, <4>1 DEF SchedTyped, SchedFields
    <3>3. watched \in sched.votes
      BY <2>3 DEF FeedDue, HeardInv
    <3>4. silence <= DogLimit - 1
      <4>1. silence <= hw.dog /\ hw.dog \in 0 .. DogLimit - 1 /\ silence \in Nat
        BY <3>3 DEF HeardInv
      <4> QED
        BY <4>1, StmCoreAssumption
    <3>5. /\ hw' \in [msRuns : BOOLEAN, usRuns : BOOLEAN, dogOn : BOOLEAN,
                      dog : 0 .. DogLimit - 1, fault : BOOLEAN, stack : BOOLEAN]
          /\ hw'.dog = 0 /\ hw'.dogOn = hw.dogOn
      <4>1. 0 \in 0 .. DogLimit - 1
        BY StmCoreAssumption
      <4> QED
        BY <3>1, <4>1 DEF HeardInv
    <3>6. silence' <= hw'.dog + (DogLimit - 1)
      BY <3>1, <3>4, <3>5, StmCoreAssumption DEF HeardInv
    <3> QED
      BY <3>1, <3>2, <3>5, <3>6 DEF HeardInv
  <2> QED
    BY <2>1, <2>2, <2>3
<1> QED
  BY <1>1, <1>2, <1>3, <1>4 DEF Step

LEMMA EnvironmentHeard == ASSUME HeardInv, Environment PROVE HeardInv'
<1>1. CASE Tick
  BY <1>1, TimePassesHeard, RestartHeard DEF Tick
<1>2. CASE ClockStops
  <2>1. /\ hw' \in {[hw EXCEPT !.msRuns = FALSE], [hw EXCEPT !.usRuns = FALSE]}
        /\ UNCHANGED <<life, sched, watched, silence>>
    BY <1>2 DEF ClockStops
  <2>2. /\ hw' \in [msRuns : BOOLEAN, usRuns : BOOLEAN, dogOn : BOOLEAN,
                    dog : 0 .. DogLimit - 1, fault : BOOLEAN, stack : BOOLEAN]
        /\ hw'.dog = hw.dog /\ hw'.dogOn = hw.dogOn
    BY <2>1 DEF HeardInv
  <2> QED
    BY <2>1, <2>2 DEF HeardInv
<1>3. CASE CrashReset
  BY <1>3, RestartHeard DEF CrashReset
<1>4. CASE StackRunsLow
  <2>1. /\ hw' = [hw EXCEPT !.stack = TRUE]
        /\ UNCHANGED <<life, sched, watched, silence>>
    BY <1>4 DEF StackRunsLow
  <2>2. /\ hw' \in [msRuns : BOOLEAN, usRuns : BOOLEAN, dogOn : BOOLEAN,
                    dog : 0 .. DogLimit - 1, fault : BOOLEAN, stack : BOOLEAN]
        /\ hw'.dog = hw.dog /\ hw'.dogOn = hw.dogOn
    BY <2>1 DEF HeardInv
  <2> QED
    BY <2>1, <2>2 DEF HeardInv
<1> QED
  BY <1>1, <1>2, <1>3, <1>4 DEF Environment

LEMMA InitHeard == Init => HeardInv
<1> SUFFICES ASSUME Init PROVE HeardInv
  OBVIOUS
<1>1. /\ life = "safe" /\ sched = NoScheduler /\ silence = 0 /\ watched \in Workers
      /\ hw = [msRuns |-> TRUE, usRuns |-> TRUE, dogOn |-> FALSE, dog |-> 0,
               fault |-> FALSE, stack |-> FALSE]
  BY DEF Init, PowerOn
<1>2. hw \in [msRuns : BOOLEAN, usRuns : BOOLEAN, dogOn : BOOLEAN,
              dog : 0 .. DogLimit - 1, fault : BOOLEAN, stack : BOOLEAN]
      /\ silence <= hw.dog + (DogLimit - 1)
  BY <1>1, StmCoreAssumption
<1> QED
  BY <1>1, <1>2, EmptyScheduler DEF HeardInv

\* However a required worker stops making progress (it hangs, it answers busy for
\* ever, a clock stops under it, it runs late), the chip is reset before two
\* counts of the watchdog are over: its last vote feeds the watchdog once.
THEOREM WorkersAreHeard == MCSpec => []WorkerHeard
<1>1. MCInit => HeardInv
  BY InitHeard DEF MCInit
<1>2. HeardInv /\ [MCNext]_<<part, vars, espVars, poolVars>> => HeardInv'
  <2> SUFFICES ASSUME HeardInv, [MCNext]_<<part, vars, espVars, poolVars>> PROVE HeardInv'
    OBVIOUS
  <2>1. CASE Next
    BY <2>1, BootHeard, StepHeard, EnvironmentHeard DEF Next
  <2>2. CASE UNCHANGED vars
    BY <2>2 DEF vars, HeardInv
  <2> QED
    BY <2>1, <2>2 DEF MCNext
<1>3. HeardInv => WorkerHeard
  <2> SUFFICES ASSUME HeardInv PROVE WorkerHeard
    OBVIOUS
  <2>1. silence <= hw.dog + (DogLimit - 1) /\ hw.dog \in 0 .. DogLimit - 1 /\ silence \in Nat
    BY DEF HeardInv
  <2>2. silence <= MaxSilence /\ silence \in 0 .. MaxSilence + 1
    BY <2>1, StmCoreAssumption
  <2> QED
    BY <2>2 DEF HeardInv, SchedTyped, WorkerHeard, TypeOK, SilenceBounded
<1> QED
  BY <1>1, <1>2, <1>3, PTL DEF MCSpec
==============================================================================
