# CANView: formal models

TLA+ models of the CANView firmware, the configurations that model-check them
and the theorems proved about them. CANView is a vehicle-bus companion: a
*communicator* (STM32G474 on the CAN buses plus an ESP32 radio, joined by a
UART), a *controller* (ESP32 with display and inputs, joined by ESP-NOW) and a
*diagnostic bridge* (ESP32 with a web page on its own access point). The models
follow the C code under `src/`; where a document says something else, that is
recorded under [Disagreements](#disagreements-with-the-documents).

The lines each definition stands for are in `PROJECT.json` (`map`); the hazards
the properties are aimed at are listed there too, each at its line.

## 1. Inventory

### Communicator: UART between STM32 and ESP32

| Part | Code | State | Operations |
|---|---|---|---|
| Link | `shared/protocol/src/canview_uart.c` | peer boot, HELLO / HELLO_ACK flags, last heartbeat, safety snapshot and revision, CTS level and since when, OFFLINE / SUSPECT / ONLINE | reset, tick, note_hello, note_hello_ack, note_heartbeat, note_safety_snapshot, set_cts_blocked, command_admission_allowed |
| Session | same | the link with what must not outlive a session: observer plan, command cache, replay window | session_note_hello, session_note_heartbeat, session_tick, session_reset |
| Command cache | same | up to 256 entries (identity, digest, TTL, retention, result), generation of handles | admit, lookup, record_result, expire, reset |
| Replay window | `canview_wire.c` | newest sequence number, bit mask of those before it | reset, accept |
| Transmit queues | `firmware/communicator/stm32/module/uart_link.c` | four FIFO queues P0, P1, STATE, RAW, the item in transfer, next sequence number, safety inhibition | enqueue, tx_begin, tx_finish, recovery, reset |
| UART runtime | same | all of the above, pending commands, clock mapping, half-done time sync, control lease, last heartbeat sent | one handler per message type, tick, pending_peek, pending_complete, set_cts_blocked, reset |
| DMA platform | `platform/stm32g474/uart_dma.c` | receive ring and wrap count, transfer state, event bits set by interrupts | interrupt handlers, service pass, reset hook |

Interrupts set bits, one worker does everything else. In each pass it feeds
received bytes to the runtime (which decodes a frame and calls its handler),
samples CTS, calls `canview_stm_uart_tick` and starts a transfer. The executor of
vehicle commands peeks at the oldest pending command and reports on it later by
its handle. A session recovery (new boot of the peer, silence, a stalled line)
first calls the platform's reset hook, which stops the DMA, and then clears
whatever belongs to the session.

What is hard here: sessions end at any moment, by five different causes, with
commands, leases and syncs under way; everything timed is checked by a tick that
comes when it comes; handles outlive what they name; numbers are given at
queueing and classes overtake each other; the deadline of a command is computed
anew from a clock mapping that may have moved; a hook in the middle of a recovery
may time out; the receive ring is a position and a wrap count that are not read
together. What makes it correct: a command is admitted only on fresh evidence of
the present peer, executed at most once, answered with one outcome, forgotten
with its session; nothing of an old session reaches a new one; a lost safety
message inhibits the vehicle side; HELLO goes out until there is a session; no
byte is parsed that has not arrived, and a ring found overrun is dropped.

### Communicator: the rest of the STM32

| Part | Code | State and operations | What is hard |
|---|---|---|---|
| FDCAN capture | `platform/stm32g474/fdcan_capture.c`, `module/fdcan_capture.c` | raw rings filled by interrupts, capture rings, extended time, bus states, inventory, batch building, observe | an interrupt between any two reads of a service call; drops and retries; abort of a batch; time over a wrap |
| Core | `app/boot.c`, `module/scheduler.c`, `platform/stm32g474/core_hw.c`, `stack_watermark.c` | boot stages, worker table with deadlines and votes, fault latch, watchdog | a worker that hangs, is late, never succeeds; a clock that stops; a fault that is overtaken by a success |
| Automatic sport mode | `src/canview_auto_sport.c` | mode machine, confirmation times, manual hold | the driver overrules in the middle of a change; evidence goes stale |

### ESP-NOW and the ESP32 boards

| Part | Code | State and operations | What is hard |
|---|---|---|---|
| Peer session | `shared/protocol/src/canview_espnow.c`, `canview_espnow_contract.c` | handshake state, replay window, receive reservations, back-off, error limiter, time sync; frame decode | a frame refused half-way, repeated or late frames of another session, back-off and its end on a wrapping clock |
| Requests (QoS) | `canview_espnow.c` | slots with attempts, timers, round-trip estimate; submit, poll, ack | late acknowledgements for re-used slots, retransmission after the end of life, a wrapping clock |
| Payload rules | same | shape, fields and canonical form of a payload against its contract | the three checks must look at the same bytes, at every limit |
| Link keys | same | active key, staging key, ready mark; stage, mark, commit, recover | power loss between any two steps, generations that wrap |
| Command tracker | `controller/.../canview_command_tracker.c` | status of each command sent; begin, ack, result, retry, expire | answers late, repeated, overtaking; token used again |
| Automations | `controller/.../canview_controller_automation.c` | speed-dependent volume with orders under way, brightness and speed warning, headlamp warning | stale evidence, driver's hand in between, feedback that comes late |
| ESP32 core | `firmware/module/esp_core/` | health monitor and task watchdog; message pool with generations | the owner held up between check and feed; a token used after release |
| Diagnostic bridge | `diagnostic-bridge/components/` | login with lock-out, the one web client with its deadlines, start and stop of the shell | HTTPD worker and main task close, expire, log in between each other's steps; descriptors used again; start that fails half-way |

Left aside: wire codec, OTA verification, UI, generators, hardware files; see
[Not modelled](#not-modelled).

## 2. Modules

| Module | Models |
|---|---|
| `UartLink` | the link record: each C function on a link is an operator of the same name from link and time to link |
| `UartSession` | the session layer, used by an owner who makes any call at any time |
| `SequenceWindow`, `SequenceReplay` | the replay window as operators; the window against packet numbers that never wrap |
| `TxQueue`, `StmTx` | the four queues as operators; queueing, transmission and the receiver's replay window together |
| `CommandCache`, `CacheService` | the cache as operators; the cache used in any order, with old handles |
| `StmUart` | the UART runtime: one action per message handler and interface call (composes `UartLink`, `CommandCache`, `TxQueue`) |
| `StmUartSpec` | the runtime with its history, its properties and the refinement mapping |
| `CommandDelivery` | abstract: what a session promises of commands |
| `UartDma` | service pass, interrupts and channels of the UART DMA, step by step |
| `FdcanCapture` | CAN interrupts, rings, capture module and batches |
| `StmCore` | boot, scheduler, health sampling, watchdog and reset of the STM32 |
| `AutoSport` | automatic sport mode with car and driver |
| `EspNowSession` | the receiving half of a peer session, in both roles, with time sync |
| `EspNowQos` | acknowledged requests over a radio that loses, repeats, reorders |
| `EspNowCodec` | acceptance of payloads, one contract per shape, against a reference definition |
| `LinkKeys` | the key store with power loss |
| `CommandTracker` | the tracker, a user, and a peer behind such a radio |
| `AdaptiveVolume`, `DisplayWarnings` | the controller's automations |
| `EspCore`, `EspPool` | owner task, health monitor and watchdog; the message pool |
| `BridgeAuth`, `BridgeWeb`, `BridgeStart` | login as operators and used on its own; worker and main task around one client; start and stop |
| `UartSession_proofs`, `StmTx_proofs`, `SequenceReplay_proofs` | theorems about the module of that name |
| `StmUart_proofs` | theorems about `StmUart`, that it implements `CommandDelivery` (the properties of `StmUartSpec`), and the same for the instances of `MCStmSessions` |
| `SharedProtocol_proofs` | theorems about `CacheService`, `LinkKeys`, `EspNowSession` and `EspNowQos`, joined for `MCSharedProtocol` |
| `Stm32_proofs` | theorems about `UartDma` and `FdcanCapture`, joined for `MCStm32` |
| `Boards_proofs` | theorems about `EspCore`, `EspPool` and `StmCore`, joined for `MCBoards` |
| `Esp32_proofs` | theorems about `BridgeAuth`, `BridgeWeb`, `BridgeStart`, `CommandTracker`, `AutoSport`, `AdaptiveVolume` and `DisplayWarnings`, joined for `MCEsp32` |
| `MC*` | instances for model checking |

State and actions keep the names of the code. In `StmUart` the fields of
`canview_stm_uart_context_t` became `link`, `cache`, `pending`, `mapping`, `sync`
(the `pending_sync_*` fields), `lease`, `out` (queues and `safety_inhibited`),
`beat` (`last_heartbeat_tx_ms`) and `cts`; `held` is the command the executor
took and belongs to the environment. `HelloNewEpoch`, `HelloAgain`, `HelloAck`,
`HeartbeatEndsSession`, `HeartbeatInSession`, `TimeSync...`, `Command`,
`ControlLease`, `ObserverPlan`, `SimpleMessage` and `AnsweredWithError` are the
handlers of the received frames (`canview_stm_uart_input_frame` and the
`handle_*` functions); `PendingPeek`, `PendingComplete`, `SetCtsBlocked`,
`TxBegin`, `TxFinish`, `Reset` and `Tick` are the calls of the interface. A
handler with two regimes, like `handle_heartbeat`, is split at its first branch.
A call that is refused without a change of state is a stuttering step.

Where callers run concurrently the actions are finer than a call. `UartDma` is
divided where an interrupt can fall and has a program counter `pc`; so have
`EspCore` (time passes between any two statements) and `BridgeWeb` (one action
per critical section, a receive and a send take time). `FdcanCapture` lets
interrupts fall between the steps of a service call. Calls under one lock, like
those of the pool, are single steps.

### Abstractions

All of data:

* UART: frames are complete and well formed; bytes, COBS, CRC and the range checks
  of payload fields are left out. A received command is new, a repetition of the
  last sequence number, or too old (`Frames`); the window that decides so is
  `SequenceWindow`, checked on its own. A payload is told apart by its digest
  (`key.digest`); identity is the rest of the key. One tick stands for a
  millisecond and for a microsecond, and the uncertainty of a clock mapping is 0:
  a larger one only narrows the time in which a command is valid. Controller time
  differs from ours by `Offset[g]` in sync generation `g`. The observer plan is a
  mark. The error limiter may answer either way. Authorization is a free choice.
* `UartDma`: bytes are their positions in the stream. The wrap interrupt is
  assumed to be taken before another whole ring has passed (5 ms at the
  link's rate). Overruns are judged when the position is sampled. `consume_rx` then
  reads straight out of the ring (`uart_dma.c:476-485`) while the channel goes on
  writing: bytes overwritten between the sample and their turn are parsed as they
  are found, and left to the frame's CRC.
* `FdcanCapture`: a frame is its time of birth. A batch is built record by record;
  what it has selected so far is `bat`, and interrupts fall in between. The
  observation epoch is followed
  over less than two turns of the clock (`MaxNow < 2 * Wrap`), which is the
  limit of the code's own extension: it needs a sample per half range and
  marks the time doubtful otherwise.
* `EspNowSession`: the firmware does not call the library yet, so its caller is
  external: it passes the session's own state as `link_state`, frees buffers and
  starts sessions, as the header asks. Frames repeat and are delayed; with
  `InFlight = 1` an older frame does not arrive after a newer one, that order is
  checked with the window itself (`SequenceReplay`). Two edges of the code on a
  32-bit millisecond clock lie beyond the run: time-sync validity looks fresh
  again after 2^32 ms, and `auth_allowed` is false again 2^31 ms after a back-off.
* `EspNowCodec`: one unit is one field of the wire. Six small contracts stand for
  the rows of the table: one of each payload kind and a suffix that is made of TLVs,
  as in COMMAND_REQUEST, with field rules of each kind, for one variant or for all, for the
  prefix or for each record. That is exactness for these six; the rows themselves
  are data. What `validate_payload_semantics` asks of role, scope and time sync
  beside them is left out here.
* `CommandTracker`: has no caller in the firmware yet. Its user is expected to
  call expire within half a turn of the clock, as the tracker cannot tell ages
  apart beyond it. A token stands for one command, so the check of the command id
  of a result is left out. In the run one answer is under way at a time: it may be
  late, but none overtakes another; the theorems have no such bound. A failed
  command may have been accepted: nothing is claimed of it.
* `AutoSport`, `AdaptiveVolume`: speed, acceleration and noise are the conditions the
  code draws from them; both conditions to enter may hold at once.
* `BridgeWeb`: the mutation rate limit may answer either way; the main task polls
  in every tick; one receive or send of the worker takes at most `Io` ticks. The
  two answers to a body that does not come (408, then 400) are one send.
* `StmCore`, `EspCore`: time stamps are kept as ages, which is all the code
  computes from them. Busy re-entry into the ESP core, which it refuses, is left
  out.
* Arrays are functions, rings are sequences; their index arithmetic is left out,
  except in `UartDma`, whose subject it is.

## 3. Runs

Bounds are tiny because thresholds are parameters: what matters is which of two
times comes first, so the configurations use thresholds of a few ticks, keep the
order the headers give them (online before offline, stop before offline, deadline
before watchdog) and let the clock run just past the longest of them. Counters
that wrap or run out in 2^32 or 2^64 steps get a space small enough to do it
within the run.

Components that share no state in the code are checked in one run: a variable
`part` (or `scenario`, for two sets of constants of the runtime) is chosen
initially and never changes, a behaviour moves that component and leaves the
others at one initial state. So every component is explored completely and their
product is not.

| Run | States | What it checks, and how its bounds reach it |
|---|---|---|
| `session` | 139 344 | Admission rests on fresh evidence; an outage is never undone without HELLO; a session shows nothing that was stored before it, though link calls end sessions and messages are stored without one; sessions end for a cause; a dead session is torn down. Two boots, two revisions, six times, handles that run out. |
| `stm_tx` | 1 054 080 | No P0 message that waits or is in transfer is too old for the receiver, although numbers are given out of order, as long as the receiver counts in the numbers given out since our last reset; losses inhibit; a state message waits once; a P0 message leaves its queue unless the CTS line is blocked for good (followed by the sequence number `Watched`; all numbers are alike up to rotation). Queues of two, numbers 1 to 9, a window that refuses whatever is older than its newest. |
| `stm_commands` | 105 503 | The runtime implements `CommandDelivery` (`DeliversOnce`), and the cache entry of a pending command is its own and open (`PendingIsOpen`). `order`: two commands that expire in another order than they came, P0 with room for two answers. `remap`: the clock mapping replaced by one with another offset, under a pending command and under a cached result. |
| `stm_sessions` | 152 542 | `sessions`: `CommandDelivery` again (`ImplementsDelivery`), and a session that is up holds nothing of a former one (`SessionsAreFresh`), over all causes that end a session, with two boots. `failures`: one place in cache and pending list, failed transfers and a reset hook that times out. In both, two commands with one token and different payloads, types and bounds, and only what the executor took is reported as done. |
| `stm_hello` | 91 158 | Without a session HELLO is sent again and again. |
| `shared_protocol` | 1 239 374 | *session*: both roles from HELLO to ONLINE with frames that are repeated, delayed, damaged, unprotected or refused for want of a buffer, two sessions, back-off, a clock and numbers that wrap: online by one's own handshake only, acknowledged means delivered, nothing accepted during back-off, no command without recent time sync. *qos*: two requests with one token, whose sequence numbers start at 13 of 16 and wrap: one outcome each, acknowledged only by an answer to one of its own transmissions, and the smoothed round trip fed with the true time since that transmission. *codec*: every payload of up to six units against six contracts, for every variant a caller may ask for: accepted exactly if it is made of what its contract says. *keys*: power loss anywhere, eight generations. *cache*: two slots, keys that agree and conflict, generations that run out: one live entry per identity, results belong and stay, one admission per retention time. *replay*: packets 0 to 11 in every order over a space of 8, window 3. |
| `stm32` | 1 248 698 | *dma*: a ring of two that wraps three times, reads of one byte, aborts, errors and recoveries in between: what is parsed has arrived, a ring found overrun at the sample is dropped and for no other reason, a completion belongs to its transfer. *capture*: two channels, raw rings of one, capture rings and batches of two, a hardware fault, a clock that wraps: frames are delivered once and in order, the drop counters show each frame lost in a full raw ring, times are true unless the source clock cannot tell them, the fault shows. |
| `boards` | 193 795 | *stm*: a required worker is silent for a bounded time only; a latched fault ends in a reset. *esp*: after a late feed no other; no web shell on an idle board; a task that stops or hangs ends in a reset. *pool*: three slots, two uses each: a token names the message it was given out for. |
| `esp32` | 713 471 | *web*: two clients and re-used descriptors: the session's token serves its owner only; who does not log in is closed in time; no reset of a live worker. *login*: failures between lock-outs are bounded, a lock-out holds. *start*: any call fails, the DNS task ends when it likes: nothing in use is given back. *tracker*: two tokens, one slot, retries on a clock that wraps: what the user is told is true and stays. *sport*, *volume*, *display*: give way to the driver, undo only their own, and act on whole evidence: SPORT is asked for when one condition has held for its whole time in total without a long lapse or an interruption; a volume step needs its noise for its whole time and an interval since the last step; a headlamp warning only after a whole dark run of the observation, from the grace after sunset to sunrise. |
| `stm_hook`, `stm_revision`, `stm_replay` | – | Violations; see below. |

`StmUart` has too many inputs to explore all of them at once. `Inputs` names the
kinds of frames and calls of an instance and each run takes those its question is
about; among them the runs fire every action. Boots and descriptors are symmetric
where a run checks safety only. `CHECK_DEADLOCK` is off because bounded time and
bounded counters end every behaviour, and a component that is not moved does not
make up for it.

Some properties of the suites are conjunctions, one idea with a part per
component or phase (`CacheSound`, `QosTrue`, `EspCoreSound` ...). Each listed
property is also run against a mutated definition of the model (`PROJECT.json`,
`mutants`; the definitions are marked *Mutant* next to the originals) and found
violated. The modules keep further mutants for other conjuncts of the composite
properties.

### Abstract specification

`CommandDelivery` gives each command a phase (new, waiting, over) and at most one
outcome per session. The refinement mapping reads the phase from the pending list
and the history of admissions, the outcome from the results queued.
`DeliversOnce` is `CommandDelivery!Spec` under this mapping, checked by
`stm_commands` and proved; `ImplementsDelivery` is the same in the scenario
`sessions` of `stm_sessions`. It fails if any repetition, expiry, re-used slot or
moved deadline leads to a second hand-over or a second outcome. It holds as long as the reset
hook does not time out.

Three components are checked against a reference definition: `SequenceReplay`
(numbers that never wrap), `EspNowCodec` (what a payload is made of) and
`CacheService` (a history of what was admitted).

### Fairness

* `session`: weak fairness of `SessionTick`; the worker calls it in every pass.
* `stm_tx`: weak fairness of starting a transfer: the worker starts one whenever
  one is due. Its end is strongly fair while the CTS line is clear: the USART
  stops between two bytes when the line is blocked (`CTSE`), the channel keeps its
  place, and a line that is clear again and again lets it finish. `uart_dma.c` has no
  time limit for a transfer, so none is assumed: `CriticalLeaves` supposes
  `[]<>(~blocked)`. In a session the stall itself ends the session after a second,
  and the recovery aborts the transfer; before a peer is known nothing does, and a
  P0 message behind it stays.
* `stm_hello`: weak fairness of `Tick` and `TxBegin`. The end of a transfer is strongly
  fair, which again supposes a CTS line that does not stay blocked: while the peer is known and no session is up, every tick is a recovery
  that empties the queues and drops the transfer under way, so its end is not
  continuously enabled. A transfer of a frame at the UART's rate takes less time
  than the worker waits between two passes, so a recovery does not always come
  first. Nothing is assumed of the peer or of the executor.
* `boards`: time passes, the STM32 leaves its wait for the reset, and the task
  watchdog of the ESP32 bites once it is due. That is hardware; nothing is
  assumed of workers or tasks.

### Disagreements with the documents

With a run:

* `stm_hook`: `handle_hello` puts the link into the new session before
  `begin_session_recovery` calls the reset hook. When that times out, pending
  commands, clock mapping and lease of the former session stay in use, and
  `uart_dma.c` goes on. `uart-dma.md` promises that a change of the ESP's boot
  discards them and that a failed quiesce is fail-closed.
* `stm_revision`: `handle_hello_ack` notes our own snapshot without regard to the
  revision the peer last reported, so commands are admitted until the snapshot
  ages although the peer disagrees.
* `stm_replay`: a session restart forgets executed commands. A retry within its
  TTL is admitted and executed again, though the key already names the
  controller's own session.

Met while modelling, without a run:

* A stored result is no longer served once the TTL of its request has passed
  (`LookupStatus`), and a session recovery while CTS is blocked starts the stall
  clock again (`CtsReapplied`).
* `canview_stm_uart_reset` (called by `uart_dma.c` on errors of the USART and the DMA)
  numbers from 1 again under the same boot id; `communicator-uart.md:69` has the
  sequence grow monotonically per direction. A peer whose session goes on
  refuses what we send, HELLO included, until it gives the session up for our
  silence or our numbers pass the newest it knows. `CriticalIsFresh` makes no promise
  for that time (`renumbered`).
* A CAN frame refused by a full ring is counted as dropped although the platform
  keeps it and offers it again (`docs/fdcan-capture.md:37-38` against `:93-95`);
  `LossesCounted` bounds the counter from above only while nothing was refused. A
  restart of the platform forgets the drops it has not reported.
* An overrun that happens between the sample of the receive position and the read
  of the bytes goes unnoticed, while `uart-dma.md:79-82` has the worker drop what a
  producer more than a ring ahead has written over.
* The two sides of an ESP-NOW session may stop for ever in TIME_SYNC: the one that
  has its samples first goes on to STATE_SYNC, in which it answers no more
  requests for them. HEARTBEAT brings a session from RECOVERING to ONLINE at
  once (`esp-now.md:346-349`, `:379` ask for the steps in between).
* `canview_command_tracker_on_ack` takes a late BUSY or EXPIRED for the outcome of
  a command that was accepted before, and shows it as failed while the peer
  executes it. `TrackerTrue` asks nothing of a failed command.
* A volume offset that is to go back to zero because of the knob is ordered once. If
  the order is refused the offset stays, and after the hold the steps go on
  from it; `test_automation_regressions.c:249` expects so.
* A request that the web shell itself answers with 404 leaves its deadline armed;
  `docs/web-shell.md:27` has it re-armed after a handler returns.
* Disabling the sport mode ends its manual hold, and enabling it arms the automation
  again without an explicit resume; `features.md:462` keeps the hold until the
  ignition cycle or the user's resume.

## 4. Proofs

Every safety invariant and every action property of the passing runs is a
theorem, but for `CodecSound`. Eight modules hold the theorems; `PROJECT.json`
lists them. Each is for all values of the constants that satisfy the assumptions
of the module it is about. Where such an assumption is not an `ASSUME` of the
component, it is one of the `MC` module that composes it (`DmaInstance`,
`SessionInstance`, `QosInstance`, `CacheInstance`, `EspInstance`, `PoolInstance`,
`TrackerInstance`, `LoginInstance`, `WebInstance`, `SportInstance`,
`VolumeInstance`, `PanelInstance`), and TLC evaluates it for the instance that is
checked. The inductive invariants were checked by TLC on the runs' instances
before they were proved.

| Module | Theorems | Inductive invariant |
|---|---|---|
| `UartSession_proofs` | `SessionTypeCorrect`, `SessionInvariant`, `AdmissionRestsOnEvidence`, `OutageNeedsHello`, `StateStaysInSession`, `SessionsEndForCause` | `TypeOK /\ SessionInv` |
| `StmTx_proofs` | `LossesInhibit`, `StatesCoalesced`, `TxTypeCorrect`, `CriticalStaysFresh` | `TxInv`, `FreshInv` |
| `StmUart_proofs` | `TypeCorrectness`, `CoreInvariant`, `PendingStaysOpen`, `ReportsAreTrue`; if the reset hook does not time out: `DeliveryInvariant`, `SessionsStartEmpty`, `RuntimeImplementsDelivery`; for `MCStmSessions`: `TheSessionsAreFresh`, `DeliveryIsImplemented` | `CoreInv`, `DeliveryInv` |
| `SequenceReplay_proofs` | `WindowIsExact`, `ReplayFilterIsExact` | `ReplayInv` |
| `SharedProtocol_proofs` | `CacheIsSound`, `ResultsAreStable`; `ActiveKeyWasReady`, `LinkKeysAdvance`; `TheSessionIsEarned`, `TheSessionIsGuarded`; `TheRequestsAreTrue` | `CacheInv`; `KeyInv`; `SessionInv`; `QosInv` |
| `Stm32_proofs` | `DmaInvariant`, `NothingUnreceivedIsParsed`, `TransfersBelong`; `CaptureInvariant`, `RecordsAreTrue` | `DmaInv`; `CaptureInv` |
| `Boards_proofs` | `LateFeedEnds`; `TokensNameTheirMessage`, `PoolStatsTrue`; `WorkersAreHeard` | `CoreInv`; `TokenInv`, `StatsInv`; `HeardInv` |
| `Esp32_proofs` | `SessionStaysOwned`, `BareStaysBounded`, `NoWorkerTakenForDead`; `FailuresStayBounded`, `LockoutIsKept`; `ShellNeverUndermined`; `OutcomeStands`, `CompletionIsTrue`, `StatusStaysTrue`; `SportRestoresItsOwn`; `OneOrderUnderWay`, `KnobGoesFirst`, `StepsRestOnEvidence`; `DisplayEvidenceIsWhole` | `WebInv`; `AuthInv`; `StartInv`; `SlotsForm`, `TrackerInv`, `ExpiryInv`; `SportInv`; `VolumeInv`, `KnobInv`, `EvidenceInv`; `PanelInv` |

A theorem whose name begins with `The` states a property of a run that joins
several components (`CacheSound`, `EspCoreSound`, `LoginLocks`, `ShellSound`,
`AutomationsOnEvidence` ...). `MCSpec` moves one part and leaves the others at an
initial state, so it implies the specification of each (lemmas
`...OfBoth`), and the property follows from the theorems about the parts.

*Session.* `seen` records the events as they come and knows nothing of the link's
own bookkeeping. None of the properties is inductive: from a link that admits by
accident, nothing says that its times are those of real events. `SessionInv`
closes the gap. While HELLO is complete, every flag and time of the link equals
what the history says (`Mirrors`), the outage flag of the history is exactly
`link_session_expired`, and nothing is owned that came in an earlier session or in
none. What is stored is dated by the session alone (`Dated`), so a session that
ended in a call which only touches the link leaves something for the next HELLO to
find. Its proof has one step per
action; the lemmas before it say what each link operator keeps, with `link_tick`
as the common tail. Assumed: the order of the thresholds (online < offline, stop
< offline) and that `NoPeer` and `NoRevision` are no boot and no revision.

*Transmit queues.* `TxInv` adds to the two properties what the queues are made of
(`QueuesTyped`), for two reasons: a replaced state message keeps its key only if
an item's class follows from its message, and a failed transfer inhibits only if
the class of the item in transfer is that of its queue.
`CriticalIsFresh` is about the receiver (after a reset, only once it counts in the new
numbers: `Followed`), so `FreshInv` orders everything there is
by its age, the distance to the next sequence number: in each queue ages decrease,
what is in transfer is older than what waits in its class, and the receiver has
seen nothing younger than the P0 messages that wait, although it may have seen
younger ones of other classes than those still waiting there. Ages below half the
space compare as the receiver's serial-number comparison does; hence the
assumption on `Patience`: fewer than half of all numbers (2^31) are given away
while one message waits.

*UART runtime.* `CoreInv` makes no assumption about the hook. Handles of pending
commands, of what the executor holds and of the cache are older than the next one
(`HandlesAreOld`), so no old handle ever names a new entry; with it the open entry
of a pending command and the origin of every result (`ReportsAreEarned`) are
inductive. For the refinement each action is first shown to be of one of a few
kinds (`StepKinds`): *ordinary* (no admission; pending commands may be concluded
together with one outcome), *recovers* (the session ends and everything about it
goes), or *admits* (one command, one slot). `DeliveryInv` and the abstract step
are then proved per kind. The heart is `SessionRemembers`: a command that was
admitted either is late for ever or its identity is still in the cache, because
an entry outlives the last moment at which `command_time_valid` could admit it
again, whatever clock mapping comes. That needs a TTL of no more than the
retention (`canview_uart.c` admits 500 to 30000 ms and retains 60000), which is
part of `StmUartAssumption`. A hook that times out breaks `DeliveryInv`: run
`stm_hook` shows how, so the hypothesis `~HookMayFail` is needed.

*Replay window.* The window is a set of bits at distances from the newest sequence
number; the packets behind it have numbers that do not wrap. `ReplayInv` says the
one is the image of the other. A packet and the newest one differ by less than
half the space, within which distance in sequence numbers and difference in
packet numbers agree; the newest packet exists by well-foundedness. Assumed: an
even modulus, a window of at most half of it.

*Command cache.* Besides its properties `CacheInv` keeps that each handle given out
names the key it was given out for as long as it names anything, and that each
identity in the history of admissions still has its entry until the retention
time has passed (`Remembers`). A search that stops at the first match, and a full
cache that is swept on the way, keep both.

*Link keys.* That the active key was ready follows from `StagingInv`: a key marked
ready is staged and was made ready as a whole, and a staged key is newer than
the active one. The action property is a case per action from the same invariant.

*ESP core and pool.* A feed that came too late has not yet been seen: `CoreInv` says
that the check that follows still sees it, since the clock does not go back, and
that a core in FAULT has left its loop. `TokenInv` says of every token ever given
out that its generation is at most its slot's, that its slot holds its message
while the token lives, and that it is found nowhere afterwards. The middle part
alone is not inductive: a new use of the slot must have a generation no old token
has. The counters (`StatsInv`) are cardinalities; each step adds or takes one slot.
Assumed: finitely many slots.

*UART DMA.* What the worker knows of the ring are a wrap count, a position and, while
it samples, a pair of readings. `RingInv` relates them to the bytes received: the
difference is nothing, or one ring whose interrupt is pending, or the wraps have
run out of what can be counted and an error is on its way to the worker.
`SampleInv` says what the pair meant when `CNDTR` was read, and still means at each later
place of the pass: a sample that is used counts no byte that was not received, and
one that is too far behind was flagged; `CauseInv`, that nothing else was. What the
channel writes after the sample is outside of all three. `TransferInv`: a frame under way is
on the channel, or its completion is on the way, never both, hence no completion is
taken for that of another frame. Each action of the worker and each interrupt is
a lemma of its own.

*CAN capture.* `CaptureInv` speaks of each channel alone, of the clock and of the batch.
Per channel (`ChannelSound`) record rings, raw ring and history are one ascending
sequence (`Ordered`), times are true or marked (`Timed`), and the drop counter with
what the platform has yet to report covers the losses (`Counted`); between sample
and report that needs to know that what is reported has happened (`ReportInv`). The batch keeps only offsets into rings that go on filling, so
`BatchInv` says that what was selected is still where it was, the last record of
each channel included; without it nothing says that the commit takes out what was
put in. Times are those of the frames unless the source clock cannot tell: the history
marks a channel (`doubt`) once a frame came half a range or more from the time it
is compared with, or `observe` had moved that time, but not its epoch, by a range
and a half (`InDoubt`).

*Workers.* The silence of a worker and the count of the watchdog do not start together.
`HeardInv` ties them by the vote: not yet spent, it was cast after the last feed,
and the worker is silent no longer than the watchdog has counted; spent, the worker
was heard less than one whole count before that feed. Together that is less than
twice the watchdog's limit, which is what `StmCoreAssumption` asks of the bound.

*ESP-NOW session.* `SessionEarned` compares stages with frames; it is inductive only
with what ties the frames to the session's record. `TrafficTrue`: a number
names one frame of a session. `WindowTrue`: the window holds the frames
delivered, and no other, so no frame is delivered twice and two samples of the
clock are two frames. `StagesEarned` has one conjunct per stage of the handshake.
`TimesTrue`: back-off and last sync are true times seen through a clock that
wraps. Assumed: fewer frames per session than half of the numbers, a window of at
most half, a clock observed for less than one turn, a back-off of at most half a turn.
For the action properties of `SessionGuarded` the same invariant and one lemma
per property about a single step are enough.

*Requests.* An acknowledgement names a sequence number, so all depends on numbers being
different. `NumbersTrue` counts them: those given out and those that the requests
in their slots, and the requests still to come, may use are together fewer than
there are. `RequestsTrue`: a request has a slot or an outcome, not both, and no more
transmissions than attempts. Assumed: that there are more numbers than
transmissions while any is remembered, a clock observed for less than half a turn
and lives of at most half a turn, which is how far the code's signed difference
reaches.

*Command tracker.* `OutcomeStands` needs the shape of the slots only.
`CompletionIsTrue` needs what is in the air: every COMPLETED result names a token
the peer did complete (`AnswersTrue`). For the other half, that EXPIRED is shown
only after the whole life or a refusal, `ExpiryInv` relates the difference of two
readings of a clock that wraps to the true age of the command. The two agree while
nobody waits a whole turn: that is the guard of `Tick`, the user's part.

*Volume.* `VolumeInv`: an order is out exactly if the state says one is pending,
for the desired offset; else the amplifier has it. The lemmas follow the
update through its steps, each of which keeps or makes the two agree. That the
driver's hand goes first (`KnobFirst`) needs `KnobInv`: the hold that is left and
the time the knob has been quiet add up to at least the manual hold, and an intent
of the knob is remembered until zero has been ordered or was there (`recalled`); that
the amplifier takes the order is not claimed. `StepsOnEvidence` compares the step
with a history that knows nothing of the code's counters: the ticks a kind of noise
was heard in total since the last thing that makes it void (`heard`) and the time
since the last step (`calm`). `EvidenceInv`: no counter is ahead of what was heard,
a counter and the lapse since together stay within the confirmation time or
the counter is zero, and the timers that are left and `calm` cover a whole interval.

*Sport mode.* `SportInv`: while the automation is engaged, the mode it remembers is the
one its order replaced, and the driver has not touched the button since, or has
and the next update will see it. With it an order to restore gives back only what
was taken. The history `demand` has, for each condition, the ticks it held in total
and the length of the present lapse; a gap, a loss of safety, the button, a hold or a
request clears it, and so does a lapse of half the confirmation time. The
code's counter is never ahead of those ticks, and while it is not zero, counter
and twice the lapse stay within the confirmation time, because it is worn
down at twice the rate (`Demanded`).

*Display.* `PanelInv`: no count of a confirmation is ahead of the history of
observations, so a warning or a change to night rests on a whole run of them.

*Start and stop of the web shell.* `StartInv`: what is held is closed under "needs"
(`Closed`), and the DNS task exists exactly while it is recorded. Taking adds the
first part in an order that respects the needs, giving back removes the first in
the opposite order, so nothing that is needed goes; a step that fails stops there.

*Login.* The history `wrong` keeps the ages of the failed attempts and knows
nothing of the object's window, which starts with the first failure counted. The
attempts within one window's length therefore fall into two parts, those older
than what is counted now and those counted. When a new window starts the first
failure of the last one is already too old, so the older part stays two below the
limit (`Split`, in `WrongInv`). Together that is twice the limit less three, which
is attained: with a limit of 3 TLC reaches three failures within one window's
length. `LockInv` ties the object's lock to the age of the last lock-out; the two
part only when the lock-out is over and nobody has looked yet.

*Web shell.* `WebInv` has five parts, each for what worker and main task could do
between each other's critical sections. Every record of a client is about the
open socket or empty, and whatever is marked as closing has its close queued
(`RecordsOfSocket`); so the main task never closes a socket that has gone and a
new client is never refused for the last one. A token has its owner, and once the
main task has polled it lasts for one more tick (`TokenOwned`). A heartbeat not
acknowledged is queued and not older than the receive or send under way
(`BeatAnswered`), hence younger than the limit as `Io < Heartbeat` (1 s and 1.5 s).
A socket without a token is under its deadline, or will be put under it by
the next poll, or is being closed (`BareWatched`): the middle case is a token that
ran out and was found so by the poll or by a handler first. `BareIsBounded` was
sharpened on the way: past the deadline the close is queued.

What is only model-checked: liveness (`DeadSessionTornDown`, `CriticalLeaves`,
`HelloRepeats`, `FaultEndsInReset`) is out of the prover's reach, and so is
`CodecSound`: it compares the code with recursive definitions, for every
payload. The violations of the three runs that expect one are TLC's too.

## Not modelled

* **Wire codec** (COBS, CRC, envelopes), **OTA verification** (CBOR, manifests,
  images): one pass over memory, no state between calls; the repository's
  vectors test them. Staging of images and the version floor have no caller.
* **Observer plan**: the steps of a transfer (begin, chunk, commit) are a mark in
  `StmUart`; **error limiter** of the UART: a free choice.
* **Cryptography and headers** of ESP-NOW; contract rows not on the way to a
  session; the answers a session sends.
* **Diagnostic queue** of the STM32, register access, CAN filters and signal
  decoding of the controller: tables.
* **JSON, HTML, DNS answers** of the bridge; **user interface**, generators,
  hardware files: no behaviour to check.

## 5. Plan

1. The observer plan's three steps and the error limiter's window, as modules that
   replace the mark and the free choice in `StmUart`; the theorems about `StmUart`
   do not depend on either.
2. Once the CAN capture is part of the main loop, a run of its own for a refused frame
   that is counted as dropped, which `LossesCounted` does not exclude, and for an
   epoch set by `observe` under records already taken.
3. The UART receive ring with `consume_rx` byte by byte, for overruns between the
   sample and the read, and the command tracker with several answers under way and
   what a failed command may be told.
4. The handshake of an ESP-NOW session as a composition of both ends, once the
   firmware drives it, with its liveness.
5. Staging of images once it has a caller.
