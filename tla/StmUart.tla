------------------------------ MODULE StmUart ------------------------------
(***************************************************************************)
(* The UART runtime of the communicator's STM32, uart_link.c: one context  *)
(* that owns the link, the command cache, the pending commands, the clock  *)
(* mapping, the control lease and the transmit queues.  Each action is one *)
(* call of its interface, or the handling of one complete received frame.  *)
(* The calls are made by one worker and never nest.                        *)
(*                                                                         *)
(* One tick of `now` stands for both clocks of the code (ms and us).  The  *)
(* controller's clock runs Offset[g] behind ours in sync generation g.     *)
(***************************************************************************)
EXTENDS UartLink, CommandCache, TxQueue, SequencesExt

CONSTANTS
    Inputs,             \* bound: the kinds of calls and frames explored
    LocalRevision,      \* local_safety_revision
    Generations,        \* sync generations (with the controller's boot id)
    Offset,             \* [Generations -> Int] STM clock minus controller clock
    Stages,             \* results the executor reports
    LeaseIds,
    LeaseMs,            \* [30000] longest lease
    PendingCapacity,    \* [8]     CANVIEW_STM_UART_PENDING_COMMAND_CAPACITY
    HeartbeatPeriodMs,  \* [100]
    SyncTimeoutMs,      \* [1000]  life of an unfinished time sync
    MappingMaxAgeMs,    \* [30000] life of a clock mapping
    CaptureOnly,        \* CANVIEW_STM_CAPTURE_ONLY_CONTRACT
    HookMayFail,        \* the reset hook (DMA quiesce) may time out
    MaxTime             \* bound: the clock stops here

ASSUME StmUartAssumption ==
    /\ LocalRevision \in Revisions
    /\ Offset \in [Generations -> Int]
    /\ QueueCapacity >= 2
    /\ {PendingCapacity, HeartbeatPeriodMs, SyncTimeoutMs, MappingMaxAgeMs,
        LeaseMs} \subseteq Nat \ {0}
    /\ \A c \in Keys : /\ c.gen \in Generations /\ c.issued \in Nat
                       /\ c.ttl \in 1 .. RetentionMs    \* 500 to 30000 of 60000

VARIABLES
    link,       \* link
    cts,        \* cts_known, cts_blocked
    replay,     \* the inbound window has accepted a frame
    planned,    \* the observer plan context holds anything
    cache,      \* command_cache
    pending,    \* pending, a ring of [handle, cmd]
    mapping,    \* time_mapping
    sync,       \* pending_sync_*
    lease,      \* lease
    out,        \* [tx, inhibited]: the queues and safety_inhibited
    beat,       \* last_heartbeat_tx_ms
    held,       \* external: the command the executor took and works on
    now

session == <<link, replay, planned, cache>>
clocks  == <<mapping, sync>>
vars == <<link, cts, replay, planned, cache, pending, mapping, sync, lease,
          out, beat, held, now>>

NoMapping == [valid |-> FALSE]
NoSync    == [valid |-> FALSE]
NoLease   == [valid |-> FALSE]
NoHeld    == [cmd |-> "none"]

-----------------------------------------------------------------------------
\* Messages.  Only results are told apart by what they say.
Plain(type) == [type |-> type, corr |-> 0]
Result(c, stage) == [type |-> "COMMAND_RESULT", corr |-> c.id, cmd |-> c, stage |-> stage]

MarkFull(o) == [o EXCEPT !.inhibited = TRUE]

\* enqueue_validated
Send(o, class, item) ==
    [tx |-> Published(o.tx, class, item),
     inhibited |-> o.inhibited \/ Overflows(o.tx, class, item)]

Offered(o, due, class, item) == IF due THEN Send(o, class, item) ELSE o

\* Items offered to P0 one after the other: the first that finds it full
\* latches safety_inhibited, and so do all after it.
SendAll(o, items) ==
    LET room == QueueCapacity - Len(o.tx.queue["P0"])
        fit  == Min({Len(items), room})
    IN  [o EXCEPT !.tx.queue["P0"] = @ \o SubSeq(items, 1, fit),
                  !.inhibited = @ \/ fit < Len(items)]

\* The limiter may be exhausted at any time, and always is in an instance
\* without the input "ERRORS".
Limited == IF "ERRORS" \in Inputs THEN BOOLEAN ELSE {TRUE}

\* enqueue_error
SendError(o, limited) == IF limited THEN o ELSE Send(o, "P1", Plain("ERROR"))

P0Full(o) == Full(o.tx, "P0")
P1Full(o) == Full(o.tx, "P1")

-----------------------------------------------------------------------------
\* Session recovery.

\* The plan, cache and replay contexts start over (session_invalidate_state).
Invalidate ==
    /\ CanReset(cache)
    /\ cache' = cache_reset(cache)
    /\ planned' = FALSE

CtsReapplied(l, c) == IF c.known THEN set_cts_blocked(l, c.blocked, now) ELSE l

\* The queues start over with HELLO, and HELLO_ACK where the peer's came first.
Restarted(acks) ==
    LET hello == Send([out EXCEPT !.tx = EmptyTx], "P0", Plain("LINK_HELLO"))
    IN  Offered(hello, acks, "P0", Plain("LINK_HELLO_ACK"))

\* Mutant: the clock mapping outlives the session.
Recover_KeepsMapping(l, c, acks) ==
    /\ pending' = <<>>
    /\ mapping' = mapping /\ sync' = NoSync /\ lease' = NoLease
    /\ beat' = now
    /\ link' = CtsReapplied(l, c)
    /\ out' = Restarted(acks)

\* begin_session_recovery once the hook has succeeded: everything that
\* belongs to the session goes, the CTS level c is noted anew, and HELLO is
\* queued, with HELLO_ACK if it `acks`.
Recover(l, c, acks) ==
    /\ pending' = <<>>
    /\ mapping' = NoMapping /\ sync' = NoSync /\ lease' = NoLease
    /\ beat' = now
    /\ link' = CtsReapplied(l, c)
    /\ out' = Restarted(acks)

\* ... and when it has not: the caller returns at once.
RecoveryFails(l) ==
    /\ HookMayFail
    /\ link' = l
    /\ UNCHANGED <<pending, mapping, sync, lease, beat, out>>

-----------------------------------------------------------------------------
Init ==
    /\ link = link_reset
    /\ cts = [known |-> FALSE, blocked |-> FALSE]
    /\ replay = FALSE /\ planned = FALSE
    /\ cache = EmptyCache(1)
    /\ pending = <<>>
    /\ mapping = NoMapping /\ sync = NoSync /\ lease = NoLease
    /\ out = [tx |-> Published(EmptyTx, "P0", Plain("LINK_HELLO")), inhibited |-> FALSE]
    /\ beat = 0
    /\ held = NoHeld
    /\ now = 0

\* Mutant: every HELLO restarts the session.
NewEpoch_Always(boot) == boot \in Boots

NewEpoch(boot) == ~link.hello_complete \/ link.peer_boot_id # boot

\* handle_hello of a boot we are not in session with.
HelloNewEpoch(boot) ==
    /\ "HELLO" \in Inputs /\ NewEpoch(boot)
    /\ Invalidate
    /\ LET l == note_hello(link, boot, now)
       IN  \/ Recover(l, cts, TRUE) /\ replay' = TRUE
           \/ RecoveryFails(l) /\ replay' = FALSE
    /\ UNCHANGED <<cts, held, now>>

HelloAgain(boot) ==
    /\ "REPEATS" \in Inputs /\ ~NewEpoch(boot)
    /\ out' = Send(out, "P0", Plain("LINK_HELLO_ACK"))
    /\ replay' = (replay \/ ~P0Full(out))
    /\ UNCHANGED <<link, planned, cache, clocks, cts, pending, lease, beat, held, now>>

\* A HELLO of another protocol version, or an unsupported control message;
\* of these only the latter counts as received.
AnsweredWithError(limited) ==
    /\ "UNSUPPORTED" \in Inputs
    /\ out' = SendError(out, limited)
    /\ replay' \in {replay, replay \/ ~limited}
    /\ UNCHANGED <<link, planned, cache, clocks, cts, pending, lease, beat, held, now>>

\* Any other frame that is only checked, handle_simple_message.
SimpleMessage ==
    /\ "SIMPLE" \in Inputs
    /\ replay' = TRUE
    /\ UNCHANGED <<link, planned, cache, clocks, cts, pending, lease, out,
                   beat, held, now>>

\* handle_hello_ack: the acknowledgement, and with it our own snapshot.
HelloAck(boot) ==
    LET acked == note_hello_ack(link, now)
        noted == /\ ~Refused(out.tx, "STATE", Plain("SAFETY_SNAPSHOT"))
                 /\ SnapshotAccepted(acked, boot)
    IN  /\ "HELLO_ACK" \in Inputs /\ (link.hello_ack_complete => "REPEATS" \in Inputs)
        /\ HelloAckAccepted(link, boot)
        /\ out' = Send(out, "STATE", Plain("SAFETY_SNAPSHOT"))
        /\ link' = IF noted THEN note_safety_snapshot(acked, LocalRevision, now) ELSE acked
        /\ replay' = (replay \/ noted)
        /\ UNCHANGED <<planned, cache, clocks, cts, pending, lease, beat, held, now>>

\* handle_heartbeat that finds no session, or finds it expired.
HeartbeatEndsSession(boot, rev) ==
    /\ "HEARTBEAT" \in Inputs
    /\ NewEpoch(boot) \/ HeartbeatTooLate(link, boot, now)
    /\ Invalidate
    /\ replay' = FALSE
    /\ LET l == note_heartbeat(link, boot, rev, now)
       IN  Recover(l, cts, FALSE) \/ RecoveryFails(l)
    /\ UNCHANGED <<cts, held, now>>

HeartbeatInSession(boot, rev) ==
    LET noted == note_heartbeat(link, boot, rev, now)
        snapshot == rev = LocalRevision /\ noted.hello_ack_complete
        refused == Refused(out.tx, "STATE", Plain("SAFETY_SNAPSHOT"))
    IN  /\ "HEARTBEAT" \in Inputs
        /\ ~NewEpoch(boot) /\ ~HeartbeatTooLate(link, boot, now)
        /\ out' = IF snapshot THEN Send(out, "STATE", Plain("SAFETY_SNAPSHOT")) ELSE out
        /\ link' = link_tick(IF snapshot /\ ~refused
                             THEN note_safety_snapshot(noted, LocalRevision, now)
                             ELSE noted, now)
        /\ replay' = TRUE
        /\ UNCHANGED <<planned, cache, clocks, cts, pending, lease, beat, held, now>>

-----------------------------------------------------------------------------
\* Clock mapping, handle_time_sync.
SyncExpired == sync.valid /\ Elapsed(now, sync.started, SyncTimeoutMs)

Handshaken == link.hello_complete /\ link.hello_ack_complete

\* Any TIME_SYNC frame drops an unfinished sync that is too old, even if it
\* goes no further itself.
TimeSyncDropsOld ==
    /\ "TIME_SYNC" \in Inputs
    /\ SyncExpired
    /\ sync' = NoSync
    /\ UNCHANGED <<session, mapping, cts, pending, lease, out, beat, held, now>>

\* A second request waits until the first is finished or too old.
TimeSyncRequest(g) ==
    /\ "TIME_SYNC" \in Inputs
    /\ Handshaken
    /\ sync.valid \/ mapping.valid => "REMAP" \in Inputs
    /\ sync.valid /\ ~SyncExpired => sync.gen = g
    /\ out' = Send(out, "P1", Plain("CONTROL_TIME_SYNC"))
    /\ IF P1Full(out)
       THEN sync' = (IF SyncExpired THEN NoSync ELSE sync) /\ replay' = replay
       ELSE sync' = [valid |-> TRUE, gen |-> g, started |-> now] /\ replay' = TRUE
    /\ UNCHANGED <<link, planned, cache, mapping, cts, pending, lease, beat, held, now>>

\* A commit must quote our timestamp of the request (t2, t3); one whose
\* round trip is too long or too uncertain changes nothing.
TimeSyncCommit(g, t2) ==
    /\ "TIME_SYNC" \in Inputs
    /\ Handshaken
    /\ sync.valid /\ ~SyncExpired /\ sync.gen = g /\ sync.started = t2
    /\ mapping' = [valid |-> TRUE, gen |-> g, updated |-> now]
    /\ sync' = NoSync
    /\ replay' = TRUE
    /\ UNCHANGED <<link, planned, cache, cts, pending, lease, out, beat, held, now>>

MappingTooOld == Elapsed(now, mapping.updated, MappingMaxAgeMs)

\* command_deadline: both in our time, by the mapping we have now.
IssuedAt(c) == c.issued + Offset[mapping.gen]
Deadline(c) == c.issued + c.ttl + Offset[mapping.gen]

\* A mapped time below zero has no representation; command_deadline fails.
DeadlineKnown(c) == IssuedAt(c) >= 0

\* Mutant: the sync generation of the command is not compared.
command_time_valid_AnyGeneration(c) ==
    /\ mapping.valid /\ ~MappingTooOld
    /\ DeadlineKnown(c)
    /\ IssuedAt(c) <= now /\ now < Deadline(c)

command_time_valid(c) ==
    /\ mapping.valid /\ ~MappingTooOld
    /\ c.gen = mapping.gen
    /\ DeadlineKnown(c)
    /\ IssuedAt(c) <= now /\ now < Deadline(c)

-----------------------------------------------------------------------------
\* Commands.  A frame is new, a duplicate, or too old for the replay window.
Frames == {"new"} \cup (IF replay THEN {"duplicate", "stale"} ELSE {})

AdmissionAllowed == link_command_admission_allowed(link, now)

\* runtime_authorize; `permitted` is the answer of the owner's callback.
Authorized(permitted) ==
    /\ AdmissionAllowed
    /\ link.safety_revision = LocalRevision
    /\ ~out.inhibited
    /\ permitted

CommandAuthorized(c, permitted) == Authorized(permitted) /\ command_time_valid(c)

\* What a command we know is answered with.
Reply(c) ==
    LET r == LookupResult(cache, c, now)
    IN  IF r = NoResult THEN Plain("ACK") ELSE Result(r.cmd, r.stage)

ErrorOnly(limited) ==
    /\ out' = SendError(out, limited)
    /\ UNCHANGED <<link, replay, planned, pending>>

Answer(c) == out' = Send(out, "P0", Reply(c))

CommandOffline(limited) ==
    /\ ~AdmissionAllowed
    /\ ErrorOnly(limited)
    /\ UNCHANGED cache

\* A duplicate frame is answered even when it would not be authorized now.
CommandUnauthorized(c, frame, permitted, limited) ==
    /\ AdmissionAllowed /\ ~CommandAuthorized(c, permitted)
    /\ IF frame = "duplicate"
       THEN /\ cache' = Searched(cache, c, now)
            /\ IF LookupStatus(cache, c, now) = "DUPLICATE"
               THEN Answer(c) ELSE out' = SendError(out, limited)
       ELSE out' = SendError(out, limited) /\ UNCHANGED cache
    /\ UNCHANGED <<link, replay, planned, pending>>

CommandRepeated(c, limited) ==
    /\ cache' = Searched(cache, c, now)
    /\ CASE LookupStatus(cache, c, now) = "DUPLICATE" -> Answer(c)
         [] LookupStatus(cache, c, now) = "MALFORMED" -> out' = SendError(out, limited)
         [] OTHER                                     -> UNCHANGED out
    /\ UNCHANGED <<link, replay, planned, pending>>

\* A new frame with a token the cache knows.
CommandKnown(c, limited) ==
    LET status == LookupStatus(cache, c, now)
    IN  /\ status # "STALE"
        /\ cache' = Searched(cache, c, now)
        /\ IF status = "DUPLICATE" THEN Answer(c) ELSE out' = SendError(out, limited)
        /\ replay' = (replay \/ (status = "DUPLICATE" /\ ~P0Full(out)))
        /\ UNCHANGED <<link, planned, pending>>

\* No room: in P0 for the ACK, among the pending commands, or in the cache.
CommandBusy(c) ==
    /\ LookupStatus(cache, c, now) = "STALE"
    /\ \/ P0Full(out)
       \/ Len(pending) >= PendingCapacity
       \/ AdmitStatus(cache, c, now) = "RESOURCE_BUSY"
    /\ cache' = Searched(cache, c, now)
    /\ out' = Send(out, "P0", Plain("ACK"))
    /\ UNCHANGED <<link, replay, planned, pending>>

CommandAdmitted(c) ==
    /\ AdmitStatus(cache, c, now) = "OK"
    /\ ~P0Full(out) /\ Len(pending) < PendingCapacity
    /\ cache' = AfterAdmit(cache, c, c.ttl, now)
    /\ pending' = Append(pending,
          [handle |-> [slot |-> AdmitSlot(cache, c, now), generation |-> cache.next],
           cmd |-> c])
    /\ out' = Send(out, "P0", Plain("ACK"))
    /\ replay' = TRUE
    /\ UNCHANGED <<link, planned>>

\* handle_command
Command(c) ==
    /\ "COMMAND" \in Inputs
    /\ \E frame \in Frames, permitted \in BOOLEAN, limited \in Limited :
          \/ CommandOffline(limited)
          \/ CommandUnauthorized(c, frame, permitted, limited)
          \/ /\ CommandAuthorized(c, permitted)
             /\ \/ frame = "duplicate" /\ CommandRepeated(c, limited)
                \/ frame = "new" /\ (\/ CommandKnown(c, limited)
                                     \/ CommandBusy(c)
                                     \/ CommandAdmitted(c))
    /\ UNCHANGED <<clocks, cts, lease, beat, held, now>>

-----------------------------------------------------------------------------
\* Lease and observer plan.
LeaseStep(action, id) ==
    CASE action = "RELEASE" -> lease' = IF lease.valid /\ lease.id = id THEN NoLease ELSE lease
      [] CaptureOnly        -> UNCHANGED lease
      [] action = "RENEW" /\ ~(lease.valid /\ lease.id = id) -> UNCHANGED lease
      [] OTHER -> \E ms \in 1 .. LeaseMs :
                     lease' = [valid |-> TRUE, id |-> id, expires |-> now + ms]

\* What handle_lease and handle_plan do alike: a frame that is refused is
\* answered with an error, a duplicate with an ACK, a stale one not at all;
\* for any other there must be room for the ACK before it is acted upon.
Supervised(act) ==
    \E frame \in Frames, permitted \in BOOLEAN, limited \in Limited :
        \/ /\ ~Authorized(permitted)
           /\ out' = SendError(out, limited)
           /\ UNCHANGED <<replay, planned, lease>>
        \/ /\ Authorized(permitted) /\ frame = "duplicate"
           /\ out' = Send(out, "P0", Plain("ACK"))
           /\ UNCHANGED <<replay, planned, lease>>
        \/ /\ Authorized(permitted) /\ frame = "new"
           /\ IF P0Full(out)
              THEN out' = MarkFull(out) /\ UNCHANGED <<replay, planned, lease>>
              ELSE act

ControlLease(action, id) ==
    /\ "LEASE" \in Inputs
    /\ Supervised(/\ LeaseStep(action, id)
                  /\ out' = Send(out, "P0", Plain("ACK"))
                  /\ replay' = TRUE /\ UNCHANGED planned)
    /\ UNCHANGED <<link, cache, clocks, cts, pending, beat, held, now>>

\* plan_apply takes the frame, or refuses it and may drop the plan.
ObserverPlan ==
    /\ "PLAN" \in Inputs
    /\ Supervised(/\ planned' \in BOOLEAN /\ UNCHANGED lease
                  /\ \/ out' = Send(out, "P0", Plain("ACK")) /\ replay' = TRUE
                     \/ /\ \E limited \in Limited : out' = SendError(out, limited)
                        /\ UNCHANGED replay)
    /\ UNCHANGED <<link, cache, clocks, cts, pending, beat, held, now>>

-----------------------------------------------------------------------------
\* The executor: it takes the oldest command and reports on it later.
Found(h) == {i \in DOMAIN pending : pending[i].handle = h}      \* find_pending
At(h) == CHOOSE i \in Found(h) : TRUE
CommandAt(h) == pending[At(h)].cmd

Outcome(h, stage) == [stage |-> stage, cmd |-> CommandAt(h)]    \* build_command_result

Recordable(h, stage) == RecordStatus(cache, h, Outcome(h, stage), now) = "OK"

PendingPeek ==
    /\ pending # <<>>
    /\ held # Head(pending)
    /\ held' = Head(pending)
    /\ UNCHANGED <<session, clocks, cts, pending, lease, out, beat, now>>

\* Mutant: the result is recorded before the room for it is checked.
PendingCompleteRefused_RecordsFirst(stage) ==
    /\ held # NoHeld
    /\ \/ Found(held.handle) = {} /\ held' = NoHeld /\ UNCHANGED <<cache, out>>
       \/ /\ Found(held.handle) # {}
          /\ P0Full(out) \/ ~Recordable(held.handle, stage)
          /\ cache' = AfterRecord(cache, held.handle, Outcome(held.handle, stage), now)
          /\ out' = IF P0Full(out) THEN MarkFull(out) ELSE out
          /\ UNCHANGED held
    /\ UNCHANGED <<link, replay, planned, clocks, cts, pending, lease, beat, now>>

\* pending_complete of a command that is gone, or that has no room to be
\* answered, or whose entry takes no result; it is then still ours to retry.
PendingCompleteRefused(stage) ==
    /\ held # NoHeld
    /\ \/ /\ Found(held.handle) = {}
          /\ held' = NoHeld /\ UNCHANGED <<cache, out>>
       \/ /\ Found(held.handle) # {} /\ P0Full(out)
          /\ out' = MarkFull(out) /\ UNCHANGED <<cache, held>>
       \/ /\ Found(held.handle) # {} /\ ~P0Full(out)
          /\ ~Recordable(held.handle, stage)
          /\ cache' = AfterRecord(cache, held.handle, Outcome(held.handle, stage), now)
          /\ UNCHANGED <<out, held>>
    /\ UNCHANGED <<link, replay, planned, clocks, cts, pending, lease, beat, now>>

PendingComplete(stage) ==
    /\ held # NoHeld /\ Found(held.handle) # {}
    /\ ~P0Full(out) /\ Recordable(held.handle, stage)
    /\ cache' = AfterRecord(cache, held.handle, Outcome(held.handle, stage), now)
    /\ pending' = RemoveAt(pending, At(held.handle))
    /\ out' = Send(out, "P0", Result(CommandAt(held.handle), stage))
    /\ held' = NoHeld
    /\ UNCHANGED <<link, replay, planned, clocks, cts, lease, beat, now>>

-----------------------------------------------------------------------------
\* The platform: CTS line, transmitter, reset.
SetCtsBlocked(blocked) ==
    LET l == set_cts_blocked(link, blocked, now)
        c == [known |-> TRUE, blocked |-> blocked]
    IN  /\ "CTS" \in Inputs \/ (~blocked /\ ~cts.known)
        /\ cts' = c
        /\ IF CtsOffline(link, now)
           THEN Recover(l, c, FALSE) \/ RecoveryFails(l)
           ELSE /\ link' = l
                /\ lease' = IF l.state = ONLINE THEN lease ELSE NoLease
                /\ UNCHANGED <<clocks, pending, out, beat>>
        /\ UNCHANGED <<replay, planned, cache, held, now>>

TxBegin ==
    /\ "TX" \in Inputs /\ Idle(out.tx)
    /\ \E class \in ClassNames : /\ Selected(out.tx, class)
                                 /\ out' = [out EXCEPT !.tx = Begun(@, class)]
    /\ UNCHANGED <<session, clocks, cts, pending, lease, beat, held, now>>

TxFinish(sent) ==
    /\ ~Idle(out.tx)
    /\ sent \/ "TX_ERROR" \in Inputs
    /\ out' = [tx |-> Finished(out.tx),
               inhibited |-> out.inhibited \/ (~sent /\ out.tx.class \in Critical)]
    /\ UNCHANGED <<session, clocks, cts, pending, lease, beat, held, now>>

\* canview_stm_uart_reset; safety_inhibited survives.
Reset ==
    /\ "RESET" \in Inputs
    /\ Invalidate
    /\ replay' = FALSE
    /\ link' = link_reset
    /\ cts' = [known |-> FALSE, blocked |-> FALSE]
    /\ pending' = <<>>
    /\ mapping' = NoMapping /\ sync' = NoSync /\ lease' = NoLease
    /\ beat' = now
    /\ out' = Send([out EXCEPT !.tx = EmptyTx], "P0", Plain("LINK_HELLO"))
    /\ UNCHANGED <<held, now>>
-----------------------------------------------------------------------------
\* canview_stm_uart_tick, called once per pass of the worker.
SessionDead == link_session_expired(link, now) \/ link_has_stale_session(link)

\* After a recovery the rest of the tick finds nothing left to do.
TickDead ==
    /\ SessionDead
    /\ Invalidate
    /\ replay' = FALSE
    /\ LET l == link_require_hello(link)
       IN  Recover(l, cts, FALSE) \/ RecoveryFails(l)
    /\ UNCHANGED <<cts, held, now>>

PendingExpired(c) ==
    \/ ~mapping.valid \/ MappingTooOld
    \/ DeadlineKnown(c) /\ IssuedAt(c) <= now /\ now >= Deadline(c)

ExpiredResult(p) == [stage |-> "EXPIRED", cmd |-> p.cmd]

\* Expired commands leave in order and stop at the first that has not expired
\* or whose entry holds another result.
Sweepable(p, c) ==
    /\ PendingExpired(p.cmd)
    /\ RecordStatus(c, p.handle, ExpiredResult(p), now) # "MALFORMED"

SweepLength(c) ==
    CHOOSE n \in 0 .. Len(pending) :
        /\ \A i \in 1 .. n : Sweepable(pending[i], c)
        /\ n < Len(pending) => ~Sweepable(pending[n + 1], c)

\* The cache after the results of these commands were recorded; no two of
\* their handles name one entry.
AfterExpiry(c, ps) ==
    LET Of(s) == {i \in DOMAIN ps : ps[i].handle.slot = s /\ Names(c, ps[i].handle)}
        Ended(p) == AfterRecord(c, p.handle, ExpiredResult(p), now).entries[p.handle.slot]
    IN  [c EXCEPT !.entries = [s \in Slots |->
            IF Of(s) = {} THEN @[s] ELSE Ended(ps[CHOOSE i \in Of(s) : TRUE])]]

\* Mutant: one result more than there is room for.
Room_OffByOne == QueueCapacity - Len(out.tx.queue["P0"]) + 1

Room == QueueCapacity - Len(out.tx.queue["P0"])

HeartbeatDue == Elapsed(now, beat, HeartbeatPeriodMs)

\* Mutant: HELLO is repeated only to a peer we have heard of.
HelloWanted_Known(l, o) ==
    /\ ~l.hello_complete /\ l.peer_boot_id # NoPeer
    /\ ~TxContains(o.tx, "LINK_HELLO")

HelloWanted(l, o) == ~l.hello_complete /\ ~TxContains(o.tx, "LINK_HELLO")

TickAlive ==
    LET ticked == link_tick(link, now)
        swept  == cache_expire(cache, now)
        wanted == SweepLength(swept)
        done   == SubSeq(pending, 1, Min({wanted, Room}))
        answered == SendAll(out, [i \in DOMAIN done |-> Result(done[i].cmd, "EXPIRED")])
        strained == IF wanted > Room THEN MarkFull(answered) ELSE answered
        beaten   == Offered(strained, HeartbeatDue, "STATE", Plain("HEARTBEAT"))
    IN  /\ ~SessionDead
        /\ link' = ticked
        /\ lease' = IF lease.valid /\ (ticked.state # ONLINE \/ now >= lease.expires)
                    THEN NoLease ELSE lease
        /\ sync' = IF SyncExpired THEN NoSync ELSE sync
        /\ mapping' = IF mapping.valid /\ MappingTooOld THEN NoMapping ELSE mapping
        /\ cache' = AfterExpiry(swept, done)
        /\ pending' = SubSeq(pending, Len(done) + 1, Len(pending))
        /\ beat' = IF HeartbeatDue /\ ~Refused(strained.tx, "STATE", Plain("HEARTBEAT"))
                   THEN now ELSE beat
        /\ out' = Offered(beaten, HelloWanted(ticked, beaten), "P0", Plain("LINK_HELLO"))
        /\ UNCHANGED <<replay, planned, cts, held, now>>

Tick == TickDead \/ TickAlive

Advance ==
    /\ now < MaxTime
    /\ now' = now + 1
    /\ UNCHANGED <<session, clocks, cts, pending, lease, out, beat, held>>

Heartbeat(r) ==
    \E b \in Boots : HeartbeatEndsSession(b, r) \/ HeartbeatInSession(b, r)

NextButHeartbeat ==
    \/ \E b \in Boots : HelloNewEpoch(b) \/ HelloAgain(b) \/ HelloAck(b)
    \/ \E limited \in Limited : AnsweredWithError(limited)
    \/ SimpleMessage
    \/ TimeSyncDropsOld
    \/ \E g \in Generations : \/ TimeSyncRequest(g)
                              \/ \E t2 \in 0 .. now : TimeSyncCommit(g, t2)
    \/ \E c \in Keys : Command(c)
    \/ \E a \in {"ACQUIRE", "RENEW", "RELEASE"}, id \in LeaseIds : ControlLease(a, id)
    \/ ObserverPlan
    \/ PendingPeek
    \/ \E s \in Stages : PendingComplete(s) \/ PendingCompleteRefused(s)
    \/ \E blocked \in BOOLEAN : SetCtsBlocked(blocked)
    \/ TxBegin
    \/ \E sent \in BOOLEAN : TxFinish(sent)
    \/ Reset
    \/ Tick
    \/ Advance

Next == NextButHeartbeat \/ \E r \in Revisions : Heartbeat(r)

Spec == Init /\ [][Next]_vars
=============================================================================
