------------------------------ MODULE UartLink ------------------------------
(***************************************************************************)
(* The UART link record of shared/protocol/src/canview_uart.c and the      *)
(* operations on it, as functions from a link record and a time to a link  *)
(* record.  A link is what one endpoint knows of its peer: who it is, how  *)
(* far the HELLO handshake went, when it last gave a sign of life and      *)
(* whether it lets us transmit.                                            *)
(*                                                                         *)
(* Times are the endpoint's own millisecond clock.  The thresholds are     *)
(* parameters; canview_uart_protocol.h gives them the values named in      *)
(* brackets.                                                               *)
(***************************************************************************)
EXTENDS Integers

CONSTANTS
    Boots,              \* boot identifiers a peer may announce (never 0)
    NoPeer,             \* peer_boot_id 0: no peer was ever seen
    Revisions,          \* safety revisions a peer or the owner may report
    NoRevision,         \* the cleared safety_revision field
    HeartbeatOnlineMs,  \* [300]  older heartbeat: not ONLINE
    HeartbeatOfflineMs, \* [1000] older heartbeat: the session is over
    SnapshotMaxAgeMs,   \* [300]  older safety snapshot: not valid
    CtsStopMs,          \* [100]  longer stall: no new command
    CtsOfflineMs        \* [1000] longer stall: the session is over

ASSUME LinkAssumption ==
    /\ NoPeer \notin Boots
    /\ NoRevision \notin Revisions
    /\ {HeartbeatOnlineMs, HeartbeatOfflineMs, SnapshotMaxAgeMs,
        CtsStopMs, CtsOfflineMs} \subseteq Nat \ {0}
    /\ HeartbeatOnlineMs < HeartbeatOfflineMs
    /\ CtsStopMs < CtsOfflineMs

OFFLINE == "OFFLINE"
SUSPECT == "SUSPECT"
ONLINE  == "ONLINE"

Link == [peer_boot_id      : Boots \cup {NoPeer},
         hello_complete    : BOOLEAN,
         hello_ack_complete: BOOLEAN,
         snapshot_valid    : BOOLEAN,
         snapshot_time     : Nat,
         safety_revision   : Revisions \cup {NoRevision},
         heartbeat_seen    : BOOLEAN,
         last_heartbeat    : Nat,
         cts_known         : BOOLEAN,
         cts_blocked       : BOOLEAN,
         cts_since         : Nat,
         state             : {OFFLINE, SUSPECT, ONLINE}]

link_reset == [peer_boot_id |-> NoPeer, hello_complete |-> FALSE,
               hello_ack_complete |-> FALSE, snapshot_valid |-> FALSE,
               snapshot_time |-> 0, safety_revision |-> NoRevision,
               heartbeat_seen |-> FALSE, last_heartbeat |-> 0,
               cts_known |-> FALSE, cts_blocked |-> FALSE, cts_since |-> 0,
               state |-> OFFLINE]

-----------------------------------------------------------------------------
\* elapsed_ms() >= limit; a clock that stepped back counts as expired.
Elapsed(now, then, limit) == now < then \/ now - then >= limit

\* Mutant: the threshold of ONLINE ends the session.
HeartbeatOffline_TooEarly(l, now) ==
    l.heartbeat_seen /\ Elapsed(now, l.last_heartbeat, HeartbeatOnlineMs)

HeartbeatOffline(l, now) ==
    l.heartbeat_seen /\ Elapsed(now, l.last_heartbeat, HeartbeatOfflineMs)

CtsOffline(l, now) ==
    l.cts_known /\ l.cts_blocked /\ Elapsed(now, l.cts_since, CtsOfflineMs)

\* Mutant: only silence ends a session.
link_session_expired_NoCts(l, now) == HeartbeatOffline(l, now)

link_session_expired(l, now) == HeartbeatOffline(l, now) \/ CtsOffline(l, now)

SafetyStale(l, now) ==
    l.snapshot_valid /\ Elapsed(now, l.snapshot_time, SnapshotMaxAgeMs)

\* A peer is remembered but its session is gone: only HELLO may follow.
link_has_stale_session(l) == ~l.hello_complete /\ l.peer_boot_id # NoPeer

\* Everything learnt in the session is forgotten, except who the peer was.
link_require_hello(l) ==
    [link_reset EXCEPT !.peer_boot_id   = l.peer_boot_id,
                       !.last_heartbeat = l.last_heartbeat]

\* Mutant: the CTS fields survive HELLO.
note_hello_KeepsCts(l, boot, now) ==
    [l EXCEPT !.peer_boot_id = boot, !.hello_complete = TRUE,
              !.hello_ack_complete = FALSE, !.snapshot_valid = FALSE,
              !.heartbeat_seen = FALSE, !.last_heartbeat = now,
              !.state = OFFLINE]

note_hello(l, boot, now) ==
    [link_reset EXCEPT !.peer_boot_id   = boot,
                       !.hello_complete = TRUE,
                       !.last_heartbeat = now]

CtsSuspect(l, now) == l.cts_blocked /\ Elapsed(now, l.cts_since, CtsStopMs)

\* What canview_uart_link_tick requires before it reports ONLINE.
Suspect(l, now) ==
    \/ Elapsed(now, l.last_heartbeat, HeartbeatOnlineMs)
    \/ CtsSuspect(l, now)
    \/ SafetyStale(l, now)
    \/ ~(l.hello_ack_complete /\ l.snapshot_valid /\ l.cts_known)

StateAt(l, now) ==
    CASE ~l.heartbeat_seen                    -> OFFLINE
      [] l.heartbeat_seen /\ Suspect(l, now)  -> SUSPECT
      [] l.heartbeat_seen /\ ~Suspect(l, now) -> ONLINE

link_tick(l, now) ==
    IF ~l.hello_complete \/ link_session_expired(l, now)
    THEN link_require_hello(l)
    ELSE [l EXCEPT !.snapshot_valid = @ /\ ~SafetyStale(l, now),
                   !.state          = StateAt(l, now)]

-----------------------------------------------------------------------------
\* The notes below are total functions: each is preceded by the condition
\* under which the C function refuses the event and leaves the link alone.

HelloAckAccepted(l, boot) == l.hello_complete /\ boot = l.peer_boot_id

note_hello_ack(l, now) ==
    link_tick([l EXCEPT !.hello_ack_complete = TRUE], now)

SnapshotAccepted(l, boot) ==
    l.hello_complete /\ l.hello_ack_complete /\ boot = l.peer_boot_id

note_safety_snapshot(l, rev, now) ==
    link_tick([l EXCEPT !.snapshot_valid  = TRUE,
                        !.snapshot_time   = now,
                        !.safety_revision = rev], now)

\* A heartbeat of another boot, or before HELLO, only names the peer.
HeartbeatNeedsHello(l, boot) == ~l.hello_complete \/ l.peer_boot_id # boot

\* note_heartbeat answers TIMEOUT: this heartbeat came too late.
HeartbeatTooLate(l, boot, now) ==
    ~HeartbeatNeedsHello(l, boot) /\ link_session_expired(l, now)

\* Mutant: a heartbeat that comes too late is taken like any other.
note_heartbeat_Late(l, boot, rev, now) ==
    IF HeartbeatNeedsHello(l, boot)
    THEN link_require_hello([l EXCEPT !.peer_boot_id = boot])
    ELSE link_tick([l EXCEPT !.heartbeat_seen = TRUE,
                             !.last_heartbeat = now,
                             !.snapshot_valid = @ /\ l.safety_revision = rev],
                   now)

note_heartbeat(l, boot, rev, now) ==
    IF HeartbeatNeedsHello(l, boot)
    THEN link_require_hello([l EXCEPT !.peer_boot_id = boot])
    ELSE IF link_session_expired(l, now)
    THEN link_require_hello(l)
    ELSE link_tick([l EXCEPT !.heartbeat_seen = TRUE,
                             !.last_heartbeat = now,
                             !.snapshot_valid = @ /\ l.safety_revision = rev],
                   now)

\* set_cts_blocked answers TIMEOUT when the stall it ends was already fatal.
set_cts_blocked(l, blocked, now) ==
    IF CtsOffline(l, now)
    THEN link_require_hello(l)
    ELSE link_tick([l EXCEPT !.cts_known   = TRUE,
                             !.cts_blocked = blocked,
                             !.cts_since   = IF blocked /\ ~l.cts_blocked
                                             THEN now ELSE @], now)

\* Mutant: the state of the last tick is believed.
link_command_admission_allowed_AsTicked(l, now) ==
    /\ l.hello_complete /\ l.hello_ack_complete
    /\ l.snapshot_valid /\ l.heartbeat_seen /\ l.cts_known
    /\ l.state = ONLINE

\* May a command be admitted now?  Ages are checked again here, because the
\* state may be older than the last tick.
link_command_admission_allowed(l, now) ==
    /\ l.hello_complete /\ l.hello_ack_complete
    /\ l.snapshot_valid /\ l.heartbeat_seen /\ l.cts_known
    /\ l.state = ONLINE
    /\ ~Elapsed(now, l.last_heartbeat, HeartbeatOnlineMs)
    /\ ~Elapsed(now, l.snapshot_time, SnapshotMaxAgeMs)
    /\ ~CtsSuspect(l, now)
=============================================================================
