----------------------------- MODULE UartSession -----------------------------
(***************************************************************************)
(* The session layer of shared/protocol/src/canview_uart.c: a UartLink     *)
(* together with the state that must not outlive a session (observer plan, *)
(* command cache, replay window).  The owner calls the canview_uart_       *)
(* session_* and canview_uart_link_* functions in any order, at any time;  *)
(* nothing obliges it to call session_tick before it hands an event over.  *)
(*                                                                         *)
(* A call the library refuses without a change of state is a stuttering    *)
(* step and has no action.                                                 *)
(***************************************************************************)
EXTENDS UartLink

CONSTANTS
    MaxTime,        \* bound: the clock stops here
    MaxGeneration   \* UINT64_MAX of next_generation, the cache's handle counter

ASSUME SessionAssumption ==
    /\ MaxTime \in Nat
    /\ MaxGeneration \in Nat \ {0}

VARIABLES
    link,        \* canview_uart_link_t
    generation,  \* command cache next_generation
    owned,       \* what plan, cache and replay hold: subset of Stamps
    now,         \* the owner's clock
    seen         \* history: what really arrived since the last HELLO

vars == <<link, generation, owned, now, seen>>

\* Contents of plan, cache and replay, told apart by when they came: in the
\* session that is up now, or in an earlier one or in none.
Stamps == {"current", "former"}

\* `seen` is a history variable.  It records events and their times as they
\* come, knows no threshold but the two that end a session, and is read by
\* no action.
nothing_seen == [boot |-> NoPeer, hello |-> FALSE, ack |-> FALSE,
                 heartbeat |-> FALSE, heartbeatAt |-> 0,
                 heartbeatRev |-> NoRevision,
                 snapshot |-> FALSE, snapshotAt |-> 0, snapshotRev |-> NoRevision,
                 beatSinceSnapshot |-> FALSE,
                 cts |-> "unknown", stalledAt |-> 0, lapsed |-> FALSE]

Seen == [boot : Boots \cup {NoPeer}, hello : BOOLEAN, ack : BOOLEAN,
         heartbeat : BOOLEAN, heartbeatAt : Nat,
         heartbeatRev : Revisions \cup {NoRevision},
         snapshot : BOOLEAN, snapshotAt : Nat,
         snapshotRev : Revisions \cup {NoRevision},
         beatSinceSnapshot : BOOLEAN,
         cts : {"unknown", "clear", "blocked"}, stalledAt : Nat,
         lapsed : BOOLEAN]

\* The peer was silent, or kept us from transmitting, for too long.
LapsedAt(s, t) ==
    \/ s.lapsed
    \/ s.heartbeat /\ t - s.heartbeatAt >= HeartbeatOfflineMs
    \/ s.cts = "blocked" /\ t - s.stalledAt >= CtsOfflineMs

-----------------------------------------------------------------------------
\* session_invalidate_state fails, changing nothing, when the handle counter
\* is used up: cache_reset would have to reuse a generation.
CanInvalidate == generation < MaxGeneration

Init ==
    /\ link = link_reset
    /\ generation = 1
    /\ owned = {}
    /\ now = 0
    /\ seen = nothing_seen

NewSession(boot) ==
    \/ link.peer_boot_id = NoPeer
    \/ ~link.hello_complete
    \/ link.peer_boot_id # boot

Invalidated(cond) == IF cond THEN {} ELSE owned

\* History: what a call leaves in plan, cache and replay belongs to a former
\* session as soon as the session is not the one it was before the call.
\* This looks at the session alone, not at why a call invalidates.
SameSession ==
    link.hello_complete /\ link'.hello_complete
        /\ link'.peer_boot_id = link.peer_boot_id

Dated(kept) == IF SameSession \/ kept = {} THEN kept ELSE {"former"}

Arriving == IF link.hello_complete THEN "current" ELSE "former"

\* Mutant: a HELLO of the boot we know does not invalidate.
SessionNoteHello_SameBoot(boot) ==
    /\ link.peer_boot_id # boot => CanInvalidate
    /\ link' = note_hello(link, boot, now)
    /\ owned' = Dated(Invalidated(link.peer_boot_id # boot))
    /\ seen' = [nothing_seen EXCEPT !.boot = boot, !.hello = TRUE]
    /\ UNCHANGED <<generation, now>>

SessionNoteHello(boot) ==
    /\ NewSession(boot) => CanInvalidate
    /\ link' = note_hello(link, boot, now)
    /\ owned' = Dated(Invalidated(NewSession(boot)))
    /\ seen' = [nothing_seen EXCEPT !.boot = boot, !.hello = TRUE]
    /\ UNCHANGED <<generation, now>>

HeartbeatInvalidates(boot) ==
    \/ link.peer_boot_id # boot
    \/ link_session_expired(link, now)
    \/ link_has_stale_session(link)

SessionNoteHeartbeat(boot, rev) ==
    /\ HeartbeatInvalidates(boot) => CanInvalidate
    /\ link' = note_heartbeat(link, boot, rev, now)
    /\ owned' = Dated(Invalidated(HeartbeatInvalidates(boot)))
    /\ seen' = IF boot = seen.boot /\ seen.hello
               THEN [seen EXCEPT !.heartbeat = TRUE, !.heartbeatAt = now,
                                 !.heartbeatRev = rev,
                                 !.beatSinceSnapshot = TRUE]
               ELSE [nothing_seen EXCEPT !.boot = boot]
    /\ UNCHANGED <<generation, now>>

LinkNoteHelloAck(boot) ==
    /\ HelloAckAccepted(link, boot)
    /\ link' = note_hello_ack(link, now)
    /\ seen' = [seen EXCEPT !.ack = seen.hello /\ boot = seen.boot]
    /\ owned' = Dated(owned)
    /\ UNCHANGED <<generation, now>>

LinkNoteSafetySnapshot(boot, rev) ==
    /\ SnapshotAccepted(link, boot)
    /\ link' = note_safety_snapshot(link, rev, now)
    /\ seen' = [seen EXCEPT !.snapshot = seen.ack, !.snapshotAt = now,
                            !.snapshotRev = rev, !.beatSinceSnapshot = FALSE]
    /\ owned' = Dated(owned)
    /\ UNCHANGED <<generation, now>>

LinkSetCtsBlocked(blocked) ==
    /\ link' = set_cts_blocked(link, blocked, now)
    /\ seen' = [seen EXCEPT !.cts = IF blocked THEN "blocked" ELSE "clear",
                            !.stalledAt = IF blocked /\ seen.cts # "blocked"
                                          THEN now ELSE @]
    /\ owned' = Dated(owned)
    /\ UNCHANGED <<generation, now>>

SessionTick ==
    LET dead == link_session_expired(link, now) \/ link_has_stale_session(link)
    IN  /\ dead => CanInvalidate
        /\ link' = IF dead THEN link_require_hello(link) ELSE link_tick(link, now)
        /\ owned' = Dated(Invalidated(dead))
        /\ UNCHANGED <<generation, now, seen>>

SessionReset ==
    /\ CanInvalidate
    /\ link' = link_reset
    /\ owned' = {}
    /\ seen' = nothing_seen
    /\ UNCHANGED <<generation, now>>

\* The replay window keeps the sequence of every message that passed
\* validation (and with it an observer plan may grow), session or not ...
Store ==
    /\ owned' = owned \cup {Arriving}
    /\ UNCHANGED <<link, generation, now, seen>>

\* Mutant: the handle counter may wrap.
AdmitCommand_NoLimit ==
    /\ link_command_admission_allowed(link, now)
    /\ generation' = generation + 1
    /\ owned' = owned \cup {Arriving}
    /\ UNCHANGED <<link, now, seen>>

\* ... or a command, which takes a cache handle and needs a live session.
AdmitCommand ==
    /\ link_command_admission_allowed(link, now)
    /\ generation < MaxGeneration
    /\ generation' = generation + 1
    /\ owned' = owned \cup {Arriving}
    /\ UNCHANGED <<link, now, seen>>

Advance ==
    /\ now < MaxTime
    /\ now' = now + 1
    /\ seen' = [seen EXCEPT !.lapsed = LapsedAt(seen, now + 1)]
    /\ UNCHANGED <<link, generation, owned>>

Next ==
    \/ \E b \in Boots :
          \/ SessionNoteHello(b)
          \/ LinkNoteHelloAck(b)
          \/ \E r \in Revisions : \/ SessionNoteHeartbeat(b, r)
                                  \/ LinkNoteSafetySnapshot(b, r)
    \/ \E blocked \in BOOLEAN : LinkSetCtsBlocked(blocked)
    \/ SessionTick
    \/ SessionReset
    \/ Store
    \/ AdmitCommand
    \/ Advance

Spec == Init /\ [][Next]_vars

\* The worker calls session_tick once per service, whatever else happens.
FairSpec == Spec /\ WF_vars(SessionTick)

-----------------------------------------------------------------------------
TypeOK ==
    /\ link \in Link
    /\ generation \in 1..MaxGeneration
    /\ owned \subseteq Stamps
    /\ now \in Nat
    /\ seen \in Seen

(***************************************************************************)
(* Whenever canview_uart_link_command_admission_allowed says yes, the      *)
(* events it stands for have really happened, in this session and recently *)
(* enough: HELLO, HELLO_ACK and a snapshot of the current peer, a          *)
(* heartbeat of it, no heartbeat with another revision after the snapshot, *)
(* and no CTS stall.  No order of calls, late call or missed tick may leave*)
(* a link that admits on evidence of another boot or of the past.          *)
(***************************************************************************)
AdmissionHasEvidence ==
    link_command_admission_allowed(link, now) =>
        /\ seen.hello /\ seen.ack /\ seen.boot = link.peer_boot_id
        /\ seen.heartbeat /\ now - seen.heartbeatAt < HeartbeatOnlineMs
        /\ seen.snapshot  /\ now - seen.snapshotAt < SnapshotMaxAgeMs
        /\ seen.beatSinceSnapshot => seen.heartbeatRev = seen.snapshotRev
        /\ \/ seen.cts = "clear"
           \/ seen.cts = "blocked" /\ now - seen.stalledAt < CtsStopMs

(***************************************************************************)
(* Once the peer has been silent, or has blocked CTS, for the offline time,*)
(* only HELLO revives the session: neither a late heartbeat nor a released *)
(* CTS line may bring back admission, even if the owner missed the tick    *)
(* that would have noticed the outage.                                     *)
(***************************************************************************)
NoRevivalWithoutHello ==
    seen.lapsed => ~link_command_admission_allowed(link, now)

(***************************************************************************)
(* While a session is up, plan, cache and replay hold only what came in it:*)
(* a session may end in a link-only call (a CTS report, an acknowledgement,*)
(* a snapshot) that touches none of them, messages may be stored with no   *)
(* session at all, and invalidation can fail (used-up handle counter), but *)
(* the next HELLO, of the same boot or of another, finds and clears them.  *)
(***************************************************************************)
NoFormerStateInSession == link.hello_complete => "former" \notin owned

(***************************************************************************)
(* A session ends for a cause only: the outage of NoRevivalWithoutHello, a *)
(* heartbeat of another boot, or a reset by the owner.                     *)
(***************************************************************************)
SessionEndsForCause ==
    [][link.hello_complete /\ ~link'.hello_complete
         => seen.lapsed \/ ~seen'.hello]_vars

(***************************************************************************)
(* A dead session is torn down by the ticks alone, with whatever the peer  *)
(* sends meanwhile, unless the handle counter is used up.                  *)
(***************************************************************************)
DeadSessionTornDown ==
    seen.lapsed ~> (~link.hello_complete \/ ~seen.lapsed \/ ~CanInvalidate)

-----------------------------------------------------------------------------
(***************************************************************************)
(* The inductive invariant behind the properties above: while a handshake  *)
(* is in progress or complete, the link mirrors the history.  It says      *)
(* nothing of a link without HELLO, whose fields are all cleared.          *)
(***************************************************************************)
Mirrors(l, s, t) ==
    /\ s.hello /\ s.boot = l.peer_boot_id
    /\ l.hello_ack_complete => s.ack
    /\ l.heartbeat_seen <=> s.heartbeat
    /\ s.heartbeat => s.heartbeatAt = l.last_heartbeat /\ l.last_heartbeat <= t
    /\ l.cts_known <=> s.cts # "unknown"
    /\ l.cts_blocked <=> s.cts = "blocked"
    /\ l.cts_blocked => s.stalledAt = l.cts_since /\ l.cts_since <= t
    /\ l.snapshot_valid =>
          /\ l.hello_ack_complete
          /\ s.snapshot
          /\ s.snapshotAt = l.snapshot_time
          /\ s.snapshotRev = l.safety_revision
          /\ s.beatSinceSnapshot => s.heartbeatRev = s.snapshotRev
    /\ s.lapsed <=> link_session_expired(l, t)

SessionInv ==
    link.hello_complete => Mirrors(link, seen, now) /\ "former" \notin owned
=============================================================================
