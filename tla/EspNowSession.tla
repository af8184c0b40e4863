--------------------------- MODULE EspNowSession ---------------------------
(***************************************************************************)
(* The receiving half of an ESP-NOW peer session, canview_espnow.c:        *)
(* canview_frame_decode with its contract policy, replay window, handshake *)
(* states, receive reservation, authentication back-off, error limiter and *)
(* control time synchronisation.  An honest peer sends numbered frames;    *)
(* the radio loses, repeats, reorders and damages them, and reports some   *)
(* as unprotected.  The firmware does not call the library yet: the caller *)
(* (it passes the session's own state as link_state, frees buffers, starts *)
(* sessions) is external.                                                  *)
(***************************************************************************)
EXTENDS Integers, FiniteSets, Sequences

CONSTANTS
    Types,         \* message types a peer may send
    Modulus, WindowSize,    \* [2^32, 64] the replay window's
    TimeModulus,   \* [2^32] now_ms wraps here
    StartNow, MaxNow,       \* bounds of true time
    SampleTarget,  \* [3] time syncs before STATE_SYNC
    RxLimit,       \* [8] frames the application may hold
    ErrorLimit,    \* [16] error answers per ErrorPeriod
    ErrorPeriod,   \* [1000]
    FailureLimit,  \* [5] failures before back-off
    BackoffBase, BackoffSteps, BackoffMax,   \* [1000, 5, 60000]
    MaxAge,        \* [30000] of a control time sync
    Protections,   \* bound: what the radio reports, FALSE for unprotected
    MaxSequence,   \* bound: frames the peer sends per session
    InFlight,      \* bound: frames in the air
    MaxSessions    \* bound: sessions started

VARIABLES
    now,        \* true time
    link,       \* canview_peer_session_t
    peer,       \* the peer: its role, session id and numbering
    air,        \* frames the radio may still deliver, any number of times
    held,       \* frames delivered and not released by the application
    delivered,  \* history: frames delivered in this session
    acked,      \* history: frames of this session answered ACK_REQUIRED
    failed,     \* history: [run, at] consecutive authentication failures
    syncedAt    \* history: true time of the last control time sync, or -1

vars == <<now, link, peer, air, held, delivered, acked, failed, syncedAt>>

W == INSTANCE SequenceWindow

Now      == now % TimeModulus
Since(t) == (Now - t) % TimeModulus
TimeHalf == TimeModulus \div 2
Least(a, b) == IF a < b THEN a ELSE b

Both      == {"COMMUNICATOR", "CONTROLLER"}
PeerRole  == peer.role
LocalRole == CHOOSE r \in Both : r # PeerRole

\* The rows of canview_espnow_message_contracts this module tells apart.
contract(type) ==
    LET row(states, from, ack, zero) ==
          [states |-> states, from |-> from, ack |-> ack, zero |-> zero]
    IN  CASE type = "PAIR_REQUEST" -> row({"PAIRING"}, {"CONTROLLER"}, FALSE, TRUE)
          [] type = "HELLO" ->
               row({"SECURE_HELLO", "NEGOTIATING"}, Both, FALSE, FALSE)
          [] type = "CAPABILITIES" ->
               row({"NEGOTIATING", "TIME_SYNC", "STATE_SYNC", "ONLINE"}, Both,
                   FALSE, FALSE)
          [] type = "TIME_SYNC" -> row({"TIME_SYNC", "ONLINE"}, Both, FALSE, FALSE)
          [] type = "HEARTBEAT" ->
               row({"TIME_SYNC", "STATE_SYNC", "ONLINE", "DEGRADED", "RECOVERING"},
                   Both, FALSE, FALSE)
          [] type = "SNAPSHOT_REQUEST" ->
               row({"STATE_SYNC", "ONLINE", "DEGRADED"}, {"CONTROLLER"},
                   TRUE, FALSE)
          [] type = "STATE_SNAPSHOT" ->
               row({"STATE_SYNC", "ONLINE"}, {"COMMUNICATOR"}, FALSE, FALSE)
          [] type = "COMMAND_REQUEST" -> row({"ONLINE"}, {"CONTROLLER"}, TRUE, FALSE)

NoLimiter == [start |-> 0, emitted |-> 0]

\* canview_peer_session_reset
Disabled ==
    [initialized |-> FALSE, id |-> 0, state |-> "PAIRING", samples |-> 0,
     secure |-> FALSE, window |-> W!window_reset, reserved |-> 0,
     failures |-> 0, until |-> 0, limiter |-> NoLimiter,
     synced |-> FALSE, updated |-> 0, generation |-> 0]

\* Mutant: a new session keeps the handshake progress of the old one.
Started_KeepsState(id, secure) ==
    [link EXCEPT !.initialized = TRUE, !.id = id, !.secure = secure,
                 !.state = IF link.initialized THEN @ ELSE "SECURE_HELLO",
                 !.window = W!window_reset, !.reserved = 0]

\* canview_peer_session_start
Started(id, secure) ==
    [Disabled EXCEPT !.initialized = TRUE, !.id = id,
                     !.state = "SECURE_HELLO", !.secure = secure]

Init ==
    /\ now = StartNow
    /\ link = Disabled
    /\ peer \in [role : Both, session : {0}, next : {1}]
    /\ air = {} /\ held = 0
    /\ delivered = {} /\ acked = {}
    /\ failed = [run |-> 0, at |-> 0]
    /\ syncedAt = -1

-----------------------------------------------------------------------------
\* Mutant: the deadline of the back-off is compared without wrap-around.
AuthAllowed_Plain ==
    link.failures < FailureLimit \/ Now >= link.until

\* canview_peer_session_auth_allowed
AuthAllowed ==
    link.failures < FailureLimit \/ Since(link.until) < TimeHalf

Backoff(failures) ==
    Least(BackoffBase * 2 ^ Least(failures - FailureLimit, BackoffSteps),
          BackoffMax)

\* canview_peer_session_auth_failure
AuthFailure(s) ==
    LET n == s.failures + 1
    IN  [s EXCEPT !.failures = n,
                  !.until = IF n >= FailureLimit
                            THEN (Now + Backoff(n)) % TimeModulus ELSE @]

\* canview_error_rate_limiter_allow: the limiter after the question, and
\* what decode_failure returns.
Limited(l) ==
    LET w == IF Since(l.start) >= ErrorPeriod
             THEN [start |-> Now, emitted |-> 0] ELSE l
    IN  IF w.emitted >= ErrorLimit THEN w ELSE [w EXCEPT !.emitted = @ + 1]

Failed(s) == [s EXCEPT !.limiter = Limited(@)]

\* Mutant: the age of the control time sync is not looked at.
TimeSyncValid_NoAge == link.synced

\* canview_control_time_sync_is_valid
TimeSyncValid == link.synced /\ Since(link.updated) <= MaxAge

\* Mutant: the session id is not compared.
Policy_AnySession(f, protected) ==
    LET c == contract(f.type)
    IN  IF PeerRole \notin c.from THEN "ROLE_MISMATCH"
        ELSE IF link.state \notin c.states THEN "STATE_MISMATCH"
        ELSE IF ~c.zero /\ ~(protected /\ link.initialized /\ link.secure)
        THEN "ENCRYPTION_REQUIRED"
        ELSE IF f.type = "COMMAND_REQUEST" /\ ~TimeSyncValid
        THEN "TIME_SYNC_STALE" ELSE "NONE"

\* validate_policy of a well-formed frame, in the code's order.
Policy(f, protected) ==
    LET c == contract(f.type)
    IN  IF PeerRole \notin c.from THEN "ROLE_MISMATCH"
        ELSE IF link.state \notin c.states THEN "STATE_MISMATCH"
        ELSE IF f.session = 0 /\ ~c.zero THEN "SESSION_MISMATCH"
        ELSE IF ~c.zero /\ link.id # 0 /\ f.session # link.id
        THEN "SESSION_MISMATCH"
        ELSE IF ~c.zero /\ ~(protected /\ link.initialized /\ link.secure)
        THEN "ENCRYPTION_REQUIRED"
        ELSE IF f.type = "COMMAND_REQUEST" /\ ~TimeSyncValid
        THEN "TIME_SYNC_STALE" ELSE "NONE"

\* canview_peer_session_on_message
Transition(s, type) ==
    CASE s.state = "SECURE_HELLO" /\ type = "HELLO" ->
           [s EXCEPT !.state = "NEGOTIATING"]
      [] s.state = "NEGOTIATING" /\ type = "CAPABILITIES" ->
           [s EXCEPT !.state = "TIME_SYNC", !.samples = 0]
      [] s.state = "TIME_SYNC" /\ type = "TIME_SYNC" ->
           [s EXCEPT !.samples = @ + 1,
                     !.state = IF s.samples + 1 >= SampleTarget
                               THEN "STATE_SYNC" ELSE @]
      [] s.state = "STATE_SYNC" /\ type = "STATE_SNAPSHOT" ->
           [s EXCEPT !.state = "ONLINE"]
      [] s.state \in {"DEGRADED", "RECOVERING"} /\ type = "HEARTBEAT" ->
           [s EXCEPT !.state = "ONLINE"]
      [] OTHER -> s

\* Mutant: the window takes the frame although no buffer is left.
Refused_KeepsWindow(f) ==
    Failed([link EXCEPT !.window = W!WindowAfter(@, f.seq)])

\* RESOURCE_BUSY: the copies of window and session are dropped.
Refused(f) == Failed(link)

\* Mutant: a duplicate goes to the handshake as well.
Duplicate_Counts(f) == Transition(link, f.type)

\* REPLAY: nothing but the answer.
Duplicate(f) == link

Accepted(f) ==
    LET next == IF link.initialized THEN Transition(link, f.type) ELSE link
    IN  [next EXCEPT !.window = W!WindowAfter(link.window, f.seq),
                     !.reserved = @ + 1, !.failures = 0, !.until = 0]

\* canview_frame_decode
Decode(f, damaged, protected) ==
    LET reason == Policy(f, protected)
        status == W!WindowStatus(link.window, f.seq)
        Outcome(s, deliver, answer) ==
            /\ link' = s
            /\ delivered' = IF deliver THEN delivered \cup {f} ELSE delivered
            /\ held' = IF deliver THEN held + 1 ELSE held
            /\ acked' = IF answer /\ contract(f.type).ack
                        THEN acked \cup {f} ELSE acked
            /\ failed' =
                 CASE deliver -> [run |-> 0, at |-> 0]
                   [] AuthAllowed /\ ~damaged
                        /\ reason = "ENCRYPTION_REQUIRED" ->
                        [run |-> failed.run + 1, at |-> now]
                   [] OTHER -> failed
    IN  /\ f \in air
        /\ UNCHANGED <<now, peer, air, syncedAt>>
        /\ \/ (~AuthAllowed \/ damaged) /\ Outcome(Failed(link), FALSE, FALSE)
           \/ /\ AuthAllowed /\ ~damaged
              /\ \/ /\ reason = "ENCRYPTION_REQUIRED"
                    /\ Outcome(Failed(AuthFailure(link)), FALSE, FALSE)
                 \/ /\ reason \notin {"NONE", "ENCRYPTION_REQUIRED"}
                    /\ Outcome(Failed(link), FALSE, FALSE)
                 \/ /\ reason = "NONE" /\ status = "DUPLICATE"
                    /\ Outcome(Duplicate(f), FALSE, TRUE)
                 \/ /\ reason = "NONE" /\ status = "STALE"
                    /\ Outcome(Failed(link), FALSE, FALSE)
                 \/ /\ reason = "NONE" /\ status = "OK"
                    /\ link.reserved >= RxLimit
                    /\ Outcome(Refused(f), FALSE, FALSE)
                 \/ /\ reason = "NONE" /\ status = "OK"
                    /\ link.reserved < RxLimit
                    /\ Outcome(Accepted(f), TRUE, TRUE)

\* canview_peer_session_release_rx
Release ==
    /\ link.reserved > 0 /\ held > 0
    /\ link' = [link EXCEPT !.reserved = @ - 1]
    /\ held' = held - 1
    /\ UNCHANGED <<now, peer, air, delivered, acked, failed, syncedAt>>

\* The caller agrees a new session; the peer follows at its own time.
Start(secure) ==
    /\ link.id < MaxSessions
    /\ link' = Started(link.id + 1, secure)
    /\ held' = 0 /\ delivered' = {} /\ acked' = {}
    /\ failed' = [run |-> 0, at |-> 0]
    /\ syncedAt' = -1
    /\ UNCHANGED <<now, peer, air>>

PeerFollows ==
    /\ peer.session # link.id
    /\ peer' = [peer EXCEPT !.session = link.id, !.next = 1]
    /\ UNCHANGED <<now, link, air, held, delivered, acked, failed, syncedAt>>

\* Retransmissions have new numbers, so every transmission is a frame.
Send(type) ==
    /\ peer.next <= MaxSequence /\ Cardinality(air) < InFlight
    /\ air' = air \cup {[type |-> type, seq |-> peer.next,
          session |-> IF contract(type).zero THEN 0 ELSE peer.session]}
    /\ peer' = [peer EXCEPT !.next = @ + 1]
    /\ UNCHANGED <<now, link, held, delivered, acked, failed, syncedAt>>

Vanish(f) ==
    /\ f \in air /\ air' = air \ {f}
    /\ UNCHANGED <<now, link, peer, held, delivered, acked, failed, syncedAt>>

\* canview_control_time_sync_update; the application passes what it measured.
TimeSync(generation) ==
    /\ link.initialized
    /\ ~link.synced \/ (generation - link.generation) % Modulus
                         \in 1 .. (Modulus \div 2) - 1
    /\ link' = [link EXCEPT !.synced = TRUE, !.updated = Now,
                            !.generation = generation]
    /\ syncedAt' = now
    /\ UNCHANGED <<now, peer, air, held, delivered, acked, failed>>

\* The Communicator, to which nobody sends a snapshot, is told by its caller
\* (canview_peer_session_on_message) when it has sent its own.
SnapshotSent ==
    /\ LocalRole = "COMMUNICATOR" /\ link.state = "STATE_SYNC" /\ link.secure
    /\ link' = Transition(link, "STATE_SNAPSHOT")
    /\ UNCHANGED <<now, peer, air, held, delivered, acked, failed, syncedAt>>

\* Heartbeats missed: the caller lowers the state, no code in src/ does.
Degrade ==
    /\ link.state \in {"ONLINE", "DEGRADED"}
    /\ link' = [link EXCEPT !.state =
                  IF @ = "ONLINE" THEN "DEGRADED" ELSE "RECOVERING"]
    /\ UNCHANGED <<now, peer, air, held, delivered, acked, failed, syncedAt>>

Tick == /\ now < MaxNow /\ now' = now + 1
        /\ UNCHANGED <<link, peer, air, held, delivered, acked, failed,
                       syncedAt>>

Next ==
    \/ \E f \in air, damaged \in BOOLEAN, protected \in Protections :
          Decode(f, damaged, protected)
    \/ Release \/ PeerFollows \/ SnapshotSent \/ Degrade \/ Tick
    \/ \E secure \in BOOLEAN : Start(secure)
    \/ \E type \in Types : Send(type)
    \/ \E f \in air : Vanish(f)
    \/ \E generation \in 1 .. 2 : TimeSync(generation)

Spec == Init /\ [][Next]_vars

-----------------------------------------------------------------------------
Sent(type) == {f \in delivered : f.type = type}

\* Types and limits: the reservation counts the frames the application holds,
\* the limiter and the window stay in range.
TypeOK ==
    /\ now \in StartNow .. MaxNow
    /\ link.state \in {"PAIRING", "SECURE_HELLO", "NEGOTIATING", "TIME_SYNC",
                       "STATE_SYNC", "ONLINE", "DEGRADED", "RECOVERING"}
    /\ link.window \in W!Window
    /\ link.reserved = held /\ held \in 0 .. RxLimit
    /\ link.limiter.emitted \in 0 .. ErrorLimit
    /\ link.samples \in 0 .. SampleTarget

\* A session is beyond each stage of the handshake only if this session
\* delivered the message that ends the stage, and as many different time
\* syncs as the code asks for: no duplicate, no refused frame and no frame
\* of another session counts (canview_frame_decode commits the transition
\* with the window).
ProgressIsEarned ==
    LET Beyond(s) == link.state \in s
        Late == {"ONLINE", "DEGRADED", "RECOVERING"}
    IN  /\ \A f \in delivered : f.session \in {0, link.id}
        /\ Beyond({"NEGOTIATING", "TIME_SYNC", "STATE_SYNC"} \cup Late)
             => Sent("HELLO") # {}
        /\ Beyond({"TIME_SYNC", "STATE_SYNC"} \cup Late)
             => Sent("CAPABILITIES") # {}
        /\ Beyond({"STATE_SYNC"} \cup Late)
             => Cardinality(Sent("TIME_SYNC")) >= SampleTarget
        /\ Beyond(Late) => link.secure
        /\ Beyond(Late) /\ LocalRole = "CONTROLLER"
             => Sent("STATE_SNAPSHOT") # {}

\* The peer is told a frame was received only if the application got it: a
\* frame refused for want of a buffer leaves the window unchanged, so its
\* retransmission is not taken for a duplicate.
AckMeansDelivered == acked \subseteq delivered

\* Nothing is delivered while the back-off after repeated failures lasts,
\* measured in true time across the wrap of now_ms.
LockoutHolds ==
    [][delivered' # delivered /\ link'.id = link.id =>
         ~(failed.run >= FailureLimit /\ now < failed.at + Backoff(failed.run))
      ]_vars

\* A command is delivered only while the control time sync is young enough.
CommandIsFresh ==
    [][\A f \in delivered' \ delivered : f.type = "COMMAND_REQUEST" =>
         syncedAt # -1 /\ now - syncedAt <= MaxAge]_vars
=============================================================================
