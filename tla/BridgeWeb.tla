----------------------------- MODULE BridgeWeb -----------------------------
(***************************************************************************)
(* The Diagnostic Bridge's web shell while it runs: the ESP-IDF HTTP       *)
(* worker, which owns the one client socket and runs the handlers, and the *)
(* main task, which polls the shell every tick.  They share the session,   *)
(* the deadlines and the heartbeat under the state lock and interleave     *)
(* between its critical sections; a receive or a send takes time.          *)
(***************************************************************************)
EXTENDS BridgeAuth, FiniteSets

CONSTANTS
    Fds,            \* descriptors a new socket may get
    Hold,           \* CANVIEW_BRIDGE_WEB_SERVICE_HOLD_MS
    Window,         \* CANVIEW_BRIDGE_WEB_SERVICE_WINDOW_MS
    Idle,           \* CANVIEW_BRIDGE_WEB_CLIENT_IDLE_TIMEOUT_MS
    PreAuth,        \* CANVIEW_BRIDGE_WEB_PRE_AUTH_TIMEOUT_MS
    Request,        \* CANVIEW_BRIDGE_WEB_REQUEST_TIMEOUT_MS
    Heartbeat,      \* CANVIEW_BRIDGE_WEB_WORKER_HEARTBEAT_TIMEOUT_MS
    Io              \* CANVIEW_BRIDGE_WEB_HTTP_RECV_TIMEOUT_MS and SEND

\* A receive or send times out before its worker counts as dead (1 s, 1.5 s).
ASSUME WebAssumption ==
    /\ Hold \in Nat /\ Window \in Nat /\ Request \in Nat
    /\ Idle \in Nat \ {0} /\ PreAuth \in Nat \ {0}
    /\ Io \in Nat /\ Heartbeat \in Nat /\ Io < Heartbeat
    /\ 0 \notin Fds

VARIABLES
    session,    \* canview_bridge_web_session_t: fd, closing, idle
    pre,        \* pre_auth_client_*: fd, age, closing
    request,    \* request_deadline_*: fd, age
    beat,       \* httpd_heartbeat_*: pending, acked, age
    button,     \* age of the press, -1 released, -2 consumed
    window,     \* age of the service window, -1 closed
    conn,       \* the open socket, 0 for none
    work,       \* HTTPD's work queue: the kinds of work it holds
    worker,     \* what the worker does: pc, next, kind, io
    down,       \* why the shell was stopped, "none" while it runs
    polled,     \* the main task has polled in this tick
    bare        \* history: age of the open socket without a valid token

wvars == <<auth, session, pre, request, beat, button, window, conn, work,
           worker, down, polled, bare>>
Timers == <<button, window, polled, bare>>

NoSession == [fd |-> 0, closing |-> FALSE, idle |-> -1]
NoPre == [fd |-> 0, age |-> -1, closing |-> FALSE]
NoRequest == [fd |-> 0, age |-> -1]
Selecting == [pc |-> "select", next |-> "none", kind |-> "none", io |-> 0]

\* canview_bridge_web_start ends with the first heartbeat queued.
WInit == /\ auth = NewAuth /\ session = NoSession /\ pre = NoPre
         /\ request = NoRequest /\ beat = [pending |-> TRUE, acked |-> FALSE, age |-> 0]
         /\ button = -1 /\ window = -1 /\ conn = 0 /\ work = {"BEAT"}
         /\ worker = Selecting /\ down = "none" /\ polled = FALSE /\ bare = 0
         \* of BridgeAuth, unused here
         /\ wrong = <<>> /\ lockedFor = -1

\* Mutant: every refusal gives the client the whole deadline again.
Armed_Again(p, client) == [p EXCEPT !.fd = client, !.age = 0]

\* arm_pre_auth_client: a deadline that runs is not extended.
Armed(p, client) ==
    IF p.age >= 0 THEN p ELSE [fd |-> client, age |-> 0, closing |-> p.closing]

\* clear_pre_auth_client
Cleared(p, fd) == IF p.age >= 0 /\ p.fd = fd THEN NoPre ELSE p

\* acknowledge_httpd_heartbeat, after an I/O or by the callback.
Acknowledged == IF beat.pending THEN [beat EXCEPT !.acked = TRUE, !.age = 0] ELSE beat

\* Mutant: only the callback acknowledges.
Acknowledged_Never == beat

\* acknowledge_httpd_heartbeat of the I/O paths.
IoAcknowledged == Acknowledged

\* record_activity: refused while the session closes or for another client.
MayRecord(fd) == ~session.closing /\ session.fd \in {0, fd}
Recorded(fd) == [fd |-> fd, closing |-> FALSE, idle |-> 0]

\* Mutant: the session goes, the token stays.
CloseSession_KeepsToken ==
    /\ pre' = Cleared(pre, conn)
    /\ request' = IF request.fd = conn THEN NoRequest ELSE request
    /\ session' = IF session.fd = conn THEN NoSession ELSE session
    /\ conn' = 0 /\ worker' = Selecting
    /\ UNCHANGED auth

\* close_session, the close callback, and HTTPD's close of the socket.
CloseSession ==
    /\ pre' = Cleared(pre, conn)
    /\ request' = IF request.fd = conn THEN NoRequest ELSE request
    /\ session' = IF session.fd = conn THEN NoSession ELSE session
    /\ auth' = IF session.fd = conn THEN LoggedOut(auth) ELSE auth
    /\ conn' = 0 /\ worker' = Selecting

PreExpired(fd) == pre.fd = fd /\ pre.age >= PreAuth
RequestExpired(r, fd) == r.age >= 0 /\ (r.fd # fd \/ r.age >= Request)

-----------------------------------------------------------------------------
(* The worker: connections and work. *)

\* open_connection of a new socket; HTTPD closes a refused one.
Accept(fd) ==
    /\ worker.pc = "select" /\ conn = 0
    /\ IF pre.age >= 0 THEN UNCHANGED <<conn, request, pre, bare>>
       ELSE /\ conn' = fd /\ request' = [fd |-> fd, age |-> -1]
            /\ pre' = Armed(NoPre, fd) /\ bare' = 0
    /\ UNCHANGED <<auth, session, beat, button, window, work, worker, down, polled>>

PeerCloses == /\ worker.pc = "select" /\ conn # 0 /\ CloseSession
              /\ UNCHANGED <<beat, work, down, Timers>>

\* httpd_heartbeat_work, or the close that httpd_sess_trigger_close queued.
DoWork(kind) ==
    /\ worker.pc = "select" /\ kind \in work
    /\ work' = work \ {kind}
    /\ IF kind = "CLOSE" /\ conn # 0
       THEN CloseSession /\ UNCHANGED beat
       ELSE /\ beat' = IF kind = "BEAT" THEN Acknowledged ELSE beat
            /\ UNCHANGED <<auth, session, pre, request, conn, worker>>
    /\ UNCHANGED <<down, Timers>>

Goto(place) == worker' = [pc |-> place, kind |-> worker.kind, io |-> 0,
                         next |-> IF place = "more" THEN worker.next ELSE "none"]

Reply(kept) == worker' = [pc |-> "send", kind |-> "none", io |-> 0,
                          next |-> IF kept THEN "select" ELSE "leave"]

\* A receive that fails: receive_json_body answers 408 (and 400 after it, which
\* the model sends as one) and keeps the socket, everybody else closes it.
Refused(next) ==
    IF next = "login"
    THEN Reply(FALSE) /\ UNCHANGED <<auth, session, pre, request, conn>>
    ELSE CloseSession

\* receive_with_pre_auth_deadline up to recv; the first receive of a request
\* starts its deadline.
Receive(next) ==
    LET r == IF request.age >= 0 THEN request ELSE [fd |-> conn, age |-> 0]
    IN  IF PreExpired(conn) \/ RequestExpired(r, conn)
        THEN Refused(next)
        ELSE /\ request' = r
             /\ worker' = [pc |-> "recv", next |-> next, kind |-> "none", io |-> 0]
             /\ UNCHANGED <<auth, session, pre, conn>>

Readable == /\ worker.pc = "select" /\ conn # 0 /\ Receive("enter")
            /\ UNCHANGED <<beat, work, down, Timers>>

\* The rest of it: all that was asked for, a part, or a time-out.
Received(how) ==
    /\ worker.pc = "recv"
    /\ beat' = IoAcknowledged
    /\ IF how = "TIMEOUT" \/ PreExpired(conn) \/ RequestExpired(request, conn)
       THEN Refused(worker.next)
       ELSE IF how = "PART" THEN Goto("more")
            /\ UNCHANGED <<auth, session, pre, request, conn>>
       ELSE /\ Goto(worker.next)
            /\ UNCHANGED <<auth, session, pre, request, conn>>
    /\ UNCHANGED <<work, down, Timers>>

More == /\ worker.pc = "more" /\ Receive(worker.next)
        /\ UNCHANGED <<beat, work, down, Timers>>

-----------------------------------------------------------------------------
(* The handlers, between their critical sections. *)

\* enter_request.  A refusal that could be sent is ESP_OK to the handler,
\* which then works without a state: it answers again and its leave_request
\* clears nothing.
Enter(kind) ==
    LET a == Reconciled(auth)
        p == IF session.fd = conn /\ a.token < 0 THEN Armed(pre, conn) ELSE pre
    IN  /\ worker.pc = "enter"
        /\ auth' = a /\ pre' = p
        /\ IF session.closing \/ session.fd \notin {0, conn}
           THEN Reply(TRUE)
           ELSE worker' = [Selecting EXCEPT !.pc = "handle", !.kind = kind]
        /\ UNCHANGED <<session, request, beat, conn, work, down, Timers>>

\* handle_static_or_not_found for an unknown path of the API.
NotFound == /\ worker.pc = "enter" /\ Reply(TRUE)
            /\ UNCHANGED <<auth, session, pre, request, beat, conn, work, down,
                           Timers>>

\* handle_root, a request turned away before it changes anything (origin,
\* rate limit, body, closed window), and handle_session_post, which reads
\* its body first.
Plain == /\ worker.pc = "handle"
         /\ \/ Reply(FALSE) /\ UNCHANGED <<auth, session, pre, request, conn>>
            \/ /\ worker.kind = "POST"
               /\ Receive("login")
         /\ UNCHANGED <<beat, work, down, Timers>>

\* handle_bootstrap: service_window_open, and in a critical section of its own
\* issue_challenge, which asks for no window.
WindowSeen ==
    /\ worker.pc = "handle" /\ worker.kind = "BOOTSTRAP" /\ window >= 0
    /\ Goto("bootstrap")
    /\ UNCHANGED <<auth, session, pre, request, beat, conn, work, down, Timers>>

Bootstrap(random) ==
    /\ worker.pc = "bootstrap"
    /\ auth' = Challenged(auth, random) /\ Reply(FALSE)
    /\ UNCHANGED <<session, pre, request, beat, conn, work, down, Timers>>

\* open_session
Login(answers) ==
    LET s == SessionOpened(auth, answers)
    IN  /\ worker.pc = "login"
        /\ IF s.ok /\ MayRecord(conn)
           THEN /\ auth' = s.auth /\ session' = Recorded(conn)
                /\ pre' = Cleared(pre, conn) /\ bare' = 0
           ELSE /\ auth' = IF s.ok THEN LoggedOut(s.auth) ELSE s.auth
                /\ UNCHANGED <<session, pre, bare>>
        /\ Reply(FALSE)
        /\ UNCHANGED <<request, beat, conn, work, down, button,
                       window, polled>>

\* authenticated_and_logout of handle_session_delete
Logout(mine) ==
    LET c == Checked(auth, mine)
    IN  /\ worker.pc = "handle" /\ worker.kind = "DELETE"
        /\ auth' = IF c.ok THEN LoggedOut(c.auth) ELSE c.auth
        /\ pre' = Armed(pre, conn)
        /\ Reply(FALSE)
        /\ UNCHANGED <<session, request, beat, conn, work, down, Timers>>

\* token_authenticated_and_record of the other handlers.  handle_live reads
\* its frame after leave_request.
Authenticated(mine) ==
    LET c == Checked(auth, mine)
        good == c.ok /\ MayRecord(conn)
    IN  /\ worker.pc = "handle" /\ worker.kind \in {"GET", "LIVE"}
        /\ auth' = c.auth
        /\ session' = IF good THEN Recorded(conn) ELSE session
        /\ pre' = IF good THEN Cleared(pre, conn)
                  ELSE Armed(pre, conn)
        /\ IF good /\ worker.kind = "LIVE"
           THEN /\ worker' = [Selecting EXCEPT !.pc = "more", !.next = "select"]
                /\ request' = NoRequest
           ELSE Reply(FALSE) /\ UNCHANGED request
        /\ UNCHANGED <<beat, conn, work, down, Timers>>

\* send_with_worker_deadline
Sent(ok) == /\ worker.pc = "send"
            /\ beat' = IoAcknowledged
            /\ IF ~ok \/ RequestExpired(request, conn) THEN CloseSession
               ELSE Goto(worker.next)
                    /\ UNCHANGED <<auth, session, pre, request, conn>>
            /\ UNCHANGED <<work, down, Timers>>

\* leave_request
Leave == /\ worker.pc = "leave" /\ request' = NoRequest /\ worker' = Selecting
         /\ UNCHANGED <<auth, session, pre, beat, conn, work, down, Timers>>

-----------------------------------------------------------------------------
(* canview_bridge_web_poll, one critical section. *)

\* queue_httpd_heartbeat_locked
Settled == IF beat.pending /\ beat.acked THEN [beat EXCEPT !.pending = FALSE]
           ELSE beat
BeatLost == Settled.pending /\ beat.age >= Heartbeat
Beating == IF Settled.pending THEN Settled
           ELSE [pending |-> TRUE, acked |-> FALSE, age |-> 0]

\* The button, and web_service_window_expired.
Opening(pressed) == pressed /\ window < 0 /\ button >= Hold
ButtonAfter(pressed, expired) ==
    IF ~pressed THEN -1 ELSE IF expired \/ Opening(TRUE) THEN -2
    ELSE IF button = -1 THEN 0 ELSE button

\* Mutant: the idle time-out is left to HTTPD.
IdleExpired_Never == FALSE

\* web_client_idle_expired
IdleExpired == session.fd # 0 /\ session.idle >= Idle

\* canview_bridge_web_session_begin_close
Closing(s) == [s EXCEPT !.closing = TRUE, !.idle = -1]

\* httpd_sess_trigger_close finds the socket, or it has gone already.
Poll(pressed) ==
    LET reconciled == Reconciled(auth)
        armed == IF session.fd # 0 /\ reconciled.token < 0
                 THEN Armed(pre, session.fd) ELSE pre
        expired == window > Window
        ends == (expired \/ IdleExpired) /\ session.fd # 0 /\ ~session.closing
        late == ~ends /\ armed.age >= PreAuth /\ ~armed.closing
        fd == IF ends THEN session.fd ELSE armed.fd
        gone == (ends \/ late) /\ conn # fd
        opened == IF Opening(pressed) THEN WindowSet(reconciled, TRUE) ELSE reconciled
        bounded == IF expired THEN WindowSet(opened, FALSE) ELSE opened
    IN  /\ polled' = TRUE
        /\ IF BeatLost
           THEN /\ down' = "HEARTBEAT"
                /\ UNCHANGED <<auth, session, pre, request, beat, button, window,
                               conn, work, worker, bare>>
           ELSE /\ beat' = Beating
                /\ auth' = IF ends THEN LoggedOut(bounded) ELSE bounded
                /\ window' = IF expired THEN -1 ELSE IF Opening(pressed) THEN 0
                             ELSE window
                /\ button' = ButtonAfter(pressed, expired)
                /\ session' = IF gone /\ session.fd = fd THEN NoSession
                              ELSE IF ends THEN Closing(session) ELSE session
                /\ pre' = IF gone THEN Cleared(armed, fd)
                          ELSE IF late THEN [armed EXCEPT !.closing = TRUE] ELSE armed
                /\ work' = work \cup (IF Settled.pending THEN {} ELSE {"BEAT"})
                             \cup (IF (ends \/ late) /\ ~gone THEN {"CLOSE"} ELSE {})
                /\ UNCHANGED <<request, conn, worker, down, bare>>

\* A tick passes when the main task has polled; the worker computes in no
\* time and its I/O ends in time.
WTick ==
    /\ polled /\ polled' = FALSE
    /\ worker.pc \in {"select", "recv", "send"}
    /\ worker.pc # "select" => worker.io < Io
    /\ worker.pc = "select" => work = {}
    /\ worker' = [worker EXCEPT !.io = IF worker.pc = "select" THEN 0 ELSE @ + 1]
    /\ auth' = Aged(auth)
    /\ session' = [session EXCEPT !.idle = Ageing(@, Idle)]
    /\ pre' = [pre EXCEPT !.age = Ageing(@, PreAuth)]
    /\ request' = [request EXCEPT !.age = Ageing(@, Request)]
    /\ beat' = [beat EXCEPT !.age = IF beat.acked THEN 0
                                     ELSE Ageing(@, Heartbeat)]
    /\ button' = (IF button < 0 THEN button ELSE Ageing(button, Hold))
    /\ window' = Ageing(window, Window)
    /\ bare' = (IF conn = 0 \/ auth.token >= 0 THEN 0 ELSE Ageing(bare, PreAuth + 1))
    /\ UNCHANGED <<conn, work, down>>

\* The shell that was stopped starts again.
Restart == /\ down # "none" /\ auth' = NewAuth /\ session' = NoSession /\ pre' = NoPre
           /\ request' = NoRequest /\ beat' = [pending |-> TRUE, acked |-> FALSE, age |-> 0]
           /\ button' = -1 /\ window' = -1 /\ conn' = 0 /\ work' = {"BEAT"}
           /\ worker' = Selecting /\ down' = "none" /\ polled' = FALSE /\ bare' = 0

Kinds == {"ROOT", "BOOTSTRAP", "POST", "DELETE", "GET", "LIVE"}

Worker == \/ \E fd \in Fds : Accept(fd)
          \/ PeerCloses \/ Readable \/ More \/ NotFound \/ Plain \/ WindowSeen \/ Leave
          \/ \E kind \in work : DoWork(kind)
          \/ \E how \in {"ALL", "PART", "TIMEOUT"} : Received(how)
          \/ \E kind \in Kinds : Enter(kind)
          \/ \E good \in BOOLEAN : \/ Bootstrap(good) \/ Login(good) \/ Logout(good)
                                   \/ Authenticated(good) \/ Sent(good)

WNext == /\ \/ down = "none" /\ (Worker \/ WTick \/ \E pressed \in BOOLEAN : Poll(pressed))
            \/ Restart
         /\ UNCHANGED <<wrong, lockedFor>>

WSpec == WInit /\ [][WNext]_<<wvars, wrong, lockedFor>>

-----------------------------------------------------------------------------
WTypeOK ==
    /\ session.fd \in Fds \cup {0} /\ pre.fd \in Fds \cup {0}
    /\ conn \in Fds \cup {0} /\ work \subseteq {"BEAT", "CLOSE"}
    /\ session.closing => session.fd # 0 /\ session.idle = -1
    /\ (pre.age >= 0) = (pre.fd # 0) /\ (pre.closing => pre.age >= 0)

\* A valid token has its owner: the socket that is open, recorded as the
\* active client and not being closed, inside the service window and the
\* idle time; and a socket that has closed leaves nothing behind that the
\* next client would be refused for.
SessionIsOwned ==
    /\ auth.token >= 0 =>
         /\ conn # 0 /\ session.fd = conn /\ ~session.closing
         /\ window \in 0 .. Window + 1 /\ session.idle \in 0 .. Idle
    /\ conn = 0 => session = NoSession /\ pre = NoPre /\ request.age = -1

\* No socket stays open without a valid token for longer than the deadline
\* of the unauthenticated: the next poll has it closed, whatever it sends and
\* however its last session ended.
BareIsBounded == conn # 0 => bare <= PreAuth \/ "CLOSE" \in work

\* A worker whose calls return in time is never taken for a dead one.
NoFalseAlarm == down = "none"
=============================================================================
