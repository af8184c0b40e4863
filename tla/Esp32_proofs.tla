---------------------------- MODULE Esp32_proofs ----------------------------
(***************************************************************************)
(* Proofs about the applications of the ESP32 boards, for every value of   *)
(* their constants: the Diagnostic Bridge's web shell, its login on its    *)
(* own, its start and stop, the controller's command tracker, adaptive     *)
(* volume and display, and the communicator's automatic sport mode, each   *)
(* for itself and as parts of MCSpec.                                      *)
(***************************************************************************)
EXTENDS MCEsp32, WellFoundedInduction, TLAPS

Ages == Nat \cup {-1}

Auths == [open : BOOLEAN, challenge : Ages, token : Ages, failures : Nat, since : Nat,
          lock : Ages]
\* The times of the shell's login and of the login on its own.
LEMMA ShellTimes ==
  /\ ChallengeTtl \in Nat /\ TokenTtl \in Nat /\ FailureWindow \in Nat /\ Lockout \in Nat
  /\ FailureLimit \in Nat \ {0}
  BY WebInstance DEF AuthAssumption

LEMMA LoginTimes ==
  /\ LockChallenge \in Nat /\ LockToken \in Nat /\ LockWindow \in Nat /\ LockTime \in Nat
  /\ LockLimit \in Nat \ {0}
  BY LoginInstance DEF Lock!AuthAssumption


LEMMA AgeingFacts ==
  ASSUME NEW time \in Ages, NEW limit \in Nat
  PROVE  /\ Ageing(time, limit) \in Ages
         /\ time = -1 <=> Ageing(time, limit) = -1
         /\ time <= limit + 1 => Ageing(time, limit) <= limit + 1
         /\ time \in 0 .. limit => Ageing(time, limit) = time + 1
         /\ time > limit => Ageing(time, limit) = time
  BY DEF Ageing, Ages

LEMMA AgedFacts ==
  ASSUME NEW a \in Auths
  PROVE  /\ Aged(a) \in Auths
         /\ Aged(a).open = a.open /\ Aged(a).failures = a.failures
         /\ Aged(a).token = Ageing(a.token, TokenTtl)
         /\ Aged(a).lock = Ageing(a.lock, Lockout)
         /\ Aged(a).challenge = Ageing(a.challenge, ChallengeTtl)
         /\ Aged(a).since = IF a.failures = 0 THEN 0 ELSE Ageing(a.since, FailureWindow)
<1>1. /\ Ageing(a.token, TokenTtl) \in Ages /\ Ageing(a.lock, Lockout) \in Ages
      /\ Ageing(a.challenge, ChallengeTtl) \in Ages
      /\ Ageing(a.since, FailureWindow) \in Nat
  BY ShellTimes DEF Auths, Ages, Ageing
<1> QED
  BY <1>1 DEF Aged, Auths

LEMMA RefreshedFacts ==
  ASSUME NEW a \in Auths
  PROVE  /\ Refreshed(a) \in Auths
         /\ Refreshed(a).open = a.open /\ Refreshed(a).token = a.token
         /\ Refreshed(a).challenge = a.challenge
         /\ a.lock <= Lockout => Refreshed(a) = a
         /\ a.lock > Lockout => /\ Refreshed(a).lock = -1 /\ Refreshed(a).failures = 0
                                /\ Refreshed(a).since = 0
<1>1. CASE a.lock > Lockout
  <2>1. Refreshed(a) = [a EXCEPT !.lock = -1, !.failures = 0, !.since = 0]
    BY <1>1 DEF Refreshed
  <2>2. [a EXCEPT !.lock = -1, !.failures = 0, !.since = 0] \in Auths
    BY DEF Auths, Ages
  <2>3. ~(a.lock <= Lockout)
    BY <1>1, ShellTimes DEF Auths, Ages
  <2> QED
    BY <1>1, <2>1, <2>2, <2>3 DEF Auths
<1>2. CASE ~(a.lock > Lockout)
  BY <1>2 DEF Refreshed
<1> QED
  BY <1>1, <1>2

LEMMA ReconciledFacts ==
  ASSUME NEW a \in Auths
  PROVE  /\ Reconciled(a) \in Auths
         /\ Reconciled(a).open = a.open
         /\ Reconciled(a).token = IF ~a.open \/ a.token > TokenTtl THEN -1 ELSE a.token
         /\ Reconciled(a).challenge = IF a.challenge > ChallengeTtl THEN -1 ELSE a.challenge
         /\ Reconciled(a).lock = Refreshed(a).lock
         /\ Reconciled(a).failures = Refreshed(a).failures
         /\ Reconciled(a).since = Refreshed(a).since
<1>1. Refreshed(a) \in Auths /\ Refreshed(a).open = a.open /\ Refreshed(a).token = a.token
      /\ Refreshed(a).challenge = a.challenge
  BY RefreshedFacts
<1> DEFINE r == Refreshed(a)
<1>2. Reconciled(a) = [r EXCEPT !.challenge = IF @ > ChallengeTtl THEN -1 ELSE @,
                                !.token = IF ~r.open \/ @ > TokenTtl THEN -1 ELSE @]
  BY DEF Reconciled
<1> HIDE DEF r
<1>3. r \in Auths /\ r.open = a.open /\ r.token = a.token /\ r.challenge = a.challenge
  BY <1>1 DEF r
<1>4. /\ Reconciled(a) \in Auths /\ Reconciled(a).open = a.open
      /\ Reconciled(a).token = (IF ~a.open \/ a.token > TokenTtl THEN -1 ELSE a.token)
      /\ Reconciled(a).challenge = (IF a.challenge > ChallengeTtl THEN -1 ELSE a.challenge)
      /\ Reconciled(a).lock = r.lock /\ Reconciled(a).failures = r.failures
      /\ Reconciled(a).since = r.since
  BY <1>2, <1>3 DEF Auths, Ages
<1> QED
  BY <1>4 DEF r

LEMMA FailedFacts ==
  ASSUME NEW a \in Auths
  PROVE  /\ Failed(a) \in Auths
         /\ Failed(a).open = a.open /\ Failed(a).token = a.token
         /\ Failed(a).challenge = a.challenge
<1> DEFINE r == Refreshed(a)
           anew == r.failures = 0 \/ r.since > FailureWindow
           n == IF anew THEN 1 ELSE r.failures + 1
<1>1. r \in Auths /\ r.open = a.open /\ r.token = a.token /\ r.challenge = a.challenge
  BY RefreshedFacts
<1>2. Failed(a) = [r EXCEPT !.failures = n, !.since = IF anew THEN 0 ELSE @,
                            !.lock = IF n >= FailureLimit THEN 0 ELSE @]
  BY DEF Failed
<1>3. n \in Nat
  BY <1>1 DEF Auths
<1> HIDE DEF r, anew, n
<1>4. [r EXCEPT !.failures = n, !.since = IF anew THEN 0 ELSE @,
                !.lock = IF n >= FailureLimit THEN 0 ELSE @] \in Auths
  BY <1>1, <1>3 DEF Auths, Ages
<1> QED
  BY <1>1, <1>2, <1>4 DEF Auths

LEMMA LoggedOutFacts ==
  ASSUME NEW a \in Auths
  PROVE  /\ LoggedOut(a) \in Auths /\ LoggedOut(a).open = a.open
         /\ LoggedOut(a).token = -1 /\ LoggedOut(a).challenge = -1
         /\ LoggedOut(a).lock = a.lock /\ LoggedOut(a).failures = a.failures
         /\ LoggedOut(a).since = a.since
  BY DEF LoggedOut, Auths, Ages

LEMMA WindowSetFacts ==
  ASSUME NEW a \in Auths, NEW open \in BOOLEAN
  PROVE  /\ WindowSet(a, open) \in Auths /\ WindowSet(a, open).open = open
         /\ WindowSet(a, open).token = IF open THEN a.token ELSE -1
         /\ WindowSet(a, open).lock = a.lock /\ WindowSet(a, open).failures = a.failures
         /\ WindowSet(a, open).since = a.since
<1>1. LoggedOut(a) \in Auths /\ LoggedOut(a).token = -1 /\ LoggedOut(a).lock = a.lock
      /\ LoggedOut(a).failures = a.failures /\ LoggedOut(a).since = a.since
  BY LoggedOutFacts
<1> QED
  BY <1>1 DEF WindowSet, Auths, Ages

LEMMA ChallengedFacts ==
  ASSUME NEW a \in Auths, NEW ok \in BOOLEAN
  PROVE  /\ Challenged(a, ok) \in Auths /\ Challenged(a, ok).open = a.open
         /\ Challenged(a, ok).token = a.token /\ Challenged(a, ok).lock = a.lock
         /\ Challenged(a, ok).failures = a.failures /\ Challenged(a, ok).since = a.since
  BY DEF Challenged, Auths, Ages

LEMMA SessionOpenedFacts ==
  ASSUME NEW a \in Auths, NEW right \in BOOLEAN
  PROVE  LET s == SessionOpened(a, right)
         IN  /\ s.ok \in BOOLEAN /\ s.auth \in Auths /\ s.auth.open = a.open
             /\ s.ok => /\ a.open /\ s.auth.token = 0 /\ s.auth.failures = 0
                        /\ s.auth.since = 0
                        /\ Reconciled(a).lock = -1 /\ s.auth.lock = -1
                        /\ Reconciled(a).challenge >= 0
             /\ ~s.ok => s.auth = Reconciled(a) \/ s.auth = Failed(Reconciled(a))
             /\ ~s.ok => s.auth.token = Reconciled(a).token
             /\ ~s.ok /\ MayOpen(Reconciled(a)) => s.auth = Failed(Reconciled(a))
             /\ ~MayOpen(Reconciled(a)) => ~s.ok /\ s.auth = Reconciled(a)
<1> DEFINE r == Reconciled(a)
           s == SessionOpened(a, right)
<1>1. r \in Auths /\ r.open = a.open
  BY ReconciledFacts
<1>2. Failed(r) \in Auths /\ Failed(r).open = r.open /\ Failed(r).token = r.token
  BY <1>1, FailedFacts
<1>3. s = IF ~MayOpen(r) THEN [auth |-> r, ok |-> FALSE]
          ELSE IF r.challenge < 0 \/ ~right THEN [auth |-> Failed(r), ok |-> FALSE]
          ELSE [auth |-> [r EXCEPT !.challenge = -1, !.token = 0, !.failures = 0,
                                   !.since = 0], ok |-> TRUE]
  BY DEF SessionOpened
<1> HIDE DEF r, s
<1>4. [r EXCEPT !.challenge = -1, !.token = 0, !.failures = 0, !.since = 0] \in Auths
  BY <1>1 DEF Auths, Ages
<1>5. CASE ~MayOpen(r)
  BY <1>1, <1>3, <1>5 DEF r, s
<1>6. CASE MayOpen(r) /\ (r.challenge < 0 \/ ~right)
  BY <1>1, <1>2, <1>3, <1>6 DEF r, s
<1>7. CASE MayOpen(r) /\ ~(r.challenge < 0 \/ ~right)
  <2>1. s = [auth |-> [r EXCEPT !.challenge = -1, !.token = 0, !.failures = 0,
                                !.since = 0], ok |-> TRUE]
    BY <1>3, <1>7
  <2>2. r.open /\ r.lock = -1 /\ r.challenge >= 0
    BY <1>1, <1>7 DEF MayOpen, Auths, Ages
  <2>3. s.ok /\ s.auth \in Auths /\ s.auth.open = r.open /\ s.auth.token = 0
        /\ s.auth.failures = 0 /\ s.auth.since = 0 /\ s.auth.lock = r.lock
    BY <1>1, <1>4, <2>1 DEF Auths
  <2> QED
    BY <1>1, <1>7, <2>2, <2>3 DEF r, s
<1> QED
  BY <1>5, <1>6, <1>7

LEMMA CheckedFacts ==
  ASSUME NEW a \in Auths, NEW mine \in BOOLEAN
  PROVE  /\ Checked(a, mine).auth = Reconciled(a)
         /\ Checked(a, mine).ok \in BOOLEAN
         /\ Checked(a, mine).ok => Reconciled(a).token >= 0
<1>1. Reconciled(a) \in Auths
  BY ReconciledFacts
<1> QED
  BY <1>1 DEF Checked, Auths
-----------------------------------------------------------------------------
(* The web shell.                                                           *)

Sockets == Fds \cup {0}

\* A place of the worker.
IsPlace(w) == /\ w = [pc |-> w.pc, next |-> w.next, kind |-> w.kind, io |-> w.io]
              /\ w.io \in Nat

ShellTyped ==
    /\ auth \in Auths /\ down = "none"
    /\ session \in [fd : Sockets, closing : BOOLEAN, idle : Ages]
    /\ pre \in [fd : Sockets, age : Ages, closing : BOOLEAN]
    /\ request \in [fd : Sockets, age : Ages]
    /\ beat \in [pending : BOOLEAN, acked : BOOLEAN, age : Ages]
    /\ button \in Int /\ window \in Ages /\ window <= Window + 1 /\ conn \in Sockets
    /\ work \subseteq {"BEAT", "CLOSE"}
    /\ IsPlace(worker)
    /\ polled \in BOOLEAN /\ bare \in Nat

\* Every record of a client is about the socket that is open, or empty.
RecordsOfSocket ==
    /\ session.fd \in {0, conn} /\ (session.fd = 0 => session = NoSession)
    /\ session.closing => session.idle = -1 /\ "CLOSE" \in work
    /\ pre.fd \in {0, conn} /\ (pre.age = -1 => pre = NoPre)
    /\ pre.age >= 0 => pre.fd # 0
    /\ pre.closing => "CLOSE" \in work
    /\ request.age >= 0 => request.fd = conn /\ conn # 0
    /\ worker.pc # "select" => conn # 0

\* A token has its owner, inside the service window and its times; once the main
\* task has polled, all of them last for one more tick.
TokenOwned ==
    /\ auth.open <=> window >= 0
    /\ auth.token >= 0 =>
         /\ auth.open /\ conn # 0 /\ session.fd = conn /\ ~session.closing
         /\ session.idle \in 0 .. Idle
    /\ polled => /\ window <= Window
                 /\ auth.token >= 0 => session.idle < Idle /\ auth.token <= TokenTtl
                 /\ pre.age < PreAuth \/ "CLOSE" \in work

\* A heartbeat not yet acknowledged waits in the queue, for no longer than the
\* receive or send under way.
BeatAnswered ==
    /\ worker.io <= Io
    /\ beat.pending /\ ~beat.acked =>
         /\ "BEAT" \in work
         /\ beat.age \in 0 .. (IF worker.pc \in {"recv", "send"} THEN worker.io ELSE 0)

\* An open socket without a token is under the deadline of the unauthenticated,
\* is about to be put under it by the next poll, or is being closed.
BareWatched ==
    conn # 0 /\ "CLOSE" \notin work =>
      /\ auth.token >= 0 => bare = 0
      /\ auth.token = -1 /\ pre.age = -1 => ~polled /\ bare = 0 /\ session.fd = conn
      /\ pre.age >= 0 => bare <= pre.age /\ pre.age <= PreAuth

WebInv == ShellTyped /\ RecordsOfSocket /\ TokenOwned /\ BeatAnswered /\ BareWatched

LEMMA InitWebInv == WInit => WebInv
<1> SUFFICES ASSUME WInit PROVE WebInv
  OBVIOUS
<1>1. /\ auth = [open |-> FALSE, challenge |-> -1, token |-> -1, failures |-> 0,
                 since |-> 0, lock |-> -1]
      /\ session = NoSession /\ pre = NoPre /\ request = NoRequest
      /\ beat = [pending |-> TRUE, acked |-> FALSE, age |-> 0]
      /\ button = -1 /\ window = -1 /\ conn = 0 /\ work = {"BEAT"}
      /\ worker = Selecting /\ down = "none" /\ polled = FALSE /\ bare = 0
  BY DEF WInit, NewAuth
<1>2. auth \in Auths
  BY <1>1 DEF Auths, Ages
<1>3. /\ session \in [fd : Sockets, closing : BOOLEAN, idle : Ages]
      /\ pre \in [fd : Sockets, age : Ages, closing : BOOLEAN]
      /\ request \in [fd : Sockets, age : Ages]
      /\ beat \in [pending : BOOLEAN, acked : BOOLEAN, age : Ages]
  BY <1>1 DEF Sockets, Ages, NoSession, NoPre, NoRequest
<1>4. ShellTyped
  <2>1. IsPlace(worker)
    BY <1>1 DEF Selecting, IsPlace
  <2>2. button \in Int /\ window \in Ages /\ window <= Window + 1
    BY <1>1, WebAssumption DEF Ages
  <2>3. /\ conn \in Sockets /\ work \subseteq {"BEAT", "CLOSE"} /\ polled \in BOOLEAN
        /\ bare \in Nat
    BY <1>1 DEF Sockets
  <2> QED
    BY <1>1, <1>2, <1>3, <2>1, <2>2, <2>3 DEF ShellTyped
<1>5. RecordsOfSocket /\ BareWatched
  BY <1>1 DEF RecordsOfSocket, BareWatched, NoSession, NoPre, NoRequest, Selecting
<1>6. TokenOwned /\ BeatAnswered
  BY <1>1, WebAssumption DEF TokenOwned, BeatAnswered, Selecting
<1> QED
  BY <1>4, <1>5, <1>6 DEF WebInv

\* A heartbeat that was answered, or left alone.
LEMMA AcknowledgedFacts ==
  ASSUME WebInv
  PROVE  /\ Acknowledged \in [pending : BOOLEAN, acked : BOOLEAN, age : Ages]
         /\ Acknowledged.pending => Acknowledged.acked
         /\ IoAcknowledged = Acknowledged
  BY DEF Acknowledged, IoAcknowledged, WebInv, ShellTyped, Ages

\* The socket closes, and everything about it goes with it.
LEMMA CloseSessionInv ==
  ASSUME WebInv, CloseSession, conn # 0,
         UNCHANGED <<down, Timers>>, work' \in {work, work \ {"CLOSE"}},
         \/ beat' = beat /\ worker.pc \notin {"recv", "send"}
         \/ beat' = Acknowledged
  PROVE  WebInv'
<1>1. /\ pre' = Cleared(pre, conn)
      /\ request' = IF request.fd = conn THEN NoRequest ELSE request
      /\ session' = IF session.fd = conn THEN NoSession ELSE session
      /\ auth' = IF session.fd = conn THEN LoggedOut(auth) ELSE auth
      /\ conn' = 0 /\ worker' = Selecting
      /\ down' = down /\ button' = button /\ window' = window /\ polled' = polled
      /\ bare' = bare
  BY DEF CloseSession, Timers
<1>2. /\ session' = NoSession /\ pre' = NoPre /\ request'.age = -1
      /\ request' \in [fd : Sockets, age : Ages]
  <2>1. session' = NoSession
    BY <1>1 DEF WebInv, RecordsOfSocket
  <2>2. pre' = NoPre
    BY <1>1 DEF WebInv, ShellTyped, RecordsOfSocket, Cleared, Ages
  <2>3. request'.age = -1 /\ request' \in [fd : Sockets, age : Ages]
    <3>1. CASE request.fd = conn
      BY <1>1, <3>1 DEF NoRequest, Sockets, Ages
    <3>2. CASE request.fd # conn
      BY <1>1, <3>2 DEF WebInv, ShellTyped, RecordsOfSocket, Ages
    <3> QED
      BY <3>1, <3>2
  <2> QED
    BY <2>1, <2>2, <2>3
<1>3. auth' \in Auths /\ auth'.open = auth.open /\ auth'.token = -1
  <2>1. LoggedOut(auth) \in Auths /\ LoggedOut(auth).open = auth.open
        /\ LoggedOut(auth).token = -1
    BY LoggedOutFacts DEF WebInv, ShellTyped
  <2>2. session.fd # conn => auth.token = -1
    BY DEF WebInv, TokenOwned, ShellTyped, Auths, Ages
  <2> QED
    BY <1>1, <2>1, <2>2 DEF WebInv, ShellTyped
<1>4. ShellTyped'
  <2>1. IsPlace(worker')
    BY <1>1 DEF Selecting, IsPlace
  <2> QED
    BY <1>1, <1>2, <1>3, <2>1, AcknowledgedFacts
    DEF WebInv, ShellTyped, NoSession, NoPre, Sockets, Ages
<1>5. RecordsOfSocket' /\ TokenOwned' /\ BareWatched'
  BY <1>1, <1>2, <1>3, WebAssumption
  DEF WebInv, ShellTyped, RecordsOfSocket, TokenOwned, BareWatched, NoSession, NoPre, Selecting
<1>6. BeatAnswered'
  BY <1>1, AcknowledgedFacts, WebAssumption DEF WebInv, ShellTyped, BeatAnswered, Selecting
<1> QED
  BY <1>4, <1>5, <1>6 DEF WebInv

\* The worker goes on: nothing changes but its place, the login object where the
\* token stays, and the deadline of the request.
LEMMA WorkerGoesOn ==
  ASSUME WebInv, conn # 0, UNCHANGED <<session, pre, conn, work, down, Timers>>,
         auth' \in Auths, auth'.open = auth.open, auth'.token = auth.token,
         request' \in [fd : Sockets, age : Ages], request'.age >= 0 => request'.fd = conn,
         IsPlace(worker'), worker'.io = 0,
         \/ beat' = beat /\ worker.pc \notin {"recv", "send"}
         \/ beat' = Acknowledged
  PROVE  WebInv'
<1>1. /\ session' = session /\ pre' = pre /\ conn' = conn /\ work' = work /\ down' = down
      /\ button' = button /\ window' = window /\ polled' = polled /\ bare' = bare
  BY DEF Timers
<1>2. beat' \in [pending : BOOLEAN, acked : BOOLEAN, age : Ages]
      /\ BeatAnswered'
  BY <1>1, AcknowledgedFacts, WebAssumption DEF WebInv, ShellTyped, BeatAnswered
<1>3. ShellTyped'
  BY <1>1, <1>2 DEF WebInv, ShellTyped
<1>4. RecordsOfSocket'
  BY <1>1 DEF WebInv, RecordsOfSocket, NoPre, NoSession
<1>5. TokenOwned' /\ BareWatched'
  BY <1>1 DEF WebInv, TokenOwned, BareWatched
<1> QED
  BY <1>2, <1>3, <1>4, <1>5 DEF WebInv

LEMMA ArmedFacts ==
  ASSUME WebInv, NEW socket \in Sockets \ {0}
  PROVE  /\ Armed(pre, socket) \in [fd : Sockets, age : Ages, closing : BOOLEAN]
         /\ pre.age >= 0 => Armed(pre, socket) = pre
         /\ pre.age = -1 => Armed(pre, socket) = [fd |-> socket, age |-> 0, closing |-> FALSE]
         /\ Armed(pre, socket).age >= 0
<1>1. pre \in [fd : Sockets, age : Ages, closing : BOOLEAN] /\ (pre.age = -1 => pre = NoPre)
  BY DEF WebInv, ShellTyped, RecordsOfSocket
<1>2. CASE pre.age >= 0
  BY <1>1, <1>2 DEF Armed, Ages
<1>3. CASE pre.age = -1
  <2>1. pre = [fd |-> 0, age |-> -1, closing |-> FALSE]
    BY <1>1, <1>3 DEF NoPre
  <2>2. Armed(pre, socket) = [fd |-> socket, age |-> 0, closing |-> FALSE]
    BY <1>3, <2>1 DEF Armed
  <2> QED
    BY <1>3, <2>2 DEF Ages
<1> QED
  BY <1>1, <1>2, <1>3 DEF Ages

\* A handler looked at the token and found it as it was or lost it.  If it is
\* lost the main task has not polled yet, or the socket has its deadline.
LEMMA TokenCheckedInv ==
  ASSUME WebInv, conn # 0, worker.pc \notin {"recv", "send"},
         UNCHANGED <<session, request, beat, conn, work, down, Timers>>,
         auth' \in Auths, auth'.open = auth.open,
         pre' \in {pre, Armed(pre, conn)},
         \/ auth'.token = auth.token
         \/ auth'.token = -1 /\ (~polled \/ pre' = Armed(pre, conn)),
         IsPlace(worker'), worker'.io = 0
  PROVE  WebInv'
<1>1. /\ session' = session /\ request' = request /\ beat' = beat /\ conn' = conn
      /\ work' = work /\ down' = down
      /\ button' = button /\ window' = window /\ polled' = polled /\ bare' = bare
  BY DEF Timers
<1>2. /\ pre' \in [fd : Sockets, age : Ages, closing : BOOLEAN]
      /\ pre' = pre \/ (pre.age = -1 /\ pre' = [fd |-> conn, age |-> 0, closing |-> FALSE])
      /\ pre' = Armed(pre, conn) => pre'.age >= 0
  <2>1. conn \in Sockets \ {0} /\ pre \in [fd : Sockets, age : Ages, closing : BOOLEAN]
    BY DEF WebInv, ShellTyped
  <2> QED
    BY <2>1, ArmedFacts DEF Ages
<1>3. ShellTyped'
  BY <1>1, <1>2 DEF WebInv, ShellTyped
<1>4. RecordsOfSocket'
  BY <1>1, <1>2 DEF WebInv, RecordsOfSocket, NoPre, NoSession
<1>5. TokenOwned'
  BY <1>1, <1>2, WebAssumption DEF WebInv, TokenOwned
<1>6. BeatAnswered'
  BY <1>1, WebAssumption DEF WebInv, BeatAnswered
<1>7. BareWatched'
  <2> SUFFICES ASSUME "CLOSE" \notin work PROVE BareWatched'
    BY <1>1 DEF BareWatched
  <2>1. /\ auth.token >= 0 => bare = 0 /\ session.fd = conn
        /\ auth.token = -1 /\ pre.age = -1 => ~polled /\ bare = 0 /\ session.fd = conn
        /\ pre.age >= 0 => bare <= pre.age /\ pre.age <= PreAuth
        /\ auth.token \in Ages /\ auth'.token \in Ages /\ pre.age \in Ages /\ bare \in Nat
    BY DEF WebInv, BareWatched, TokenOwned, ShellTyped, Auths
  <2>2. CASE pre' = pre
    BY <1>1, <1>2, <2>1, <2>2 DEF BareWatched, Ages
  <2>3. CASE pre.age = -1 /\ pre' = [fd |-> conn, age |-> 0, closing |-> FALSE]
    BY <1>1, <2>1, <2>3, WebAssumption DEF BareWatched, Ages
  <2> QED
    BY <1>2, <2>2, <2>3
<1> QED
  BY <1>3, <1>4, <1>5, <1>6, <1>7 DEF WebInv

\* The client is recorded as the active one, with a token that is its own.
LEMMA ClientRecordedInv ==
  ASSUME WebInv, conn # 0, worker.pc \notin {"recv", "send"}, MayRecord(conn),
         UNCHANGED <<beat, conn, work, down, button, window, polled>>,
         auth' \in Auths, auth'.open = auth.open, auth.open, auth'.token \in 0 .. TokenTtl,
         request' \in {request, NoRequest},
         session' = Recorded(conn), pre' = Cleared(pre, conn),
         \/ bare' = 0
         \/ bare' = bare /\ auth.token >= 0,
         IsPlace(worker'), worker'.io = 0
  PROVE  WebInv'
<1>1. /\ beat' = beat /\ conn' = conn /\ work' = work /\ down' = down
      /\ button' = button /\ window' = window /\ polled' = polled
      /\ session' = [fd |-> conn, closing |-> FALSE, idle |-> 0]
  BY DEF Recorded
<1>2. pre' = NoPre
  BY DEF WebInv, ShellTyped, RecordsOfSocket, Cleared, Ages
<1>3. request' \in [fd : Sockets, age : Ages] /\ (request'.age >= 0 => request'.fd = conn)
  BY DEF WebInv, ShellTyped, RecordsOfSocket, NoRequest, Sockets, Ages
<1>4. bare' \in Nat /\ ("CLOSE" \notin work => bare' = 0)
  BY DEF WebInv, ShellTyped, BareWatched
<1>5. ShellTyped'
  BY <1>1, <1>2, <1>3, <1>4 DEF WebInv, ShellTyped, NoPre, Sockets, Ages
<1>6. RecordsOfSocket'
  BY <1>1, <1>2, <1>3 DEF WebInv, RecordsOfSocket, NoPre
<1>7. TokenOwned'
  BY <1>1, <1>2, WebAssumption, ShellTimes DEF WebInv, TokenOwned, NoPre
<1>8. BeatAnswered'
  BY <1>1, WebAssumption DEF WebInv, BeatAnswered
<1>9. BareWatched'
  BY <1>1, <1>2, <1>4, ShellTimes DEF BareWatched, NoPre
<1> QED
  BY <1>5, <1>6, <1>7, <1>8, <1>9 DEF WebInv

\* What a look at the login object finds.
LEMMA ReconciledInShell ==
  ASSUME WebInv
  PROVE  /\ Reconciled(auth) \in Auths /\ Reconciled(auth).open = auth.open
         /\ Reconciled(auth).token \in {auth.token, -1}
         /\ polled => Reconciled(auth).token = auth.token
         /\ Reconciled(auth).token <= TokenTtl
         /\ Reconciled(auth).token >= 0 => auth.open /\ auth.token = Reconciled(auth).token
<1>1. auth \in Auths
  BY DEF WebInv, ShellTyped
<1>2. /\ Reconciled(auth) \in Auths /\ Reconciled(auth).open = auth.open
      /\ Reconciled(auth).token = IF ~auth.open \/ auth.token > TokenTtl THEN -1 ELSE auth.token
  BY <1>1, ReconciledFacts
<1>3. /\ auth.token \in Ages /\ (auth.token >= 0 => auth.open)
      /\ (polled /\ auth.token >= 0 => auth.token <= TokenTtl)
  BY <1>1 DEF WebInv, TokenOwned, Auths
<1> QED
  BY <1>2, <1>3, ShellTimes DEF Ages

LEMMA HandlersInv ==
  ASSUME WebInv
  PROVE  /\ \A k \in Kinds : Enter(k) => WebInv'
         /\ \A good \in BOOLEAN : Login(good) \/ Logout(good) \/ Authenticated(good) => WebInv'
<1>1. auth \in Auths /\ polled \in BOOLEAN /\ (worker.pc # "select" => conn # 0)
      /\ auth.token \in Ages
  BY DEF WebInv, ShellTyped, RecordsOfSocket, Auths
<1> DEFINE r == Reconciled(auth)
<1>2. /\ r \in Auths /\ r.open = auth.open /\ r.token \in {auth.token, -1}
      /\ polled => r.token = auth.token
      /\ r.token <= TokenTtl /\ (r.token >= 0 => auth.open /\ auth.token = r.token)
  BY ReconciledInShell
<1>3. /\ Reply(TRUE) => IsPlace(worker') /\ worker'.io = 0
      /\ Reply(FALSE) => IsPlace(worker') /\ worker'.io = 0
  BY DEF Reply, IsPlace
<1> HIDE DEF r
<1>4. ASSUME NEW k \in Kinds, Enter(k) PROVE WebInv'
  <2>1. /\ worker.pc = "enter" /\ auth' = r
        /\ pre' = IF session.fd = conn /\ r.token < 0 THEN Armed(pre, conn) ELSE pre
        /\ UNCHANGED <<session, request, beat, conn, work, down, Timers>>
    BY <1>4 DEF Enter, r
  <2>2. IsPlace(worker') /\ worker'.io = 0
    <3>1. \/ Reply(TRUE)
          \/ worker' = [pc |-> "handle", next |-> "none", kind |-> k, io |-> 0]
      BY <1>4 DEF Enter, Selecting
    <3>2. ASSUME worker' = [pc |-> "handle", next |-> "none", kind |-> k, io |-> 0]
          PROVE  IsPlace(worker') /\ worker'.io = 0
      BY <3>2 DEF IsPlace
    <3> QED
      BY <1>3, <3>1, <3>2
  <2>3. auth.token >= 0 => session.fd = conn
    BY DEF WebInv, TokenOwned
  <2> QED
    BY <1>1, <1>2, <2>1, <2>2, <2>3, TokenCheckedInv DEF Ages
<1>5. ASSUME NEW mine \in BOOLEAN, Logout(mine) PROVE WebInv'
  <2>1. /\ worker.pc = "handle" /\ pre' = Armed(pre, conn) /\ Reply(FALSE)
        /\ auth' = r \/ auth' = LoggedOut(r)
        /\ UNCHANGED <<session, request, beat, conn, work, down, Timers>>
    BY <1>1, <1>5, CheckedFacts DEF Logout, r
  <2>2. LoggedOut(r) \in Auths /\ LoggedOut(r).open = r.open /\ LoggedOut(r).token = -1
    BY <1>2, LoggedOutFacts
  <2> QED
    BY <1>1, <1>2, <1>3, <2>1, <2>2, TokenCheckedInv
<1>6. ASSUME NEW mine \in BOOLEAN, Authenticated(mine) PROVE WebInv'
  <2> DEFINE c == Checked(auth, mine)
             good == c.ok /\ MayRecord(conn)
  <2>1. /\ worker.pc = "handle" /\ auth' = c.auth
        /\ session' = IF good THEN Recorded(conn) ELSE session
        /\ pre' = IF good THEN Cleared(pre, conn) ELSE Armed(pre, conn)
        /\ IF good /\ worker.kind = "LIVE"
           THEN /\ worker' = [Selecting EXCEPT !.pc = "more", !.next = "select"]
                /\ request' = NoRequest
           ELSE Reply(FALSE) /\ request' = request
        /\ UNCHANGED <<beat, conn, work, down, Timers>>
    BY <1>6 DEF Authenticated
  <2>2. c.auth = r /\ (c.ok => r.token >= 0)
    BY <1>1, CheckedFacts DEF r
  <2> HIDE DEF c
  <2>3. IsPlace(worker') /\ worker'.io = 0 /\ request' \in {request, NoRequest}
    <3>1. \/ Reply(FALSE) /\ request' = request
          \/ /\ worker' = [pc |-> "more", next |-> "select", kind |-> "none", io |-> 0]
             /\ request' = NoRequest
      BY <2>1 DEF Selecting
    <3>2. ASSUME worker' = [pc |-> "more", next |-> "select", kind |-> "none", io |-> 0]
          PROVE  IsPlace(worker') /\ worker'.io = 0
      BY <3>2 DEF IsPlace
    <3> QED
      BY <1>3, <3>1, <3>2
  <2>4. CASE good
    <3>1. r.token \in 0 .. TokenTtl /\ auth.open /\ auth.token >= 0
      BY <1>1, <1>2, <2>2, <2>4, ShellTimes DEF Ages
    <3>2. UNCHANGED <<beat, conn, work, down, button, window, polled>> /\ bare' = bare
      BY <2>1 DEF Timers
    <3> QED
      BY <1>1, <1>2, <2>1, <2>2, <2>3, <2>4, <3>1, <3>2, ClientRecordedInv
  <2>5. CASE ~good
    <3>1. UNCHANGED <<session, request, beat, conn, work, down, Timers>>
      BY <2>1, <2>5
    <3> QED
      BY <1>1, <1>2, <2>1, <2>2, <2>3, <2>5, <3>1, TokenCheckedInv
  <2> QED
    BY <2>4, <2>5
<1>7. ASSUME NEW right \in BOOLEAN, Login(right) PROVE WebInv'
  <2> DEFINE s == SessionOpened(auth, right)
  <2>1. /\ worker.pc = "login" /\ Reply(FALSE)
        /\ IF s.ok /\ MayRecord(conn)
           THEN /\ auth' = s.auth /\ session' = Recorded(conn)
                /\ pre' = Cleared(pre, conn) /\ bare' = 0
           ELSE /\ auth' = IF s.ok THEN LoggedOut(s.auth) ELSE s.auth
                /\ session' = session /\ pre' = pre /\ bare' = bare
        /\ UNCHANGED <<request, beat, conn, work, down, button, window, polled>>
    BY <1>7 DEF Login
  <2>2. /\ s.ok \in BOOLEAN /\ s.auth \in Auths /\ s.auth.open = auth.open
        /\ s.ok => auth.open /\ s.auth.token = 0
        /\ ~s.ok => s.auth.token = r.token
    BY <1>1, SessionOpenedFacts DEF r
  <2>3. LoggedOut(s.auth) \in Auths /\ LoggedOut(s.auth).open = s.auth.open
        /\ LoggedOut(s.auth).token = -1
    BY <2>2, LoggedOutFacts
  <2> HIDE DEF s
  <2>4. CASE s.ok /\ MayRecord(conn)
    <3>1. auth' = s.auth /\ session' = Recorded(conn) /\ pre' = Cleared(pre, conn) /\ bare' = 0
      BY <2>1, <2>4
    <3>2. auth' \in Auths /\ auth'.open = auth.open /\ auth.open /\ auth'.token \in 0 .. TokenTtl
      BY <2>2, <2>4, <3>1, ShellTimes
    <3> QED
      BY <1>1, <1>3, <2>1, <2>4, <3>1, <3>2, ClientRecordedInv
  <2>5. CASE ~(s.ok /\ MayRecord(conn))
    <3>1. UNCHANGED <<session, request, beat, conn, work, down, Timers>> /\ pre' = pre
      BY <2>1, <2>5 DEF Timers
    <3>2. auth' \in Auths /\ auth'.open = auth.open
      BY <2>1, <2>2, <2>3, <2>5
    <3>3. auth'.token = auth.token \/ (auth'.token = -1 /\ ~polled)
      <4>1. CASE ~s.ok
        BY <1>1, <1>2, <2>1, <2>2, <4>1
      <4>2. CASE s.ok
        <5>1. auth.token = -1
          BY <1>1, <2>5, <4>2 DEF WebInv, TokenOwned, MayRecord, Ages
        <5> QED
          BY <2>1, <2>3, <2>5, <4>2, <5>1
      <4> QED
        BY <2>2, <4>1, <4>2
    <3> QED
      BY <1>1, <1>3, <2>1, <3>1, <3>2, <3>3, TokenCheckedInv
  <2> QED
    BY <2>4, <2>5
<1> QED
  BY <1>4, <1>5, <1>6, <1>7

\* A new socket starts from nothing, with its deadline.
LEMMA AcceptInv == ASSUME WebInv, NEW s \in Fds, Accept(s) PROVE WebInv'
<1>1. conn = 0 /\ session = NoSession /\ pre = NoPre /\ request.age = -1
      /\ auth.token = -1 /\ worker.pc = "select" /\ s \in Sockets /\ s # 0
  BY WebAssumption
  DEF Accept, WebInv, ShellTyped, RecordsOfSocket, TokenOwned, Sockets, Ages, Auths
<1>2. /\ conn' = s /\ request' = [fd |-> s, age |-> -1] /\ bare' = 0
      /\ pre' = [fd |-> s, age |-> 0, closing |-> FALSE]
  BY <1>1 DEF Accept, Armed, NoPre
<1>3. /\ auth' = auth /\ session' = session /\ beat' = beat /\ button' = button
      /\ window' = window /\ work' = work /\ worker' = worker /\ down' = down
      /\ polled' = polled
  BY DEF Accept
<1>4. /\ pre' \in [fd : Sockets, age : Ages, closing : BOOLEAN]
      /\ request' \in [fd : Sockets, age : Ages]
  BY <1>1, <1>2 DEF Ages
<1>5. ShellTyped' /\ BeatAnswered'
  BY <1>1, <1>2, <1>3, <1>4 DEF WebInv, ShellTyped, BeatAnswered
<1>6. RecordsOfSocket'
  BY <1>1, <1>2, <1>3 DEF WebInv, RecordsOfSocket, NoSession
<1>7. TokenOwned' /\ BareWatched'
  BY <1>1, <1>2, <1>3, WebAssumption DEF WebInv, TokenOwned, BareWatched
<1> QED
  BY <1>5, <1>6, <1>7 DEF WebInv

\* The worker starts a receive, or finds a deadline over.
LEMMA ReceiveInv ==
  ASSUME WebInv, NEW n, Receive(n), conn # 0, worker.pc \notin {"recv", "send"},
         UNCHANGED <<beat, work, down, Timers>>
  PROVE  WebInv'
<1>1. CASE CloseSession
  BY <1>1, CloseSessionInv
<1>2. CASE Reply(FALSE) /\ UNCHANGED <<auth, session, pre, request, conn>>
  <2>1. IsPlace(worker') /\ worker'.io = 0
    BY <1>2 DEF Reply, IsPlace
  <2>2. auth \in Auths /\ request \in [fd : Sockets, age : Ages]
        /\ (request.age >= 0 => request.fd = conn)
    BY DEF WebInv, ShellTyped, RecordsOfSocket
  <2> QED
    BY <1>2, <2>1, <2>2, WorkerGoesOn
<1>3. CASE ~CloseSession /\ ~(Reply(FALSE) /\ UNCHANGED <<auth, session, pre, request, conn>>)
  <2> DEFINE r == IF request.age >= 0 THEN request ELSE [fd |-> conn, age |-> 0]
  <2>1. /\ request' = r /\ UNCHANGED <<auth, session, pre, conn>>
        /\ worker' = [pc |-> "recv", next |-> n, kind |-> "none", io |-> 0]
    BY <1>3 DEF Receive, Refused
  <2>2. /\ r \in [fd : Sockets, age : Ages] /\ (r.age >= 0 => r.fd = conn)
        /\ auth \in Auths
    BY DEF WebInv, ShellTyped, RecordsOfSocket, Ages
  <2>3. IsPlace(worker') /\ worker'.io = 0
    BY <2>1 DEF IsPlace
  <2> HIDE DEF r
  <2>4. UNCHANGED <<session, pre, conn, work, down, Timers>> /\ beat' = beat /\ auth' = auth
    BY <2>1
  <2> QED
    BY <2>1, <2>2, <2>3, <2>4, WorkerGoesOn
<1> QED
  BY <1>1, <1>2, <1>3

\* The worker's steps outside the critical sections.
LEMMA WorkerInv ==
  ASSUME WebInv
  PROVE  /\ PeerCloses \/ Readable \/ More \/ NotFound => WebInv'
         /\ Plain \/ WindowSeen \/ Leave => WebInv'
         /\ \A how : Received(how) => WebInv'
         /\ \A good \in BOOLEAN : Bootstrap(good) \/ Sent(good) => WebInv'
<1>1. /\ auth \in Auths /\ (worker.pc # "select" => conn # 0) /\ IsPlace(worker)
      /\ request \in [fd : Sockets, age : Ages] /\ (request.age >= 0 => request.fd = conn)
  BY DEF WebInv, ShellTyped, RecordsOfSocket
<1>2. /\ Reply(TRUE) => IsPlace(worker') /\ worker'.io = 0
      /\ Reply(FALSE) => IsPlace(worker') /\ worker'.io = 0
  BY DEF Reply, IsPlace
<1>3. ASSUME NEW p, Goto(p) PROVE IsPlace(worker') /\ worker'.io = 0
  BY <1>3 DEF Goto, IsPlace
<1>4. ASSUME PeerCloses PROVE WebInv'
  BY <1>4, CloseSessionInv DEF PeerCloses
<1>5. ASSUME Readable \/ More PROVE WebInv'
  BY <1>1, <1>5, ReceiveInv DEF Readable, More
<1>6. ASSUME NotFound PROVE WebInv'
  BY <1>1, <1>2, <1>6, WorkerGoesOn DEF NotFound
<1>7. ASSUME Plain PROVE WebInv'
  <2>1. CASE Reply(FALSE) /\ UNCHANGED <<auth, session, pre, request, conn>>
    BY <1>1, <1>2, <1>7, <2>1, WorkerGoesOn DEF Plain
  <2>2. CASE Receive("login")
    BY <1>1, <1>7, <2>2, ReceiveInv DEF Plain
  <2> QED
    BY <1>7, <2>1, <2>2 DEF Plain
<1>8. ASSUME Leave PROVE WebInv'
  <2>1. /\ request' = [fd |-> 0, age |-> -1]
        /\ worker' = [pc |-> "select", next |-> "none", kind |-> "none", io |-> 0]
        /\ UNCHANGED <<auth, session, pre, beat, conn, work, down, Timers>>
        /\ worker.pc = "leave"
    BY <1>8 DEF Leave, NoRequest, Selecting
  <2>2. request' \in [fd : Sockets, age : Ages] /\ ~(request'.age >= 0)
    BY <2>1 DEF Sockets, Ages
  <2>3. IsPlace(worker') /\ worker'.io = 0
    BY <2>1 DEF IsPlace
  <2> QED
    BY <1>1, <2>1, <2>2, <2>3, WorkerGoesOn
<1>9. ASSUME NEW how, Received(how) PROVE WebInv'
  <2>1. worker.pc = "recv" /\ beat' = Acknowledged /\ UNCHANGED <<work, down, Timers>>
    BY <1>9, AcknowledgedFacts DEF Received
  <2>2. CASE CloseSession
    BY <1>1, <2>1, <2>2, CloseSessionInv
  <2>3. CASE ~CloseSession
    <3>1. /\ Goto("more") \/ Goto(worker.next) \/ Reply(FALSE)
          /\ UNCHANGED <<auth, session, pre, request, conn>>
      BY <1>9, <2>3 DEF Received, Refused
    <3>2. IsPlace(worker') /\ worker'.io = 0
      BY <1>2, <1>3, <3>1
    <3> QED
      BY <1>1, <2>1, <3>1, <3>2, WorkerGoesOn
  <2> QED
    BY <2>2, <2>3
<1>10. ASSUME NEW good \in BOOLEAN, Bootstrap(good) PROVE WebInv'
  <2>1. Challenged(auth, good) \in Auths /\ Challenged(auth, good).open = auth.open
        /\ Challenged(auth, good).token = auth.token
    BY <1>1, ChallengedFacts
  <2> QED
    BY <1>1, <1>2, <1>10, <2>1, WorkerGoesOn DEF Bootstrap
<1>11. ASSUME WindowSeen PROVE WebInv'
  BY <1>1, <1>3, <1>11, WorkerGoesOn DEF WindowSeen
<1>12. ASSUME NEW good \in BOOLEAN, Sent(good) PROVE WebInv'
  <2>1. worker.pc = "send" /\ beat' = Acknowledged /\ UNCHANGED <<work, down, Timers>>
    BY <1>12, AcknowledgedFacts DEF Sent
  <2>2. CASE CloseSession
    BY <1>1, <2>1, <2>2, CloseSessionInv
  <2>3. CASE ~CloseSession
    <3>1. Goto(worker.next) /\ UNCHANGED <<auth, session, pre, request, conn>>
      BY <1>12, <2>3 DEF Sent
    <3>2. IsPlace(worker') /\ worker'.io = 0
      BY <1>3, <3>1
    <3> QED
      BY <1>1, <2>1, <3>1, <3>2, WorkerGoesOn
  <2> QED
    BY <2>2, <2>3
<1> QED
  BY <1>4, <1>5, <1>6, <1>7, <1>8, <1>9, <1>10, <1>11, <1>12

\* The work that the main task queued.
LEMMA DoWorkInv == ASSUME WebInv, NEW k \in work, DoWork(k) PROVE WebInv'
<1>1. /\ worker.pc = "select" /\ work' = work \ {k} /\ UNCHANGED <<down, Timers>>
      /\ k \in {"BEAT", "CLOSE"}
  BY DEF DoWork, WebInv, ShellTyped
<1>2. CASE k = "CLOSE" /\ conn # 0
  <2>1. CloseSession /\ beat' = beat /\ work' = work \ {"CLOSE"}
    BY <1>1, <1>2 DEF DoWork
  <2> QED
    BY <1>1, <1>2, <2>1, CloseSessionInv
<1>3. CASE ~(k = "CLOSE" /\ conn # 0)
  <2>1. /\ auth' = auth /\ session' = session /\ pre' = pre /\ request' = request
        /\ conn' = conn /\ worker' = worker /\ down' = down /\ button' = button
        /\ window' = window /\ polled' = polled /\ bare' = bare
        /\ beat' = IF k = "BEAT" THEN Acknowledged ELSE beat
    BY <1>1, <1>3 DEF DoWork, Timers
  <2>2. beat' \in [pending : BOOLEAN, acked : BOOLEAN, age : Ages]
    BY <2>1, AcknowledgedFacts DEF WebInv, ShellTyped
  <2>3. ShellTyped'
    BY <1>1, <2>1, <2>2 DEF WebInv, ShellTyped
  <2>4. k = "CLOSE" => conn = 0 /\ session = NoSession /\ pre = NoPre
    BY <1>3 DEF WebInv, ShellTyped, RecordsOfSocket, Ages
  <2>5. k = "BEAT" => ("CLOSE" \in work <=> "CLOSE" \in work')
    BY <1>1
  <2>6. RecordsOfSocket' /\ TokenOwned' /\ BareWatched'
    <3>1. CASE k = "BEAT"
      BY <2>1, <2>5, <3>1 DEF WebInv, RecordsOfSocket, TokenOwned, BareWatched, NoSession, NoPre
    <3>2. CASE k = "CLOSE"
      BY <2>1, <2>4, <3>2, WebAssumption
      DEF WebInv, RecordsOfSocket, TokenOwned, BareWatched, NoSession, NoPre
    <3> QED
      BY <1>1, <3>1, <3>2
  <2>7. BeatAnswered'
    BY <1>1, <2>1, AcknowledgedFacts DEF WebInv, BeatAnswered
  <2> QED
    BY <2>3, <2>6, <2>7 DEF WebInv
<1> QED
  BY <1>2, <1>3

\* The main task: no heartbeat is found lost, a socket that is to be closed is
\* there, and what stays unrecorded is put under its deadline.
LEMMA PollInv == ASSUME WebInv, NEW push \in BOOLEAN, Poll(push) PROVE WebInv'
<1> DEFINE r == Reconciled(auth)
           armed == IF session.fd # 0 /\ r.token < 0 THEN Armed(pre, session.fd) ELSE pre
           expired == window > Window
           ends == (expired \/ IdleExpired) /\ session.fd # 0 /\ ~session.closing
           late == ~ends /\ armed.age >= PreAuth /\ ~armed.closing
           opened == IF Opening(push) THEN WindowSet(r, TRUE) ELSE r
           bounded == IF expired THEN WindowSet(opened, FALSE) ELSE opened
           socket == IF ends THEN session.fd ELSE armed.fd
           gone == (ends \/ late) /\ conn # socket
<1>1. /\ auth \in Auths /\ auth.token \in Ages /\ conn \in Sockets
      /\ pre \in [fd : Sockets, age : Ages, closing : BOOLEAN]
      /\ session \in [fd : Sockets, closing : BOOLEAN, idle : Ages]
      /\ session.fd \in {0, conn} /\ pre.fd \in {0, conn} /\ (pre.age >= 0 => pre.fd # 0)
      /\ (pre.age = -1 => pre = NoPre) /\ (pre.closing => "CLOSE" \in work)
      /\ window \in Ages /\ worker.io \in Nat
  BY DEF WebInv, ShellTyped, RecordsOfSocket, Auths, IsPlace
<1>2. /\ r \in Auths /\ r.open = auth.open /\ r.token \in {auth.token, -1}
      /\ r.token <= TokenTtl /\ r.token \in Ages
      /\ r.token >= 0 => auth.open /\ auth.token = r.token
  BY <1>1, ReconciledInShell DEF Ages
<1>3. ~BeatLost
  <2>1. SUFFICES ASSUME BeatLost PROVE FALSE
    OBVIOUS
  <2>2. beat.pending /\ ~beat.acked /\ beat.age >= Heartbeat
    BY <2>1 DEF BeatLost, Settled, WebInv, ShellTyped
  <2> QED
    BY <2>2, <1>1, WebAssumption DEF WebInv, BeatAnswered
<1>4. /\ armed \in [fd : Sockets, age : Ages, closing : BOOLEAN]
      /\ \/ armed = pre /\ ~(session.fd # 0 /\ r.token < 0 /\ pre.age = -1)
         \/ /\ armed = [fd |-> conn, age |-> 0, closing |-> FALSE] /\ pre.age = -1
            /\ session.fd = conn /\ conn # 0
  <2>1. CASE session.fd # 0 /\ r.token < 0
    <3>1. session.fd \in Sockets \ {0} /\ session.fd = conn
      BY <1>1, <2>1
    <3> QED
      BY <1>1, <2>1, <3>1, ArmedFacts DEF Ages
  <2>2. CASE ~(session.fd # 0 /\ r.token < 0)
    BY <1>1, <2>2
  <2> QED
    BY <2>1, <2>2
<1>5. ~gone
  <2>1. ends => socket = conn
    BY <1>1
  <2>2. late => socket = conn
    BY <1>1, <1>4, WebAssumption DEF Ages
  <2> QED
    BY <2>1, <2>2
<1>6. /\ polled' = TRUE /\ beat' = Beating
      /\ auth' = IF ends THEN LoggedOut(bounded) ELSE bounded
      /\ window' = IF expired THEN -1 ELSE IF Opening(push) THEN 0 ELSE window
      /\ button' = ButtonAfter(push, expired)
      /\ session' = IF ends THEN Closing(session) ELSE session
      /\ pre' = IF late THEN [armed EXCEPT !.closing = TRUE] ELSE armed
      /\ work' = work \cup (IF Settled.pending THEN {} ELSE {"BEAT"})
                   \cup (IF ends \/ late THEN {"CLOSE"} ELSE {})
      /\ request' = request /\ conn' = conn /\ worker' = worker /\ down' = down
      /\ bare' = bare
  BY <1>3, <1>5 DEF Poll
<1>7. /\ bounded \in Auths
      /\ bounded.token = IF expired THEN -1 ELSE r.token
      /\ bounded.open <=> window' >= 0
  <2>1. /\ opened \in Auths /\ opened.token = r.token
        /\ opened.open <=> Opening(push) \/ auth.open
    BY <1>2, WindowSetFacts
  <2> HIDE DEF opened
  <2>2. CASE expired
    <3>1. WindowSet(opened, FALSE) \in Auths /\ WindowSet(opened, FALSE).open = FALSE
          /\ WindowSet(opened, FALSE).token = -1
      BY <2>1, WindowSetFacts
    <3>2. bounded = WindowSet(opened, FALSE) /\ window' = -1
      BY <1>6, <2>2
    <3> HIDE DEF bounded
    <3>3. ~bounded.open /\ ~(window' >= 0)
      <4>1. ~bounded.open
        BY <3>1, <3>2, Zenon
      <4>2. ~(window' >= 0)
        BY <3>2
      <4> QED
        BY <4>1, <4>2
    <3>4. bounded \in Auths /\ bounded.token = -1
      BY <3>1, <3>2
    <3> QED
      BY <2>2, <3>3, <3>4
  <2>3. CASE ~expired
    BY <1>1, <1>6, <2>1, <2>3 DEF WebInv, TokenOwned, Ages
  <2> QED
    BY <2>2, <2>3
<1>8. /\ auth' \in Auths /\ (auth'.open <=> window' >= 0)
      /\ auth'.token = IF ends \/ expired THEN -1 ELSE r.token
  <2>1. /\ LoggedOut(bounded) \in Auths /\ LoggedOut(bounded).open = bounded.open
        /\ LoggedOut(bounded).token = -1
    BY <1>7, LoggedOutFacts
  <2> HIDE DEF bounded
  <2> QED
    BY <1>6, <1>7, <2>1
<1> HIDE DEF r, bounded, opened, gone, socket
<1>9. ends => /\ session'.closing /\ session'.idle = -1 /\ session'.fd = session.fd
              /\ session' \in [fd : Sockets, closing : BOOLEAN, idle : Ages]
  BY <1>1, <1>6 DEF Closing, Ages
<1>10. /\ pre' \in [fd : Sockets, age : Ages, closing : BOOLEAN]
       /\ pre'.age = armed.age /\ pre'.fd = armed.fd
       /\ pre'.closing <=> late \/ armed.closing
       /\ ~late => pre' = armed
  BY <1>4, <1>6
<1>11. /\ "CLOSE" \in work' <=> "CLOSE" \in work \/ ends \/ late
       /\ work' \subseteq {"BEAT", "CLOSE"}
       /\ "BEAT" \in work => "BEAT" \in work'
       /\ ~Settled.pending => "BEAT" \in work'
  BY <1>6 DEF WebInv, ShellTyped
<1>12. BeatAnswered' /\ beat' \in [pending : BOOLEAN, acked : BOOLEAN, age : Ages]
  <2>1. beat \in [pending : BOOLEAN, acked : BOOLEAN, age : Ages]
    BY DEF WebInv, ShellTyped
  <2>2. CASE Settled.pending
    <3>1. beat' = beat
      BY <1>6, <2>1, <2>2 DEF Beating, Settled
    <3> QED
      BY <1>6, <1>11, <2>1, <3>1 DEF WebInv, BeatAnswered
  <2>3. CASE ~Settled.pending
    <3>1. beat' = [pending |-> TRUE, acked |-> FALSE, age |-> 0]
      BY <1>6, <2>3 DEF Beating
    <3>2. worker.io <= Io
      BY DEF WebInv, BeatAnswered
    <3> QED
      BY <1>1, <1>6, <1>11, <2>3, <3>1, <3>2 DEF BeatAnswered, Ages
  <2> QED
    BY <2>2, <2>3
<1>13. ShellTyped'
  <2>1. button' \in Int
    <3>1. button \in Int
      BY DEF WebInv, ShellTyped
    <3> HIDE DEF expired
    <3>2. ButtonAfter(push, expired) \in {-1, -2, 0, button}
      BY DEF ButtonAfter
    <3> QED
      BY <1>6, <3>1, <3>2
  <2>2. window' \in Ages /\ window' <= Window + 1
    BY <1>6, WebAssumption DEF WebInv, ShellTyped, Ages
  <2>3. session' \in [fd : Sockets, closing : BOOLEAN, idle : Ages]
    BY <1>1, <1>6, <1>9
  <2> QED
    BY <1>6, <1>8, <1>10, <1>11, <1>12, <2>1, <2>2, <2>3 DEF WebInv, ShellTyped
<1>14. RecordsOfSocket'
  <2>1. /\ session'.fd \in {0, conn'} /\ (session'.fd = 0 => session' = NoSession)
        /\ session'.closing => session'.idle = -1 /\ "CLOSE" \in work'
    BY <1>6, <1>9, <1>11 DEF WebInv, RecordsOfSocket
  <2>2. /\ pre'.fd \in {0, conn'} /\ (pre'.age >= 0 => pre'.fd # 0)
        /\ pre'.closing => "CLOSE" \in work'
    BY <1>1, <1>4, <1>6, <1>10, <1>11
  <2>3. pre'.age = -1 => pre' = NoPre
    BY <1>1, <1>4, <1>10, WebAssumption
  <2> QED
    BY <1>6, <2>1, <2>2, <2>3 DEF WebInv, RecordsOfSocket
<1>15. TokenOwned'
  <2>1. ASSUME auth'.token >= 0
        PROVE  /\ ~ends /\ ~expired /\ r.token >= 0 /\ session' = session /\ auth'.open
               /\ conn # 0 /\ session.fd = conn /\ ~session.closing
               /\ session.idle \in 0 .. Idle /\ session.idle < Idle
    <3>1. ~ends /\ ~expired /\ r.token >= 0 /\ session' = session
      BY <1>6, <1>8, <2>1
    <3>2. auth.open /\ auth.token >= 0
      BY <1>2, <3>1
    <3>3. /\ conn # 0 /\ session.fd = conn /\ ~session.closing
          /\ session.idle \in 0 .. Idle /\ window >= 0
      BY <3>2 DEF WebInv, TokenOwned
    <3>4. ~IdleExpired
      BY <3>1, <3>3
    <3>5. auth'.open
      BY <1>1, <1>6, <1>8, <3>1, <3>3
    <3> QED
      BY <3>1, <3>3, <3>4, <3>5, WebAssumption DEF IdleExpired
  <2>2. window' <= Window
    BY <1>1, <1>6, WebAssumption DEF Ages
  <2>3. pre'.age < PreAuth \/ "CLOSE" \in work'
    BY <1>1, <1>4, <1>10, <1>11, WebAssumption DEF Ages
  <2> QED
    BY <1>2, <1>6, <1>8, <2>1, <2>2, <2>3 DEF TokenOwned
<1>16. BareWatched'
  <2> SUFFICES ASSUME conn # 0, "CLOSE" \notin work' PROVE BareWatched'
    BY <1>6 DEF BareWatched
  <2>1. ~ends /\ ~late /\ "CLOSE" \notin work /\ pre' = armed /\ bare' = bare /\ bare \in Nat
    BY <1>6, <1>10, <1>11 DEF WebInv, ShellTyped
  <2>2. /\ auth.token >= 0 => bare = 0 /\ session.fd = conn /\ ~session.closing
        /\ auth.token = -1 /\ pre.age = -1 => bare = 0 /\ session.fd = conn
        /\ pre.age >= 0 => bare <= pre.age /\ pre.age <= PreAuth
    BY <2>1 DEF WebInv, BareWatched, TokenOwned
  <2>3. auth'.token >= 0 => bare = 0
    BY <1>2, <1>8, <2>1, <2>2
  <2>4. ~(auth'.token = -1 /\ pre'.age = -1)
    <3> SUFFICES ASSUME auth'.token = -1, pre'.age = -1 PROVE FALSE
      OBVIOUS
    <3>1. armed = pre /\ pre.age = -1 /\ ~(session.fd # 0 /\ r.token < 0)
      BY <1>4, <2>1
    <3>2. session.fd = conn
      BY <1>1, <2>2, <3>1 DEF Ages
    <3>3. r.token >= 0
      BY <1>2, <3>1, <3>2 DEF Ages
    <3>4. expired /\ ~session.closing
      BY <1>2, <1>8, <2>1, <2>2, <3>3
    <3> QED
      BY <2>1, <3>2, <3>4
  <2>5. pre'.age >= 0 => bare <= pre'.age /\ pre'.age <= PreAuth
    <3>1. CASE armed = pre
      BY <2>1, <2>2, <3>1
    <3>2. CASE armed # pre
      BY <1>1, <1>4, <2>1, <2>2, <3>2, WebAssumption DEF Ages
    <3> QED
      BY <3>1, <3>2
  <2> QED
    BY <1>6, <2>1, <2>3, <2>4, <2>5 DEF BareWatched
<1> QED
  BY <1>12, <1>13, <1>14, <1>15, <1>16 DEF WebInv

\* A tick of the clock that all of them read.
LEMMA TickInv == ASSUME WebInv, WTick PROVE WebInv'
<1>1. /\ auth \in Auths /\ auth.token \in Ages /\ conn \in Sockets
      /\ pre \in [fd : Sockets, age : Ages, closing : BOOLEAN]
      /\ session \in [fd : Sockets, closing : BOOLEAN, idle : Ages]
      /\ request \in [fd : Sockets, age : Ages]
      /\ beat \in [pending : BOOLEAN, acked : BOOLEAN, age : Ages]
      /\ button \in Int /\ window \in Ages /\ bare \in Nat
      /\ IsPlace(worker) /\ worker.io \in Nat /\ worker.io <= Io
      /\ polled /\ polled' = FALSE
  BY DEF WebInv, ShellTyped, BeatAnswered, Auths, IsPlace, WTick
<1>2. /\ conn' = conn /\ work' = work /\ down' = down
      /\ worker.pc \in {"select", "recv", "send"}
      /\ worker.pc # "select" => worker.io < Io
      /\ worker.pc = "select" => work = {}
      /\ worker' = [worker EXCEPT !.io = IF worker.pc = "select" THEN 0 ELSE worker.io + 1]
      /\ auth' = Aged(auth)
      /\ session' = [session EXCEPT !.idle = Ageing(session.idle, Idle)]
      /\ pre' = [pre EXCEPT !.age = Ageing(pre.age, PreAuth)]
      /\ request' = [request EXCEPT !.age = Ageing(request.age, Request)]
      /\ beat' = [beat EXCEPT !.age = IF beat.acked THEN 0 ELSE Ageing(beat.age, Heartbeat)]
      /\ button' = IF button < 0 THEN button ELSE Ageing(button, Hold)
      /\ window' = Ageing(window, Window)
      /\ bare' = IF conn = 0 \/ auth.token >= 0 THEN 0 ELSE Ageing(bare, PreAuth + 1)
  BY DEF WTick
<1>3. /\ auth' \in Auths /\ auth'.open = auth.open /\ auth'.token = Ageing(auth.token, TokenTtl)
      /\ auth'.token \in Ages /\ (auth.token = -1 <=> auth'.token = -1)
  <2>1. /\ Aged(auth) \in Auths /\ Aged(auth).open = auth.open
        /\ Aged(auth).token = Ageing(auth.token, TokenTtl)
    BY <1>1, AgedFacts
  <2>2. /\ Ageing(auth.token, TokenTtl) \in Ages
        /\ auth.token = -1 <=> Ageing(auth.token, TokenTtl) = -1
    BY <1>1, AgeingFacts, ShellTimes
  <2> QED
    BY <1>2, <2>1, <2>2
<1>4. /\ session' \in [fd : Sockets, closing : BOOLEAN, idle : Ages]
      /\ session'.fd = session.fd /\ (session'.closing <=> session.closing)
      /\ session'.idle = Ageing(session.idle, Idle)
      /\ session = NoSession => session' = NoSession
  <2>1. Ageing(session.idle, Idle) \in Ages
    BY <1>1, AgeingFacts, WebAssumption
  <2>2. session = NoSession => session' = NoSession
    BY <1>2 DEF NoSession, Ageing
  <2> QED
    BY <1>1, <1>2, <2>1, <2>2
<1>5. /\ pre' \in [fd : Sockets, age : Ages, closing : BOOLEAN]
      /\ pre'.fd = pre.fd /\ (pre'.closing <=> pre.closing)
      /\ pre'.age = Ageing(pre.age, PreAuth)
      /\ pre = NoPre => pre' = NoPre
  <2>1. Ageing(pre.age, PreAuth) \in Ages
    BY <1>1, AgeingFacts, WebAssumption
  <2>2. pre = NoPre => pre' = NoPre
    BY <1>2 DEF NoPre, Ageing
  <2> QED
    BY <1>1, <1>2, <2>1, <2>2
<1>6. /\ request' \in [fd : Sockets, age : Ages]
      /\ request'.fd = request.fd /\ (request'.age >= 0 => request.age >= 0)
  <2>1. /\ Ageing(request.age, Request) \in Ages
        /\ request.age = -1 <=> Ageing(request.age, Request) = -1
    BY <1>1, AgeingFacts, WebAssumption
  <2> QED
    BY <1>1, <1>2, <2>1 DEF Ages
<1>7. /\ beat' \in [pending : BOOLEAN, acked : BOOLEAN, age : Ages]
      /\ (beat'.pending <=> beat.pending) /\ (beat'.acked <=> beat.acked)
      /\ beat'.age = IF beat.acked THEN 0 ELSE Ageing(beat.age, Heartbeat)
  <2>1. Ageing(beat.age, Heartbeat) \in Ages
    BY <1>1, AgeingFacts, WebAssumption
  <2>2. (IF beat.acked THEN 0 ELSE Ageing(beat.age, Heartbeat)) \in Ages
    BY <2>1 DEF Ages
  <2> QED
    BY <1>1, <1>2, <2>2
<1>8. /\ IsPlace(worker') /\ worker'.pc = worker.pc
      /\ worker'.io = IF worker.pc = "select" THEN 0 ELSE worker.io + 1
  <2> DEFINE io == IF worker.pc = "select" THEN 0 ELSE worker.io + 1
  <2>1. io \in Nat
    BY <1>1
  <2> HIDE DEF io
  <2>2. worker' = [pc |-> worker.pc, next |-> worker.next, kind |-> worker.kind, io |-> io]
    BY <1>1, <1>2 DEF IsPlace, io
  <2>3. IsPlace(worker') /\ worker'.pc = worker.pc /\ worker'.io = io
    BY <2>1, <2>2 DEF IsPlace
  <2> QED
    BY <2>3 DEF io
<1>9. ShellTyped'
  <2>1. window' \in Ages /\ window' <= Window + 1
    BY <1>1, <1>2, AgeingFacts, WebAssumption DEF WebInv, ShellTyped
  <2>2. button' \in Int
    BY <1>1, <1>2 DEF Ageing
  <2>3. bare' \in Nat
    BY <1>1, <1>2, WebAssumption DEF Ageing
  <2> QED
    BY <1>1, <1>2, <1>3, <1>4, <1>5, <1>6, <1>7, <1>8, <2>1, <2>2, <2>3
    DEF WebInv, ShellTyped
<1>10. RecordsOfSocket'
  <2>1. session'.closing => session'.idle = -1
    BY <1>4 DEF WebInv, RecordsOfSocket, Ageing
  <2>2. /\ pre'.age = -1 => pre' = NoPre
        /\ pre'.age >= 0 => pre.age >= 0
    <3>1. pre.age \in Ages /\ (pre.age = -1 => pre = NoPre)
      BY <1>1 DEF WebInv, RecordsOfSocket
    <3>2. pre.age = -1 <=> Ageing(pre.age, PreAuth) = -1
      BY <3>1, AgeingFacts, WebAssumption
    <3> QED
      BY <1>5, <3>1, <3>2 DEF Ages
  <2> QED
    BY <1>2, <1>4, <1>5, <1>6, <1>8, <2>1, <2>2 DEF WebInv, RecordsOfSocket
<1>11. TokenOwned'
  <2>1. auth.open <=> window' >= 0
    BY <1>1, <1>2, AgeingFacts, WebAssumption DEF WebInv, TokenOwned, Ages
  <2>2. ASSUME auth'.token >= 0
        PROVE  /\ auth.open /\ conn # 0 /\ session.fd = conn /\ ~session.closing
               /\ session'.idle \in 0 .. Idle
    <3>1. auth.token >= 0
      BY <1>1, <1>3, <2>2 DEF Ages
    <3>2. /\ auth.open /\ conn # 0 /\ session.fd = conn /\ ~session.closing
          /\ session.idle \in 0 .. Idle /\ session.idle < Idle
      BY <1>1, <3>1 DEF WebInv, TokenOwned
    <3> QED
      BY <1>4, <3>2, WebAssumption DEF Ageing
  <2> QED
    BY <1>1, <1>2, <1>3, <1>4, <2>1, <2>2 DEF TokenOwned
<1>12. BeatAnswered'
  <2>1. worker'.io <= Io
    BY <1>1, <1>2, <1>8, WebAssumption
  <2>2. ASSUME beat'.pending, ~beat'.acked
        PROVE  /\ "BEAT" \in work
               /\ beat'.age \in 0 .. (IF worker'.pc \in {"recv", "send"} THEN worker'.io ELSE 0)
    <3>1. /\ "BEAT" \in work
          /\ beat.age \in 0 .. (IF worker.pc \in {"recv", "send"} THEN worker.io ELSE 0)
      BY <1>7, <2>2 DEF WebInv, BeatAnswered
    <3>2. worker.pc \in {"recv", "send"}
      BY <1>2, <3>1
    <3>3. beat.age \in 0 .. worker.io /\ beat.age < Heartbeat
      BY <1>1, <3>1, <3>2, WebAssumption
    <3>4. beat'.age = beat.age + 1
      BY <1>1, <1>7, <2>2, <3>3, WebAssumption DEF Ageing
    <3> QED
      BY <1>1, <1>8, <3>1, <3>2, <3>3, <3>4
  <2> QED
    BY <1>2, <2>1, <2>2 DEF BeatAnswered
<1>13. BareWatched'
  <2> SUFFICES ASSUME conn # 0, "CLOSE" \notin work PROVE BareWatched'
    BY <1>2 DEF BareWatched
  <2>1. auth'.token >= 0 => bare' = 0
    BY <1>1, <1>2, <1>3 DEF Ages
  <2>2. auth'.token = -1 => pre.age # -1
    BY <1>1, <1>3 DEF WebInv, BareWatched
  <2>3. pre.age = -1 <=> pre'.age = -1
    BY <1>1, <1>5, AgeingFacts, WebAssumption
  <2>4. ASSUME pre'.age >= 0 PROVE bare' <= pre'.age /\ pre'.age <= PreAuth
    <3>1. pre.age >= 0 /\ pre.age < PreAuth
      BY <1>1, <2>3, <2>4 DEF WebInv, TokenOwned, Ages
    <3>2. bare <= pre.age
      BY <3>1 DEF WebInv, BareWatched
    <3>3. pre'.age = pre.age + 1
      <4>1. pre.age \in Ages /\ pre.age \in 0 .. PreAuth
        BY <1>1, <3>1, WebAssumption DEF Ages
      <4> QED
        BY <1>5, <4>1, AgeingFacts, WebAssumption
    <3>4. bare' <= bare + 1
      BY <1>1, <1>2, WebAssumption DEF Ageing
    <3> QED
      BY <1>1, <3>1, <3>2, <3>3, <3>4, <1>9, WebAssumption DEF Ages, ShellTyped
  <2> QED
    BY <1>2, <2>1, <2>2, <2>3, <2>4 DEF BareWatched
<1> QED
  BY <1>9, <1>10, <1>11, <1>12, <1>13 DEF WebInv

LEMMA NextWebInv == WebInv /\ [WNext]_<<wvars, wrong, lockedFor>> => WebInv'
<1> SUFFICES ASSUME WebInv, [WNext]_<<wvars, wrong, lockedFor>> PROVE WebInv'
  OBVIOUS
<1>1. CASE WNext
  <2>1. ~Restart
    BY DEF Restart, WebInv, ShellTyped
  <2>2. CASE Worker
    BY <2>2, AcceptInv, WorkerInv, DoWorkInv, HandlersInv DEF Worker
  <2>3. CASE WTick
    BY <2>3, TickInv
  <2>4. ASSUME NEW push \in BOOLEAN, Poll(push) PROVE WebInv'
    BY <2>4, PollInv
  <2> QED
    BY <1>1, <2>1, <2>2, <2>3, <2>4 DEF WNext
<1>2. CASE UNCHANGED <<wvars, wrong, lockedFor>>
  BY <1>2 DEF wvars, WebInv, ShellTyped, RecordsOfSocket, TokenOwned, BeatAnswered, BareWatched,
              IsPlace, Settled
<1> QED
  BY <1>1, <1>2

LEMMA WebInvHolds == WSpec => []WebInv
  BY InitWebInv, NextWebInv, PTL DEF WSpec

\* A valid token always has its owner, and a socket that closed left nothing
\* behind: whatever the worker and the main task do between each other's
\* critical sections.
THEOREM SessionStaysOwned == WSpec => [](WTypeOK /\ SessionIsOwned)
<1>1. WebInv => WTypeOK /\ SessionIsOwned
  <2> SUFFICES ASSUME WebInv PROVE WTypeOK /\ SessionIsOwned
    OBVIOUS
  <2>1. WTypeOK
    BY DEF WebInv, ShellTyped, RecordsOfSocket, WTypeOK, Sockets, Ages, NoSession, NoPre
  <2>2. auth.token >= 0 =>
          /\ conn # 0 /\ session.fd = conn /\ ~session.closing
          /\ window \in 0 .. Window + 1 /\ session.idle \in 0 .. Idle
    BY WebAssumption DEF WebInv, ShellTyped, TokenOwned, Ages
  <2>3. conn = 0 => session = NoSession /\ pre = NoPre /\ request.age = -1
    BY DEF WebInv, ShellTyped, RecordsOfSocket, Ages
  <2> QED
    BY <2>1, <2>2, <2>3 DEF SessionIsOwned
<1> QED
  BY <1>1, WebInvHolds, PTL

\* No socket stays open without a valid token past the deadline of the
\* unauthenticated, however its last session ended.
THEOREM BareStaysBounded == WSpec => []BareIsBounded
<1>1. WebInv => BareIsBounded
  BY WebAssumption DEF WebInv, ShellTyped, Auths, Ages, BareWatched, BareIsBounded
<1> QED
  BY <1>1, WebInvHolds, PTL

\* A worker whose receives and sends return in time always acknowledges its
\* heartbeat before the main task takes it for dead.
THEOREM NoWorkerTakenForDead == WSpec => []NoFalseAlarm
<1>1. WebInv => NoFalseAlarm
  BY DEF WebInv, ShellTyped, NoFalseAlarm
<1> QED
  BY <1>1, WebInvHolds, PTL

\* The web shell is the part of MCSpec that moves while `part` is "web".
LEMMA WebOfBoth == MCSpec => WSpec
<1>1. MCInit => WInit
  BY DEF MCInit
<1>2. [MCNext]_<<part, webVars, otherVars>> => [WNext]_<<wvars, wrong, lockedFor>>
  BY DEF MCNext, webVars
<1> QED
  BY <1>1, <1>2, PTL DEF MCSpec, WSpec


-----------------------------------------------------------------------------
(* The login object on its own.                                            *)

LEMMA LockAgeingFacts ==
  ASSUME NEW time \in Ages, NEW limit \in Nat
  PROVE  /\ Lock!Ageing(time, limit) \in Ages
         /\ time = -1 <=> Lock!Ageing(time, limit) = -1
         /\ time <= limit + 1 => Lock!Ageing(time, limit) <= limit + 1
         /\ time \in 0 .. limit => Lock!Ageing(time, limit) = time + 1
         /\ time > limit => Lock!Ageing(time, limit) = time
  BY DEF Lock!Ageing, Ages

LEMMA LockAgedFacts ==
  ASSUME NEW a \in Auths
  PROVE  /\ Lock!Aged(a) \in Auths
         /\ Lock!Aged(a).open = a.open /\ Lock!Aged(a).failures = a.failures
         /\ Lock!Aged(a).token = Lock!Ageing(a.token, LockToken)
         /\ Lock!Aged(a).lock = Lock!Ageing(a.lock, LockTime)
         /\ Lock!Aged(a).challenge = Lock!Ageing(a.challenge, LockChallenge)
         /\ Lock!Aged(a).since = IF a.failures = 0 THEN 0 ELSE Lock!Ageing(a.since, LockWindow)
<1>1. /\ Lock!Ageing(a.token, LockToken) \in Ages /\ Lock!Ageing(a.lock, LockTime) \in Ages
      /\ Lock!Ageing(a.challenge, LockChallenge) \in Ages
      /\ Lock!Ageing(a.since, LockWindow) \in Nat
  BY LoginTimes DEF Auths, Ages, Lock!Ageing
<1> QED
  BY <1>1 DEF Lock!Aged, Auths

LEMMA LockRefreshedFacts ==
  ASSUME NEW a \in Auths
  PROVE  /\ Lock!Refreshed(a) \in Auths
         /\ Lock!Refreshed(a).open = a.open /\ Lock!Refreshed(a).token = a.token
         /\ Lock!Refreshed(a).challenge = a.challenge
         /\ a.lock <= LockTime => Lock!Refreshed(a) = a
         /\ a.lock > LockTime => /\ Lock!Refreshed(a).lock = -1 /\ Lock!Refreshed(a).failures = 0
                                 /\ Lock!Refreshed(a).since = 0
<1>1. CASE a.lock > LockTime
  <2>1. Lock!Refreshed(a) = [a EXCEPT !.lock = -1, !.failures = 0, !.since = 0]
    BY <1>1 DEF Lock!Refreshed
  <2>2. [a EXCEPT !.lock = -1, !.failures = 0, !.since = 0] \in Auths
    BY DEF Auths, Ages
  <2>3. ~(a.lock <= LockTime)
    BY <1>1, LoginTimes DEF Auths, Ages
  <2> QED
    BY <1>1, <2>1, <2>2, <2>3 DEF Auths
<1>2. CASE ~(a.lock > LockTime)
  BY <1>2 DEF Lock!Refreshed
<1> QED
  BY <1>1, <1>2

LEMMA LockReconciledFacts ==
  ASSUME NEW a \in Auths
  PROVE  /\ Lock!Reconciled(a) \in Auths
         /\ Lock!Reconciled(a).open = a.open
         /\ Lock!Reconciled(a).token = IF ~a.open \/ a.token > LockToken THEN -1 ELSE a.token
         /\ Lock!Reconciled(a).challenge = IF a.challenge > LockChallenge THEN -1 ELSE a.challenge
         /\ Lock!Reconciled(a).lock = Lock!Refreshed(a).lock
         /\ Lock!Reconciled(a).failures = Lock!Refreshed(a).failures
         /\ Lock!Reconciled(a).since = Lock!Refreshed(a).since
<1>1. Lock!Refreshed(a) \in Auths /\ Lock!Refreshed(a).open = a.open /\ Lock!Refreshed(a).token = a.token
      /\ Lock!Refreshed(a).challenge = a.challenge
  BY LockRefreshedFacts
<1> DEFINE r == Lock!Refreshed(a)
<1>2. Lock!Reconciled(a) = [r EXCEPT !.challenge = IF @ > LockChallenge THEN -1 ELSE @,
                                     !.token = IF ~r.open \/ @ > LockToken THEN -1 ELSE @]
  BY DEF Lock!Reconciled
<1> HIDE DEF r
<1>3. r \in Auths /\ r.open = a.open /\ r.token = a.token /\ r.challenge = a.challenge
  BY <1>1 DEF r
<1>4. /\ Lock!Reconciled(a) \in Auths /\ Lock!Reconciled(a).open = a.open
      /\ Lock!Reconciled(a).token = (IF ~a.open \/ a.token > LockToken THEN -1 ELSE a.token)
      /\ Lock!Reconciled(a).challenge = (IF a.challenge > LockChallenge THEN -1 ELSE a.challenge)
      /\ Lock!Reconciled(a).lock = r.lock /\ Lock!Reconciled(a).failures = r.failures
      /\ Lock!Reconciled(a).since = r.since
  BY <1>2, <1>3 DEF Auths, Ages
<1> QED
  BY <1>4 DEF r

LEMMA LockFailedFacts ==
  ASSUME NEW a \in Auths
  PROVE  /\ Lock!Failed(a) \in Auths
         /\ Lock!Failed(a).open = a.open /\ Lock!Failed(a).token = a.token
         /\ Lock!Failed(a).challenge = a.challenge
<1> DEFINE r == Lock!Refreshed(a)
           anew == r.failures = 0 \/ r.since > LockWindow
           n == IF anew THEN 1 ELSE r.failures + 1
<1>1. r \in Auths /\ r.open = a.open /\ r.token = a.token /\ r.challenge = a.challenge
  BY LockRefreshedFacts
<1>2. Lock!Failed(a) = [r EXCEPT !.failures = n, !.since = IF anew THEN 0 ELSE @,
                                 !.lock = IF n >= LockLimit THEN 0 ELSE @]
  BY DEF Lock!Failed
<1>3. n \in Nat
  BY <1>1 DEF Auths
<1> HIDE DEF r, anew, n
<1>4. [r EXCEPT !.failures = n, !.since = IF anew THEN 0 ELSE @,
                !.lock = IF n >= LockLimit THEN 0 ELSE @] \in Auths
  BY <1>1, <1>3 DEF Auths, Ages
<1> QED
  BY <1>1, <1>2, <1>4 DEF Auths

LEMMA LockLoggedOutFacts ==
  ASSUME NEW a \in Auths
  PROVE  /\ Lock!LoggedOut(a) \in Auths /\ Lock!LoggedOut(a).open = a.open
         /\ Lock!LoggedOut(a).token = -1 /\ Lock!LoggedOut(a).challenge = -1
         /\ Lock!LoggedOut(a).lock = a.lock /\ Lock!LoggedOut(a).failures = a.failures
         /\ Lock!LoggedOut(a).since = a.since
  BY DEF Lock!LoggedOut, Auths, Ages

LEMMA LockWindowSetFacts ==
  ASSUME NEW a \in Auths, NEW open \in BOOLEAN
  PROVE  /\ Lock!WindowSet(a, open) \in Auths /\ Lock!WindowSet(a, open).open = open
         /\ Lock!WindowSet(a, open).token = IF open THEN a.token ELSE -1
         /\ Lock!WindowSet(a, open).lock = a.lock /\ Lock!WindowSet(a, open).failures = a.failures
         /\ Lock!WindowSet(a, open).since = a.since
<1>1. Lock!LoggedOut(a) \in Auths /\ Lock!LoggedOut(a).token = -1 /\ Lock!LoggedOut(a).lock = a.lock
      /\ Lock!LoggedOut(a).failures = a.failures /\ Lock!LoggedOut(a).since = a.since
  BY LockLoggedOutFacts
<1> QED
  BY <1>1 DEF Lock!WindowSet, Auths, Ages

LEMMA LockChallengedFacts ==
  ASSUME NEW a \in Auths, NEW ok \in BOOLEAN
  PROVE  /\ Lock!Challenged(a, ok) \in Auths /\ Lock!Challenged(a, ok).open = a.open
         /\ Lock!Challenged(a, ok).token = a.token /\ Lock!Challenged(a, ok).lock = a.lock
         /\ Lock!Challenged(a, ok).failures = a.failures /\ Lock!Challenged(a, ok).since = a.since
  BY DEF Lock!Challenged, Auths, Ages

LEMMA LockSessionOpenedFacts ==
  ASSUME NEW a \in Auths, NEW right \in BOOLEAN
  PROVE  LET s == Lock!SessionOpened(a, right)
         IN  /\ s.ok \in BOOLEAN /\ s.auth \in Auths /\ s.auth.open = a.open
             /\ s.ok => /\ a.open /\ s.auth.token = 0 /\ s.auth.failures = 0
                        /\ s.auth.since = 0
                        /\ Lock!Reconciled(a).lock = -1 /\ s.auth.lock = -1
                        /\ Lock!Reconciled(a).challenge >= 0
             /\ ~s.ok => s.auth = Lock!Reconciled(a) \/ s.auth = Lock!Failed(Lock!Reconciled(a))
             /\ ~s.ok => s.auth.token = Lock!Reconciled(a).token
             /\ ~s.ok /\ Lock!MayOpen(Lock!Reconciled(a)) => s.auth = Lock!Failed(Lock!Reconciled(a))
             /\ ~Lock!MayOpen(Lock!Reconciled(a)) => ~s.ok /\ s.auth = Lock!Reconciled(a)
<1> DEFINE r == Lock!Reconciled(a)
           s == Lock!SessionOpened(a, right)
<1>1. r \in Auths /\ r.open = a.open
  BY LockReconciledFacts
<1>2. Lock!Failed(r) \in Auths /\ Lock!Failed(r).open = r.open /\ Lock!Failed(r).token = r.token
  BY <1>1, LockFailedFacts
<1>3. s = IF ~Lock!MayOpen(r) THEN [auth |-> r, ok |-> FALSE]
          ELSE IF r.challenge < 0 \/ ~right THEN [auth |-> Lock!Failed(r), ok |-> FALSE]
          ELSE [auth |-> [r EXCEPT !.challenge = -1, !.token = 0, !.failures = 0,
                                   !.since = 0], ok |-> TRUE]
  BY DEF Lock!SessionOpened
<1> HIDE DEF r, s
<1>4. [r EXCEPT !.challenge = -1, !.token = 0, !.failures = 0, !.since = 0] \in Auths
  BY <1>1 DEF Auths, Ages
<1>5. CASE ~Lock!MayOpen(r)
  BY <1>1, <1>3, <1>5 DEF r, s
<1>6. CASE Lock!MayOpen(r) /\ (r.challenge < 0 \/ ~right)
  BY <1>1, <1>2, <1>3, <1>6 DEF r, s
<1>7. CASE Lock!MayOpen(r) /\ ~(r.challenge < 0 \/ ~right)
  <2>1. s = [auth |-> [r EXCEPT !.challenge = -1, !.token = 0, !.failures = 0,
                                !.since = 0], ok |-> TRUE]
    BY <1>3, <1>7
  <2>2. r.open /\ r.lock = -1 /\ r.challenge >= 0
    BY <1>1, <1>7 DEF Lock!MayOpen, Auths, Ages
  <2>3. s.ok /\ s.auth \in Auths /\ s.auth.open = r.open /\ s.auth.token = 0
        /\ s.auth.failures = 0 /\ s.auth.since = 0 /\ s.auth.lock = r.lock
    BY <1>1, <1>4, <2>1 DEF Auths
  <2> QED
    BY <1>1, <1>7, <2>2, <2>3 DEF r, s
<1> QED
  BY <1>5, <1>6, <1>7

LEMMA LockCheckedFacts ==
  ASSUME NEW a \in Auths, NEW mine \in BOOLEAN
  PROVE  /\ Lock!Checked(a, mine).auth = Lock!Reconciled(a)
         /\ Lock!Checked(a, mine).ok \in BOOLEAN
         /\ Lock!Checked(a, mine).ok => Lock!Reconciled(a).token >= 0
<1>1. Lock!Reconciled(a) \in Auths
  BY LockReconciledFacts
<1> QED
  BY <1>1 DEF Lock!Checked, Auths

\* No more failures than the limit leaves while the login is not locked; the
\* object and the history agree on the lock-out.
LockInv ==
    /\ login \in Auths /\ locked \in Ages
    /\ login.lock >= 0 => login.lock = locked
    /\ locked \in 0 .. LockTime => login.lock = locked
    /\ login.lock = -1 => login.failures < LockLimit

\* The failed attempts, oldest first: first k that are older than the window that
\* is counted, then at most those that are counted in it.  The first that is
\* counted is as old as the window, so it is forgotten before the next window
\* starts, and k stays two below the limit.
Split(k, failures, since) ==
    /\ k = 0 \/ k <= LockLimit - 2
    /\ Len(wrongTries) - k <= failures
    /\ \A i \in 1 .. k : wrongTries[i] >= since
    /\ Len(wrongTries) - k = failures /\ failures # 0 => wrongTries[k + 1] >= since

WrongInv ==
    /\ wrongTries \in Seq(Nat) /\ \A i \in 1 .. Len(wrongTries) : wrongTries[i] <= LockWindow
    /\ \A i, j \in 1 .. Len(wrongTries) : i <= j => wrongTries[i] >= wrongTries[j]
    /\ login.failures = 0 \/ login.lock >= 0 => wrongTries = <<>>
    /\ \E k \in 0 .. Len(wrongTries) : Split(k, login.failures, login.since)

AuthInv == LockInv /\ WrongInv

\* A call that touches neither the lock-out nor the count.
LEMMA CallInv ==
  ASSUME AuthInv, NEW a, Lock!Call(a), a \in Auths,
         \/ a.lock = login.lock /\ a.failures = login.failures /\ a.since = login.since
         \/ a.lock = Lock!Refreshed(login).lock /\ a.failures = Lock!Refreshed(login).failures
            /\ a.since = Lock!Refreshed(login).since
  PROVE  AuthInv'
<1>1. login' = a /\ wrongTries' = wrongTries /\ locked' = locked
  BY DEF Lock!Call
<1>2. CASE a.lock = login.lock /\ a.failures = login.failures /\ a.since = login.since
  BY <1>1, <1>2 DEF AuthInv, LockInv, WrongInv, Split
<1>3. CASE /\ login.lock > LockTime
           /\ a.lock = Lock!Refreshed(login).lock /\ a.failures = Lock!Refreshed(login).failures
           /\ a.since = Lock!Refreshed(login).since
  <2>1. a.lock = -1 /\ a.failures = 0 /\ a.since = 0
    BY <1>3, LockRefreshedFacts DEF AuthInv, LockInv
  <2>2. LockInv'
    BY <1>1, <1>3, <2>1, LoginTimes DEF AuthInv, LockInv, Auths, Ages
  <2>3. wrongTries = <<>>
    BY <1>3, LoginTimes DEF AuthInv, LockInv, WrongInv, Auths, Ages
  <2>4. WrongInv'
    BY <1>1, <2>1, <2>3, LoginTimes DEF WrongInv, Split
  <2> QED
    BY <2>2, <2>4 DEF AuthInv
<1>4. login.lock > LockTime \/ Lock!Refreshed(login) = login
  BY LockRefreshedFacts, LoginTimes DEF AuthInv, LockInv, Auths, Ages
<1> QED
  BY <1>2, <1>3, <1>4

LEMMA AttemptInv ==
  ASSUME AuthInv, NEW right \in BOOLEAN, Lock!Attempt(right)
  PROVE  AuthInv'
<1> DEFINE r == Lock!Reconciled(login)
           s == Lock!SessionOpened(login, right)
           locks == s.auth.lock = 0 /\ r.lock < 0
<1>1. /\ login' = s.auth
      /\ wrongTries' = (IF s.ok \/ locks THEN <<>>
                   ELSE IF ~Lock!MayOpen(r) THEN wrongTries ELSE Append(wrongTries, 0))
      /\ locked' = IF locks THEN 0 ELSE locked
  BY DEF Lock!Attempt
<1>2. /\ login \in Auths /\ r \in Auths /\ r.open = login.open /\ r.lock = Lock!Refreshed(login).lock
      /\ r.failures = Lock!Refreshed(login).failures /\ r.since = Lock!Refreshed(login).since
  BY LockReconciledFacts DEF AuthInv, LockInv
<1>3. /\ s.ok \in BOOLEAN /\ s.auth \in Auths
      /\ s.ok => s.auth.failures = 0 /\ s.auth.since = 0 /\ r.lock = -1 /\ s.auth.lock = -1
      /\ ~s.ok /\ Lock!MayOpen(r) => s.auth = Lock!Failed(r)
      /\ ~Lock!MayOpen(r) => ~s.ok /\ s.auth = r
  BY <1>2, LockSessionOpenedFacts
\* The login object before the attempt is judged: what is left of a lock-out.
<1>4. /\ r.lock >= 0 => r.lock = locked
      /\ locked \in 0 .. LockTime => r.lock = locked
      /\ r.lock = -1 => r.failures < LockLimit
      /\ r.failures = 0 \/ r.lock >= 0 => wrongTries = <<>>
      /\ \E k \in 0 .. Len(wrongTries) : Split(k, r.failures, r.since)
  <2>1. CASE login.lock > LockTime
    <3>1. r.lock = -1 /\ r.failures = 0 /\ r.since = 0
      BY <1>2, <2>1, LockRefreshedFacts
    <3>2. wrongTries = <<>> /\ locked = login.lock
      BY <1>2, <2>1, LoginTimes DEF AuthInv, LockInv, WrongInv, Auths, Ages
    <3> QED
      BY <1>2, <2>1, <3>1, <3>2, LoginTimes DEF Auths, Ages, Split
  <2>2. CASE ~(login.lock > LockTime)
    <3>1. r.lock = login.lock /\ r.failures = login.failures /\ r.since = login.since
      BY <1>2, <2>2, LockRefreshedFacts, LoginTimes DEF Auths, Ages
    <3> QED
      BY <3>1 DEF AuthInv, LockInv, WrongInv
  <2> QED
    BY <2>1, <2>2
<1>5. /\ wrongTries \in Seq(Nat) /\ Len(wrongTries) \in Nat
      /\ \A i \in 1 .. Len(wrongTries) : wrongTries[i] \in Nat /\ wrongTries[i] <= LockWindow
      /\ \A i, j \in 1 .. Len(wrongTries) : i <= j => wrongTries[i] >= wrongTries[j]
      /\ locked \in Ages
  BY DEF AuthInv, LockInv, WrongInv
<1> HIDE DEF r, s
<1>6. CASE ~Lock!MayOpen(r)
  <2>1. login' = r /\ wrongTries' = wrongTries /\ locked' = locked
    BY <1>1, <1>2, <1>3, <1>6 DEF Auths, Ages
  <2> QED
    BY <1>2, <1>4, <1>5, <2>1 DEF AuthInv, LockInv, WrongInv, Split
<1>7. CASE Lock!MayOpen(r) /\ s.ok
  <2>1. login' = s.auth /\ wrongTries' = <<>> /\ locked' = locked /\ r.lock = -1
    BY <1>1, <1>3, <1>7
  <2>2. login'.lock = -1 /\ login'.failures = 0 /\ login' \in Auths
    BY <1>3, <1>7, <2>1
  <2>3. locked \notin 0 .. LockTime
    BY <1>4, <2>1
  <2>4. LockInv'
    BY <1>5, <2>1, <2>2, <2>3, LoginTimes DEF LockInv
  <2>5. WrongInv'
    BY <2>1, <2>2, LoginTimes DEF WrongInv, Split
  <2> QED
    BY <2>4, <2>5 DEF AuthInv
<1>8. CASE Lock!MayOpen(r) /\ ~s.ok
  <2> DEFINE anew == r.failures = 0 \/ r.since > LockWindow
             n == IF anew THEN 1 ELSE r.failures + 1
  <2>1. r.lock = -1
    BY <1>2, <1>8 DEF Lock!MayOpen, Auths, Ages
  <2>2. Lock!Refreshed(r) = r
    BY <1>2, <2>1, LockRefreshedFacts, LoginTimes
  <2>3. login' = [r EXCEPT !.failures = n, !.since = IF anew THEN 0 ELSE @,
                          !.lock = IF n >= LockLimit THEN 0 ELSE @]
    BY <1>1, <1>3, <1>8, <2>2 DEF Lock!Failed
  <2>4. n \in Nat \ {0}
    BY <1>2 DEF Auths
  <2>5. /\ login' \in Auths /\ login'.failures = n
        /\ login'.since = (IF anew THEN 0 ELSE r.since)
        /\ login'.lock = (IF n >= LockLimit THEN 0 ELSE -1)
    BY <1>2, <2>1, <2>3, <2>4 DEF Auths, Ages
  <2>6. login' = s.auth
    BY <1>1
  <2>7. CASE n >= LockLimit
    <3>1. wrongTries' = <<>> /\ locked' = 0 /\ login'.lock = 0
      BY <1>1, <2>1, <2>5, <2>6, <2>7
    <3>2. LockInv'
      BY <2>5, <3>1, LoginTimes DEF LockInv, Ages
    <3>3. WrongInv'
      BY <2>4, <2>5, <3>1, LoginTimes DEF WrongInv, Split
    <3> QED
      BY <3>2, <3>3 DEF AuthInv
  <2>8. CASE ~(n >= LockLimit)
    <3>1. wrongTries' = Append(wrongTries, 0) /\ locked' = locked /\ login'.lock = -1
      BY <1>1, <1>8, <2>1, <2>5, <2>6, <2>8
    <3>2. LockInv'
      <4>1. locked \notin 0 .. LockTime
        BY <1>4, <2>1, LoginTimes
      <4>2. login'.failures < LockLimit
        BY <2>4, <2>5, <2>8, LoginTimes
      <4> QED
        BY <1>5, <2>5, <3>1, <4>1, <4>2 DEF LockInv
    <3>3. /\ wrongTries' \in Seq(Nat) /\ Len(wrongTries') = Len(wrongTries) + 1
          /\ \A i \in 1 .. Len(wrongTries) : wrongTries'[i] = wrongTries[i]
          /\ wrongTries'[Len(wrongTries) + 1] = 0 /\ wrongTries' # <<>>
      BY <1>5, <3>1
    <3>4. /\ \A i \in 1 .. Len(wrongTries') : wrongTries'[i] <= LockWindow
          /\ \A i, j \in 1 .. Len(wrongTries') : i <= j => wrongTries'[i] >= wrongTries'[j]
      <4>1. \A i \in 1 .. Len(wrongTries') : i \in 1 .. Len(wrongTries) \/ i = Len(wrongTries) + 1
        BY <1>5, <3>3
      <4>2. ASSUME NEW i \in 1 .. Len(wrongTries')
            PROVE  wrongTries'[i] \in Nat /\ wrongTries'[i] <= LockWindow
        <5>1. CASE i \in 1 .. Len(wrongTries)
          <6>1. wrongTries'[i] = wrongTries[i]
            BY <3>3, <5>1
          <6> QED
            BY <1>5, <5>1, <6>1
        <5>2. CASE i = Len(wrongTries) + 1
          BY <3>3, <5>2, LoginTimes
        <5> QED
          BY <4>1, <5>1, <5>2
      <4>3. ASSUME NEW i \in 1 .. Len(wrongTries'), NEW j \in 1 .. Len(wrongTries'), i <= j
            PROVE  wrongTries'[i] >= wrongTries'[j]
        <5>1. CASE j = Len(wrongTries) + 1
          BY <3>3, <4>2, <5>1
        <5>2. CASE i \in 1 .. Len(wrongTries) /\ j \in 1 .. Len(wrongTries)
          BY <1>5, <3>3, <4>3, <5>2
        <5> QED
          BY <1>5, <3>3, <4>1, <4>3, <5>1, <5>2
      <4> QED
        BY <4>2, <4>3
    <3>5. \E k \in 0 .. Len(wrongTries') :
             /\ k = 0 \/ k <= LockLimit - 2
             /\ Len(wrongTries') - k <= login'.failures
             /\ \A i \in 1 .. k : wrongTries'[i] >= login'.since
             /\ Len(wrongTries') - k = login'.failures /\ login'.failures # 0
                  => wrongTries'[k + 1] >= login'.since
      <4>1. PICK k \in 0 .. Len(wrongTries) :
               /\ k = 0 \/ k <= LockLimit - 2
               /\ Len(wrongTries) - k <= r.failures
               /\ \A i \in 1 .. k : wrongTries[i] >= r.since
               /\ Len(wrongTries) - k = r.failures /\ r.failures # 0 => wrongTries[k + 1] >= r.since
        BY <1>4 DEF Split
      <4>2. Len(wrongTries) \in Nat /\ r.since \in Nat /\ r.failures \in Nat
        BY <1>2, <1>5 DEF Auths
      <4>3. CASE ~anew
        <5>1. login'.failures = r.failures + 1 /\ login'.since = r.since
          BY <2>5, <4>3
        <5>2. k \in 0 .. Len(wrongTries') /\ Len(wrongTries') - k <= login'.failures
          BY <3>3, <4>1, <4>2, <5>1
        <5>3. ASSUME NEW i \in 1 .. k PROVE wrongTries'[i] >= login'.since
          <6>1. i \in 1 .. Len(wrongTries)
            BY <4>2
          <6>2. wrongTries'[i] = wrongTries[i] /\ wrongTries[i] >= r.since
            BY <3>3, <4>1, <6>1
          <6> QED
            BY <5>1, <6>2
        <5>4. ASSUME Len(wrongTries') - k = login'.failures
              PROVE  wrongTries'[k + 1] >= login'.since
          <6>1. Len(wrongTries) - k = r.failures /\ r.failures # 0 /\ k + 1 \in 1 .. Len(wrongTries)
            <7>1. r.failures # 0
              BY <4>3
            <7>2. Len(wrongTries) + 1 - k = r.failures + 1
              BY <3>3, <5>1, <5>4
            <7> QED
              BY <4>2, <7>1, <7>2
          <6>2. wrongTries'[k + 1] = wrongTries[k + 1] /\ wrongTries[k + 1] >= r.since
            BY <3>3, <4>1, <6>1
          <6> QED
            BY <5>1, <6>2
        <5> QED
          BY <4>1, <5>2, <5>3, <5>4
      <4>4. CASE anew
        \* Nothing is left of the window before, or it becomes the older part.
        <5>1. Len(wrongTries) = 0 \/ Len(wrongTries) <= LockLimit - 2
          <6>1. CASE r.failures = 0
            BY <1>4, <6>1
          <6>2. CASE r.since > LockWindow
            <7>1. k = 0
              <8>1. SUFFICES ASSUME k # 0 PROVE FALSE
                OBVIOUS
              <8>2. 1 \in 1 .. k /\ 1 \in 1 .. Len(wrongTries)
                BY <4>2, <8>1
              <8>3. wrongTries[1] \in Nat /\ wrongTries[1] <= LockWindow /\ wrongTries[1] >= r.since
                BY <1>5, <4>1, <8>2
              <8> QED
                BY <4>2, <6>2, <8>3, LoginTimes
            <7>2. ~(Len(wrongTries) = r.failures /\ r.failures # 0)
              <8>1. SUFFICES ASSUME Len(wrongTries) = r.failures, r.failures # 0 PROVE FALSE
                OBVIOUS
              <8>2. 1 \in 1 .. Len(wrongTries) /\ wrongTries[1] >= r.since
                BY <4>1, <4>2, <7>1, <8>1
              <8>3. wrongTries[1] \in Nat /\ wrongTries[1] <= LockWindow
                BY <1>5, <8>2
              <8> QED
                BY <4>2, <6>2, <8>2, <8>3, LoginTimes
            <7> QED
              BY <1>4, <2>1, <4>1, <4>2, <7>1, <7>2, LoginTimes
          <6> QED
            BY <4>4, <6>1, <6>2
        <5>2. Len(wrongTries) \in 0 .. Len(wrongTries')
          BY <3>3, <4>2
        <5>3. Len(wrongTries') - Len(wrongTries) <= login'.failures
          BY <2>5, <3>3, <4>2, <4>4
        <5>4. \A i \in 1 .. Len(wrongTries) : wrongTries'[i] >= login'.since
          BY <1>5, <2>5, <3>3, <4>4, LoginTimes
        <5>5. wrongTries'[Len(wrongTries) + 1] >= login'.since
          BY <2>5, <3>3, <4>4
        <5> QED
          BY <5>1, <5>2, <5>3, <5>4, <5>5
      <4> QED
        BY <4>3, <4>4
    <3>6. WrongInv'
      <4>1. \E k \in 0 .. Len(wrongTries') : Split(k, login.failures, login.since)'
        BY <3>5 DEF Split
      <4> QED
        BY <2>4, <2>5, <3>1, <3>3, <3>4, <4>1 DEF WrongInv
    <3> QED
      BY <3>2, <3>6 DEF AuthInv
  <2> QED
    BY <2>7, <2>8
<1> QED
  BY <1>3, <1>6, <1>7, <1>8

LEMMA LockTickInv == ASSUME AuthInv, Lock!Tick PROVE AuthInv'
<1>1. login' = Lock!Aged(login) /\ locked' = Lock!Ageing(locked, LockTime)
  BY DEF Lock!Tick
<1>2. PICK n \in 0 .. Len(wrongTries) :
         /\ \A i \in 1 .. Len(wrongTries) : i <= n <=> wrongTries[i] >= LockWindow
         /\ wrongTries' = [i \in 1 .. Len(wrongTries) - n |-> wrongTries[i + n] + 1]
  BY DEF Lock!Tick
<1>3. /\ login \in Auths /\ login' \in Auths /\ login'.failures = login.failures
      /\ login'.lock = Lock!Ageing(login.lock, LockTime)
      /\ login'.since = IF login.failures = 0 THEN 0 ELSE Lock!Ageing(login.since, LockWindow)
  BY <1>1, LockAgedFacts DEF AuthInv, LockInv
<1>4. LockInv'
  BY <1>1, <1>3, LoginTimes DEF AuthInv, LockInv, Lock!Ageing, Auths, Ages
<1>5. /\ wrongTries \in Seq(Nat) /\ Len(wrongTries) \in Nat
      /\ \A i \in 1 .. Len(wrongTries) : wrongTries[i] \in Nat /\ wrongTries[i] <= LockWindow
  BY DEF AuthInv, WrongInv
<1>6. /\ \A i \in 1 .. Len(wrongTries) - n : wrongTries[i + n] \in Nat /\ wrongTries[i + n] + 1 <= LockWindow
      /\ Len(wrongTries) - n \in Nat
  <2>1. Len(wrongTries) - n \in Nat
    BY <1>5
  <2>2. ASSUME NEW i \in 1 .. Len(wrongTries) - n PROVE wrongTries[i + n] \in Nat /\ wrongTries[i + n] + 1 <= LockWindow
    <3>1. i + n \in 1 .. Len(wrongTries) /\ ~(i + n <= n)
      BY <1>5
    <3>2. wrongTries[i + n] \in Nat /\ ~(wrongTries[i + n] >= LockWindow)
      BY <1>2, <1>5, <3>1
    <3> QED
      BY <3>2, LoginTimes
  <2> QED
    BY <2>1, <2>2
<1>7. /\ wrongTries' \in Seq(Nat) /\ Len(wrongTries') = Len(wrongTries) - n
      /\ \A i \in 1 .. Len(wrongTries') : /\ wrongTries'[i] = wrongTries[i + n] + 1
                                          /\ i + n \in 1 .. Len(wrongTries)
                                          /\ wrongTries'[i] <= LockWindow
  <2> DEFINE m == Len(wrongTries) - n
  <2>0. m \in Nat /\ \A i \in 1 .. m : wrongTries[i + n] + 1 \in Nat
    <3>1. ASSUME NEW i \in 1 .. m PROVE wrongTries[i + n] + 1 \in Nat
      <4>1. wrongTries[i + n] \in Nat
        BY <1>6
      <4> QED
        BY <4>1
    <3> QED
      BY <1>6, <3>1
  <2>1. wrongTries' \in Seq(Nat) /\ Len(wrongTries') = Len(wrongTries) - n
    <3>1. wrongTries' = [i \in 1 .. m |-> wrongTries[i + n] + 1]
      BY <1>2
    <3> HIDE DEF m
    <3>2. wrongTries' \in [1 .. m -> Nat]
      BY <2>0, <3>1
    <3>3. wrongTries' \in Seq(Nat) /\ Len(wrongTries') = m
      BY <2>0, <3>2
    <3> QED
      BY <3>3 DEF m
  <2>2. ASSUME NEW i \in 1 .. Len(wrongTries')
        PROVE  /\ wrongTries'[i] = wrongTries[i + n] + 1 /\ i + n \in 1 .. Len(wrongTries)
               /\ wrongTries'[i] <= LockWindow
    <3>1. i \in 1 .. Len(wrongTries) - n
      BY <2>1
    <3>2. wrongTries'[i] = wrongTries[i + n] + 1
      BY <1>2, <3>1
    <3>3. wrongTries[i + n] + 1 <= LockWindow
      BY <1>6, <3>1
    <3>4. i + n \in 1 .. Len(wrongTries)
      BY <1>5, <3>1
    <3> QED
      BY <3>2, <3>3, <3>4
  <2> QED
    BY <2>1, <2>2
<1>8. \A i, j \in 1 .. Len(wrongTries') : i <= j => wrongTries'[i] >= wrongTries'[j]
  <2> SUFFICES ASSUME NEW i \in 1 .. Len(wrongTries'), NEW j \in 1 .. Len(wrongTries'), i <= j
               PROVE  wrongTries'[i] >= wrongTries'[j]
    OBVIOUS
  <2>1. /\ i + n \in 1 .. Len(wrongTries) /\ j + n \in 1 .. Len(wrongTries) /\ i + n <= j + n
        /\ wrongTries'[i] = wrongTries[i + n] + 1 /\ wrongTries'[j] = wrongTries[j + n] + 1
    BY <1>5, <1>7, SMTT(30)
  <2>2. wrongTries[i + n] >= wrongTries[j + n]
    BY <2>1 DEF AuthInv, WrongInv
  <2>3. wrongTries[i + n] \in Nat /\ wrongTries[j + n] \in Nat
    BY <1>5, <2>1
  <2> QED
    BY <2>1, <2>2, <2>3, LoginTimes
<1>9. login'.failures = 0 \/ login'.lock >= 0 => wrongTries' = <<>>
  <2>1. login'.failures = 0 \/ login'.lock >= 0 => login.failures = 0 \/ login.lock >= 0
    BY <1>3, LoginTimes DEF Auths, Ages, Lock!Ageing
  <2>2. wrongTries = <<>> => wrongTries' = <<>>
    BY <1>2, <1>7
  <2> QED
    BY <2>1, <2>2 DEF AuthInv, WrongInv
<1>10. \E k \in 0 .. Len(wrongTries') : Split(k, login.failures, login.since)'
  <2>1. PICK k \in 0 .. Len(wrongTries) :
           /\ k = 0 \/ k <= LockLimit - 2
           /\ Len(wrongTries) - k <= login.failures
           /\ \A i \in 1 .. k : wrongTries[i] >= login.since
           /\ Len(wrongTries) - k = login.failures /\ login.failures # 0
                => wrongTries[k + 1] >= login.since
    BY DEF AuthInv, WrongInv, Split
  <2> DEFINE m == IF k <= n THEN 0 ELSE k - n
  <2>2. /\ m \in 0 .. Len(wrongTries') /\ (m = 0 \/ m <= LockLimit - 2)
        /\ Len(wrongTries') - m <= login'.failures
        /\ Len(wrongTries') - m = login'.failures
             => Len(wrongTries) - k = login.failures /\ (login'.failures # 0 => m + n = k)
    <3>1. /\ login.failures \in Nat /\ login'.failures = login.failures
          /\ Len(wrongTries) \in Nat /\ n \in 0 .. Len(wrongTries) /\ Len(wrongTries') = Len(wrongTries) - n
          /\ LockLimit \in Nat
      BY <1>3, <1>5, <1>7, LoginTimes DEF Auths
    <3>2. CASE k <= n
      BY <2>1, <3>1, <3>2
    <3>3. CASE k > n
      BY <2>1, <3>1, <3>3
    <3> QED
      BY <2>1, <3>2, <3>3
  \* Those that stay grow older with the window.
  <2>3. ASSUME NEW i \in 1 .. Len(wrongTries'), wrongTries[i + n] >= login.since
        PROVE  wrongTries'[i] >= login'.since
    <3>1. wrongTries'[i] = wrongTries[i + n] + 1 /\ wrongTries[i + n] \in Nat
      BY <1>5, <1>7, <2>3
    <3> QED
      BY <1>3, <2>3, <3>1, LoginTimes DEF Lock!Ageing, Auths
  <2>4. ASSUME NEW i \in 1 .. m PROVE wrongTries'[i] >= login'.since
    <3>1. i \in 1 .. Len(wrongTries') /\ i + n \in 1 .. k
      BY <1>5, <1>7, <2>1, <2>2
    <3>2. wrongTries[i + n] >= login.since
      BY <2>1, <3>1
    <3> QED
      BY <2>3, <3>1, <3>2
  <2>5. ASSUME Len(wrongTries') - m = login'.failures, login'.failures # 0
        PROVE  wrongTries'[m + 1] >= login'.since
    <3>1. wrongTries[k + 1] >= login.since
      BY <1>3, <2>1, <2>2, <2>5
    <3>2. m + 1 \in 1 .. Len(wrongTries') /\ (m + 1) + n = k + 1
      <4>1. /\ login'.failures \in Nat \ {0} /\ Len(wrongTries') \in Nat /\ m \in Nat /\ m + n = k
        BY <1>3, <1>5, <1>7, <2>2, <2>5 DEF Auths
      <4> HIDE DEF m
      <4> QED
        BY <2>5, <4>1
    <3> QED
      BY <2>3, <3>1, <3>2
  <2> HIDE DEF m
  <2> QED
    BY <2>2, <2>4, <2>5 DEF Split
<1> QED
  BY <1>4, <1>7, <1>8, <1>9, <1>10 DEF AuthInv, WrongInv

LEMMA InitAuthInv == Lock!Init => AuthInv
<1> SUFFICES ASSUME Lock!Init PROVE AuthInv
  OBVIOUS
<1>1. login = Lock!NewAuth /\ wrongTries = <<>> /\ locked = -1
  BY DEF Lock!Init
<1>2. LockInv
  BY <1>1, LoginTimes DEF LockInv, Lock!NewAuth, Auths, Ages
<1>3. WrongInv
  BY <1>1, LoginTimes DEF WrongInv, Split, Lock!NewAuth
<1> QED
  BY <1>2, <1>3 DEF AuthInv

LEMMA NextAuthInv == AuthInv /\ [Lock!Next]_(Lock!vars) => AuthInv'
<1> SUFFICES ASSUME AuthInv, [Lock!Next]_(Lock!vars) PROVE AuthInv'
  OBVIOUS
<1>0. login \in Auths
  BY DEF AuthInv, LockInv
<1>1. ASSUME NEW ok \in BOOLEAN, Lock!Call(Lock!Challenged(login, ok)) PROVE AuthInv'
  BY <1>0, <1>1, CallInv, LockChallengedFacts
<1>2. ASSUME NEW open \in BOOLEAN, Lock!Call(Lock!WindowSet(login, open)) PROVE AuthInv'
  BY <1>0, <1>2, CallInv, LockWindowSetFacts
<1>3. ASSUME NEW right \in BOOLEAN, Lock!Call(Lock!Checked(login, right).auth) PROVE AuthInv'
  BY <1>0, <1>3, CallInv, LockCheckedFacts, LockReconciledFacts
<1>4. CASE Lock!Call(Lock!LoggedOut(login))
  BY <1>0, <1>4, CallInv, LockLoggedOutFacts
<1>5. CASE Lock!Call(Lock!Refreshed(login))
  BY <1>0, <1>5, CallInv, LockRefreshedFacts
<1>6. CASE Lock!Call(Lock!Reconciled(login))
  BY <1>0, <1>6, CallInv, LockReconciledFacts
<1>7. CASE UNCHANGED Lock!vars
  BY <1>7 DEF Lock!vars, AuthInv, LockInv, WrongInv, Split
<1> QED
  BY <1>1, <1>2, <1>3, <1>4, <1>5, <1>6, <1>7, AttemptInv, LockTickInv DEF Lock!Next

\* A PIN cannot be tried more often than the limit allows: no time as long as the
\* failure window holds more failed attempts than twice the limit less three,
\* although the window starts with the first failure and a lock-out is only
\* looked at when the next call comes.
THEOREM FailuresStayBounded == Lock!Spec => []Lock!FailuresBounded
<1>1. AuthInv => Lock!FailuresBounded
  <2> SUFFICES ASSUME AuthInv PROVE Lock!FailuresBounded
    OBVIOUS
  <2>1. PICK k \in 0 .. Len(wrongTries) : /\ k = 0 \/ k <= LockLimit - 2
                                          /\ Len(wrongTries) - k <= login.failures
    BY DEF AuthInv, WrongInv, Split
  <2>2. Len(wrongTries) \in Nat /\ login.failures \in Nat
    BY DEF AuthInv, WrongInv, LockInv, Auths
  <2>3. CASE login.lock >= 0
    <3>1. Len(wrongTries) = 0
      BY <2>3 DEF AuthInv, WrongInv
    <3> QED
      BY <3>1, LoginTimes DEF Lock!FailuresBounded
  <2>4. CASE ~(login.lock >= 0)
    <3>1. login.failures < LockLimit
      BY <2>4 DEF AuthInv, LockInv, Auths, Ages
    <3> QED
      BY <2>1, <2>2, <3>1, LoginTimes DEF Lock!FailuresBounded
  <2> QED
    BY <2>3, <2>4
<1> QED
  BY <1>1, InitAuthInv, NextAuthInv, PTL DEF Lock!Spec

\* A session opens only with a challenge that still lives and outside of a
\* lock-out, and a lock-out ends by time alone, whatever is called meanwhile.
THEOREM LockoutIsKept == Lock!Spec => Lock!LockoutHolds
<1>1. ASSUME AuthInv, [Lock!Next]_(Lock!vars)
      PROVE  /\ [login'.token = 0 /\ login.token # 0 =>
                   locked \notin 0 .. LockTime
                     /\ login.challenge \in 0 .. LockChallenge]_(Lock!vars)
             /\ [locked = LockTime + 1 /\ login'.lock = login.lock /\ login.lock >= 0
                   => login.lock > LockTime]_(Lock!vars)
  <2>0. login \in Auths
    BY <1>1 DEF AuthInv, LockInv
  <2>1. locked = LockTime + 1 /\ login.lock >= 0 => login.lock > LockTime
    BY <1>1, <2>0, LoginTimes DEF AuthInv, LockInv, Auths, Ages
  <2>2. ASSUME login'.token = 0, login.token # 0
        PROVE  locked \notin 0 .. LockTime /\ login.challenge \in 0 .. LockChallenge
    <3>1. PICK right \in BOOLEAN : Lock!Attempt(right)
      <4>1. ASSUME NEW ok \in BOOLEAN PROVE ~Lock!Call(Lock!Challenged(login, ok))
        BY <2>0, <2>2, LockChallengedFacts DEF Lock!Call
      <4>2. ASSUME NEW open \in BOOLEAN PROVE ~Lock!Call(Lock!WindowSet(login, open))
        <5>1. Lock!WindowSet(login, open).token = IF open THEN login.token ELSE -1
          BY <2>0, LockWindowSetFacts
        <5> QED
          BY <2>2, <5>1 DEF Lock!Call
      <4>3. ASSUME NEW right \in BOOLEAN PROVE ~Lock!Call(Lock!Checked(login, right).auth)
        <5>1. Lock!Checked(login, right).auth = Lock!Reconciled(login)
          BY <2>0, LockCheckedFacts
        <5>2. Lock!Reconciled(login).token # 0
          BY <2>0, <2>2, LockReconciledFacts
        <5> QED
          BY <2>2, <5>1, <5>2 DEF Lock!Call
      <4>4. ~Lock!Call(Lock!LoggedOut(login))
        BY <2>0, <2>2, LockLoggedOutFacts DEF Lock!Call
      <4>5. ~Lock!Call(Lock!Refreshed(login))
        BY <2>0, <2>2, LockRefreshedFacts DEF Lock!Call
      <4>6. ~Lock!Call(Lock!Reconciled(login))
        BY <2>0, <2>2, LockReconciledFacts DEF Lock!Call
      <4>7. ~Lock!Tick
        <5>1. Lock!Aged(login).token = Lock!Ageing(login.token, LockToken)
          BY <2>0, LockAgedFacts
        <5>2. Lock!Aged(login).token # 0
          BY <2>0, <2>2, <5>1, LoginTimes DEF Lock!Ageing, Auths, Ages
        <5> QED
          BY <2>2, <5>2 DEF Lock!Tick
      <4>8. ~UNCHANGED Lock!vars
        BY <2>2 DEF Lock!vars
      <4> QED
        BY <1>1, <4>1, <4>2, <4>3, <4>4, <4>5, <4>6, <4>7, <4>8 DEF Lock!Next
    <3>2. login' = Lock!SessionOpened(login, right).auth
      BY <3>1 DEF Lock!Attempt
    <3>3. Lock!Reconciled(login).token # 0
      BY <2>0, <2>2, LockReconciledFacts
    <3>4. Lock!SessionOpened(login, right).ok
      BY <2>0, <2>2, <3>2, <3>3, LockSessionOpenedFacts
    <3>5. Lock!Reconciled(login).lock = -1 /\ Lock!Reconciled(login).challenge >= 0
      BY <2>0, <3>4, LockSessionOpenedFacts
    <3>6. login.challenge \in 0 .. LockChallenge
      BY <2>0, <3>5, LockReconciledFacts, LoginTimes DEF Auths, Ages
    <3>7. Lock!Refreshed(login).lock = -1
      BY <2>0, <3>5, LockReconciledFacts
    <3>8. login.lock = -1 \/ login.lock > LockTime
      BY <2>0, <3>7, LockRefreshedFacts, LoginTimes DEF Auths, Ages
    <3> QED
      BY <1>1, <2>0, <3>6, <3>8, LoginTimes DEF AuthInv, LockInv, Auths, Ages
  <2> QED
    BY <2>1, <2>2
<1> QED
  BY <1>1, InitAuthInv, NextAuthInv, PTL DEF Lock!Spec, Lock!LockoutHolds

LEMMA LoginOfBoth == MCSpec => Lock!Spec
<1>1. MCInit => Lock!Init
  BY DEF MCInit
<1>2. [MCNext]_<<part, webVars, otherVars>> => [Lock!Next]_(Lock!vars)
  BY DEF MCNext, otherVars, loginVars, Lock!vars
<1> QED
  BY <1>1, <1>2, PTL DEF MCSpec, Lock!Spec

\* A locked login stays locked, and few attempts fail between lock-outs: what
\* the run checks of the login.
THEOREM TheLoginLocks == MCSpec => LoginLocks
<1>1. Lock!FailuresBounded => (part = "login" => Lock!FailuresBounded)
  OBVIOUS
<1> QED
  BY <1>1, LoginOfBoth, FailuresStayBounded, LockoutIsKept, PTL DEF LoginLocks

-----------------------------------------------------------------------------
(* The command tracker.                                                    *)

\* Every slot is a record of this form.
SlotsForm ==
    /\ commands = [s \in Slots |-> commands[s]]
    /\ \A s \in Slots :
         commands[s] = [token |-> commands[s].token, status |-> commands[s].status,
                     sent |-> commands[s].sent, last |-> commands[s].last,
                     retries |-> commands[s].retries]

\* What a step may do with a slot: nothing, give it to another command, or
\* move a command that is still waiting.
Moved(s) ==
    \/ commands'[s] = commands[s]
    \/ commands'[s].token # commands[s].token
    \/ commands[s].status \in Tracker!Waiting

LEMMA BeginMoves ==
  ASSUME SlotsForm, NEW t \in Tokens, Tracker!Begin(t)
  PROVE  SlotsForm' /\ \A s \in Slots : Moved(s)
<1> DEFINE f == Tracker!First(Tracker!find_free_slot)
           new == [token |-> t, status |-> "WAITING_ACK", sent |-> clock,
                   last |-> clock, retries |-> 0]
<1>1. commands' = [commands EXCEPT ![f] = new] /\ Tracker!find_slot(t) = {}
  BY DEF Tracker!Begin
<1> HIDE DEF f
<1>2. \A s \in Slots : commands'[s] = IF s = f THEN new ELSE commands[s]
  BY <1>1 DEF SlotsForm
<1>3. commands' = [s \in Slots |-> commands'[s]]
  BY <1>1 DEF SlotsForm
<1>4. \A s \in Slots : commands[s].token # t
  BY <1>1 DEF Tracker!find_slot
<1>5. SlotsForm'
  BY <1>2, <1>3 DEF SlotsForm
<1> QED
  BY <1>2, <1>4, <1>5 DEF Moved

LEMMA StatusMoves ==
  ASSUME SlotsForm, NEW r \in Slots, NEW status,
         commands[r].status \in Tracker!Waiting, Tracker!SetStatus(r, status)
  PROVE  SlotsForm' /\ \A s \in Slots : Moved(s)
<1>1. /\ \A s \in Slots : s # r => commands'[s] = commands[s]
      /\ commands' = [s \in Slots |-> commands'[s]]
      /\ commands'[r] = [commands[r] EXCEPT !.status = status]
  BY DEF Tracker!SetStatus, SlotsForm
<1>2. SlotsForm'
  BY <1>1 DEF SlotsForm
<1> QED
  BY <1>1, <1>2 DEF Moved

LEMMA RetryMoves ==
  ASSUME SlotsForm, NEW r \in Slots, Tracker!Retry(r)
  PROVE  SlotsForm' /\ \A s \in Slots : Moved(s)
<1>1. commands[r].status \in Tracker!Waiting
  BY DEF Tracker!Retry, Tracker!should_retry, Tracker!Waiting
<1>2. commands' = [commands EXCEPT ![r] = [commands[r] EXCEPT !.retries = commands[r].retries + 1,
                                                     !.last = clock]]
  BY DEF Tracker!Retry, SlotsForm
<1>3. /\ \A s \in Slots : s # r => commands'[s] = commands[s]
      /\ commands' = [s \in Slots |-> commands'[s]]
      /\ commands'[r] = [commands[r] EXCEPT !.retries = commands[r].retries + 1, !.last = clock]
  BY <1>2 DEF SlotsForm
<1>4. SlotsForm'
  BY <1>3 DEF SlotsForm
<1> QED
  BY <1>1, <1>3, <1>4 DEF Moved

LEMMA ExpireMoves ==
  ASSUME SlotsForm, Tracker!Expire
  PROVE  SlotsForm' /\ \A s \in Slots : Moved(s)
<1>1. commands' = [s \in Slots |->
          IF Tracker!Overdue(s) THEN [commands[s] EXCEPT !.status = "EXPIRED"] ELSE commands[s]]
  BY DEF Tracker!Expire
<1>2. \A s \in Slots : Tracker!Overdue(s) => commands[s].status \in Tracker!Waiting
  BY DEF Tracker!Overdue
<1>3. SlotsForm'
  BY <1>1 DEF SlotsForm
<1> QED
  BY <1>1, <1>2, <1>3 DEF Moved

LEMMA NextMoves ==
  SlotsForm /\ [Tracker!Next]_(Tracker!vars) => SlotsForm' /\ \A s \in Slots : Moved(s)
<1> SUFFICES ASSUME SlotsForm, [Tracker!Next]_(Tracker!vars)
             PROVE  SlotsForm' /\ \A s \in Slots : Moved(s)
  OBVIOUS
<1>1. ASSUME NEW a \in answers, Tracker!OnAck(a)
      PROVE  SlotsForm' /\ \A s \in Slots : Moved(s)
  BY <1>1, StatusMoves DEF Tracker!OnAck, Tracker!find_slot
<1>2. ASSUME NEW a \in answers, Tracker!OnResult(a)
      PROVE  SlotsForm' /\ \A s \in Slots : Moved(s)
  BY <1>2, StatusMoves DEF Tracker!OnResult, Tracker!find_slot
<1>3. CASE UNCHANGED commands
  BY <1>3 DEF SlotsForm, Moved
<1>4. ASSUME NEW t \in Tokens, Tracker!PeerReceives(t) PROVE UNCHANGED commands
  BY <1>4 DEF Tracker!PeerReceives
<1>5. ASSUME NEW t \in Tokens, NEW told, Tracker!PeerReports(t, told) PROVE UNCHANGED commands
  BY <1>5 DEF Tracker!PeerReports
<1>6. ASSUME NEW a \in answers, Tracker!Vanish(a) PROVE UNCHANGED commands
  BY <1>6 DEF Tracker!Vanish
<1>7. ASSUME Tracker!Tick \/ UNCHANGED Tracker!vars PROVE UNCHANGED commands
  BY <1>7 DEF Tracker!Tick, Tracker!vars
<1> QED
  BY <1>1, <1>2, <1>3, <1>4, <1>5, <1>6, <1>7, BeginMoves, RetryMoves, ExpireMoves
  DEF Tracker!Next

\* A slot that shows an outcome goes on showing it, to late and repeated
\* answers, to expiry and to a user who begins the same token again.
THEOREM OutcomeStands == Tracker!Spec => Tracker!OneOutcome
<1>1. Tracker!Init => SlotsForm
  BY DEF Tracker!Init, SlotsForm, Tracker!Free
<1>2. SlotsForm /\ [Tracker!Next]_(Tracker!vars) =>
        [\A s \in Slots : commands[s].status \in Tracker!Terminal
           => commands'[s] = commands[s] \/ commands'[s].token # commands[s].token]_(Tracker!vars)
  BY NextMoves DEF Moved, Tracker!Waiting, Tracker!Terminal
<1> QED
  BY <1>1, <1>2, NextMoves, PTL DEF Tracker!Spec, Tracker!OneOutcome
-----------------------------------------------------------------------------
\* A command shown as completed was completed by the peer: the first half of
\* StatusIsTrue.
CompletedIsTrue ==
    \A s \in Slots : commands[s].status = "COMPLETED" => peer[commands[s].token] = "COMPLETED"

\* The peer's word is kept on the way: an answer that says so was given by a
\* peer that has completed the token, and a peer never takes that back.
AnswersTrue ==
    /\ peer = [t \in Tokens |-> peer[t]]
    /\ \A a \in answers :
         a.kind = "RESULT" /\ a.says = "COMPLETED"
           => a.token \in Tokens /\ peer[a.token] = "COMPLETED"
    /\ \A s \in Slots :
         commands[s].status = "COMPLETED" => commands[s].token \in Tokens

TrackerInv == SlotsForm /\ AnswersTrue /\ CompletedIsTrue

\* What a token's command has come to, once done, stays done.
PeerKeeps ==
    /\ peer' = [t \in Tokens |-> peer'[t]]
    /\ \A t \in Tokens : peer[t] = "COMPLETED" => peer'[t] = "COMPLETED"

LEMMA BeginInv ==
  ASSUME TrackerInv, NEW t \in Tokens, Tracker!Begin(t) PROVE TrackerInv'
<1> DEFINE f == Tracker!First(Tracker!find_free_slot)
           new == [token |-> t, status |-> "WAITING_ACK", sent |-> clock,
                   last |-> clock, retries |-> 0]
<1>1. commands' = [commands EXCEPT ![f] = new] /\ UNCHANGED <<answers, peer>>
  BY DEF Tracker!Begin
<1> HIDE DEF f
<1>2. \A s \in Slots : commands'[s] = commands[s] \/ commands'[s].status # "COMPLETED"
  BY <1>1 DEF TrackerInv, SlotsForm
<1> QED
  BY <1>1, <1>2, BeginMoves DEF TrackerInv, AnswersTrue, CompletedIsTrue

\* A status other than COMPLETED is safe; COMPLETED needs a peer that is done.
LEMMA StatusInv ==
  ASSUME TrackerInv, NEW r \in Slots, NEW status,
         commands[r].status \in Tracker!Waiting, Tracker!SetStatus(r, status), UNCHANGED <<answers, peer>>,
         status = "COMPLETED" => /\ commands[r].token \in Tokens
                                 /\ peer[commands[r].token] = "COMPLETED"
  PROVE  TrackerInv'
<1>1. /\ \A s \in Slots : s # r => commands'[s] = commands[s]
      /\ commands'[r].status = status /\ commands'[r].token = commands[r].token
  BY DEF Tracker!SetStatus, TrackerInv, SlotsForm
<1>2. SlotsForm'
  BY StatusMoves DEF TrackerInv
<1>3. AnswersTrue'
  BY <1>1 DEF TrackerInv, AnswersTrue
<1>4. CompletedIsTrue'
  BY <1>1 DEF TrackerInv, CompletedIsTrue
<1> QED
  BY <1>2, <1>3, <1>4 DEF TrackerInv

LEMMA OnAckInv ==
  ASSUME TrackerInv, NEW a \in answers, Tracker!OnAck(a) PROVE TrackerInv'
<1>1. PICK r \in Tracker!find_slot(a.token) :
        commands[r].status \in Tracker!Waiting /\ Tracker!SetStatus(r, Tracker!AckStatus(a.says))
  BY DEF Tracker!OnAck
<1>2. Tracker!AckStatus(a.says) # "COMPLETED"
  BY DEF Tracker!AckStatus
<1>3. UNCHANGED <<answers, peer>> /\ r \in Slots
  BY DEF Tracker!OnAck, Tracker!find_slot
<1> QED
  BY <1>1, <1>2, <1>3, StatusInv

LEMMA OnResultInv ==
  ASSUME TrackerInv, NEW a \in answers, Tracker!OnResult(a) PROVE TrackerInv'
<1>1. PICK r \in Tracker!find_slot(a.token) :
        commands[r].status \in Tracker!Waiting /\ Tracker!SetStatus(r, Tracker!ResultStatus(a.says))
  BY DEF Tracker!OnResult
<1>2. UNCHANGED <<answers, peer>> /\ r \in Slots /\ commands[r].token = a.token
      /\ a.kind = "RESULT"
  BY DEF Tracker!OnResult, Tracker!find_slot
<1>3. Tracker!ResultStatus(a.says) = "COMPLETED" => a.says = "COMPLETED"
  BY DEF Tracker!ResultStatus
<1>4. Tracker!ResultStatus(a.says) = "COMPLETED" => /\ commands[r].token \in Tokens
                                                    /\ peer[commands[r].token] = "COMPLETED"
  BY <1>2, <1>3 DEF TrackerInv, AnswersTrue
<1> QED
  BY <1>1, <1>2, <1>4, StatusInv

LEMMA RetryInv ==
  ASSUME TrackerInv, NEW r \in Slots, Tracker!Retry(r) PROVE TrackerInv'
<1>1. commands' = [commands EXCEPT ![r] = [commands[r] EXCEPT !.retries = commands[r].retries + 1,
                                                     !.last = clock]]
  BY DEF Tracker!Retry, TrackerInv, SlotsForm
<1>2. UNCHANGED <<answers, peer>>
  BY DEF Tracker!Retry
<1>3. \A s \in Slots : commands'[s].status = commands[s].status /\ commands'[s].token = commands[s].token
  BY <1>1 DEF TrackerInv, SlotsForm
<1> QED
  BY <1>2, <1>3, RetryMoves DEF TrackerInv, AnswersTrue, CompletedIsTrue

LEMMA ExpireInv == ASSUME TrackerInv, Tracker!Expire PROVE TrackerInv'
<1>1. commands' = [s \in Slots |->
          IF Tracker!Overdue(s) THEN [commands[s] EXCEPT !.status = "EXPIRED"] ELSE commands[s]]
  BY DEF Tracker!Expire
<1>2. UNCHANGED <<answers, peer>>
  BY DEF Tracker!Expire
<1>3. \A s \in Slots : commands'[s] = commands[s] \/ commands'[s].status = "EXPIRED"
  BY <1>1 DEF TrackerInv, SlotsForm
<1> QED
  BY <1>2, <1>3, ExpireMoves DEF TrackerInv, AnswersTrue, CompletedIsTrue

LEMMA PeerInv ==
  ASSUME TrackerInv, UNCHANGED commands, PeerKeeps, NEW t \in Tokens, NEW kind, NEW says,
         Tracker!Say(t, kind, says),
                 kind = "RESULT" /\ says = "COMPLETED" => peer'[t] = "COMPLETED"
  PROVE  TrackerInv'
<1> DEFINE new == [token |-> t, kind |-> kind, says |-> says]
<1>1. answers' = answers \cup {new}
  BY DEF Tracker!Say
<1>2. \A a \in answers' : a.kind = "RESULT" /\ a.says = "COMPLETED"
         => a.token \in Tokens /\ peer'[a.token] = "COMPLETED"
  BY <1>1 DEF TrackerInv, AnswersTrue, PeerKeeps
<1>3. AnswersTrue'
  BY <1>2 DEF TrackerInv, AnswersTrue, PeerKeeps
<1>4. CompletedIsTrue'
  BY DEF TrackerInv, AnswersTrue, CompletedIsTrue, PeerKeeps
<1>5. SlotsForm'
  BY DEF TrackerInv, SlotsForm
<1> QED
  BY <1>3, <1>4, <1>5 DEF TrackerInv

LEMMA PeerReceivesInv ==
  ASSUME TrackerInv, NEW t \in Tokens, Tracker!PeerReceives(t) PROVE TrackerInv'
<1>1. PICK says : Tracker!Say(t, "ACK", says)
  BY DEF Tracker!PeerReceives
<1>2. peer' = peer \/ (peer[t] = "NEW" /\ peer' = [peer EXCEPT ![t] = "EXECUTING"])
  BY DEF Tracker!PeerReceives
<1>3. PeerKeeps
  BY <1>2 DEF PeerKeeps, TrackerInv, AnswersTrue
<1>4. UNCHANGED commands
  BY DEF Tracker!PeerReceives
<1> QED
  BY <1>1, <1>3, <1>4, PeerInv

LEMMA PeerReportsInv ==
  ASSUME TrackerInv, NEW t \in Tokens, NEW told, Tracker!PeerReports(t, told)
  PROVE  TrackerInv'
<1>1. /\ Tracker!Say(t, "RESULT", told) /\ UNCHANGED commands
      /\ peer[t] = "EXECUTING" /\ peer' = [peer EXCEPT ![t] = told]
  BY DEF Tracker!PeerReports
<1>2. PeerKeeps /\ peer'[t] = told
  BY <1>1 DEF PeerKeeps, TrackerInv, AnswersTrue
<1> QED
  BY <1>1, <1>2, PeerInv

\* The user is never shown a completion the peer did not report, however old,
\* repeated or misplaced the answers are.
THEOREM CompletionIsTrue == Tracker!Spec => []CompletedIsTrue
<1>1. Tracker!Init => TrackerInv
  BY DEF Tracker!Init, TrackerInv, SlotsForm, Tracker!Free, AnswersTrue, CompletedIsTrue
<1>2. TrackerInv /\ [Tracker!Next]_(Tracker!vars) => TrackerInv'
  <2> SUFFICES ASSUME TrackerInv, [Tracker!Next]_(Tracker!vars) PROVE TrackerInv'
    OBVIOUS
  <2>1. ASSUME NEW a \in answers, Tracker!Vanish(a) PROVE TrackerInv'
    BY <2>1 DEF Tracker!Vanish, TrackerInv, SlotsForm, AnswersTrue, CompletedIsTrue
  <2>2. CASE Tracker!Tick
    BY <2>2 DEF Tracker!Tick, TrackerInv, SlotsForm, AnswersTrue, CompletedIsTrue
  <2>3. CASE UNCHANGED Tracker!vars
    BY <2>3 DEF Tracker!vars, TrackerInv, SlotsForm, AnswersTrue, CompletedIsTrue
  <2> QED
    BY <2>1, <2>2, <2>3, BeginInv, OnAckInv, OnResultInv, RetryInv, ExpireInv,
       PeerReceivesInv, PeerReportsInv DEF Tracker!Next
<1>3. TrackerInv => CompletedIsTrue
  BY DEF TrackerInv
<1> QED
  BY <1>1, <1>2, <1>3, PTL DEF Tracker!Spec
-----------------------------------------------------------------------------
(* A command shown as expired has had its whole life or was refused as     *)
(* expired: the other half of StatusIsTrue.  The tracker knows ages only   *)
(* through a clock that wraps.                                             *)

\* What the tracker computes from the wrapped clock is the time waited.
Timed(s) ==
    /\ age[s] \in 0 .. Wrap - 1 /\ commands[s].sent \in 0 .. Wrap - 1
    /\ Tracker!Since(commands[s].sent) = age[s]

Justified(s) ==
    \/ age[s] >= Ttl
    \/ commands[s].token \in Tokens /\ peer[commands[s].token] = "EXPIRED"

SlotTrue(s) ==
    /\ commands[s].status \in Tracker!Waiting => Timed(s)
    /\ commands[s].status = "EXPIRED" => Justified(s)

ClockForm ==
    /\ clock \in 0 .. Wrap - 1
    /\ age = [s \in Slots |-> age[s]] /\ peer = [t \in Tokens |-> peer[t]]

RefusalsTrue ==
    \A a \in answers : a.kind = "RESULT" /\ a.says = "EXPIRED"
                         => a.token \in Tokens /\ peer[a.token] = "EXPIRED"

ExpiryInv == /\ SlotsForm /\ ClockForm /\ RefusalsTrue /\ Tracker!TypeOK
             /\ \A s \in Slots : SlotTrue(s)

\* A slot that looks the same as before, to a peer that keeps its word.
LEMMA SameSlot ==
  ASSUME NEW s, SlotTrue(s), clock' = clock, peer' = peer, age'[s] = age[s],
         commands'[s].status = commands[s].status, commands'[s].token = commands[s].token,
         commands'[s].sent = commands[s].sent
  PROVE  SlotTrue(s)'
  BY DEF SlotTrue, Timed, Justified, Tracker!Since

LEMMA BeginExpiry ==
  ASSUME Tracker!TrackerAssumption, ExpiryInv, NEW t \in Tokens, Tracker!Begin(t) PROVE ExpiryInv'
<1> DEFINE f == Tracker!First(Tracker!find_free_slot)
           new == [token |-> t, status |-> "WAITING_ACK", sent |-> clock,
                   last |-> clock, retries |-> 0]
<1>1. /\ commands' = [commands EXCEPT ![f] = new] /\ age' = [age EXCEPT ![f] = 0]
      /\ UNCHANGED <<clock, answers, peer>>
  BY DEF Tracker!Begin
<1> HIDE DEF f
<1>2. SlotsForm'
  BY BeginMoves DEF ExpiryInv
<1>3. \A s \in Slots : \/ s # f /\ commands'[s] = commands[s] /\ age'[s] = age[s]
                       \/ s = f /\ commands'[s] = new /\ age'[s] = 0
  BY <1>1 DEF ExpiryInv, SlotsForm, ClockForm
<1>4. ClockForm' /\ RefusalsTrue'
  BY <1>1 DEF ExpiryInv, ClockForm, RefusalsTrue
<1>5. ASSUME NEW s \in Slots PROVE SlotTrue(s)'
  <2>1. CASE commands'[s] = commands[s] /\ age'[s] = age[s]
    BY <1>1, <2>1, SameSlot DEF ExpiryInv
  <2>2. CASE commands'[s] = new /\ age'[s] = 0
    <3>1. (clock - clock) % Wrap = 0 /\ 0 \in 0 .. Wrap - 1 /\ clock \in 0 .. Wrap - 1
      BY DEF Tracker!TrackerAssumption, ExpiryInv, ClockForm
    <3>2. clock' = clock
      BY <1>1
    <3> QED
      BY <2>2, <3>1, <3>2 DEF SlotTrue, Timed, Tracker!Since
  <2> QED
    BY <1>3, <2>1, <2>2
<1>6. Tracker!TypeOK'
  <2>1. new.status \in Tracker!Waiting /\ new.retries \in 0 .. MaxRetries
    BY DEF Tracker!Waiting, Tracker!TrackerAssumption
  <2> HIDE DEF new
  <2> QED
    BY <1>3, <2>1 DEF ExpiryInv, Tracker!TypeOK
<1> QED
  BY <1>2, <1>4, <1>5, <1>6 DEF ExpiryInv

\* An answer moves a waiting command; EXPIRED needs a peer that said so.
LEMMA StatusExpiry ==
  ASSUME ExpiryInv, NEW r \in Slots, NEW status \in Tracker!Waiting \cup Tracker!Terminal,
         commands[r].status \in Tracker!Waiting, Tracker!SetStatus(r, status),
         UNCHANGED <<clock, age, answers, peer>>,
         status = "EXPIRED" => /\ commands[r].token \in Tokens
                               /\ peer[commands[r].token] = "EXPIRED"
  PROVE  ExpiryInv'
<1>1. /\ \A s \in Slots : s # r => commands'[s] = commands[s]
      /\ commands'[r].status = status /\ commands'[r].token = commands[r].token
      /\ commands'[r].sent = commands[r].sent /\ commands'[r].retries = commands[r].retries
  BY DEF Tracker!SetStatus, ExpiryInv, SlotsForm
<1>2. SlotsForm'
  BY StatusMoves DEF ExpiryInv
<1>3. ClockForm' /\ RefusalsTrue'
  BY DEF ExpiryInv, ClockForm, RefusalsTrue
<1>4. ASSUME NEW s \in Slots PROVE SlotTrue(s)'
  <2>1. CASE s # r
    BY <1>1, <2>1, SameSlot DEF ExpiryInv
  <2>2. CASE s = r
    BY <1>1, <2>2 DEF ExpiryInv, SlotTrue, Timed, Justified, Tracker!Since
  <2> QED
    BY <2>1, <2>2
<1>5. Tracker!TypeOK'
  BY <1>1 DEF ExpiryInv, Tracker!TypeOK
<1> QED
  BY <1>2, <1>3, <1>4, <1>5 DEF ExpiryInv

LEMMA AnswerExpiry ==
  ASSUME ExpiryInv, NEW a \in answers, Tracker!OnAck(a) \/ Tracker!OnResult(a) PROVE ExpiryInv'
<1>1. CASE Tracker!OnAck(a)
  <2>1. PICK r \in Tracker!find_slot(a.token) :
          commands[r].status \in Tracker!Waiting /\ Tracker!SetStatus(r, Tracker!AckStatus(a.says))
    BY <1>1 DEF Tracker!OnAck
  <2>2. Tracker!AckStatus(a.says) \in (Tracker!Waiting \cup Tracker!Terminal) \ {"EXPIRED"}
    BY DEF Tracker!AckStatus, Tracker!Waiting, Tracker!Terminal
  <2>3. UNCHANGED <<clock, age, answers, peer>> /\ r \in Slots
    BY <1>1 DEF Tracker!OnAck, Tracker!find_slot
  <2> QED
    BY <2>1, <2>2, <2>3, StatusExpiry
<1>2. CASE Tracker!OnResult(a)
  <2>1. PICK r \in Tracker!find_slot(a.token) :
          commands[r].status \in Tracker!Waiting /\ Tracker!SetStatus(r, Tracker!ResultStatus(a.says))
    BY <1>2 DEF Tracker!OnResult
  <2>2. Tracker!ResultStatus(a.says) \in Tracker!Waiting \cup Tracker!Terminal
        /\ (Tracker!ResultStatus(a.says) = "EXPIRED" => a.says = "EXPIRED")
    BY DEF Tracker!ResultStatus, Tracker!Waiting, Tracker!Terminal
  <2>3. UNCHANGED <<clock, age, answers, peer>> /\ r \in Slots /\ commands[r].token = a.token
        /\ a.kind = "RESULT"
    BY <1>2 DEF Tracker!OnResult, Tracker!find_slot
  <2>4. a.says = "EXPIRED" => a.token \in Tokens /\ peer[a.token] = "EXPIRED"
    BY <2>3 DEF ExpiryInv, RefusalsTrue
  <2> QED
    BY <2>1, <2>2, <2>3, <2>4, StatusExpiry
<1> QED
  BY <1>1, <1>2

LEMMA RetryExpiry ==
  ASSUME Tracker!TrackerAssumption, ExpiryInv, NEW r \in Slots, Tracker!Retry(r) PROVE ExpiryInv'
<1>1. commands' = [commands EXCEPT ![r] = [commands[r] EXCEPT !.retries = commands[r].retries + 1,
                                                     !.last = clock]]
  BY DEF Tracker!Retry, ExpiryInv, SlotsForm
<1>2. UNCHANGED <<clock, age, answers, peer>> /\ commands[r].retries < MaxRetries
  BY DEF Tracker!Retry, Tracker!should_retry
<1>3. \A s \in Slots : /\ commands'[s].status = commands[s].status
                       /\ commands'[s].token = commands[s].token /\ commands'[s].sent = commands[s].sent
                       /\ commands'[s].retries = IF s = r THEN commands[s].retries + 1
                                              ELSE commands[s].retries
  BY <1>1 DEF ExpiryInv, SlotsForm
<1>4. \A s \in Slots : SlotTrue(s)'
  BY <1>2, <1>3, SameSlot DEF ExpiryInv
<1>5. Tracker!TypeOK'
  <2>1. commands[r].retries + 1 \in 0 .. MaxRetries
    BY <1>2 DEF ExpiryInv, Tracker!TypeOK, Tracker!TrackerAssumption
  <2> QED
    BY <1>3, <2>1 DEF ExpiryInv, Tracker!TypeOK
<1>6. SlotsForm'
  BY RetryMoves DEF ExpiryInv
<1> QED
  BY <1>2, <1>4, <1>5, <1>6 DEF ExpiryInv, ClockForm, RefusalsTrue

\* The tracker's own expiry: what the clock says is what was waited.
LEMMA ExpireExpiry == ASSUME ExpiryInv, Tracker!Expire PROVE ExpiryInv'
<1>1. commands' = [s \in Slots |->
          IF Tracker!Overdue(s) THEN [commands[s] EXCEPT !.status = "EXPIRED"] ELSE commands[s]]
  BY DEF Tracker!Expire
<1>2. UNCHANGED <<clock, age, answers, peer>>
  BY DEF Tracker!Expire
<1>3. \A s \in Slots :
         \/ ~Tracker!Overdue(s) /\ commands'[s] = commands[s]
         \/ Tracker!Overdue(s) /\ commands'[s].status = "EXPIRED" /\ commands'[s].retries = commands[s].retries
  BY <1>1 DEF ExpiryInv, SlotsForm
<1>4. ASSUME NEW s \in Slots PROVE SlotTrue(s)'
  <2>1. CASE commands'[s] = commands[s]
    BY <1>2, <2>1, SameSlot DEF ExpiryInv
  <2>2. CASE Tracker!Overdue(s) /\ commands'[s].status = "EXPIRED"
    <3>1. age[s] >= Ttl
      BY <2>2 DEF Tracker!Overdue, ExpiryInv, SlotTrue, Timed
    <3>2. Justified(s)' /\ ~(commands'[s].status \in Tracker!Waiting)
      BY <1>2, <2>2, <3>1 DEF Justified, Tracker!Waiting
    <3> QED
      BY <3>2 DEF SlotTrue
  <2> QED
    BY <1>3, <2>1, <2>2
<1>5. Tracker!TypeOK'
  BY <1>3 DEF ExpiryInv, Tracker!TypeOK, Tracker!Terminal
<1>6. SlotsForm'
  BY ExpireMoves DEF ExpiryInv
<1> QED
  BY <1>2, <1>4, <1>5, <1>6 DEF ExpiryInv, ClockForm, RefusalsTrue

LEMMA PeerExpiry ==
  ASSUME ExpiryInv, UNCHANGED <<commands, clock, age>>, NEW t \in Tokens, NEW kind, NEW says,
         Tracker!Say(t, kind, says), NEW word, peer' = [peer EXCEPT ![t] = word],
                 peer[t] = "EXPIRED" => word = "EXPIRED",
                 kind = "RESULT" /\ says = "EXPIRED" => word = "EXPIRED"
  PROVE  ExpiryInv'
<1>1. /\ \A u \in Tokens : peer[u] = "EXPIRED" => peer'[u] = "EXPIRED"
      /\ peer'[t] = word /\ peer' = [u \in Tokens |-> peer'[u]]
  BY DEF ExpiryInv, ClockForm
<1>2. answers' = answers \cup {[token |-> t, kind |-> kind, says |-> says]}
  BY DEF Tracker!Say
<1>3. RefusalsTrue'
  BY <1>1, <1>2 DEF ExpiryInv, RefusalsTrue
<1>4. \A s \in Slots : SlotTrue(s)'
  BY <1>1 DEF ExpiryInv, SlotTrue, Timed, Justified, Tracker!Since
<1> QED
  BY <1>1, <1>3, <1>4 DEF ExpiryInv, SlotsForm, ClockForm, Tracker!TypeOK

LEMMA PeersExpiry ==
  ASSUME ExpiryInv, NEW t \in Tokens, NEW told, Tracker!PeerReceives(t) \/ Tracker!PeerReports(t, told)
  PROVE  ExpiryInv'
<1>1. CASE Tracker!PeerReceives(t)
  <2>1. PICK says, word :
           /\ Tracker!Say(t, "ACK", says) /\ peer' = [peer EXCEPT ![t] = word]
           /\ peer[t] = "EXPIRED" => word = "EXPIRED"
    <3>1. peer = [peer EXCEPT ![t] = peer[t]]
      BY DEF ExpiryInv, ClockForm
    <3> QED
      BY <1>1, <3>1 DEF Tracker!PeerReceives
  <2>2. UNCHANGED <<commands, clock, age>>
    BY <1>1 DEF Tracker!PeerReceives
  <2> QED
    BY <2>1, <2>2, PeerExpiry
<1>2. CASE Tracker!PeerReports(t, told)
  <2>1. /\ Tracker!Say(t, "RESULT", told) /\ UNCHANGED <<commands, clock, age>>
        /\ peer[t] # "EXPIRED" /\ peer' = [peer EXCEPT ![t] = told]
    BY <1>2 DEF Tracker!PeerReports
  <2> QED
    BY <2>1, PeerExpiry
<1> QED
  BY <1>1, <1>2

\* A tick adds one to the distance from any time less than a turn ago.
LEMMA OneMore ==
  ASSUME Tracker!TrackerAssumption, NEW n \in 0 .. Wrap - 1, NEW sent \in 0 .. Wrap - 1,
                 (n - sent) % Wrap < Wrap - 1
  PROVE  /\ (n + 1) % Wrap \in 0 .. Wrap - 1
         /\ (((n + 1) % Wrap) - sent) % Wrap = ((n - sent) % Wrap) + 1
<1>1. Wrap \in Nat /\ Wrap > 0
  BY DEF Tracker!TrackerAssumption
<1> DEFINE m == (n + 1) % Wrap
<1>2. m = IF n = Wrap - 1 THEN 0 ELSE n + 1
  <2>1. CASE n = Wrap - 1
    <3>1. n + 1 = Wrap /\ Wrap % Wrap = 0
      BY <1>1, <2>1
    <3> QED
      BY <2>1, <3>1
  <2>2. CASE n # Wrap - 1
    <3>1. n + 1 \in 0 .. Wrap - 1
      BY <1>1, <2>2
    <3>2. \A k \in 0 .. Wrap - 1 : k % Wrap = k
      BY <1>1
    <3> QED
      BY <2>2, <3>1, <3>2
  <2> QED
    BY <2>1, <2>2
<1>3. m \in 0 .. Wrap - 1
  BY <1>1, <1>2
<1> HIDE DEF m
<1>4. \A a \in 0 .. Wrap - 1 : (a - sent) % Wrap = IF a >= sent THEN a - sent
                                                  ELSE a - sent + Wrap
  <2> TAKE a \in 0 .. Wrap - 1
  <2> DEFINE d == a - sent
  <2>1. d \in 1 - Wrap .. Wrap - 1 /\ (d >= 0 <=> a >= sent)
    BY <1>1
  <2> HIDE DEF d
  <2>2. d >= 0 => d % Wrap = d
    BY <1>1, <2>1
  <2>3. d < 0 => d % Wrap = d + Wrap
    BY <1>1, <2>1
  <2>4. d % Wrap = IF d >= 0 THEN d ELSE d + Wrap
    BY <2>1, <2>2, <2>3
  <2> QED
    BY <2>1, <2>4 DEF d
<1>5. (m - sent) % Wrap = ((n - sent) % Wrap) + 1
  <2>1. /\ (m - sent) % Wrap = IF m >= sent THEN m - sent ELSE m - sent + Wrap
        /\ (n - sent) % Wrap = IF n >= sent THEN n - sent ELSE n - sent + Wrap
    BY <1>3, <1>4
  <2> QED
    BY <1>1, <1>2, <2>1
<1> QED
  BY <1>3, <1>5 DEF m

LEMMA TickExpiry == ASSUME Tracker!TrackerAssumption, ExpiryInv, Tracker!Tick PROVE ExpiryInv'
<1>1. /\ \A s \in Slots : commands[s].status \in Tracker!Waiting => age[s] < Wrap - 1
      /\ clock' = (clock + 1) % Wrap
      /\ age' = [s \in Slots |-> IF commands[s].status \in Tracker!Waiting THEN age[s] + 1
                                 ELSE age[s]]
      /\ UNCHANGED <<commands, answers, peer>>
  BY DEF Tracker!Tick
<1>2. clock' \in 0 .. Wrap - 1
  <2>1. Wrap \in Nat /\ Wrap > 0 /\ clock + 1 \in Nat
    BY DEF Tracker!TrackerAssumption, ExpiryInv, ClockForm
  <2>2. (clock + 1) % Wrap \in 0 .. Wrap - 1
    BY <2>1
  <2> QED
    BY <1>1, <2>2
<1>3. ASSUME NEW s \in Slots PROVE SlotTrue(s)'
  <2>1. CASE commands[s].status \in Tracker!Waiting
    <3>1. /\ age[s] \in 0 .. Wrap - 1 /\ commands[s].sent \in 0 .. Wrap - 1
          /\ (clock - commands[s].sent) % Wrap = age[s] /\ clock \in 0 .. Wrap - 1
      BY <2>1 DEF ExpiryInv, SlotTrue, Timed, Tracker!Since, ClockForm
    <3>2. age[s] < Wrap - 1 /\ age'[s] = age[s] + 1
      BY <1>1, <2>1
    <3>3. (((clock + 1) % Wrap) - commands[s].sent) % Wrap = age[s] + 1
      BY <3>1, <3>2, OneMore
    <3>4. age[s] + 1 \in 0 .. Wrap - 1
      BY <3>1, <3>2 DEF Tracker!TrackerAssumption
    <3>5. Timed(s)'
      BY <1>1, <3>1, <3>2, <3>3, <3>4 DEF Timed, Tracker!Since
    <3>6. commands'[s].status # "EXPIRED"
      BY <1>1, <2>1 DEF Tracker!Waiting
    <3> QED
      BY <3>5, <3>6 DEF SlotTrue
  <2>2. CASE commands[s].status \notin Tracker!Waiting
    <3>1. age'[s] = age[s] /\ commands'[s] = commands[s] /\ peer' = peer
      BY <1>1, <2>2
    <3> QED
      BY <2>2, <3>1 DEF ExpiryInv, SlotTrue, Justified
  <2> QED
    BY <2>1, <2>2
<1> QED
  BY <1>1, <1>2, <1>3 DEF ExpiryInv, SlotsForm, ClockForm, RefusalsTrue, Tracker!TypeOK

\* What the user is told is true: a command shown as completed was completed by
\* the peer, one shown as expired has waited for its whole life or was refused
\* as expired, although the tracker reads its age from a clock that wraps and
\* answers come late, twice and from an earlier use of the token.
THEOREM StatusStaysTrue == Tracker!TrackerAssumption => (Tracker!Spec => [](Tracker!TypeOK /\ Tracker!StatusIsTrue))
<1> SUFFICES ASSUME Tracker!TrackerAssumption PROVE Tracker!Spec => [](Tracker!TypeOK /\ Tracker!StatusIsTrue)
  OBVIOUS
<1>1. Tracker!Init => ExpiryInv
  <2> SUFFICES ASSUME Tracker!Init PROVE ExpiryInv
    OBVIOUS
  <2>1. SlotsForm /\ ClockForm /\ RefusalsTrue /\ Tracker!TypeOK
    BY DEF Tracker!Init, SlotsForm, Tracker!Free, ClockForm, RefusalsTrue, Tracker!TypeOK, Tracker!TrackerAssumption
  <2>2. \A s \in Slots : SlotTrue(s)
    BY DEF Tracker!Init, Tracker!Free, SlotTrue, Tracker!Waiting
  <2> QED
    BY <2>1, <2>2 DEF ExpiryInv
<1>2. ExpiryInv /\ [Tracker!Next]_(Tracker!vars) => ExpiryInv'
  <2> SUFFICES ASSUME ExpiryInv, [Tracker!Next]_(Tracker!vars) PROVE ExpiryInv'
    OBVIOUS
  <2>1. ASSUME NEW a \in answers, Tracker!Vanish(a) PROVE ExpiryInv'
    <3>1. UNCHANGED <<commands, clock, age, peer>> /\ answers' \subseteq answers
      BY <2>1 DEF Tracker!Vanish
    <3>2. \A s \in Slots : SlotTrue(s)'
      BY <3>1, SameSlot DEF ExpiryInv
    <3> QED
      BY <3>1, <3>2 DEF ExpiryInv, SlotsForm, ClockForm, RefusalsTrue, Tracker!TypeOK
  <2>2. CASE UNCHANGED Tracker!vars
    <3>1. \A s \in Slots : SlotTrue(s)'
      BY <2>2, SameSlot DEF Tracker!vars, ExpiryInv
    <3> QED
      BY <2>2, <3>1 DEF Tracker!vars, ExpiryInv, SlotsForm, ClockForm, RefusalsTrue, Tracker!TypeOK
  <2> QED
    BY <2>1, <2>2, BeginExpiry, AnswerExpiry, RetryExpiry, ExpireExpiry, PeersExpiry,
       TickExpiry DEF Tracker!Next
<1>3. ExpiryInv /\ CompletedIsTrue => Tracker!TypeOK /\ Tracker!StatusIsTrue
  BY DEF ExpiryInv, SlotTrue, Justified, CompletedIsTrue, Tracker!StatusIsTrue
<1> QED
  BY <1>1, <1>2, <1>3, CompletionIsTrue, PTL DEF Tracker!Spec

LEMMA TrackerOfBoth == MCSpec => Tracker!Spec
<1>1. MCInit => Tracker!Init
  BY DEF MCInit
<1>2. [MCNext]_<<part, webVars, otherVars>> => [Tracker!Next]_(Tracker!vars)
  BY DEF MCNext, otherVars, trackerVars, Tracker!vars
<1> QED
  BY <1>1, <1>2, PTL DEF MCSpec, Tracker!Spec

\* What the user is told of a command is true and does not change.
THEOREM TheTrackerIsTrue == MCSpec => TrackerTrue
<1>1. Tracker!TypeOK /\ Tracker!StatusIsTrue
        => (part = "tracker" => Tracker!TypeOK /\ Tracker!StatusIsTrue)
  OBVIOUS
<1>2. Tracker!Spec => [](Tracker!TypeOK /\ Tracker!StatusIsTrue)
  BY StatusStaysTrue, TrackerInstance
<1> QED
  BY <1>1, <1>2, TrackerOfBoth, OutcomeStands, PTL DEF TrackerTrue

-----------------------------------------------------------------------------
(* The adaptive volume: at most one offset is under way to the amplifier,  *)
(* for all thresholds.  An update that finds an order pending leaves the   *)
(* desired offset alone, and one that does not marks what it orders.       *)


\* The fields the argument is about; counters are of no interest.
Fields == {"desired", "attack", "release", "cooldown", "freeze", "hold",
           "pending", "reset"}

VolumeState(s) == /\ s = [f \in Fields |-> s[f]]
             /\ s.desired \in Int /\ s.pending \in BOOLEAN

\* What one step of the update may do to offset and mark.
Kept(old, s) == s.desired = old.desired /\ s.pending = old.pending
KeptOrOrdered(old, s) ==
    Kept(old, s) \/ (s.desired # old.desired /\ s.desired \in Int /\ s.pending = TRUE)

LEMMA OrderOrders ==
  ASSUME NEW s, VolumeState(s), NEW offset \in Int, offset # s.desired
  PROVE  VolumeState(Volume!Order(s, offset)) /\ KeptOrOrdered(s, Volume!Order(s, offset))
<1>1. /\ Volume!Order(s, offset).desired = offset
      /\ Volume!Order(s, offset).pending = TRUE
      /\ Volume!Order(s, offset) = [f \in Fields |-> Volume!Order(s, offset)[f]]
  BY DEF Volume!Order, VolumeState, Fields
<1> QED
  BY <1>1 DEF VolumeState, KeptOrOrdered

LEMMA ToZeroOrders ==
  ASSUME NEW s, VolumeState(s)
  PROVE  VolumeState(Volume!ToZero(s)) /\ KeptOrOrdered(s, Volume!ToZero(s))
<1>1. CASE s.desired = 0
  BY <1>1 DEF Volume!ToZero, KeptOrOrdered, Kept
<1>2. CASE s.desired # 0
  <2>1. Volume!ToZero(s) = Volume!Order(s, 0) /\ 0 \in Int /\ 0 # s.desired
    BY <1>2 DEF Volume!ToZero
  <2> QED
    BY <2>1, OrderOrders
<1> QED
  BY <1>1, <1>2

LEMMA NoEvidenceKeeps ==
  ASSUME NEW s, VolumeState(s)
  PROVE  VolumeState(Volume!NoEvidence(s)) /\ Kept(s, Volume!NoEvidence(s))
  BY DEF Volume!NoEvidence, VolumeState, Kept, Fields

LEMMA ElapsedKeeps ==
  ASSUME NEW s, VolumeState(s), NEW in \in Volume!Inputs, NEW gap \in BOOLEAN
  PROVE  VolumeState(Volume!Elapsed(s, in, gap)) /\ Kept(s, Volume!Elapsed(s, in, gap))
<1> DEFINE by == IF gap THEN Gap ELSE 1
           t == [s EXCEPT !.cooldown = Volume!Down(@, by), !.freeze = Volume!Down(@, by),
                          !.hold = Volume!Down(@, by)]
           n == [Volume!NoEvidence(t) EXCEPT !.hold = ManualHold, !.reset = TRUE]
           k == IF in.knob THEN n ELSE t
<1> HIDE DEF by
<1>1. VolumeState(t) /\ Kept(s, t)
  BY DEF VolumeState, Kept, Fields
<1> HIDE DEF t
<1>2. VolumeState(Volume!NoEvidence(t)) /\ Kept(t, Volume!NoEvidence(t))
  BY <1>1, NoEvidenceKeeps
<1>3. VolumeState(n) /\ Kept(Volume!NoEvidence(t), n)
  BY <1>2 DEF VolumeState, Kept, Fields
<1> HIDE DEF n
<1>4. VolumeState(k) /\ Kept(s, k)
  BY <1>1, <1>2, <1>3 DEF Kept
<1>5. Volume!Elapsed(s, in, gap) = IF gap \/ ~in.valid THEN Volume!NoEvidence(k) ELSE k
  BY DEF Volume!Elapsed, k, n, t, by
<1> HIDE DEF k
<1> QED
  BY <1>4, <1>5, NoEvidenceKeeps DEF Kept

LEMMA ListenedKeeps ==
  ASSUME NEW s, VolumeState(s), NEW noise
  PROVE  VolumeState(Volume!Listened(s, noise)) /\ Kept(s, Volume!Listened(s, noise))
  BY DEF Volume!Listened, VolumeState, Kept, Fields

LEMMA SteppedOrders ==
  ASSUME NEW s, VolumeState(s)
  PROVE  VolumeState(Volume!Stepped(s)) /\ KeptOrOrdered(s, Volume!Stepped(s))
<1> DEFINE timed == [s EXCEPT !.cooldown = StepInterval, !.freeze = FeedbackFreeze]
           up == [timed EXCEPT !.attack = 0]
           falls == [timed EXCEPT !.release = 0]
<1>1. VolumeState(timed) /\ timed.desired = s.desired
  BY DEF VolumeState, Fields
<1>2. /\ VolumeState(up) /\ up.desired = s.desired
      /\ VolumeState(falls) /\ falls.desired = s.desired
  BY DEF VolumeState, Fields
<1>3. s.desired \in Int
  BY DEF VolumeState
<1>4. /\ VolumeState(Volume!Order(up, s.desired + 1))
      /\ KeptOrOrdered(s, Volume!Order(up, s.desired + 1))
  <2>1. s.desired + 1 \in Int /\ s.desired + 1 # up.desired
    BY <1>2, <1>3
  <2> HIDE DEF up
  <2>2. /\ VolumeState(Volume!Order(up, s.desired + 1))
        /\ Volume!Order(up, s.desired + 1).desired = s.desired + 1
        /\ Volume!Order(up, s.desired + 1).pending = TRUE
    BY <2>1, <1>2 DEF Volume!Order, VolumeState, Fields
  <2> QED
    BY <2>1, <2>2, <1>2 DEF KeptOrOrdered
<1>5. /\ VolumeState(Volume!Order(falls, s.desired - 1))
      /\ KeptOrOrdered(s, Volume!Order(falls, s.desired - 1))
  <2>1. s.desired - 1 \in Int /\ s.desired - 1 # falls.desired
    BY <1>2, <1>3
  <2> HIDE DEF falls
  <2>2. /\ VolumeState(Volume!Order(falls, s.desired - 1))
        /\ Volume!Order(falls, s.desired - 1).desired = s.desired - 1
        /\ Volume!Order(falls, s.desired - 1).pending = TRUE
    BY <2>1, <1>2 DEF Volume!Order, VolumeState, Fields
  <2> QED
    BY <2>1, <2>2, <1>2 DEF KeptOrOrdered
<1>6. Volume!Stepped(s) \in {Volume!Order(up, s.desired + 1), Volume!Order(falls, s.desired - 1), s}
  BY DEF Volume!Stepped
<1> QED
  BY <1>4, <1>5, <1>6 DEF KeptOrOrdered, Kept

\* canview_adaptive_volume_update changes the desired offset only together
\* with the pending mark, and not at all while that is set.
LEMMA UpdatedOrders ==
  ASSUME NEW old, VolumeState(old), NEW in \in Volume!Inputs, NEW gap \in BOOLEAN
  PROVE  /\ VolumeState(Volume!Updated(old, in, gap))
         /\ KeptOrOrdered(old, Volume!Updated(old, in, gap))
         /\ old.pending => Kept(old, Volume!Updated(old, in, gap))
<1> DEFINE s == Volume!Elapsed(old, in, gap)
           r == [s EXCEPT !.reset = FALSE]
<1>1. VolumeState(s) /\ Kept(old, s)
  BY ElapsedKeeps
<1>2. Volume!Updated(old, in, gap) =
        IF gap THEN s
        ELSE IF s.pending THEN Volume!NoEvidence(s)
        ELSE IF s.reset THEN Volume!ToZero(r)
        ELSE IF ~in.enabled THEN Volume!ToZero(Volume!NoEvidence(s))
        ELSE IF s.hold > 0 \/ in.priority \/ ~in.valid THEN s
        ELSE Volume!Stepped(Volume!Listened(s, in.noise))
  BY DEF Volume!Updated
<1> HIDE DEF s
<1>3. VolumeState(r) /\ Kept(s, r)
  BY <1>1 DEF VolumeState, Kept, Fields
<1> HIDE DEF r
<1>4. /\ VolumeState(Volume!NoEvidence(s)) /\ Kept(s, Volume!NoEvidence(s))
      /\ VolumeState(Volume!Listened(s, in.noise)) /\ Kept(s, Volume!Listened(s, in.noise))
  BY <1>1, NoEvidenceKeeps, ListenedKeeps
<1>5. /\ VolumeState(Volume!ToZero(r)) /\ VolumeState(Volume!ToZero(Volume!NoEvidence(s)))
      /\ VolumeState(Volume!Stepped(Volume!Listened(s, in.noise)))
      /\ KeptOrOrdered(r, Volume!ToZero(r))
      /\ KeptOrOrdered(Volume!NoEvidence(s), Volume!ToZero(Volume!NoEvidence(s)))
      /\ KeptOrOrdered(Volume!Listened(s, in.noise), Volume!Stepped(Volume!Listened(s, in.noise)))
  BY <1>3, <1>4, ToZeroOrders, SteppedOrders
<1>6. CASE gap \/ s.pending
  BY <1>1, <1>2, <1>4, <1>6 DEF KeptOrOrdered, Kept
<1>7. CASE ~gap /\ ~s.pending
  <2>1. Volume!Updated(old, in, gap) \in {s, Volume!ToZero(r), Volume!ToZero(Volume!NoEvidence(s)),
                                   Volume!Stepped(Volume!Listened(s, in.noise))}
    BY <1>2, <1>7
  <2>2. ~old.pending
    BY <1>1, <1>7 DEF Kept
  <2> QED
    BY <2>1, <2>2, <1>1, <1>3, <1>4, <1>5 DEF KeptOrOrdered, Kept
<1> QED
  BY <1>6, <1>7
-----------------------------------------------------------------------------
VolumeInv == VolumeState(volume) /\ Volume!OneOrder

LEMMA InitVolumeInv == Volume!Init => VolumeInv
<1> SUFFICES ASSUME Volume!Init PROVE VolumeInv
  OBVIOUS
<1>1. applied \in Int /\ volume = Volume!NewVolume(applied) /\ orders = {}
  BY DEF Volume!Init
<1>2. volume.desired = applied /\ volume.pending = FALSE /\ VolumeState(volume)
  BY <1>1 DEF Volume!NewVolume, VolumeState, Fields
<1> QED
  BY <1>1, <1>2 DEF VolumeInv, Volume!OneOrder

LEMMA NextVolumeInv == VolumeInv /\ [Volume!Next]_(Volume!vars) => VolumeInv'
<1> SUFFICES ASSUME VolumeInv, [Volume!Next]_(Volume!vars) PROVE VolumeInv'
  OBVIOUS
<1>1. ASSUME NEW in \in Volume!Inputs, NEW gap \in BOOLEAN, Volume!Update(in, gap)
      PROVE  VolumeInv'
  <2>1. /\ volume' = Volume!Updated(volume, in, gap) /\ applied' = applied
        /\ orders' = IF volume'.desired # volume.desired
                     THEN orders \cup {volume'.desired} ELSE orders
    BY <1>1 DEF Volume!Update
  <2>2. /\ VolumeState(volume') /\ KeptOrOrdered(volume, volume')
        /\ volume.pending => Kept(volume, volume')
    BY <2>1, UpdatedOrders DEF VolumeInv
  <2>3. CASE Kept(volume, volume')
    BY <2>1, <2>2, <2>3 DEF VolumeInv, Volume!OneOrder, VolumeState, Kept
  <2>4. CASE ~Kept(volume, volume')
    <3>1. volume'.desired # volume.desired /\ volume'.pending = TRUE
      BY <2>2, <2>4 DEF KeptOrOrdered
    <3>2. orders = {}
      BY <2>2, <2>4 DEF VolumeInv, Volume!OneOrder
    <3> QED
      BY <2>1, <2>2, <3>1, <3>2 DEF VolumeInv, Volume!OneOrder, VolumeState
  <2> QED
    BY <2>3, <2>4
<1>2. ASSUME NEW offset \in 0 .. MaxOffset, Volume!Reconcile(offset) PROVE VolumeInv'
  <2>1. /\ volume' = [Volume!NoEvidence(volume) EXCEPT !.desired = offset, !.pending = FALSE]
        /\ applied' = offset /\ orders' = {}
    BY <1>2 DEF Volume!Reconcile
  <2>2. VolumeState(Volume!NoEvidence(volume))
    BY NoEvidenceKeeps DEF VolumeInv
  <2>3. VolumeState(volume') /\ volume'.desired = offset /\ volume'.pending = FALSE
    <3> DEFINE n == Volume!NoEvidence(volume)
               m == [n EXCEPT !.desired = offset, !.pending = FALSE]
    <3>1. offset \in Int
      OBVIOUS
    <3>2. volume' = m
      BY <2>1
    <3>3. n = [f \in Fields |-> n[f]]
      BY <2>2 DEF VolumeState
    <3> HIDE DEF n
    <3>4. VolumeState(m) /\ m.desired = offset /\ m.pending = FALSE
      BY <3>1, <3>3 DEF VolumeState, Fields
    <3> QED
      BY <3>2, <3>4 DEF VolumeState
  <2> QED
    BY <2>1, <2>3 DEF VolumeInv, Volume!OneOrder
<1>3. CASE UNCHANGED Volume!vars
  BY <1>3 DEF VolumeInv, VolumeState, Volume!OneOrder, Volume!vars
<1> QED
  BY <1>1, <1>2, <1>3 DEF Volume!Next

\* At most one order is under way, and the amplifier has the desired offset
\* or that order stands between them, however updates, the knob and late or
\* refused orders follow each other.
THEOREM OneOrderUnderWay == Volume!Spec => []Volume!OneOrder
<1>1. VolumeInv => Volume!OneOrder
  BY DEF VolumeInv
<1> QED
  BY <1>1, InitVolumeInv, NextVolumeInv, PTL DEF Volume!Spec

-----------------------------------------------------------------------------
(* The knob goes first: while its hold lasts, and until the offset was at  *)
(* zero or has been ordered back to it, no other offset is ordered.        *)

LEMMA VolumeTimes ==
  /\ Attack \in Nat /\ Release \in Nat /\ StepInterval \in Nat /\ FeedbackFreeze \in Nat
  /\ ManualHold \in Nat /\ Gap \in Nat /\ MaxOffset \in Nat \ {0}
  BY VolumeInstance DEF Volume!VolumeAssumption

Volumes == [desired : 0 .. MaxOffset, attack : 0 .. Attack, release : 0 .. Release,
            cooldown : Nat, freeze : Nat, hold : 0 .. ManualHold,
            pending : BOOLEAN, reset : BOOLEAN]

\* All but offset, mark and evidence.
SameIntent(s, t) == t.hold = s.hold /\ t.reset = s.reset

LEMMA DownBounds ==
  ASSUME NEW limit \in Nat, NEW value \in 0 .. limit, NEW by \in Nat
  PROVE  /\ Volume!Down(value, by) \in 0 .. limit
         /\ Volume!Down(value, by) + by >= value
  BY DEF Volume!Down

LEMMA DownNat ==
  ASSUME NEW value \in Nat, NEW by \in Nat
  PROVE  Volume!Down(value, by) \in Nat
  BY DEF Volume!Down

LEMMA VolumeZeros ==
  0 \in 0 .. Attack /\ 0 \in 0 .. Release /\ 0 \in 0 .. MaxOffset /\ 0 \in 0 .. ManualHold
  /\ ManualHold \in 0 .. ManualHold
  BY VolumeTimes

LEMMA NoEvidenceTyped ==
  ASSUME NEW s \in Volumes
  PROVE  /\ Volume!NoEvidence(s) \in Volumes /\ SameIntent(s, Volume!NoEvidence(s))
         /\ Kept(s, Volume!NoEvidence(s))
  BY VolumeZeros DEF Volume!NoEvidence, Volumes, SameIntent, Kept

LEMMA OrderTyped ==
  ASSUME NEW s \in Volumes, NEW offset \in 0 .. MaxOffset
  PROVE  /\ Volume!Order(s, offset) \in Volumes /\ SameIntent(s, Volume!Order(s, offset))
         /\ Volume!Order(s, offset).desired = offset
  BY DEF Volume!Order, Volumes, SameIntent

LEMMA ToZeroTyped ==
  ASSUME NEW s \in Volumes
  PROVE  /\ Volume!ToZero(s) \in Volumes /\ SameIntent(s, Volume!ToZero(s))
         /\ Volume!ToZero(s).desired = 0
<1>1. CASE s.desired = 0
  BY <1>1 DEF Volume!ToZero, SameIntent
<1>2. CASE s.desired # 0
  <2>1. Volume!ToZero(s) = Volume!Order(s, 0)
    BY <1>2 DEF Volume!ToZero
  <2> QED
    BY <2>1, OrderTyped, VolumeZeros
<1> QED
  BY <1>1, <1>2

\* The timers run down, and the knob is remembered.
LEMMA ElapsedIntent ==
  ASSUME NEW s \in Volumes, NEW in \in Volume!Inputs, NEW gap \in BOOLEAN
  PROVE  /\ Volume!Elapsed(s, in, gap) \in Volumes /\ Kept(s, Volume!Elapsed(s, in, gap))
         /\ in.knob => Volume!Elapsed(s, in, gap).hold = ManualHold
                       /\ Volume!Elapsed(s, in, gap).reset
         /\ ~in.knob =>
              /\ Volume!Elapsed(s, in, gap).hold + (IF gap THEN Gap ELSE 1) >= s.hold
              /\ Volume!Elapsed(s, in, gap).reset = s.reset
<1> DEFINE by == IF gap THEN Gap ELSE 1
           c == Volume!Down(s.cooldown, by)
           f == Volume!Down(s.freeze, by)
           d == Volume!Down(s.hold, by)
           t == [s EXCEPT !.cooldown = c, !.freeze = f, !.hold = d]
           n == Volume!NoEvidence(t)
           m == [n EXCEPT !.hold = ManualHold, !.reset = TRUE]
           k == IF in.knob THEN m ELSE t
<1>1. Volume!Elapsed(s, in, gap) = IF gap \/ ~in.valid THEN Volume!NoEvidence(k) ELSE k
  BY Zenon DEF Volume!Elapsed
<1>2. by \in Nat
  BY VolumeTimes
<1> HIDE DEF by
<1>3. c \in Nat /\ f \in Nat /\ d \in 0 .. ManualHold /\ d + by >= s.hold
  BY <1>2, DownBounds, DownNat, VolumeTimes DEF Volumes
<1> HIDE DEF c, f, d
<1>4. t \in Volumes /\ t.hold = d /\ t.reset = s.reset /\ Kept(s, t)
  BY <1>3 DEF Volumes, Kept
<1> HIDE DEF t
<1>5. n \in Volumes /\ Kept(t, n)
  BY <1>4, NoEvidenceTyped
<1> HIDE DEF n
<1>6. m \in Volumes /\ m.hold = ManualHold /\ m.reset = TRUE /\ Kept(n, m)
  BY <1>5, VolumeZeros DEF Volumes, Kept
<1> HIDE DEF m
<1>7. /\ k \in Volumes /\ Kept(s, k)
      /\ in.knob => k.hold = ManualHold /\ k.reset
      /\ ~in.knob => k.hold + by >= s.hold /\ k.reset = s.reset
  BY <1>3, <1>4, <1>5, <1>6 DEF Kept
<1> HIDE DEF k
<1>8. /\ Volume!NoEvidence(k) \in Volumes /\ SameIntent(k, Volume!NoEvidence(k))
      /\ Kept(k, Volume!NoEvidence(k))
  BY <1>7, NoEvidenceTyped
<1> QED
  BY <1>1, <1>7, <1>8 DEF SameIntent, Kept, by

LEMMA ListenedTyped ==
  ASSUME NEW s \in Volumes, NEW noise
  PROVE  /\ Volume!Listened(s, noise) \in Volumes /\ SameIntent(s, Volume!Listened(s, noise))
         /\ Kept(s, Volume!Listened(s, noise))
<1> DEFINE up == [s EXCEPT !.attack = Volume!Least(s.attack + 1, Attack),
                           !.release = Volume!Down(s.release, 2)]
           falls == [s EXCEPT !.release = Volume!Least(s.release + 1, Release),
                              !.attack = Volume!Down(s.attack, 2)]
           fades == [s EXCEPT !.attack = Volume!Down(s.attack, 1),
                              !.release = Volume!Down(s.release, 1)]
<1>1. Volume!Listened(s, noise) \in {s, up, falls, fades}
  BY DEF Volume!Listened
<1>2. /\ Volume!Least(s.attack + 1, Attack) \in 0 .. Attack
      /\ Volume!Least(s.release + 1, Release) \in 0 .. Release
  BY VolumeTimes DEF Volume!Least, Volumes
<1>3. /\ Volume!Down(s.attack, 1) \in 0 .. Attack /\ Volume!Down(s.attack, 2) \in 0 .. Attack
      /\ Volume!Down(s.release, 1) \in 0 .. Release /\ Volume!Down(s.release, 2) \in 0 .. Release
  BY DownBounds, VolumeTimes DEF Volumes
<1>4. up \in Volumes /\ SameIntent(s, up) /\ Kept(s, up)
  BY <1>2, <1>3 DEF Volumes, SameIntent, Kept
<1>5. falls \in Volumes /\ SameIntent(s, falls) /\ Kept(s, falls)
  BY <1>2, <1>3 DEF Volumes, SameIntent, Kept
<1>6. fades \in Volumes /\ SameIntent(s, fades) /\ Kept(s, fades)
  BY <1>3 DEF Volumes, SameIntent, Kept
<1>7. SameIntent(s, s) /\ Kept(s, s)
  BY DEF SameIntent, Kept
<1> HIDE DEF up, falls, fades
<1> QED
  BY <1>1, <1>4, <1>5, <1>6, <1>7

LEMMA SteppedTyped ==
  ASSUME NEW s \in Volumes
  PROVE  Volume!Stepped(s) \in Volumes /\ SameIntent(s, Volume!Stepped(s))
<1> DEFINE ready == s.cooldown = 0 /\ s.freeze = 0
           timed == [s EXCEPT !.cooldown = StepInterval, !.freeze = FeedbackFreeze]
           up == [timed EXCEPT !.attack = 0]
           falls == [timed EXCEPT !.release = 0]
<1>1. Volume!Stepped(s) =
        IF ready /\ s.attack >= Attack /\ s.desired < MaxOffset
        THEN Volume!Order(up, s.desired + 1)
        ELSE IF ready /\ s.release >= Release /\ s.desired > 0
        THEN Volume!Order(falls, s.desired - 1) ELSE s
  BY Zenon DEF Volume!Stepped
<1>2. timed \in Volumes /\ SameIntent(s, timed)
  BY VolumeTimes DEF Volumes, SameIntent
<1> HIDE DEF timed, ready
<1>3. up \in Volumes /\ SameIntent(timed, up) /\ falls \in Volumes /\ SameIntent(timed, falls)
  BY <1>2, VolumeZeros DEF Volumes, SameIntent
<1> HIDE DEF up, falls
<1>4. ASSUME s.desired < MaxOffset
      PROVE  /\ Volume!Order(up, s.desired + 1) \in Volumes
             /\ SameIntent(up, Volume!Order(up, s.desired + 1))
  <2>1. s.desired + 1 \in 0 .. MaxOffset
    BY <1>4, VolumeTimes DEF Volumes
  <2> QED
    BY <1>3, <2>1, OrderTyped
<1>5. ASSUME s.desired > 0
      PROVE  /\ Volume!Order(falls, s.desired - 1) \in Volumes
             /\ SameIntent(falls, Volume!Order(falls, s.desired - 1))
  <2>1. s.desired - 1 \in 0 .. MaxOffset
    BY <1>5, VolumeTimes DEF Volumes
  <2> QED
    BY <1>3, <2>1, OrderTyped
<1> QED
  BY <1>1, <1>2, <1>3, <1>4, <1>5 DEF SameIntent

\* What an update does to the offset and to what the knob has asked for.
LEMMA UpdatedIntent ==
  ASSUME NEW old \in Volumes, NEW in \in Volume!Inputs, NEW gap \in BOOLEAN
  PROVE  LET s == Volume!Elapsed(old, in, gap)
             r == Volume!Updated(old, in, gap)
         IN  /\ r \in Volumes /\ r.hold = s.hold
             /\ r.desired # old.desired =>
                  r.desired = 0 \/ (~old.reset /\ ~in.knob /\ s.hold = 0 /\ ~gap)
             /\ s.reset => r.reset \/ (r.desired = 0 /\ ~gap /\ ~old.pending)
<1> DEFINE s == Volume!Elapsed(old, in, gap)
           z == [s EXCEPT !.reset = FALSE]
           n == Volume!NoEvidence(s)
           l == Volume!Listened(s, in.noise)
           r == Volume!Updated(old, in, gap)
<1>1. r = IF gap THEN s
          ELSE IF s.pending THEN n
          ELSE IF s.reset THEN Volume!ToZero(z)
          ELSE IF ~in.enabled THEN Volume!ToZero(n)
          ELSE IF s.hold > 0 \/ in.priority \/ ~in.valid THEN s
          ELSE Volume!Stepped(l)
  BY Zenon DEF Volume!Updated
<1>2. /\ s \in Volumes /\ Kept(old, s)
      /\ in.knob => s.reset
      /\ ~in.knob => s.reset = old.reset
  BY ElapsedIntent
<1> HIDE DEF s, r
<1>3. n \in Volumes /\ SameIntent(s, n) /\ Kept(s, n)
  BY <1>2, NoEvidenceTyped
<1>4. l \in Volumes /\ SameIntent(s, l)
  BY <1>2, ListenedTyped
<1>5. z \in Volumes /\ z.hold = s.hold
  BY <1>2 DEF Volumes
<1> HIDE DEF n, l, z
<1>6. /\ Volume!ToZero(z) \in Volumes /\ SameIntent(z, Volume!ToZero(z))
      /\ Volume!ToZero(z).desired = 0
      /\ Volume!ToZero(n) \in Volumes /\ SameIntent(n, Volume!ToZero(n))
      /\ Volume!ToZero(n).desired = 0
      /\ Volume!Stepped(l) \in Volumes /\ SameIntent(l, Volume!Stepped(l))
  BY <1>3, <1>4, <1>5, ToZeroTyped, SteppedTyped
<1>7. /\ r \in Volumes /\ r.hold = s.hold
      /\ r.desired # old.desired =>
           r.desired = 0 \/ (~old.reset /\ ~in.knob /\ s.hold = 0 /\ ~gap)
      /\ s.reset => r.reset \/ (r.desired = 0 /\ ~gap /\ ~old.pending)
  <2>1. CASE gap \/ s.pending
    BY <1>1, <1>2, <1>3, <2>1 DEF Kept, SameIntent
  <2>2. CASE ~gap /\ ~s.pending /\ s.reset
    <3>1. r = Volume!ToZero(z) /\ ~old.pending
      BY <1>1, <1>2, <2>2 DEF Kept
    <3> QED
      BY <3>1, <1>5, <1>6, <2>2 DEF SameIntent
  <2>3. CASE ~gap /\ ~s.pending /\ ~s.reset
    <3>1. /\ r \in {Volume!ToZero(n), s, Volume!Stepped(l)}
          /\ r = Volume!Stepped(l) => ~(s.hold > 0) \/ r \in {Volume!ToZero(n), s}
      BY <1>1, <2>3
    <3>2. ~in.knob /\ ~old.reset
      BY <1>2, <2>3
    <3>3. ~(s.hold > 0) => s.hold = 0
      BY <1>2 DEF Volumes
    <3> QED
      BY <3>1, <3>2, <3>3, <1>2, <1>3, <1>4, <1>6, <2>3 DEF SameIntent, Kept
  <2> QED
    BY <2>1, <2>2, <2>3
<1> QED
  BY <1>7 DEF s, r

\* The hold lasts as long as the knob is not quiet, and an intent of the knob is
\* remembered until zero has been ordered.
KnobInv == /\ volume \in Volumes /\ applied \in 0 .. MaxOffset
           /\ quiet \in 0 .. ManualHold /\ volume.hold + quiet >= ManualHold
           /\ recalled \in BOOLEAN /\ (recalled \/ volume.reset)

Raises == volume'.desired # volume.desired /\ volume'.pending /\ ~volume.pending
            => volume'.desired = 0 \/ (recalled /\ quiet + 1 >= ManualHold)

LEMMA InitKnob == Volume!Init => KnobInv
<1> SUFFICES ASSUME Volume!Init PROVE KnobInv
  OBVIOUS
<1>1. applied \in 0 .. MaxOffset /\ quiet = ManualHold /\ recalled = TRUE
  BY VolumeTimes DEF Volume!Init
<1>2. volume = [desired |-> applied, attack |-> 0, release |-> 0, cooldown |-> 0,
                freeze |-> 0, hold |-> 0, pending |-> FALSE, reset |-> FALSE]
  BY DEF Volume!Init, Volume!NewVolume
<1>3. volume \in Volumes /\ volume.hold = 0
  BY <1>1, <1>2, VolumeZeros DEF Volumes
<1> QED
  BY <1>1, <1>3, VolumeTimes DEF KnobInv

LEMMA NextKnob ==
  ASSUME KnobInv, [Volume!Next]_(Volume!vars)
  PROVE  KnobInv' /\ (Raises \/ UNCHANGED Volume!vars)
<1>1. ASSUME NEW in \in Volume!Inputs, NEW gap \in BOOLEAN, Volume!Update(in, gap)
      PROVE  KnobInv' /\ Raises
  <2> DEFINE s == Volume!Elapsed(volume, in, gap)
             by == IF gap THEN Gap ELSE 1
  <2>1. /\ volume' = Volume!Updated(volume, in, gap) /\ applied' = applied
        /\ quiet' = IF in.knob THEN 0 ELSE Volume!Least(quiet + by, ManualHold)
        /\ recalled' = \/ recalled /\ ~in.knob
                       \/ ~gap /\ ~volume.pending /\ volume'.desired = 0
    BY <1>1 DEF Volume!Update
  <2>2. /\ in.knob => s.hold = ManualHold /\ s.reset
        /\ ~in.knob => s.hold + by >= volume.hold /\ s.reset = volume.reset
        /\ s \in Volumes
    BY ElapsedIntent DEF KnobInv
  <2>3. /\ volume' \in Volumes /\ volume'.hold = s.hold
        /\ volume'.desired # volume.desired =>
             volume'.desired = 0 \/ (~volume.reset /\ ~in.knob /\ s.hold = 0 /\ ~gap)
        /\ s.reset => volume'.reset \/ (volume'.desired = 0 /\ ~gap /\ ~volume.pending)
    BY <2>1, UpdatedIntent DEF KnobInv
  <2> HIDE DEF s
  <2>4. /\ by \in Nat /\ s.hold \in Nat /\ volume.hold \in Nat /\ quiet \in Nat
        /\ ManualHold \in Nat
    BY <2>2, VolumeTimes DEF KnobInv, Volumes
  <2>5. quiet' \in 0 .. ManualHold /\ s.hold + quiet' >= ManualHold
    BY <2>1, <2>2, <2>4 DEF KnobInv, Volume!Least
  <2>6. recalled' \in BOOLEAN /\ (recalled' \/ volume'.reset)
    BY <2>1, <2>2, <2>3 DEF KnobInv
  <2>7. Raises
    <3> SUFFICES ASSUME volume'.desired # volume.desired, volume'.desired # 0
                 PROVE  recalled /\ quiet + 1 >= ManualHold
      BY DEF Raises
    <3>1. ~volume.reset /\ ~in.knob /\ s.hold = 0 /\ ~gap
      BY <2>3
    <3>2. 1 >= volume.hold
      BY <2>2, <2>4, <3>1
    <3> QED
      BY <2>4, <3>1, <3>2 DEF KnobInv
  <2> QED
    BY <2>1, <2>3, <2>5, <2>6, <2>7 DEF KnobInv
<1>2. ASSUME NEW offset \in 0 .. MaxOffset, Volume!Reconcile(offset)
      PROVE  KnobInv' /\ Raises
  <2> DEFINE n == Volume!NoEvidence(volume)
  <2>1. /\ volume' = [n EXCEPT !.desired = offset, !.pending = FALSE]
        /\ applied' = offset /\ UNCHANGED <<quiet, recalled>>
    BY <1>2 DEF Volume!Reconcile
  <2>2. n \in Volumes /\ SameIntent(volume, n)
    BY NoEvidenceTyped DEF KnobInv
  <2> HIDE DEF n
  <2>3. volume' \in Volumes /\ SameIntent(n, volume') /\ volume'.pending = FALSE
    BY <2>1, <2>2 DEF Volumes, SameIntent
  <2> QED
    BY <2>1, <2>2, <2>3 DEF KnobInv, SameIntent, Raises
<1>3. CASE UNCHANGED Volume!vars
  BY <1>3 DEF Volume!vars, KnobInv
<1> QED
  BY <1>1, <1>2, <1>3 DEF Volume!Next

\* After the knob is turned nothing is raised or lowered by itself until the
\* hold is over and the offset was at zero or has been ordered back to it, for any
\* times and whatever order is under way when it is turned.
THEOREM KnobGoesFirst == Volume!Spec => []Volume!TypeOK /\ Volume!KnobFirst
<1>1. KnobInv => Volume!TypeOK
  BY DEF KnobInv, Volumes, Volume!TypeOK
<1>2. KnobInv /\ [Volume!Next]_(Volume!vars) => KnobInv'
  BY NextKnob
<1>3. KnobInv /\ [Volume!Next]_(Volume!vars) => [Raises]_(Volume!vars)
  BY NextKnob
<1>4. [][Raises]_(Volume!vars) => Volume!KnobFirst
  BY PTL DEF Raises, Volume!KnobFirst
<1> QED
  BY <1>1, <1>2, <1>3, <1>4, InitKnob, PTL DEF Volume!Spec

-----------------------------------------------------------------------------
(* A step by itself needs whole evidence: the counters of the code are never *)
(* ahead of the noise heard, and its timers not of the time that has passed. *)

NoneLeft(s) == s.attack = 0 /\ s.release = 0
SameTimers(s, t) == t.cooldown = s.cooldown /\ t.freeze = s.freeze
SameCounts(s, t) == t.attack = s.attack /\ t.release = s.release

\* Evidence `e` rests on what was heard: the noise in total, less the lapse.
Backed(e, h, time) ==
    h.on \in 0 .. time /\ h.off \in Nat /\ e <= h.on /\ (e = 0 \/ e + h.off <= time)

\* A counter after a tick that is listened to.
Louder(e, noise, kind, time) ==
    IF noise = kind THEN Volume!Least(e + 1, time)
    ELSE Volume!Down(e, IF noise = "KEEP" THEN 1 ELSE 2)

LEMMA CountedBacks ==
  ASSUME NEW time \in Nat, NEW e \in 0 .. time, NEW h, Backed(e, h, time), NEW noise, NEW kind
  PROVE  Backed(Louder(e, noise, kind, time), Volume!Counted(h, noise, kind, time), time)
<1> DEFINE w == IF noise = "KEEP" THEN 1 ELSE 2
           c == Volume!Counted(h, noise, kind, time)
           x == Louder(e, noise, kind, time)
<1>1. w \in {1, 2} /\ h.on \in 0 .. time /\ h.off \in Nat
  BY DEF Backed
<1>2. ASSUME noise = kind PROVE Backed(x, c, time)
  <2>1. c = [on |-> Volume!Least(h.on + 1, time), off |-> 0] /\ x = Volume!Least(e + 1, time)
    BY <1>2 DEF Volume!Counted, Louder
  <2>2. c.on = Volume!Least(h.on + 1, time) /\ c.off = 0
    BY <2>1
  <2> HIDE DEF c, x
  <2> QED
    BY <1>1, <2>1, <2>2 DEF Backed, Volume!Least
<1>3. ASSUME noise # kind PROVE Backed(x, c, time)
  <2>1. x = IF w >= e THEN 0 ELSE e - w
    BY <1>3 DEF Louder, Volume!Down
  <2>2. c = IF h.off + w >= time THEN [on |-> 0, off |-> 0]
            ELSE [on |-> h.on, off |-> h.off + w]
    BY <1>3 DEF Volume!Counted, Volume!Silence
  <2> HIDE DEF c, x, w
  <2>3. CASE h.off + w >= time
    <3>1. c.on = 0 /\ c.off = 0 /\ x = 0
      BY <1>1, <2>1, <2>2, <2>3 DEF Backed
    <3> QED
      BY <1>1, <3>1 DEF Backed
  <2>4. CASE ~(h.off + w >= time)
    <3>1. c.on = h.on /\ c.off = h.off + w
      BY <2>2, <2>4
    <3> QED
      BY <1>1, <2>1, <3>1 DEF Backed
  <2> QED
    BY <2>3, <2>4
<1> QED
  BY <1>2, <1>3 DEF c, x

LEMMA ListenedCounts ==
  ASSUME NEW s \in Volumes, NEW in \in Volume!Inputs
  PROVE  LET l == Volume!Listened(s, in.noise)
         IN  /\ SameTimers(s, l)
             /\ s.freeze > 0 => l = s
             /\ ~(s.freeze > 0) =>
                  /\ l.attack = Louder(s.attack, in.noise, "RAISE", Attack)
                  /\ l.release = Louder(s.release, in.noise, "LOWER", Release)
<1>1. in.noise \in {"RAISE", "LOWER", "KEEP"}
  BY DEF Volume!Inputs
<1>2. CASE s.freeze > 0
  BY <1>2 DEF Volume!Listened, SameTimers
<1>3. CASE ~(s.freeze > 0) /\ in.noise = "RAISE"
  BY <1>3 DEF Volume!Listened, SameTimers, Louder, Volumes
<1>4. CASE ~(s.freeze > 0) /\ in.noise = "LOWER"
  BY <1>4 DEF Volume!Listened, SameTimers, Louder, Volumes
<1>5. CASE ~(s.freeze > 0) /\ in.noise = "KEEP"
  BY <1>5 DEF Volume!Listened, SameTimers, Louder, Volumes
<1> QED
  BY <1>1, <1>2, <1>3, <1>4, <1>5

\* A step by itself, upwards or downwards.
Step(s, r) ==
    /\ s.cooldown = 0 /\ s.freeze = 0 /\ r.pending
    /\ r.cooldown = StepInterval /\ r.freeze = FeedbackFreeze
    /\ \/ /\ r.desired = s.desired + 1 /\ s.attack >= Attack
          /\ r.attack = 0 /\ r.release = s.release
       \/ /\ r.desired = s.desired - 1 /\ s.release >= Release
          /\ r.attack = s.attack /\ r.release = 0

LEMMA SteppedCounts ==
  ASSUME NEW s \in Volumes
  PROVE  Volume!Stepped(s) = s \/ Step(s, Volume!Stepped(s))
<1> DEFINE ready == s.cooldown = 0 /\ s.freeze = 0
           timed == [s EXCEPT !.cooldown = StepInterval, !.freeze = FeedbackFreeze]
           up == [timed EXCEPT !.attack = 0]
           falls == [timed EXCEPT !.release = 0]
           a == Volume!Order(up, s.desired + 1)
           b == Volume!Order(falls, s.desired - 1)
<1>1. Volume!Stepped(s) =
        IF ready /\ s.attack >= Attack /\ s.desired < MaxOffset THEN a
        ELSE IF ready /\ s.release >= Release /\ s.desired > 0 THEN b ELSE s
  BY Zenon DEF Volume!Stepped
<1>2. /\ a.cooldown = StepInterval /\ a.freeze = FeedbackFreeze /\ a.pending
      /\ a.desired = s.desired + 1 /\ a.attack = 0 /\ a.release = s.release
  BY DEF Volume!Order, Volumes
<1>3. /\ b.cooldown = StepInterval /\ b.freeze = FeedbackFreeze /\ b.pending
      /\ b.desired = s.desired - 1 /\ b.attack = s.attack /\ b.release = 0
  BY DEF Volume!Order, Volumes
<1> HIDE DEF a, b
<1> QED
  BY <1>1, <1>2, <1>3 DEF Step

LEMMA ToZeroCounts ==
  ASSUME NEW s \in Volumes
  PROVE  SameTimers(s, Volume!ToZero(s)) /\ SameCounts(s, Volume!ToZero(s))
  BY DEF Volume!ToZero, Volume!Order, Volumes, SameTimers, SameCounts

LEMMA NoEvidenceCounts ==
  ASSUME NEW s \in Volumes
  PROVE  SameTimers(s, Volume!NoEvidence(s)) /\ NoneLeft(Volume!NoEvidence(s))
  BY DEF Volume!NoEvidence, Volumes, SameTimers, NoneLeft

LEMMA ElapsedCounts ==
  ASSUME NEW s \in Volumes, NEW in \in Volume!Inputs, NEW gap \in BOOLEAN
  PROVE  LET t == Volume!Elapsed(s, in, gap)
             by == IF gap THEN Gap ELSE 1
         IN  /\ t.cooldown = Volume!Down(s.cooldown, by)
             /\ t.freeze = Volume!Down(s.freeze, by)
             /\ t.hold = IF in.knob THEN ManualHold ELSE Volume!Down(s.hold, by)
             /\ IF gap \/ in.knob \/ ~in.valid THEN NoneLeft(t) ELSE SameCounts(s, t)
<1> DEFINE by == IF gap THEN Gap ELSE 1
           c == Volume!Down(s.cooldown, by)
           f == Volume!Down(s.freeze, by)
           d == Volume!Down(s.hold, by)
           t == [s EXCEPT !.cooldown = c, !.freeze = f, !.hold = d]
           n == Volume!NoEvidence(t)
           m == [n EXCEPT !.hold = ManualHold, !.reset = TRUE]
           k == IF in.knob THEN m ELSE t
           e == Volume!Elapsed(s, in, gap)
<1>1. e = IF gap \/ ~in.valid THEN Volume!NoEvidence(k) ELSE k
  BY Zenon DEF Volume!Elapsed
<1>2. by \in Nat
  BY VolumeTimes
<1> HIDE DEF by, e
<1>3. c \in Nat /\ f \in Nat /\ d \in 0 .. ManualHold
  BY <1>2, DownBounds, DownNat, VolumeTimes DEF Volumes
<1> HIDE DEF c, f, d
<1>4. t \in Volumes /\ t.cooldown = c /\ t.freeze = f /\ t.hold = d /\ SameCounts(s, t)
  BY <1>3 DEF Volumes, SameCounts
<1> HIDE DEF t
<1>5. n \in Volumes /\ SameTimers(t, n) /\ NoneLeft(n)
  BY <1>4, NoEvidenceTyped, NoEvidenceCounts
<1> HIDE DEF n
<1>6. m \in Volumes /\ m.hold = ManualHold /\ SameTimers(n, m) /\ NoneLeft(m)
  BY <1>5, VolumeZeros DEF Volumes, SameTimers, NoneLeft
<1> HIDE DEF m
<1>7. /\ k \in Volumes /\ SameTimers(t, k) /\ k.hold = (IF in.knob THEN ManualHold ELSE d)
      /\ IF in.knob THEN NoneLeft(k) ELSE SameCounts(s, k)
  BY <1>4, <1>5, <1>6 DEF SameTimers
<1> HIDE DEF k
<1>8. /\ SameTimers(k, Volume!NoEvidence(k)) /\ NoneLeft(Volume!NoEvidence(k))
      /\ Volume!NoEvidence(k).hold = k.hold
  BY <1>7, NoEvidenceTyped, NoEvidenceCounts DEF SameIntent
<1>9. /\ e.cooldown = c /\ e.freeze = f /\ e.hold = (IF in.knob THEN ManualHold ELSE d)
      /\ IF gap \/ in.knob \/ ~in.valid THEN NoneLeft(e) ELSE SameCounts(s, e)
  BY <1>1, <1>4, <1>7, <1>8 DEF SameTimers
<1> QED
  BY <1>9 DEF c, f, d, by, e

\* What an update does to the evidence, once the time has passed: it is cleared,
\* or left alone, or it grows or shrinks with the noise and may lead to a step.
Unmoved(s, r) == SameTimers(s, r) /\ (r.desired = s.desired \/ r.desired = 0)
Deaf(old, in, gap) == gap \/ in.knob \/ ~in.valid \/ ~in.enabled \/ old.pending
Listens(s, in, r) ==
    \E l \in Volumes :
       /\ SameTimers(s, l) /\ l.desired = s.desired
       /\ l.attack = Louder(s.attack, in.noise, "RAISE", Attack)
       /\ l.release = Louder(s.release, in.noise, "LOWER", Release)
       /\ r = l \/ Step(l, r)

Effect(old, in, gap, s, r) ==
    /\ r.reset => s.reset
    /\ \/ Unmoved(s, r) /\ NoneLeft(r)
       \/ /\ Unmoved(s, r) /\ SameCounts(s, r)
          /\ \/ s.reset
             \/ ~Deaf(old, in, gap) /\ (s.hold > 0 \/ in.priority \/ s.freeze > 0)
       \/ /\ ~Deaf(old, in, gap) /\ ~s.reset /\ s.hold = 0 /\ ~in.priority
          /\ s.freeze = 0 /\ Listens(s, in, r)

LEMMA UpdatedCounts ==
  ASSUME NEW old \in Volumes, NEW in \in Volume!Inputs, NEW gap \in BOOLEAN
  PROVE  Effect(old, in, gap, Volume!Elapsed(old, in, gap), Volume!Updated(old, in, gap))
<1> DEFINE s == Volume!Elapsed(old, in, gap)
           z == [s EXCEPT !.reset = FALSE]
           n == Volume!NoEvidence(s)
           l == Volume!Listened(s, in.noise)
           r == Volume!Updated(old, in, gap)
<1>1. r = IF gap THEN s
          ELSE IF s.pending THEN n
          ELSE IF s.reset THEN Volume!ToZero(z)
          ELSE IF ~in.enabled THEN Volume!ToZero(n)
          ELSE IF s.hold > 0 \/ in.priority \/ ~in.valid THEN s
          ELSE Volume!Stepped(l)
  BY Zenon DEF Volume!Updated
<1>2. /\ s \in Volumes /\ s.pending = old.pending
      /\ in.knob => s.reset
      /\ gap \/ ~in.valid => NoneLeft(s)
  BY ElapsedIntent, ElapsedCounts DEF Kept
<1> HIDE DEF s, r
<1>3. /\ n \in Volumes /\ SameIntent(s, n) /\ Kept(s, n) /\ SameTimers(s, n) /\ NoneLeft(n)
  BY <1>2, NoEvidenceTyped, NoEvidenceCounts
<1>4. /\ l \in Volumes /\ SameIntent(s, l) /\ Kept(s, l) /\ SameTimers(s, l)
      /\ s.freeze > 0 => l = s
      /\ ~(s.freeze > 0) =>
           /\ l.attack = Louder(s.attack, in.noise, "RAISE", Attack)
           /\ l.release = Louder(s.release, in.noise, "LOWER", Release)
  BY <1>2, ListenedTyped, ListenedCounts
<1>5. z \in Volumes /\ z.reset = FALSE /\ SameTimers(s, z) /\ SameCounts(s, z)
  BY <1>2 DEF Volumes, SameTimers, SameCounts
<1> HIDE DEF n, l, z
<1>6. ASSUME gap
      PROVE  Effect(old, in, gap, s, r)
  BY <1>1, <1>2, <1>6 DEF Effect, Unmoved, SameTimers
<1>7. ASSUME ~gap /\ s.pending
      PROVE  Effect(old, in, gap, s, r)
  BY <1>1, <1>3, <1>7 DEF Effect, Unmoved, Kept, SameIntent
<1>8. ASSUME ~gap /\ ~s.pending /\ s.reset
      PROVE  Effect(old, in, gap, s, r)
  <2>1. /\ r = Volume!ToZero(z) /\ r.desired = 0
        /\ SameTimers(z, r) /\ SameCounts(z, r)
    BY <1>1, <1>5, <1>8, ToZeroTyped, ToZeroCounts
  <2> QED
    BY <2>1, <1>5, <1>8 DEF Effect, Unmoved, SameTimers, SameCounts
<1>9. ASSUME ~gap /\ ~s.pending /\ ~s.reset /\ ~in.enabled
      PROVE  Effect(old, in, gap, s, r)
  <2>1. /\ r = Volume!ToZero(n) /\ r.desired = 0 /\ SameIntent(n, r)
        /\ SameTimers(n, r) /\ SameCounts(n, r)
    BY <1>1, <1>3, <1>9, ToZeroTyped, ToZeroCounts
  <2> QED
    BY <2>1, <1>3, <1>9 DEF Effect, Unmoved, SameTimers, SameCounts, NoneLeft, SameIntent
<1>10. ASSUME ~gap /\ ~s.pending /\ ~s.reset /\ in.enabled
      PROVE  Effect(old, in, gap, s, r)
  <2>1. CASE ~in.valid
    BY <1>1, <1>2, <1>10, <2>1 DEF Effect, Unmoved, SameTimers
  <2>2. CASE in.valid /\ (s.hold > 0 \/ in.priority)
    BY <1>1, <1>2, <1>10, <2>2 DEF Effect, Unmoved, SameTimers, SameCounts, Deaf
  <2>3. CASE in.valid /\ ~(s.hold > 0) /\ ~in.priority
    <3>1. r = Volume!Stepped(l) /\ (r = l \/ Step(l, r)) /\ SameIntent(l, r)
      BY <1>1, <1>4, <1>10, <2>3, SteppedTyped, SteppedCounts
    <3>2. ~Deaf(old, in, gap) /\ s.hold = 0 /\ s.freeze \in Nat
      BY <1>2, <1>10, <2>3 DEF Deaf, Volumes
    <3>3. CASE s.freeze > 0
      <4>1. r = s
        BY <1>4, <3>1, <3>3 DEF Step
      <4> QED
        BY <1>10, <3>2, <3>3, <4>1 DEF Effect, Unmoved, SameTimers, SameCounts
    <3>4. CASE ~(s.freeze > 0)
      <4>1. Listens(s, in, r)
        BY <1>4, <3>1, <3>4 DEF Listens, Kept
      <4> QED
        BY <1>4, <1>10, <2>3, <3>1, <3>2, <3>4, <4>1 DEF Effect, SameIntent
    <3> QED
      BY <3>3, <3>4
  <2> QED
    BY <2>1, <2>2, <2>3
<1> QED
  BY <1>6, <1>7, <1>8, <1>9, <1>10 DEF s, r

-----------------------------------------------------------------------------
\* The timers of the code are those of the history, no evidence is left while a
\* knob waits or the microphone settles, and what is left was heard.
EvidenceInv ==
    /\ volume.hold + quiet = ManualHold
    /\ calm \in 0 .. Volume!CalmTime
    /\ volume.cooldown + calm >= StepInterval /\ volume.freeze + calm >= FeedbackFreeze
    /\ volume.reset \/ (volume.freeze > 0 /\ ~volume.pending) => NoneLeft(volume)
    /\ Backed(volume.attack, heard.raise, Attack)
    /\ Backed(volume.release, heard.lower, Release)

\* A step by itself rests on evidence.
Steps == volume'.desired # volume.desired /\ volume'.pending /\ ~volume.pending
           => \/ volume'.desired = 0
              \/ /\ calm + 1 >= StepInterval
                 /\ \/ volume'.desired = volume.desired + 1 /\ heard'.raise.on >= Attack
                    \/ volume'.desired = volume.desired - 1 /\ heard'.lower.on >= Release

LEMMA NothingIsHeard ==
  /\ Volume!Nothing.raise.on = 0 /\ Volume!Nothing.raise.off = 0
  /\ Volume!Nothing.lower.on = 0 /\ Volume!Nothing.lower.off = 0
  BY DEF Volume!Nothing, Volume!Silence

LEMMA NothingBacksNone ==
  /\ Backed(0, Volume!Nothing.raise, Attack) /\ Backed(0, Volume!Nothing.lower, Release)
  BY NothingIsHeard, VolumeTimes DEF Backed

LEMMA InitEvidence == Volume!Init => EvidenceInv
<1> SUFFICES ASSUME Volume!Init PROVE EvidenceInv
  OBVIOUS
<1>1. volume = [desired |-> applied, attack |-> 0, release |-> 0, cooldown |-> 0,
                freeze |-> 0, hold |-> 0, pending |-> FALSE, reset |-> FALSE]
  BY DEF Volume!Init, Volume!NewVolume
<1>2. /\ volume.attack = 0 /\ volume.release = 0 /\ volume.cooldown = 0
      /\ volume.freeze = 0 /\ volume.hold = 0
  BY <1>1
<1>3. quiet = ManualHold /\ calm = Volume!CalmTime /\ heard = Volume!Nothing
  BY DEF Volume!Init
<1>4. Backed(volume.attack, heard.raise, Attack) /\ Backed(volume.release, heard.lower, Release)
  BY <1>2, <1>3, NothingBacksNone
<1> QED
  BY <1>2, <1>3, <1>4, VolumeTimes DEF EvidenceInv, Volume!CalmTime, NoneLeft

LEMMA SumAhead == ASSUME NEW x \in Nat, NEW y \in Nat PROVE x + y >= x
  OBVIOUS

LEMMA UpdateEvidence ==
  ASSUME KnobInv, EvidenceInv, NEW in \in Volume!Inputs, NEW gap \in BOOLEAN,
         Volume!Update(in, gap)
  PROVE  EvidenceInv' /\ Steps
<1> DEFINE s == Volume!Elapsed(volume, in, gap)
           by == IF gap THEN Gap ELSE 1
           ordered == volume'.desired # volume.desired
           counted == [raise |-> Volume!Counted(heard.raise, in.noise, "RAISE", Attack),
                       lower |-> Volume!Counted(heard.lower, in.noise, "LOWER", Release)]
           deaf == Deaf(volume, in, gap)
           off == \/ ~recalled \/ quiet + 1 < ManualHold \/ in.priority
                  \/ calm + 1 < FeedbackFreeze
<1>1. /\ volume' = Volume!Updated(volume, in, gap)
      /\ quiet' = IF in.knob THEN 0 ELSE Volume!Least(quiet + by, ManualHold)
      /\ calm' = IF ordered /\ volume'.desired # 0 THEN 0
                 ELSE Volume!Least(calm + by, Volume!CalmTime)
      /\ heard' = IF deaf THEN Volume!Nothing ELSE IF off THEN heard ELSE counted
  BY DEF Volume!Update, Volume!Heard, Deaf
<1>2. /\ volume \in Volumes /\ quiet \in 0 .. ManualHold /\ (recalled \/ volume.reset)
      /\ by \in Nat /\ (~gap => by = 1) /\ calm \in Nat
      /\ ManualHold \in Nat /\ StepInterval \in Nat /\ FeedbackFreeze \in Nat
      /\ Volume!CalmTime \in Nat
      /\ StepInterval <= Volume!CalmTime /\ FeedbackFreeze <= Volume!CalmTime
  BY VolumeTimes DEF KnobInv, EvidenceInv, Volume!CalmTime
<1>3. /\ s.cooldown = Volume!Down(volume.cooldown, by)
      /\ s.freeze = Volume!Down(volume.freeze, by)
      /\ s.hold = IF in.knob THEN ManualHold ELSE Volume!Down(volume.hold, by)
      /\ IF gap \/ in.knob \/ ~in.valid THEN NoneLeft(s) ELSE SameCounts(volume, s)
      /\ s \in Volumes /\ s.desired = volume.desired
      /\ ~in.knob => s.reset = volume.reset
  BY <1>2, ElapsedCounts, ElapsedIntent DEF Kept
<1>4. /\ volume' \in Volumes /\ volume'.hold = s.hold
      /\ volume.pending => volume'.pending
  <2>1. volume' \in Volumes /\ volume'.hold = s.hold
    BY <1>1, <1>2, UpdatedIntent
  <2>2. VolumeState(volume)
    BY <1>2 DEF VolumeState, Volumes, Fields
  <2>3. volume.pending => Kept(volume, volume')
    BY <1>1, <2>2, UpdatedOrders
  <2> QED
    BY <2>1, <2>3 DEF Kept
<1>5. /\ volume'.reset => s.reset
      /\ \/ Unmoved(s, volume') /\ NoneLeft(volume')
         \/ /\ Unmoved(s, volume') /\ SameCounts(s, volume')
            /\ s.reset \/ (~deaf /\ (s.hold > 0 \/ in.priority \/ s.freeze > 0))
         \/ /\ ~deaf /\ ~s.reset /\ s.hold = 0 /\ ~in.priority
            /\ s.freeze = 0 /\ Listens(s, in, volume')
  BY <1>1, <1>2, UpdatedCounts DEF Effect, deaf
<1> HIDE DEF s, by, deaf, counted
<1>6. /\ volume.cooldown \in Nat /\ volume.freeze \in Nat /\ volume.hold \in Nat
      /\ s.cooldown \in Nat /\ s.freeze \in Nat /\ s.hold \in Nat
  BY <1>2, <1>3, VolumeTimes DEF Volumes
<1>7. /\ s.cooldown + by >= volume.cooldown /\ s.freeze + by >= volume.freeze
      /\ s.freeze <= volume.freeze
      /\ ~in.knob => s.hold + by >= volume.hold /\ (s.hold > 0 => s.hold + by = volume.hold)
  BY <1>2, <1>3, <1>6 DEF Volume!Down
<1>8. s.reset \/ (s.freeze > 0 /\ ~volume.pending) => NoneLeft(s)
  <2>1. CASE gap \/ in.knob \/ ~in.valid
    BY <1>3, <2>1
  <2>2. CASE ~(gap \/ in.knob \/ ~in.valid)
    <3>1. SameCounts(volume, s) /\ s.reset = volume.reset
      BY <1>3, <2>2
    <3>2. s.freeze > 0 => volume.freeze > 0
      BY <1>6, <1>7
    <3> QED
      BY <3>1, <3>2 DEF EvidenceInv, NoneLeft, SameCounts
  <2> QED
    BY <2>1, <2>2
<1>9. ASSUME ~deaf PROVE SameCounts(volume, s) /\ ~gap /\ ~in.knob /\ by = 1 /\ ~volume.pending
  BY <1>2, <1>3, <1>9 DEF deaf, Deaf
<1>10. volume'.hold + quiet' = ManualHold
  BY <1>1, <1>2, <1>3, <1>4, <1>6 DEF EvidenceInv, Volume!Least, Volume!Down
<1>11. ASSUME Unmoved(s, volume') \/ Listens(s, in, volume')
       PROVE  /\ calm' \in 0 .. Volume!CalmTime
              /\ volume'.cooldown + calm' >= StepInterval
              /\ volume'.freeze + calm' >= FeedbackFreeze
  <2>1. calm' \in 0 .. Volume!CalmTime
    BY <1>1, <1>2 DEF Volume!Least
  <2>2. CASE SameTimers(s, volume') /\ (volume'.desired = s.desired \/ volume'.desired = 0)
    <3>1. calm' = Volume!Least(calm + by, Volume!CalmTime)
      BY <1>1, <1>3, <2>2
    <3>2. calm' >= calm + by \/ calm' = Volume!CalmTime
      BY <1>2, <3>1 DEF Volume!Least
    <3> QED
      BY <1>2, <1>6, <1>7, <2>1, <2>2, <3>2 DEF EvidenceInv, SameTimers
  <2>3. CASE volume'.cooldown = StepInterval /\ volume'.freeze = FeedbackFreeze
    <3>1. calm' \in Nat /\ StepInterval \in Nat /\ FeedbackFreeze \in Nat
      BY <1>2, <2>1
    <3>2. StepInterval + calm' >= StepInterval /\ FeedbackFreeze + calm' >= FeedbackFreeze
      BY <3>1, SumAhead
    <3> QED
      BY <2>1, <2>3, <3>2
  <2>4. \/ SameTimers(s, volume') /\ (volume'.desired = s.desired \/ volume'.desired = 0)
        \/ volume'.cooldown = StepInterval /\ volume'.freeze = FeedbackFreeze
    BY <1>11 DEF Unmoved, Listens, Step
  <2> QED
    BY <2>1, <2>2, <2>3, <2>4
<1>12. /\ Backed(0, heard'.raise, Attack) /\ Backed(0, heard'.lower, Release)
       /\ ~deaf /\ ~off =>
            /\ Backed(Louder(volume.attack, in.noise, "RAISE", Attack), heard'.raise, Attack)
            /\ Backed(Louder(volume.release, in.noise, "LOWER", Release), heard'.lower, Release)
  <2>1. /\ Backed(volume.attack, heard.raise, Attack)
        /\ Backed(volume.release, heard.lower, Release)
        /\ volume.attack \in 0 .. Attack /\ volume.release \in 0 .. Release
        /\ Attack \in Nat /\ Release \in Nat
    BY <1>2, VolumeTimes DEF EvidenceInv, Volumes
  <2>2. /\ Backed(Louder(volume.attack, in.noise, "RAISE", Attack), counted.raise, Attack)
        /\ Backed(Louder(volume.release, in.noise, "LOWER", Release), counted.lower, Release)
    BY <2>1, CountedBacks DEF counted
  <2>3. /\ Backed(0, heard.raise, Attack) /\ Backed(0, heard.lower, Release)
        /\ Backed(0, counted.raise, Attack) /\ Backed(0, counted.lower, Release)
    BY <2>1, <2>2 DEF Backed
  <2> QED
    BY <1>1, <2>2, <2>3, NothingBacksNone
<1>13. CASE Unmoved(s, volume') /\ NoneLeft(volume')
  <2>1. /\ Backed(volume'.attack, heard'.raise, Attack)
        /\ Backed(volume'.release, heard'.lower, Release)
    BY <1>12, <1>13 DEF NoneLeft
  <2>2. Steps
    BY <1>3, <1>13 DEF Steps, Unmoved
  <2> QED
    BY <1>10, <1>11, <1>13, <2>1, <2>2 DEF EvidenceInv
<1>14. CASE /\ Unmoved(s, volume') /\ SameCounts(s, volume') /\ ~NoneLeft(volume')
            /\ s.reset \/ (~deaf /\ (s.hold > 0 \/ in.priority \/ s.freeze > 0))
  <2>1. ~NoneLeft(s) /\ ~s.reset
    BY <1>8, <1>14 DEF NoneLeft, SameCounts
  <2>2. ~deaf /\ ~(s.freeze > 0) /\ ~volume'.reset
    BY <1>5, <1>8, <1>9, <1>14, <2>1
  <2>3. off
    <3>1. CASE in.priority
      BY <3>1
    <3>2. CASE s.hold > 0
      <4>1. s.hold + 1 = volume.hold
        BY <1>7, <1>9, <2>2, <3>2
      <4> QED
        BY <1>2, <1>6, <3>2, <4>1 DEF EvidenceInv
    <3> QED
      BY <1>14, <2>1, <2>2, <3>1, <3>2
  <2>4. heard' = heard /\ volume'.attack = volume.attack /\ volume'.release = volume.release
    BY <1>1, <1>9, <1>14, <2>2, <2>3 DEF SameCounts
  <2>5. ~(volume'.freeze > 0)
    BY <1>14, <2>2 DEF Unmoved, SameTimers
  <2>6. Steps
    BY <1>3, <1>14 DEF Steps, Unmoved
  <2> QED
    BY <1>10, <1>11, <1>14, <2>2, <2>4, <2>5, <2>6 DEF EvidenceInv
<1>15. CASE /\ ~deaf /\ ~s.reset /\ s.hold = 0 /\ ~in.priority
            /\ s.freeze = 0 /\ Listens(s, in, volume')
  <2>1. /\ quiet + 1 >= ManualHold /\ recalled /\ calm + 1 >= FeedbackFreeze
        /\ ~volume'.reset
    <3>1. ~volume.reset /\ recalled /\ ~volume'.reset
      BY <1>2, <1>3, <1>5, <1>9, <1>15
    <3>2. volume.hold <= 1 /\ volume.freeze <= 1
      BY <1>6, <1>7, <1>9, <1>15
    <3> QED
      BY <1>2, <1>6, <3>1, <3>2 DEF EvidenceInv
  <2>2. ~off
    BY <1>2, <1>15, <2>1
  <2>3. /\ Backed(Louder(volume.attack, in.noise, "RAISE", Attack), heard'.raise, Attack)
        /\ Backed(Louder(volume.release, in.noise, "LOWER", Release), heard'.lower, Release)
    BY <1>12, <1>15, <2>2
  <2>4. PICK l \in Volumes :
           /\ SameTimers(s, l) /\ l.desired = s.desired
           /\ l.attack = Louder(s.attack, in.noise, "RAISE", Attack)
           /\ l.release = Louder(s.release, in.noise, "LOWER", Release)
           /\ volume' = l \/ Step(l, volume')
    BY <1>15 DEF Listens
  <2>5. /\ Backed(l.attack, heard'.raise, Attack) /\ Backed(l.release, heard'.lower, Release)
        /\ l.attack \in Nat /\ l.release \in Nat /\ l.cooldown = s.cooldown /\ l.freeze = 0
        /\ l.desired = volume.desired
    BY <1>3, <1>9, <1>15, <2>3, <2>4, VolumeTimes DEF SameCounts, SameTimers, Volumes
  <2>6. CASE volume' = l
    <3>1. Steps
      BY <2>5, <2>6 DEF Steps
    <3> QED
      BY <1>10, <1>11, <1>15, <2>1, <2>5, <2>6, <3>1 DEF EvidenceInv
  <2>7. CASE Step(l, volume')
    <3>1. /\ Backed(volume'.attack, heard'.raise, Attack)
          /\ Backed(volume'.release, heard'.lower, Release)
      BY <1>12, <2>5, <2>7 DEF Step
    <3>2. calm + 1 >= StepInterval
      <4>1. s.cooldown = 0 /\ by = 1
        BY <1>9, <1>15, <2>5, <2>7 DEF Step
      <4> QED
        BY <1>2, <1>6, <1>7, <4>1 DEF EvidenceInv
    <3>3. /\ l.attack <= heard'.raise.on /\ heard'.raise.on \in Nat
          /\ l.release <= heard'.lower.on /\ heard'.lower.on \in Nat
      BY <2>5, VolumeTimes DEF Backed
    <3>4. Steps
      BY <2>5, <2>7, <3>2, <3>3, VolumeTimes DEF Steps, Step
    <3> QED
      BY <1>10, <1>11, <1>15, <2>1, <2>7, <3>1, <3>4 DEF EvidenceInv, Step
  <2> QED
    BY <2>4, <2>6, <2>7
<1> QED
  BY <1>5, <1>13, <1>14, <1>15

LEMMA NextEvidence ==
  ASSUME KnobInv, EvidenceInv, [Volume!Next]_(Volume!vars)
  PROVE  EvidenceInv' /\ (Steps \/ UNCHANGED Volume!vars)
<1>1. CASE \E in \in Volume!Inputs, gap \in BOOLEAN : Volume!Update(in, gap)
  BY <1>1, UpdateEvidence
<1>2. ASSUME NEW offset \in 0 .. MaxOffset, Volume!Reconcile(offset)
      PROVE  EvidenceInv' /\ Steps
  <2> DEFINE n == Volume!NoEvidence(volume)
  <2>1. /\ volume' = [n EXCEPT !.desired = offset, !.pending = FALSE]
        /\ heard' = Volume!Nothing /\ UNCHANGED <<quiet, calm>>
    BY <1>2 DEF Volume!Reconcile
  <2>2. n \in Volumes /\ SameIntent(volume, n) /\ SameTimers(volume, n) /\ NoneLeft(n)
    BY NoEvidenceTyped, NoEvidenceCounts DEF KnobInv
  <2> HIDE DEF n
  <2>3. /\ volume'.hold = volume.hold /\ volume'.cooldown = volume.cooldown
        /\ volume'.freeze = volume.freeze /\ NoneLeft(volume') /\ volume'.pending = FALSE
    BY <2>1, <2>2 DEF Volumes, SameIntent, SameTimers, NoneLeft
  <2>4. /\ Backed(volume'.attack, heard'.raise, Attack)
        /\ Backed(volume'.release, heard'.lower, Release)
    BY <2>1, <2>3, NothingBacksNone DEF NoneLeft
  <2> QED
    BY <2>1, <2>3, <2>4 DEF EvidenceInv, Steps
<1>3. CASE UNCHANGED Volume!vars
  BY <1>3 DEF Volume!vars, EvidenceInv
<1> QED
  BY <1>1, <1>2, <1>3 DEF Volume!Next

\* The volume is raised, or lowered, by itself only on noise that was heard for its
\* whole time in total, with no lapse that wears it all away and no interruption,
\* and a step interval after the last step, for any times and offsets.
THEOREM StepsRestOnEvidence == Volume!Spec => Volume!StepsOnEvidence
<1>1. KnobInv /\ [Volume!Next]_(Volume!vars) => KnobInv'
  BY NextKnob
<1>2. KnobInv /\ EvidenceInv /\ [Volume!Next]_(Volume!vars)
        => EvidenceInv' /\ [Steps]_(Volume!vars)
  BY NextEvidence
<1>3. [][Steps]_(Volume!vars) => Volume!StepsOnEvidence
  BY PTL DEF Steps, Volume!StepsOnEvidence
<1> QED
  BY <1>1, <1>2, <1>3, InitKnob, InitEvidence, PTL DEF Volume!Spec

-----------------------------------------------------------------------------
(* The automatic sport mode between the car and the driver.                *)

LEMMA SportTimes ==
  /\ SpeedConfirm \in Nat /\ AccelConfirm \in Nat /\ ExitConfirm \in Nat
  /\ MinimumHold \in Nat /\ CommandTimeout \in Nat /\ Gap \in Nat
  /\ "SPORT" \in Modes /\ "NONE" \notin Modes /\ "UNKNOWN" \notin Modes
  BY SportInstance DEF Sport!SportAssumption

LEMMA Zeros ==
  /\ 0 \in 0 .. SpeedConfirm /\ 0 \in 0 .. AccelConfirm /\ 0 \in 0 .. ExitConfirm
  /\ 0 \in 0 .. MinimumHold /\ 0 \in 0 .. CommandTimeout
  BY SportTimes

Statuses == {"DISABLED", "ARMED", "ENTER_PENDING", "ACTIVE", "EXIT_PENDING",
             "MANUAL_HOLD", "INHIBITED"}

SportStates == [status : Statuses, previous : Sport!Restorable \cup {"UNKNOWN"},
                owns : BOOLEAN, speed : 0 .. SpeedConfirm, accel : 0 .. AccelConfirm,
                exit : 0 .. ExitConfirm, active : 0 .. MinimumHold,
                pending : 0 .. CommandTimeout]

\* The automation has asked for SPORT or owes the car its former mode.
Engaged(s) == s.owns \/ s.status \in {"ENTER_PENDING", "EXIT_PENDING"}

NoDemand(s) == s.speed = 0 /\ s.accel = 0

\* Demand is collected only by an automation that is neither engaged nor held.
SportForm(s) ==
    /\ s \in SportStates
    /\ s.status = "ACTIVE" => s.owns
    /\ Engaged(s) \/ s.status = "MANUAL_HOLD" => NoDemand(s)

\* An update that may listen to the demand, and its counters afterwards.
Quietly(s, in, gap) ==
    /\ ~gap /\ ~pressed /\ Sport!safety_ready(in)
    /\ s.status \notin {"ENTER_PENDING", "EXIT_PENDING", "MANUAL_HOLD"}
Collecting(s, in, gap, mode) == Quietly(s, in, gap) /\ in.enabled /\ mode # "SPORT"
Speed(s, in) == Sport!Gathered(s.speed, "speed" \in in.wants, SpeedConfirm)
Accel(s, in) == Sport!Gathered(s.accel, "accel" \in in.wants, AccelConfirm)

\* The demand left in state t: none, that of s as it was, or one tick more or less.
Demanding(s, in, gap, mode, t) ==
    \/ NoDemand(t)
    \/ Quietly(s, in, gap) /\ ~in.enabled /\ t.speed = s.speed /\ t.accel = s.accel
    \/ Collecting(s, in, gap, mode) /\ t.speed = Speed(s, in) /\ t.accel = Accel(s, in)

\* What one update may do to state s, once a gap has cleared its evidence.
Outcome(s, in, gap, mode, r) ==
    /\ SportForm(r.state)
    /\ r.action \in {"NONE", "ENTER", "RESTORE"}
    /\ r.action = "NONE" =>
         /\ r.state.status \in {"ENTER_PENDING", "EXIT_PENDING"} => s.status = r.state.status
         /\ Engaged(r.state) => Engaged(s) /\ ~pressed /\ r.state.previous = s.previous
    /\ r.action = "RESTORE" =>
         /\ r.state.status = "EXIT_PENDING" /\ Engaged(s) /\ ~pressed
         /\ in.fresh /\ mode = "SPORT"
         /\ r.state.previous = s.previous /\ s.previous \in Sport!Restorable
    /\ r.action = "ENTER" =>
         /\ r.state.status = "ENTER_PENDING" /\ ~pressed /\ in.fresh
         /\ r.state.previous = mode
         /\ Collecting(s, in, gap, mode)
         /\ Speed(s, in) >= SpeedConfirm \/ Accel(s, in) >= AccelConfirm
         /\ NoDemand(r.state)
    /\ r.action # "ENTER" => Demanding(s, in, gap, mode, r.state)

LEMMA UpDown ==
  ASSUME NEW limit \in Nat, NEW value \in 0 .. limit, NEW by \in Nat
  PROVE  /\ Sport!Up(value, by, limit) \in 0 .. limit
         /\ Sport!Up(value, by, limit) <= value + by
         /\ Sport!Down(value, by) \in 0 .. limit /\ Sport!Down(value, by) <= value
  BY DEF Sport!Up, Sport!Down, Sport!Least, Sport!Most

LEMMA GapClears ==
  ASSUME NEW old, SportForm(old), NEW gap \in BOOLEAN
  PROVE  /\ SportForm(Sport!AfterGap(old, gap))
         /\ Sport!AfterGap(old, gap).status = old.status
         /\ Sport!AfterGap(old, gap).owns = old.owns
         /\ Sport!AfterGap(old, gap).previous = old.previous
         /\ gap => NoDemand(Sport!AfterGap(old, gap))
         /\ ~gap => /\ Sport!AfterGap(old, gap).speed = old.speed
                    /\ Sport!AfterGap(old, gap).accel = old.accel
<1> DEFINE s == Sport!AfterGap(old, gap)
<1>1. CASE ~gap
  BY <1>1 DEF Sport!AfterGap, SportForm, SportStates
<1>2. CASE gap
  <2>1. s = [status |-> old.status, previous |-> old.previous, owns |-> old.owns,
             speed |-> 0, accel |-> 0, exit |-> 0, active |-> 0, pending |-> old.pending]
    BY <1>2 DEF Sport!AfterGap, SportForm, SportStates
  <2> HIDE DEF s
  <2>2. s \in SportStates
    BY <2>1, SportTimes DEF SportForm, SportStates
  <2>3. s.owns \in BOOLEAN /\ old.speed \in Nat /\ old.accel \in Nat
    BY <2>1, SportTimes DEF SportForm, SportStates
  <2>4. SportForm(s) /\ NoDemand(s)
    BY <2>1, <2>2, <2>3 DEF SportForm, Engaged, NoDemand
  <2>5. s.status = old.status /\ s.owns = old.owns /\ s.previous = old.previous
    BY <2>1
  <2> QED
    BY <1>2, <2>4, <2>5 DEF s
<1> QED
  BY <1>1, <1>2

\* enter_manual_hold
LEMMA HoldForgets ==
  ASSUME NEW s, SportForm(s), NEW in \in Sport!Inputs, NEW gap \in BOOLEAN, NEW mode
  PROVE  Outcome(s, in, gap, mode, Sport!Result(Sport!EnterManualHold(s), "NONE"))
<1> DEFINE h == Sport!EnterManualHold(s)
<1>1. h = [status |-> "MANUAL_HOLD", previous |-> "UNKNOWN", owns |-> FALSE, speed |-> 0,
           accel |-> 0, exit |-> 0, active |-> 0, pending |-> 0]
  <2> DEFINE f == Sport!Fresh
  <2>1. f = [status |-> "DISABLED", previous |-> "UNKNOWN", owns |-> FALSE, speed |-> 0,
             accel |-> 0, exit |-> 0, active |-> 0, pending |-> 0]
    BY DEF Sport!Fresh
  <2>2. h = [f EXCEPT !.status = "MANUAL_HOLD"]
    BY Zenon DEF Sport!EnterManualHold
  <2> HIDE DEF f, h
  <2> QED
    BY <2>1, <2>2
<1> HIDE DEF h
<1>2. h \in SportStates
  BY <1>1, SportTimes DEF SportStates, Statuses
<1> QED
  BY <1>1, <1>2 DEF Sport!Result, Outcome, Demanding, SportForm, Engaged, NoDemand, h

\* An update that keeps what the automation remembers and asks for nothing.
Keeping(s, t) ==
    /\ SportForm(t)
    /\ t.status \in {"ENTER_PENDING", "EXIT_PENDING"} => s.status = t.status
    /\ Engaged(t) => Engaged(s) /\ t.previous = s.previous

LEMMA KeepingIsOutcome ==
  ASSUME NEW s, NEW t, Keeping(s, t), NEW in, NEW gap, NEW mode, ~pressed,
         Demanding(s, in, gap, mode, t)
  PROVE  Outcome(s, in, gap, mode, Sport!Result(t, "NONE"))
  BY DEF Keeping, Outcome, Sport!Result

LEMMA HoldUpdates ==
  ASSUME NEW s, SportForm(s), s.status = "MANUAL_HOLD", ~pressed,
         NEW in \in Sport!Inputs, NEW gap \in BOOLEAN, NEW mode
  PROVE  Outcome(s, in, gap, mode, Sport!HoldUpdate(s, in, gap))
<1> DEFINE new == IF ~in.enabled THEN "DISABLED"
                  ELSE IF in.rearm /\ Sport!safety_ready(in) /\ ~gap THEN "ARMED"
                  ELSE s.status
           t == [s EXCEPT !.status = new]
<1>1. Sport!HoldUpdate(s, in, gap) = Sport!Result(t, "NONE")
  BY DEF Sport!HoldUpdate, SportForm, SportStates
<1>2. new \in {"DISABLED", "ARMED", "MANUAL_HOLD"}
  OBVIOUS
<1> HIDE DEF new
<1>3. /\ t \in SportStates /\ t.status = new /\ t.owns = s.owns /\ t.previous = s.previous
      /\ t.speed = s.speed /\ t.accel = s.accel
  BY <1>2 DEF SportForm, SportStates, Statuses
<1>4. s.speed = 0 /\ s.accel = 0
  BY DEF SportForm, NoDemand
<1> HIDE DEF t
<1>5. Keeping(s, t) /\ NoDemand(t)
  BY <1>2, <1>3, <1>4 DEF Keeping, SportForm, Engaged, NoDemand
<1> QED
  BY <1>1, <1>5, KeepingIsOutcome DEF Demanding

LEMMA PendingUpdates ==
  ASSUME NEW s, SportForm(s), s.status \in {"ENTER_PENDING", "EXIT_PENDING"}, ~pressed,
         NEW in \in Sport!Inputs, NEW gap \in BOOLEAN, NEW mode, NEW elapsed \in Nat
  PROVE  Outcome(s, in, gap, mode, Sport!PendingUpdate(s, in, gap, elapsed, mode))
<1> DEFINE n == Sport!Up(s.pending, elapsed, CommandTimeout)
           p == [s EXCEPT !.pending = n]
           done == ~gap /\ Sport!safety_ready(in)
                   /\ mode = (IF s.status = "ENTER_PENDING" THEN "SPORT" ELSE s.previous)
           a == [p EXCEPT !.status = "ACTIVE", !.owns = TRUE, !.pending = 0, !.active = 0]
           e == [p EXCEPT !.status = IF in.enabled THEN "ARMED" ELSE "DISABLED",
                          !.owns = FALSE, !.previous = "UNKNOWN", !.pending = 0]
<1>1. Sport!PendingUpdate(s, in, gap, elapsed, mode) =
        Sport!Result(IF p.pending >= CommandTimeout THEN Sport!EnterManualHold(s)
                     ELSE IF ~done THEN p
                     ELSE IF s.status = "ENTER_PENDING" THEN a ELSE e, "NONE")
  BY DEF Sport!PendingUpdate
<1>2. n \in 0 .. CommandTimeout
  BY UpDown, SportTimes DEF SportForm, SportStates
<1>3. NoDemand(s) /\ s \in SportStates
  BY DEF SportForm, Engaged
<1> HIDE DEF n
<1>4. /\ p \in SportStates /\ p.status = s.status /\ p.owns = s.owns
      /\ p.previous = s.previous /\ NoDemand(p)
  BY <1>2, <1>3 DEF SportStates, NoDemand
<1> HIDE DEF p, done
<1>5. /\ a \in SportStates /\ a.status = "ACTIVE" /\ a.owns /\ a.previous = p.previous
      /\ NoDemand(a)
  BY <1>4, Zeros DEF SportStates, Statuses, NoDemand
<1>6. /\ e \in SportStates /\ e.status \in {"ARMED", "DISABLED"} /\ ~e.owns /\ NoDemand(e)
  BY <1>4, Zeros DEF SportStates, Statuses, NoDemand
<1> HIDE DEF a, e
<1>7. Keeping(s, p) /\ Keeping(s, a) /\ Keeping(s, e)
  <2>1. s.speed = 0 /\ s.accel = 0
    BY <1>3 DEF NoDemand
  <2> QED
    BY <2>1, <1>3, <1>4, <1>5, <1>6 DEF Keeping, SportForm, Engaged, NoDemand
<1>8. /\ Outcome(s, in, gap, mode, Sport!Result(p, "NONE"))
      /\ Outcome(s, in, gap, mode, Sport!Result(a, "NONE"))
      /\ Outcome(s, in, gap, mode, Sport!Result(e, "NONE"))
  BY <1>4, <1>5, <1>6, <1>7, KeepingIsOutcome DEF Demanding
<1> QED
  BY <1>1, <1>8, HoldForgets

\* A mode is given back by an automation that is engaged and sees SPORT.
LEMMA RestoreIsOutcome ==
  ASSUME NEW s, NEW t, SportForm(s), SportForm(t), ~pressed, NEW in, in.fresh,
         NEW gap, ~gap, Sport!safety_ready(in), NEW mode, mode = "SPORT",
         s.owns, s.status # "ENTER_PENDING", t.owns, t.previous = s.previous,
         s.previous \in Sport!Restorable
  PROVE  Outcome(s, in, gap, mode, Sport!Restore(t))
<1> DEFINE u == [t EXCEPT !.status = "EXIT_PENDING", !.pending = 0]
<1>1. /\ u \in SportStates /\ u.status = "EXIT_PENDING" /\ u.previous = t.previous
      /\ u.speed = t.speed /\ u.accel = t.accel
  BY Zeros DEF SportForm, SportStates, Statuses
<1>2. NoDemand(s) /\ NoDemand(t)
  BY DEF SportForm, Engaged
<1> HIDE DEF u
<1>3. SportForm(u) /\ NoDemand(u)
  BY <1>1, <1>2 DEF SportForm, NoDemand
<1>4. Sport!Restore(t) = [state |-> u, action |-> "RESTORE"]
  BY DEF Sport!Restore, Sport!Result, u
<1> QED
  BY <1>1, <1>3, <1>4 DEF Outcome, Engaged, Demanding

LEMMA DisabledUpdates ==
  ASSUME NEW s, SportForm(s), ~pressed, NEW in \in Sport!Inputs, Sport!safety_ready(in),
         ~in.enabled,
         NEW gap \in BOOLEAN, ~gap, NEW mode,
         s.status \notin {"ENTER_PENDING", "EXIT_PENDING", "MANUAL_HOLD"}
  PROVE  Outcome(s, in, gap, mode, Sport!DisabledUpdate(s, mode))
<1> DEFINE t == [s EXCEPT !.status = "DISABLED", !.owns = FALSE, !.previous = "UNKNOWN"]
<1>1. CASE s.owns /\ mode = "SPORT" /\ s.previous \in Sport!Restorable
  <2>1. Sport!DisabledUpdate(s, mode) = Sport!Restore(s) /\ in.fresh
    BY <1>1 DEF Sport!DisabledUpdate, Sport!safety_ready
  <2> QED
    BY <2>1, <1>1, RestoreIsOutcome
<1>2. CASE ~(s.owns /\ mode = "SPORT" /\ s.previous \in Sport!Restorable)
  <2>1. Sport!DisabledUpdate(s, mode) = Sport!Result(t, "NONE")
    BY <1>2 DEF Sport!DisabledUpdate
  <2>2. /\ t \in SportStates /\ t.status = "DISABLED" /\ ~t.owns
        /\ t.speed = s.speed /\ t.accel = s.accel
    BY DEF SportForm, SportStates, Statuses
  <2> HIDE DEF t
  <2>3. Demanding(s, in, gap, mode, t)
    BY <2>2 DEF Demanding, Quietly
  <2>4. Keeping(s, t)
    BY <2>2 DEF Keeping, SportForm, Engaged, NoDemand
  <2> QED
    BY <2>1, <2>3, <2>4, KeepingIsOutcome
<1> QED
  BY <1>1, <1>2

LEMMA ActiveUpdates ==
  ASSUME NEW s, SportForm(s), ~pressed, NEW in \in Sport!Inputs, Sport!safety_ready(in),
         NEW gap \in BOOLEAN, ~gap, NEW mode, mode = "SPORT", s.status = "ACTIVE"
  PROVE  Outcome(s, in, gap, mode, Sport!ActiveUpdate(s, in))
<1> DEFINE m == Sport!Up(s.active, 1, MinimumHold)
           x == Sport!Gathered(s.exit, in.released, ExitConfirm)
           a == [s EXCEPT !.active = m, !.exit = x]
<1>1. Sport!ActiveUpdate(s, in) =
        IF a.active >= MinimumHold /\ a.exit >= ExitConfirm /\ s.previous \in Sport!Restorable
        THEN Sport!Restore(a) ELSE Sport!Result(a, "NONE")
  BY DEF Sport!ActiveUpdate
<1>2. m \in 0 .. MinimumHold /\ x \in 0 .. ExitConfirm
  BY UpDown, SportTimes DEF SportForm, SportStates, Sport!Gathered
<1> HIDE DEF m, x
<1>3. /\ a \in SportStates /\ a.status = s.status /\ a.owns = s.owns
      /\ a.previous = s.previous /\ a.speed = s.speed /\ a.accel = s.accel
  BY <1>2 DEF SportForm, SportStates
<1> HIDE DEF a
<1>4. s.owns /\ NoDemand(s) /\ in.fresh
  BY DEF SportForm, Engaged, Sport!safety_ready
<1>5. SportForm(a) /\ NoDemand(a) /\ Keeping(s, a)
  BY <1>3, <1>4 DEF SportForm, Keeping, NoDemand, Engaged
<1>6. Outcome(s, in, gap, mode, Sport!Result(a, "NONE"))
  BY <1>5, KeepingIsOutcome DEF Demanding
<1>7. ASSUME s.previous \in Sport!Restorable
      PROVE  Outcome(s, in, gap, mode, Sport!Restore(a))
  BY <1>3, <1>4, <1>5, <1>7, RestoreIsOutcome
<1> QED
  BY <1>1, <1>6, <1>7

LEMMA ArmedUpdates ==
  ASSUME NEW s, SportForm(s), ~pressed, NEW in \in Sport!Inputs, Sport!safety_ready(in),
         NEW gap \in BOOLEAN, ~gap, NEW mode \in Modes, in.enabled,
         s.status \notin {"ENTER_PENDING", "EXIT_PENDING", "MANUAL_HOLD"},
         ~(s.owns /\ mode \in Sport!Restorable)
  PROVE  Outcome(s, in, gap, mode, Sport!ArmedUpdate(s, in, mode))
<1> DEFINE v == Speed(s, in)
           w == Accel(s, in)
           z == [s EXCEPT !.speed = 0, !.accel = 0]
           e == [s EXCEPT !.speed = v, !.accel = w]
           n == Sport!Entering(e, mode)
<1>1. Sport!ArmedUpdate(s, in, mode) =
        IF mode = "SPORT" THEN Sport!Result(z, "NONE")
        ELSE IF (e.speed >= SpeedConfirm \/ e.accel >= AccelConfirm) /\ mode \in Sport!Restorable
        THEN Sport!Result(n, "ENTER") ELSE Sport!Result(e, "NONE")
  BY DEF Sport!ArmedUpdate, Speed, Accel
<1>2. s.speed \in 0 .. SpeedConfirm /\ s.accel \in 0 .. AccelConfirm
  BY DEF SportForm, SportStates
<1>3. v \in 0 .. SpeedConfirm /\ w \in 0 .. AccelConfirm
  BY <1>2, UpDown, SportTimes DEF Speed, Accel, Sport!Gathered
<1> HIDE DEF v, w
<1>4. CASE mode = "SPORT"
  <2>1. /\ z \in SportStates /\ z.status = s.status /\ z.owns = s.owns
        /\ z.previous = s.previous /\ z.speed = 0 /\ z.accel = 0
    BY Zeros DEF SportForm, SportStates
  <2> HIDE DEF z
  <2>2. Keeping(s, z) /\ NoDemand(z)
    BY <1>2, <2>1, SportTimes DEF SportForm, Keeping, NoDemand, Engaged
  <2> QED
    BY <1>1, <1>4, <2>2, KeepingIsOutcome DEF Demanding
<1>5. CASE mode # "SPORT"
  <2>1. mode \in Sport!Restorable /\ ~s.owns
    BY <1>5 DEF Sport!Restorable, SportForm, SportStates
  <2>2. /\ e \in SportStates /\ e.status = s.status /\ e.owns = s.owns
        /\ e.previous = s.previous /\ e.speed = v /\ e.accel = w
    BY <1>3 DEF SportForm, SportStates
  <2> HIDE DEF e
  <2>3. /\ n \in SportStates /\ n.status = "ENTER_PENDING" /\ n.previous = mode
        /\ n.speed = 0 /\ n.accel = 0
    BY <2>1, <2>2, Zeros DEF Sport!Entering, SportStates, Statuses
  <2> HIDE DEF n
  <2>4. SportForm(e) /\ Keeping(s, e)
    BY <1>3, <2>1, <2>2 DEF SportForm, Keeping, Engaged
  <2>5. SportForm(n) /\ NoDemand(n)
    BY <2>3 DEF SportForm, NoDemand
  <2>8. Collecting(s, in, gap, mode)
    BY <1>5 DEF Collecting, Quietly
  <2>6. CASE e.speed >= SpeedConfirm \/ e.accel >= AccelConfirm
    <3>1. Speed(s, in) >= SpeedConfirm \/ Accel(s, in) >= AccelConfirm
      BY <2>2, <2>6 DEF v, w
    <3>2. Sport!ArmedUpdate(s, in, mode) = [state |-> n, action |-> "ENTER"]
      BY <1>1, <1>5, <2>1, <2>6 DEF Sport!Result
    <3>3. in.fresh
      BY DEF Sport!safety_ready
    <3> QED
      BY <2>3, <2>5, <2>8, <3>1, <3>2, <3>3 DEF Outcome
  <2>7. CASE ~(e.speed >= SpeedConfirm \/ e.accel >= AccelConfirm)
    <3>1. Sport!ArmedUpdate(s, in, mode) = Sport!Result(e, "NONE")
      BY <1>1, <1>5, <2>7
    <3>2. Demanding(s, in, gap, mode, e)
      BY <2>2, <2>8 DEF Demanding, v, w
    <3> QED
      BY <2>4, <3>1, <3>2, KeepingIsOutcome
  <2> QED
    BY <2>6, <2>7
<1> QED
  BY <1>4, <1>5

\* canview_auto_sport_update as a whole, once a gap has cleared the evidence.
LEMMA UpdatedIsOutcome ==
  ASSUME NEW old, NEW gap \in BOOLEAN, SportForm(Sport!AfterGap(old, gap)),
         pressed \in BOOLEAN,
         gap => NoDemand(Sport!AfterGap(old, gap)),
         NEW in \in Sport!Inputs, NEW mode \in Modes
  PROVE  Outcome(Sport!AfterGap(old, gap), in, gap, mode, Sport!Updated(old, in, gap, mode))
<1> DEFINE s == Sport!AfterGap(old, gap)
           elapsed == IF gap THEN Gap ELSE 1
           woken == IF s.status \notin {"DISABLED", "INHIBITED"} THEN s.status
                    ELSE IF s.owns /\ mode = "SPORT" THEN "ACTIVE" ELSE "ARMED"
           k == [s EXCEPT !.status = woken]
           off == [s EXCEPT !.status = Sport!Off(in)]
           bad == [s EXCEPT !.status = Sport!Off(in), !.speed = 0, !.accel = 0, !.exit = 0]
           none == Sport!Result(Sport!EnterManualHold(s), "NONE")
           r == Sport!Updated(old, in, gap, mode)
<1>1. r = IF pressed THEN none
          ELSE IF s.status = "MANUAL_HOLD" THEN Sport!HoldUpdate(s, in, gap)
          ELSE IF s.status \in {"ENTER_PENDING", "EXIT_PENDING"}
          THEN Sport!PendingUpdate(s, in, gap, elapsed, mode)
          ELSE IF in.fresh /\ s.owns /\ mode \in Sport!Restorable THEN none
          ELSE IF gap THEN Sport!Result(off, "NONE")
          ELSE IF ~Sport!safety_ready(in) THEN Sport!Result(bad, "NONE")
          ELSE IF ~in.enabled THEN Sport!DisabledUpdate(s, mode)
          ELSE IF k.status = "ACTIVE" THEN Sport!ActiveUpdate(k, in)
          ELSE Sport!ArmedUpdate(k, in, mode)
  BY Zenon DEF Sport!Updated
<1>2. SportForm(s) /\ (gap => NoDemand(s)) /\ elapsed \in Nat
  BY SportTimes
<1>3. s \in SportStates /\ s.speed \in Nat /\ s.accel \in Nat
  BY <1>2, SportTimes DEF SportForm, SportStates
<1>4. Sport!Off(in) \in {"DISABLED", "INHIBITED"}
  BY DEF Sport!Off
<1>5. Outcome(s, in, gap, mode, none)
  BY <1>2, HoldForgets
<1> HIDE DEF s, elapsed, r, none, off, bad, k, woken
<1>6. ASSUME pressed \/ s.status \in {"MANUAL_HOLD", "ENTER_PENDING", "EXIT_PENDING"}
      PROVE  Outcome(s, in, gap, mode, r)
  <2>1. CASE pressed
    BY <1>1, <1>5, <2>1
  <2>2. CASE ~pressed /\ s.status = "MANUAL_HOLD"
    BY <1>1, <1>2, <2>2, HoldUpdates
  <2>3. CASE ~pressed /\ s.status \in {"ENTER_PENDING", "EXIT_PENDING"}
    BY <1>1, <1>2, <2>3, PendingUpdates
  <2> QED
    BY <1>6, <2>1, <2>2, <2>3
<1>7. ASSUME ~pressed, s.status \notin {"MANUAL_HOLD", "ENTER_PENDING", "EXIT_PENDING"}
      PROVE  Outcome(s, in, gap, mode, r)
  <2>1. CASE in.fresh /\ s.owns /\ mode \in Sport!Restorable
    BY <1>1, <1>5, <1>7, <2>1
  <2>2. CASE ~(in.fresh /\ s.owns /\ mode \in Sport!Restorable) /\ gap
    <3>1. r = Sport!Result(off, "NONE")
      BY <1>1, <1>7, <2>2
    <3>2. /\ off \in SportStates /\ off.status = Sport!Off(in) /\ off.owns = s.owns
          /\ off.previous = s.previous /\ off.speed = s.speed /\ off.accel = s.accel
      BY <1>3, <1>4 DEF SportStates, Statuses, off
    <3>3. Keeping(s, off) /\ NoDemand(off)
      BY <1>2, <1>3, <1>4, <2>2, <3>2 DEF Keeping, SportForm, Engaged, NoDemand
    <3> QED
      BY <3>1, <3>3, <1>7, KeepingIsOutcome DEF Demanding
  <2>3. CASE /\ ~(in.fresh /\ s.owns /\ mode \in Sport!Restorable)
             /\ ~gap /\ ~Sport!safety_ready(in)
    <3>1. r = Sport!Result(bad, "NONE")
      BY <1>1, <1>7, <2>3
    <3>2. /\ bad \in SportStates /\ bad.status = Sport!Off(in) /\ bad.owns = s.owns
          /\ bad.previous = s.previous /\ bad.speed = 0 /\ bad.accel = 0
      BY <1>3, <1>4, Zeros DEF SportStates, Statuses, bad
    <3>3. Keeping(s, bad) /\ NoDemand(bad)
      BY <1>3, <1>4, <3>2 DEF Keeping, SportForm, Engaged, NoDemand
    <3> QED
      BY <3>1, <3>3, <1>7, KeepingIsOutcome DEF Demanding
  <2>4. CASE /\ ~(in.fresh /\ s.owns /\ mode \in Sport!Restorable)
             /\ ~gap /\ Sport!safety_ready(in) /\ ~in.enabled
    BY <1>1, <1>2, <1>7, <2>4, DisabledUpdates
  <2>5. CASE /\ ~(in.fresh /\ s.owns /\ mode \in Sport!Restorable)
             /\ ~gap /\ Sport!safety_ready(in) /\ in.enabled
    <3>1. woken \in Statuses /\ woken \notin {"MANUAL_HOLD", "ENTER_PENDING", "EXIT_PENDING"}
          /\ (woken = "ACTIVE" => s.owns)
      BY <1>2, <1>3, <1>7 DEF SportForm, SportStates, Statuses, woken
    <3>2. /\ k \in SportStates /\ k.status = woken /\ k.owns = s.owns
          /\ k.previous = s.previous /\ k.speed = s.speed /\ k.accel = s.accel
      BY <1>3, <3>1 DEF SportStates, Statuses, k
    <3>3. r = IF k.status = "ACTIVE" THEN Sport!ActiveUpdate(k, in)
              ELSE Sport!ArmedUpdate(k, in, mode)
      BY <1>1, <1>7, <2>5
    <3>4. SportForm(k) /\ ~(k.owns /\ mode \in Sport!Restorable) /\ in.fresh
      BY <1>2, <2>5, <3>1, <3>2 DEF SportForm, Engaged, NoDemand, Sport!safety_ready
    <3>5. Outcome(k, in, gap, mode, r)
      <4>1. CASE k.status = "ACTIVE"
        <5>1. mode = "SPORT"
          BY <3>1, <3>2, <3>4, <4>1 DEF Sport!Restorable
        <5> QED
          BY <1>7, <2>5, <3>3, <3>4, <4>1, <5>1, ActiveUpdates
      <4>2. CASE k.status # "ACTIVE"
        BY <1>7, <2>5, <3>1, <3>2, <3>3, <3>4, <4>2, ArmedUpdates
      <4> QED
        BY <4>1, <4>2
    <3>6. /\ Engaged(k) <=> Engaged(s)
          /\ k.status # "ENTER_PENDING" /\ k.status # "EXIT_PENDING"
          /\ s.status # "ENTER_PENDING"
      BY <1>7, <3>1, <3>2 DEF Engaged, Statuses
    <3>7. /\ Quietly(k, in, gap) <=> Quietly(s, in, gap)
          /\ Speed(k, in) = Speed(s, in) /\ Accel(k, in) = Accel(s, in)
      BY <1>7, <3>1, <3>2 DEF Quietly, Speed, Accel
    <3> QED
      BY <3>2, <3>5, <3>6, <3>7 DEF Outcome, Demanding, Collecting
  <2> QED
    BY <2>1, <2>2, <2>3, <2>4, <2>5
<1> QED
  BY <1>6, <1>7 DEF s, r

-----------------------------------------------------------------------------
\* The demand collected was observed: its ticks in total, less the lapse.
Demanded(e, d, confirm) ==
    d.on \in 0 .. confirm /\ d.off \in Nat /\ e <= d.on /\ (e = 0 \/ e + 2 * d.off <= confirm)

LEMMA HeededIsDemanded ==
  ASSUME NEW confirm \in Nat, NEW e \in 0 .. confirm, NEW d, Demanded(e, d, confirm), NEW holds
  PROVE  Demanded(Sport!Gathered(e, holds, confirm), Sport!Heeded(d, holds, confirm), confirm)
<1> DEFINE g == Sport!Gathered(e, holds, confirm)
           n == Sport!Heeded(d, holds, confirm)
<1>1. d.on \in 0 .. confirm /\ d.off \in Nat
  BY DEF Demanded
<1>2. ASSUME holds PROVE Demanded(g, n, confirm)
  <2>1. g = Sport!Least(e + 1, confirm) /\ n.on = Sport!Least(d.on + 1, confirm) /\ n.off = 0
    BY <1>2 DEF Sport!Gathered, Sport!Up, Sport!Heeded
  <2> HIDE DEF g, n
  <2> QED
    BY <1>1, <2>1 DEF Demanded, Sport!Least
<1>3. ASSUME ~holds PROVE Demanded(g, n, confirm)
  <2>1. g = IF e > 2 THEN e - 2 ELSE 0
    BY <1>3 DEF Sport!Gathered, Sport!Down, Sport!Most
  <2>2. n = IF 2 * (d.off + 1) >= confirm THEN [on |-> 0, off |-> 0]
            ELSE [on |-> d.on, off |-> d.off + 1]
    BY <1>3 DEF Sport!Heeded
  <2> HIDE DEF g, n
  <2>3. CASE 2 * (d.off + 1) >= confirm
    <3>1. n.on = 0 /\ n.off = 0
      BY <2>2, <2>3
    <3>2. g = 0
      BY <1>1, <2>1, <2>3 DEF Demanded
    <3> QED
      BY <1>1, <3>1, <3>2 DEF Demanded
  <2>4. CASE ~(2 * (d.off + 1) >= confirm)
    <3>1. n.on = d.on /\ n.off = d.off + 1
      BY <2>2, <2>4
    <3> QED
      BY <1>1, <2>1, <3>1 DEF Demanded
  <2> QED
    BY <2>3, <2>4
<1> QED
  BY <1>2, <1>3 DEF g, n

\* What an engaged automation remembers is the mode its order replaced, and the
\* driver has not pressed the button since, or the next update will see it.
SportInv ==
    /\ SportForm(sport) /\ car \in Modes /\ order \in Modes \cup {"NONE"}
    /\ pressed \in BOOLEAN
    /\ last = [mode |-> last.mode, touched |-> last.touched]
    /\ Engaged(sport) => sport.previous = last.mode /\ (~last.touched \/ pressed)
    /\ Demanded(sport.speed, demand["speed"], SpeedConfirm)
    /\ Demanded(sport.accel, demand["accel"], AccelConfirm)

\* SPORT is asked for on demand that was observed.
Asks == sport'.status = "ENTER_PENDING" /\ sport.status # "ENTER_PENDING" =>
          \E source \in Sport!Sources : demand'[source].on >= Sport!Confirm(source)

LEMMA InitSport == Sport!Init => SportInv
<1> SUFFICES ASSUME Sport!Init PROVE SportInv
  OBVIOUS
<1>1. sport = [status |-> "DISABLED", previous |-> "UNKNOWN", owns |-> FALSE, speed |-> 0,
               accel |-> 0, exit |-> 0, active |-> 0, pending |-> 0]
  BY DEF Sport!Init, Sport!Fresh
<1>2. sport \in SportStates
  BY <1>1, Zeros DEF SportStates, Statuses
<1>3. SportForm(sport) /\ ~Engaged(sport) /\ sport.speed = 0 /\ sport.accel = 0
  BY <1>1, <1>2 DEF SportForm, Engaged, NoDemand
<1>4. /\ car \in Modes /\ order = "NONE" /\ pressed = FALSE
      /\ demand = [source \in {"speed", "accel"} |-> [on |-> 0, off |-> 0]]
      /\ last = [mode |-> "UNKNOWN", touched |-> TRUE]
  BY DEF Sport!Init, Sport!Restorable, Sport!Sources
<1>5. demand["speed"] = [on |-> 0, off |-> 0] /\ demand["accel"] = [on |-> 0, off |-> 0]
  BY <1>4
<1>6. /\ Demanded(sport.speed, demand["speed"], SpeedConfirm)
      /\ Demanded(sport.accel, demand["accel"], AccelConfirm)
  BY <1>3, <1>5, SportTimes DEF Demanded
<1> QED
  BY <1>3, <1>4, <1>6 DEF SportInv

\* What an update does to invariant and history, and what it may ask for.
LEMMA UpdateSport ==
  ASSUME SportInv, NEW in \in Sport!Inputs, NEW gap \in BOOLEAN, NEW mode \in Modes,
         Sport!Update(in, gap, mode)
  PROVE  /\ SportInv'
         /\ sport'.status = "EXIT_PENDING" /\ sport.status # "EXIT_PENDING" =>
              ~last.touched /\ car = "SPORT" /\ sport'.previous = last.mode
         /\ Asks
<1> DEFINE s == Sport!AfterGap(sport, gap)
           r == Sport!Updated(sport, in, gap, mode)
           stop == Sport!Interrupted(in, gap, mode)
           heeds(source) == IF stop THEN [on |-> 0, off |-> 0]
                            ELSE IF ~in.enabled THEN demand[source]
                            ELSE Sport!Heeded(demand[source], source \in in.wants,
                                              Sport!Confirm(source))
<1>1. /\ in.fresh => mode = car
      /\ sport' = r.state
      /\ order' = CASE r.action = "ENTER" -> "SPORT"
                    [] r.action = "RESTORE" -> r.state.previous
                    [] OTHER -> order
      /\ last' = IF r.action = "ENTER" THEN [mode |-> car, touched |-> FALSE] ELSE last
      /\ demand' = [source \in {"speed", "accel"} |-> heeds(source)]
      /\ pressed' = FALSE /\ car' = car
  BY DEF Sport!Update, Sport!Sources
<1>2. /\ SportForm(s) /\ (gap => NoDemand(s)) /\ s.status = sport.status
      /\ s.owns = sport.owns /\ s.previous = sport.previous
      /\ ~gap => s.speed = sport.speed /\ s.accel = sport.accel
  BY GapClears DEF SportInv
<1>3. Outcome(s, in, gap, mode, r)
  BY <1>2, UpdatedIsOutcome DEF SportInv
<1> HIDE DEF s, r
<1> HIDE DEF heeds
<1>4. demand'["speed"] = heeds("speed") /\ demand'["accel"] = heeds("accel")
  BY <1>1
<1>5. Engaged(s) <=> Engaged(sport)
  BY <1>2 DEF Engaged
<1>6. /\ SportForm(sport') /\ car' \in Modes /\ pressed' \in BOOLEAN
      /\ last' = [mode |-> last'.mode, touched |-> last'.touched]
  BY <1>1, <1>3 DEF Outcome, SportInv
<1>7. order' \in Modes \cup {"NONE"}
  <2>1. CASE r.action = "ENTER"
    BY <1>1, <2>1, SportTimes
  <2>2. CASE r.action = "RESTORE"
    <3>1. r.state.previous \in Sport!Restorable
      BY <1>3, <2>2 DEF Outcome
    <3>2. order' = r.state.previous
      BY <1>1, <2>2
    <3> QED
      BY <3>1, <3>2 DEF Sport!Restorable
  <2>3. CASE r.action = "NONE"
    BY <1>1, <2>3 DEF SportInv
  <2> QED
    BY <2>1, <2>2, <2>3, <1>3 DEF Outcome
<1>8. Engaged(sport') => sport'.previous = last'.mode /\ (~last'.touched \/ pressed')
  <2>1. CASE r.action = "ENTER"
    <3>1. last'.mode = car /\ ~last'.touched
      BY <1>1, <2>1
    <3>2. sport'.previous = mode /\ mode = car
      BY <1>1, <1>3, <2>1 DEF Outcome
    <3> QED
      BY <3>1, <3>2
  <2>2. CASE r.action # "ENTER"
    <3>1. last' = last
      BY <1>1, <2>2
    <3>2. Engaged(r.state) => Engaged(s) /\ ~pressed /\ r.state.previous = s.previous
      BY <1>3, <2>2 DEF Outcome
    <3> QED
      BY <1>1, <1>2, <1>5, <3>1, <3>2 DEF SportInv
  <2> QED
    BY <2>1, <2>2
<1>9. ASSUME Collecting(s, in, gap, mode)
      PROVE  /\ Demanded(Speed(s, in), demand'["speed"], SpeedConfirm)
             /\ Demanded(Accel(s, in), demand'["accel"], AccelConfirm)
  <2>1. ~stop /\ in.enabled
    BY <1>2, <1>9 DEF Collecting, Quietly, Sport!Interrupted
  <2>2. s.speed = sport.speed /\ s.accel = sport.accel
    BY <1>2, <1>9 DEF Collecting, Quietly
  <2>3. /\ demand'["speed"] = Sport!Heeded(demand["speed"], "speed" \in in.wants, SpeedConfirm)
        /\ demand'["accel"] = Sport!Heeded(demand["accel"], "accel" \in in.wants, AccelConfirm)
    BY <1>4, <2>1 DEF heeds, Sport!Confirm
  <2>4. sport.speed \in 0 .. SpeedConfirm /\ sport.accel \in 0 .. AccelConfirm
    BY DEF SportInv, SportForm, SportStates
  <2> QED
    BY <2>2, <2>3, <2>4, HeededIsDemanded, SportTimes DEF SportInv, Speed, Accel
<1>10. /\ Demanded(0, demand'["speed"], SpeedConfirm)
       /\ Demanded(0, demand'["accel"], AccelConfirm)
  <2>1. CASE stop
    <3>1. demand'["speed"] = [on |-> 0, off |-> 0] /\ demand'["accel"] = [on |-> 0, off |-> 0]
      BY <1>4, <2>1 DEF heeds
    <3> QED
      BY <3>1, SportTimes DEF Demanded
  <2>2. CASE ~stop /\ ~in.enabled
    <3>1. demand'["speed"] = demand["speed"] /\ demand'["accel"] = demand["accel"]
      BY <1>4, <2>2 DEF heeds
    <3> QED
      BY <3>1 DEF SportInv, Demanded
  <2>3. CASE ~stop /\ in.enabled
    <3>1. /\ demand'["speed"] = Sport!Heeded(demand["speed"], "speed" \in in.wants, SpeedConfirm)
          /\ demand'["accel"] = Sport!Heeded(demand["accel"], "accel" \in in.wants, AccelConfirm)
      BY <1>4, <2>3 DEF heeds, Sport!Confirm
    <3>2. sport.speed \in 0 .. SpeedConfirm /\ sport.accel \in 0 .. AccelConfirm
      BY DEF SportInv, SportForm, SportStates
    <3>3. /\ Demanded(Sport!Gathered(sport.speed, "speed" \in in.wants, SpeedConfirm),
                      demand'["speed"], SpeedConfirm)
          /\ Demanded(Sport!Gathered(sport.accel, "accel" \in in.wants, AccelConfirm),
                      demand'["accel"], AccelConfirm)
      BY <3>1, <3>2, HeededIsDemanded, SportTimes DEF SportInv
    <3> QED
      BY <3>3 DEF Demanded
  <2> QED
    BY <2>1, <2>2, <2>3
<1>11. /\ Demanded(sport'.speed, demand'["speed"], SpeedConfirm)
       /\ Demanded(sport'.accel, demand'["accel"], AccelConfirm)
  <2>1. CASE NoDemand(r.state)
    BY <1>1, <1>10, <2>1 DEF NoDemand
  <2>2. CASE /\ Quietly(s, in, gap) /\ ~in.enabled
             /\ r.state.speed = s.speed /\ r.state.accel = s.accel
    <3>1. ~stop
      BY <1>2, <2>2 DEF Quietly, Sport!Interrupted
    <3>2. demand'["speed"] = demand["speed"] /\ demand'["accel"] = demand["accel"]
      BY <1>4, <2>2, <3>1 DEF heeds
    <3>3. s.speed = sport.speed /\ s.accel = sport.accel
      BY <1>2, <2>2 DEF Quietly
    <3> QED
      BY <1>1, <2>2, <3>2, <3>3 DEF SportInv
  <2>3. CASE /\ Collecting(s, in, gap, mode)
             /\ r.state.speed = Speed(s, in) /\ r.state.accel = Accel(s, in)
    BY <1>1, <1>9, <2>3
  <2> QED
    BY <1>3, <2>1, <2>2, <2>3 DEF Outcome, Demanding
<1>12. ASSUME sport'.status = "EXIT_PENDING", sport.status # "EXIT_PENDING"
       PROVE  ~last.touched /\ car = "SPORT" /\ sport'.previous = last.mode
  <2>1. r.action = "RESTORE"
    BY <1>1, <1>2, <1>3, <1>12 DEF Outcome
  <2>2. /\ Engaged(s) /\ ~pressed /\ in.fresh /\ mode = "SPORT"
        /\ r.state.previous = s.previous
    BY <1>3, <2>1 DEF Outcome
  <2> QED
    BY <1>1, <1>2, <1>5, <2>2 DEF SportInv
<1>13. Asks
  <2> SUFFICES ASSUME sport'.status = "ENTER_PENDING", sport.status # "ENTER_PENDING"
               PROVE  \E source \in Sport!Sources : demand'[source].on >= Sport!Confirm(source)
    BY DEF Asks
  <2>1. r.action = "ENTER"
    BY <1>1, <1>2, <1>3 DEF Outcome
  <2>2. /\ Collecting(s, in, gap, mode)
        /\ Speed(s, in) >= SpeedConfirm \/ Accel(s, in) >= AccelConfirm
    BY <1>3, <2>1 DEF Outcome
  <2>3. /\ Demanded(Speed(s, in), demand'["speed"], SpeedConfirm)
        /\ Demanded(Accel(s, in), demand'["accel"], AccelConfirm)
    BY <1>9, <2>2
  <2>4. demand'["speed"].on >= SpeedConfirm \/ demand'["accel"].on >= AccelConfirm
    <3>1. s.speed \in 0 .. SpeedConfirm /\ s.accel \in 0 .. AccelConfirm
      BY <1>2 DEF SportForm, SportStates
    <3>2. Speed(s, in) \in 0 .. SpeedConfirm /\ Accel(s, in) \in 0 .. AccelConfirm
      BY <3>1, UpDown, SportTimes DEF Speed, Accel, Sport!Gathered
    <3> QED
      BY <2>2, <2>3, <3>2, SportTimes DEF Demanded
  <2>5. Sport!Confirm("speed") = SpeedConfirm /\ Sport!Confirm("accel") = AccelConfirm
    BY DEF Sport!Confirm
  <2> QED
    BY <2>4, <2>5 DEF Sport!Sources
<1> QED
  BY <1>1, <1>6, <1>7, <1>8, <1>11, <1>12, <1>13 DEF SportInv

LEMMA NextSport ==
  ASSUME SportInv, [Sport!Next]_(Sport!vars)
  PROVE  /\ SportInv'
         /\ sport'.status = "EXIT_PENDING" /\ sport.status # "EXIT_PENDING" =>
              ~last.touched /\ car = "SPORT" /\ sport'.previous = last.mode
         /\ Asks
<1>1. CASE \E in \in Sport!Inputs, gap \in BOOLEAN, mode \in Modes : Sport!Update(in, gap, mode)
  BY <1>1, UpdateSport
<1>2. CASE Sport!Obey
  BY <1>2 DEF Sport!Obey, SportInv, Asks
<1>3. CASE Sport!Drop
  BY <1>3 DEF Sport!Drop, SportInv, Asks
<1>4. ASSUME NEW mode \in Modes, Sport!Press(mode)
      PROVE  SportInv' /\ sport' = sport
  <2>1. /\ car' = mode /\ pressed' = TRUE /\ UNCHANGED <<sport, order, demand>>
        /\ last' = [last EXCEPT !.touched = TRUE]
    BY <1>4 DEF Sport!Press
  <2>2. last' = [mode |-> last.mode, touched |-> TRUE]
    BY <2>1 DEF SportInv
  <2> QED
    BY <2>1, <2>2 DEF SportInv
<1>5. CASE UNCHANGED Sport!vars
  BY <1>5 DEF Sport!vars, SportInv, Asks
<1> QED
  BY <1>1, <1>2, <1>3, <1>4, <1>5 DEF Sport!Next, Asks

\* The automation restores only what it replaced itself, and only if the driver
\* left it alone; and it asks for SPORT only when the speed, or the acceleration,
\* was observed to be enough for its whole confirmation time in total, with no
\* lapse of half of it and no interruption, for any times and whatever the car does.
THEOREM SportRestoresItsOwn ==
  Sport!Spec => []Sport!TypeOK /\ Sport!RestoresItsOwn /\ Sport!EntersOnDemand
<1>1. SportInv => Sport!TypeOK
  BY DEF SportInv, SportForm, SportStates, Statuses, Sport!TypeOK
<1>2. SportInv /\ [Sport!Next]_(Sport!vars) => SportInv'
  BY NextSport
<1>3. SportInv /\ [Sport!Next]_(Sport!vars)
        => [sport'.status = "EXIT_PENDING" /\ sport.status # "EXIT_PENDING" =>
              ~last.touched /\ car = "SPORT" /\ sport'.previous = last.mode]_(Sport!vars)
  BY NextSport
<1>4. SportInv /\ [Sport!Next]_(Sport!vars)
        => [Asks]_(Sport!vars)
  BY NextSport
<1>5. [][Asks]_(Sport!vars) => Sport!EntersOnDemand
  BY PTL DEF Asks, Sport!EntersOnDemand
<1> QED
  BY <1>1, <1>2, <1>3, <1>4, <1>5, InitSport, PTL
  DEF Sport!Spec, Sport!RestoresItsOwn, Sport!EntersOnDemand

-----------------------------------------------------------------------------
(* The display's warnings and its night mode.                              *)

LEMMA PanelTimes ==
  /\ LampOn \in Nat \ {0} /\ LampOff \in Nat \ {0}
  /\ WarnOn \in Nat \ {0} /\ WarnOff \in Nat \ {0}
  /\ HeadOn \in Nat \ {0} /\ HeadOff \in Nat \ {0}
  /\ DimAfter \in Nat /\ Gap \in Nat /\ Ramp \in Nat /\ Grace \in Nat
  /\ Day \in Nat /\ Sunrise \in 0 .. Day /\ Sunset \in 0 .. Day
  /\ Manual \in 0 .. 100 /\ Night \in 0 .. 100
  BY PanelInstance DEF Panel!PanelAssumption

LongerLamp == Panel!Most(LampOn, LampOff)

Brightnesses ==
    [night : BOOLEAN, wanted : BOOLEAN, pending : Nat, current : 0 .. 100, idle : Nat,
     dimmed : BOOLEAN, warning : BOOLEAN, on : 0 .. WarnOn - 1, off : 0 .. WarnOff - 1,
     base : {Manual, Night}]

Headlamps == [warning : BOOLEAN, on : 0 .. HeadOn - 1, off : 0 .. HeadOff - 1]

\* A confirmation is never ahead of the observation it counts.
PanelInv ==
    /\ brightness \in Brightnesses /\ headlamp \in Headlamps
    /\ run \in [over : 0 .. WarnOn, lamps : 0 .. LongerLamp, seen : BOOLEAN, dark : 0 .. HeadOn]
    /\ brightness.on <= run.over /\ headlamp.on <= run.dark
    /\ brightness.pending > 0 =>
         brightness.wanted = run.seen /\ brightness.pending <= run.lamps

\* A count that is complete starts again.
LEMMA CountRestarts ==
  ASSUME NEW limit \in Nat \ {0}, NEW n \in 0 .. limit
  PROVE  /\ n < limit => n % limit = n
         /\ n = limit => n % limit = 0
  BY Z3

LEMMA UpCounts ==
  ASSUME NEW limit \in Nat, NEW value \in 0 .. limit
  PROVE  /\ Panel!Up(value, limit) \in 0 .. limit
         /\ Panel!Up(value, limit) = (IF value < limit THEN value + 1 ELSE limit)
  BY DEF Panel!Up

\* update_speed_warning: it comes up only when the count of `over` is complete.
LEMMA SpeedWarns ==
  ASSUME NEW s \in Brightnesses, NEW speed, NEW gap \in BOOLEAN,
         NEW over \in 0 .. WarnOn, s.on <= over
  PROVE  LET t == Panel!SpeedWarning(s, speed, gap)
             now == IF ~gap /\ speed = "OVER" THEN Panel!Up(over, WarnOn) ELSE 0
         IN  /\ t \in Brightnesses /\ now \in 0 .. WarnOn /\ t.on <= now
             /\ t.warning /\ ~s.warning => now >= WarnOn
             /\ t.night = s.night /\ t.wanted = s.wanted /\ t.pending = s.pending
             /\ t.base = s.base /\ t.current = s.current
<1> DEFINE t == Panel!SpeedWarning(s, speed, gap)
           now == IF ~gap /\ speed = "OVER" THEN Panel!Up(over, WarnOn) ELSE 0
           n == IF speed = "OVER" THEN Panel!Up(s.on, WarnOn) ELSE 0
           m == IF speed = "BELOW" THEN Panel!Up(s.off, WarnOff) ELSE 0
           quiet0 == [s EXCEPT !.warning = FALSE, !.on = 0, !.off = 0]
           counts == [s EXCEPT !.off = 0, !.on = n % WarnOn, !.warning = n >= WarnOn]
           falls == [s EXCEPT !.on = 0, !.off = m % WarnOff, !.warning = m < WarnOff]
<1>1. t = IF gap \/ speed = "STALE" THEN quiet0 ELSE IF ~s.warning THEN counts ELSE falls
  BY Zenon DEF Panel!SpeedWarning
<1>2. /\ s.on \in 0 .. WarnOn - 1 /\ s.off \in 0 .. WarnOff - 1
      /\ WarnOn \in Nat \ {0} /\ WarnOff \in Nat \ {0}
  BY PanelTimes DEF Brightnesses
<1>3. /\ s.on \in 0 .. WarnOn /\ s.off \in 0 .. WarnOff
      /\ 0 \in 0 .. WarnOn - 1 /\ 0 \in 0 .. WarnOff - 1
  BY <1>2
<1>4. now \in 0 .. WarnOn
  BY <1>2, UpCounts
<1>5. n \in 0 .. WarnOn /\ m \in 0 .. WarnOff
  BY <1>2, <1>3, UpCounts
<1>6. ~gap => n <= now
  <2>1. CASE speed = "OVER" /\ ~gap
    <3>1. /\ n = IF s.on < WarnOn THEN s.on + 1 ELSE WarnOn
          /\ now = IF over < WarnOn THEN over + 1 ELSE WarnOn
      BY <2>1, <1>2, <1>3, UpCounts
    <3> QED
      BY <3>1, <1>2
  <2>2. CASE speed # "OVER"
    BY <2>2
  <2> QED
    BY <2>1, <2>2
<1> HIDE DEF t, now, n, m
<1>7. /\ n % WarnOn \in 0 .. WarnOn - 1 /\ n % WarnOn <= n
      /\ m % WarnOff \in 0 .. WarnOff - 1
  <2>1. /\ n < WarnOn => n % WarnOn = n
        /\ n = WarnOn => n % WarnOn = 0
    BY <1>2, <1>5, CountRestarts
  <2>2. /\ m < WarnOff => m % WarnOff = m
        /\ m = WarnOff => m % WarnOff = 0
    BY <1>2, <1>5, CountRestarts
  <2> QED
    BY <1>2, <1>5, <2>1, <2>2
<1> DEFINE x == n % WarnOn
           y == m % WarnOff
           v == n >= WarnOn
           w == m < WarnOff
<1>11. v \in BOOLEAN /\ w \in BOOLEAN
  OBVIOUS
<1> HIDE DEF x, y, v, w
<1>8. CASE gap \/ speed = "STALE"
  <2>1. t = quiet0
    BY <1>1, <1>8
  <2>2. /\ quiet0 \in Brightnesses /\ quiet0.on = 0 /\ quiet0.warning = FALSE
        /\ quiet0.night = s.night /\ quiet0.wanted = s.wanted /\ quiet0.pending = s.pending
        /\ quiet0.base = s.base /\ quiet0.current = s.current
    BY <1>3 DEF Brightnesses
  <2> HIDE DEF quiet0
  <2> QED
    BY <2>1, <2>2, <1>4, PanelTimes DEF t, now
<1>9. CASE ~(gap \/ speed = "STALE") /\ ~s.warning
  <2>1. t = [s EXCEPT !.off = 0, !.on = x, !.warning = v]
    BY <1>1, <1>9 DEF x, v
  <2>2. x \in 0 .. WarnOn - 1 /\ x <= n
    BY <1>7 DEF x
  <2>3. /\ t \in Brightnesses /\ t.on = x /\ t.warning = v
        /\ t.night = s.night /\ t.wanted = s.wanted /\ t.pending = s.pending
        /\ t.base = s.base /\ t.current = s.current
    BY <2>1, <2>2, <1>3, <1>11 DEF Brightnesses
  <2>4. x <= now /\ (v => now >= WarnOn)
    BY <2>2, <1>2, <1>4, <1>5, <1>6, <1>9 DEF v
  <2> QED
    BY <2>3, <2>4, <1>4 DEF t, now
<1>10. CASE ~(gap \/ speed = "STALE") /\ s.warning
  <2>1. t = [s EXCEPT !.on = 0, !.off = y, !.warning = w]
    BY <1>1, <1>10 DEF y, w
  <2>2. y \in 0 .. WarnOff - 1
    BY <1>7 DEF y
  <2>3. /\ t \in Brightnesses /\ t.on = 0
        /\ t.night = s.night /\ t.wanted = s.wanted /\ t.pending = s.pending
        /\ t.base = s.base /\ t.current = s.current
    BY <2>1, <2>2, <1>3, <1>11 DEF Brightnesses
  <2> QED
    BY <2>3, <1>4, <1>10 DEF t, now
<1> QED
  BY <1>8, <1>9, <1>10

\* The day/night decision: a change has been wanted, and seen, for its time.
LEMMA NightFollows ==
  ASSUME NEW s \in Brightnesses, NEW lamps, NEW gap \in BOOLEAN,
         NEW count \in 0 .. LongerLamp, NEW seen \in BOOLEAN,
         s.pending > 0 => s.wanted = seen /\ s.pending <= count
  PROVE  LET t == Panel!NightMode(s, lamps, gap)
             fresh == ~gap /\ lamps # "STALE"
             now == IF fresh /\ (lamps = "ON") = seen THEN Panel!Up(count, LongerLamp)
                    ELSE IF fresh THEN 1 ELSE 0
         IN  /\ t \in Brightnesses /\ now \in 0 .. LongerLamp
             /\ t.pending > 0 => t.wanted = (lamps = "ON") /\ t.pending <= now
             /\ t.night # s.night =>
                  now >= (IF t.night THEN LampOn ELSE LampOff) /\ (lamps = "ON") = t.night
             /\ t.on = s.on /\ t.warning = s.warning /\ t.base = s.base
<1> DEFINE t == Panel!NightMode(s, lamps, gap)
           fresh == ~gap /\ lamps # "STALE"
           now == IF fresh /\ (lamps = "ON") = seen THEN Panel!Up(count, LongerLamp)
                  ELSE IF fresh THEN 1 ELSE 0
           night == lamps = "ON"
           start == IF s.pending = 0 \/ s.wanted # night THEN 0 ELSE s.pending
           time == IF night THEN LampOn ELSE LampOff
           n == Panel!Up(start, time)
           u == IF n >= time THEN night ELSE s.night
           p == IF n >= time THEN 0 ELSE n
<1>1. t = IF gap \/ lamps = "STALE" THEN [s EXCEPT !.pending = 0]
          ELSE IF night = s.night THEN [s EXCEPT !.pending = 0, !.wanted = night]
          ELSE [s EXCEPT !.wanted = night, !.night = u, !.pending = p]
  BY DEF Panel!NightMode
<1>2. night \in BOOLEAN /\ s.pending \in Nat /\ s.wanted \in BOOLEAN /\ s.night \in BOOLEAN
  BY DEF Brightnesses
<1>3. /\ time \in Nat \ {0} /\ time <= LongerLamp /\ LongerLamp \in Nat \ {0}
      /\ LampOn \in Nat /\ LampOff \in Nat
  BY PanelTimes DEF LongerLamp, Panel!Most
<1>4. now = IF fresh /\ night = seen THEN (IF count < LongerLamp THEN count + 1 ELSE LongerLamp)
            ELSE IF fresh THEN 1 ELSE 0
  BY <1>3, UpCounts
<1>5. now \in 0 .. LongerLamp
  BY <1>3, <1>4
<1>6. start \in Nat /\ (start > 0 => night = seen /\ start <= count)
  BY <1>2
<1>7. n \in Nat /\ (n <= start + 1 \/ n = time) /\ n > 0 /\ (start < time => n = start + 1)
  BY <1>3, <1>6 DEF Panel!Up
<1>8. fresh /\ n <= time => n <= now
  <2>1. CASE start = 0
    BY <2>1, <1>3, <1>4, <1>7
  <2>2. CASE start > 0
    BY <2>2, <1>3, <1>4, <1>6, <1>7
  <2> QED
    BY <1>6, <2>1, <2>2
<1>9. n <= time
  BY <1>3, <1>6 DEF Panel!Up
<1> HIDE DEF t, now, n, start
<1>10. CASE gap \/ lamps = "STALE"
  <2>1. t = [s EXCEPT !.pending = 0]
    BY <1>1, <1>10
  <2>2. /\ t \in Brightnesses /\ t.pending = 0 /\ t.night = s.night
        /\ t.on = s.on /\ t.warning = s.warning /\ t.base = s.base
    BY <2>1 DEF Brightnesses
  <2> QED
    BY <2>2, <1>5 DEF t, now
<1>11. CASE fresh /\ night = s.night
  <2> HIDE DEF night
  <2>1. t = [s EXCEPT !.pending = 0, !.wanted = night]
    BY <1>1, <1>11
  <2>2. /\ t \in Brightnesses /\ t.pending = 0 /\ t.night = s.night
        /\ t.on = s.on /\ t.warning = s.warning /\ t.base = s.base
    BY <2>1, <1>2 DEF Brightnesses
  <2> QED
    BY <2>2, <1>5 DEF t, now
<1>12. CASE fresh /\ night # s.night
  <2>1. u \in BOOLEAN /\ p \in Nat
    BY <1>2, <1>7
  <2> HIDE DEF u, p
  <2>2. t = [s EXCEPT !.wanted = night, !.night = u, !.pending = p]
    BY <1>1, <1>12
  <2> HIDE DEF night
  <2>3. /\ t \in Brightnesses /\ t.pending = p /\ t.night = u /\ t.wanted = night
        /\ t.on = s.on /\ t.warning = s.warning /\ t.base = s.base
    BY <2>1, <2>2, <1>2 DEF Brightnesses
  <2>4. p > 0 => p <= now
    BY <1>8, <1>9, <1>12 DEF p
  <2>5. u # s.night => now >= time /\ u = night
    BY <1>3, <1>5, <1>7, <1>8, <1>9, <1>12 DEF u
  <2>6. u = night => time = (IF u THEN LampOn ELSE LampOff)
    OBVIOUS
  <2> QED
    BY <2>3, <2>4, <2>5, <2>6, <1>5 DEF t, now, night
<1> QED
  BY <1>10, <1>11, <1>12

LEMMA IdleKeeps ==
  ASSUME NEW s \in Brightnesses, NEW touched, NEW gap \in BOOLEAN
  PROVE  LET t == Panel!Idled(s, touched, gap)
         IN  /\ t \in Brightnesses /\ t.on = s.on /\ t.warning = s.warning /\ t.base = s.base
             /\ t.night = s.night /\ t.wanted = s.wanted /\ t.pending = s.pending
<1> DEFINE t == Panel!Idled(s, touched, gap)
           i == Panel!Least(s.idle + (IF gap THEN Gap ELSE 1), DimAfter)
           d == s.dimmed \/ i >= DimAfter
<1>1. t = IF touched THEN [s EXCEPT !.idle = 0, !.dimmed = FALSE]
          ELSE [s EXCEPT !.idle = i, !.dimmed = d]
  BY DEF Panel!Idled
<1>2. i \in Nat /\ d \in BOOLEAN
  BY PanelTimes DEF Panel!Least, Brightnesses
<1> HIDE DEF i, d, t
<1>3. /\ t \in Brightnesses /\ t.on = s.on /\ t.warning = s.warning /\ t.base = s.base
      /\ t.night = s.night /\ t.wanted = s.wanted /\ t.pending = s.pending
  BY <1>1, <1>2 DEF Brightnesses
<1> QED
  BY <1>3 DEF t

\* The ramp stays between where it is and where it goes.
LEMMA RampStays ==
  ASSUME NEW s \in Brightnesses, NEW base \in {Manual, Night}, NEW gap \in BOOLEAN,
         NEW current \in 0 .. 100
  PROVE  Panel!Moved(current, Panel!Target(s, base), gap) \in 0 .. 100
<1> DEFINE dim == IF s.dimmed THEN Panel!Most((base * 35 + 50) \div 100, 8) ELSE base
           target == IF s.warning THEN Panel!Most(dim, 90) ELSE dim
           by == Ramp * (IF gap THEN Gap ELSE 1)
<1>1. base \in 0 .. 100
  BY PanelTimes
<1>2. (base * 35 + 50) \div 100 \in 0 .. 100
  BY <1>1
<1>3. dim \in 0 .. 100
  BY <1>1, <1>2 DEF Panel!Most
<1> HIDE DEF dim
<1>4. target \in 0 .. 100
  BY <1>3 DEF Panel!Most
<1>5. Panel!Target(s, base) = target
  BY DEF Panel!Target, dim
<1>6. by \in Nat
  BY PanelTimes
<1> HIDE DEF target, by
<1>7. Panel!Moved(current, target, gap) =
        IF current < target THEN Panel!Least(current + by, target)
        ELSE Panel!Most(current - by, target)
  BY DEF Panel!Moved, by
<1> QED
  BY <1>4, <1>5, <1>6, <1>7 DEF Panel!Least, Panel!Most

\* What the warnings and the night mode may do in a step.
Confirmed ==
    /\ brightness'.warning /\ ~brightness.warning => run'.over >= WarnOn
    /\ headlamp'.warning /\ ~headlamp.warning => run'.dark >= HeadOn
    /\ brightness'.night # brightness.night
         => /\ run'.lamps >= (IF brightness'.night THEN LampOn ELSE LampOff)
            /\ run'.seen = brightness'.night

LEMMA BrightnessPanel ==
  ASSUME PanelInv, NEW in \in Panel!Inputs, NEW gap \in BOOLEAN, Panel!Brightness(in, gap)
  PROVE  PanelInv' /\ Confirmed
<1> DEFINE i == Panel!Idled(brightness, in.touched, gap)
           w == Panel!SpeedWarning(i, in.speed, gap)
           s == Panel!NightMode(w, in.lamps, gap)
           base == Panel!Base(s, in, gap)
           moved == Panel!Moved(s.current, Panel!Target(s, base), gap)
           fresh == ~gap /\ in.lamps # "STALE"
           over == IF ~gap /\ in.speed = "OVER" THEN Panel!Up(run.over, WarnOn) ELSE 0
           lamps == IF fresh /\ (in.lamps = "ON") = run.seen
                    THEN Panel!Up(run.lamps, LongerLamp)
                    ELSE IF fresh THEN 1 ELSE 0
           seen == in.lamps = "ON"
<1>1. /\ brightness' = [s EXCEPT !.base = base, !.current = moved]
      /\ run' = [run EXCEPT !.over = over, !.lamps = lamps, !.seen = seen]
      /\ headlamp' = headlamp
  BY Zenon DEF Panel!Brightness, LongerLamp
<1>2. /\ i \in Brightnesses /\ i.on = brightness.on /\ i.warning = brightness.warning
      /\ i.night = brightness.night /\ i.wanted = brightness.wanted
      /\ i.pending = brightness.pending
  BY IdleKeeps DEF PanelInv
<1> HIDE DEF i
<1>3. /\ w \in Brightnesses /\ over \in 0 .. WarnOn /\ w.on <= over
      /\ w.warning /\ ~i.warning => over >= WarnOn
      /\ w.night = i.night /\ w.wanted = i.wanted /\ w.pending = i.pending
  <2>1. run.over \in 0 .. WarnOn /\ i.on <= run.over
    BY <1>2 DEF PanelInv
  <2> QED
    BY <1>2, <2>1, SpeedWarns
<1> HIDE DEF w, over
<1>4. /\ s \in Brightnesses /\ lamps \in 0 .. LongerLamp
      /\ s.pending > 0 => s.wanted = seen /\ s.pending <= lamps
      /\ s.night # w.night => lamps >= (IF s.night THEN LampOn ELSE LampOff) /\ seen = s.night
      /\ s.on = w.on /\ s.warning = w.warning
  <2>1. /\ run.lamps \in 0 .. LongerLamp /\ run.seen \in BOOLEAN
        /\ w.pending > 0 => w.wanted = run.seen /\ w.pending <= run.lamps
    BY <1>2, <1>3 DEF PanelInv
  <2> QED
    BY <1>3, <2>1, NightFollows
<1> HIDE DEF s, lamps
<1>5. base \in {Manual, Night}
  BY <1>4 DEF Panel!Base, Brightnesses
<1> HIDE DEF base
<1>6. moved \in 0 .. 100
  BY <1>4, <1>5, RampStays DEF Brightnesses
<1>7. seen \in BOOLEAN
  OBVIOUS
<1> HIDE DEF moved, seen
<1>8. /\ brightness' \in Brightnesses /\ brightness'.on = s.on
      /\ brightness'.warning = s.warning /\ brightness'.night = s.night
      /\ brightness'.wanted = s.wanted /\ brightness'.pending = s.pending
  BY <1>1, <1>4, <1>5, <1>6 DEF Brightnesses
<1>9. /\ run' \in [over : 0 .. WarnOn, lamps : 0 .. LongerLamp, seen : BOOLEAN, dark : 0 .. HeadOn]
      /\ run'.over = over /\ run'.lamps = lamps /\ run'.seen = seen /\ run'.dark = run.dark
  BY <1>1, <1>3, <1>4, <1>7 DEF PanelInv
<1>10. PanelInv'
  BY <1>1, <1>3, <1>4, <1>8, <1>9 DEF PanelInv, LongerLamp
<1>11. Confirmed
  BY <1>1, <1>2, <1>3, <1>4, <1>8, <1>9 DEF Confirmed
<1> QED
  BY <1>10, <1>11

LEMMA HeadlampPanel ==
  ASSUME PanelInv, NEW fresh \in BOOLEAN, NEW lit \in BOOLEAN, NEW minute \in 0 .. Day - 1,
         Panel!HeadlampUpdate(fresh, minute, lit)
  PROVE  PanelInv' /\ Confirmed
<1> DEFINE dark == IF fresh /\ ~lit /\ minute \notin Sunrise .. Sunset + Grace - 1
                   THEN Panel!Up(run.dark, HeadOn) ELSE 0
           n == IF lit THEN 0 ELSE Panel!Up(headlamp.on, HeadOn)
           m == IF lit THEN Panel!Up(headlamp.off, HeadOff) ELSE 0
           x == n % HeadOn
           y == m % HeadOff
           v == n >= HeadOn
           w == m < HeadOff
<1>1. /\ run' = [run EXCEPT !.dark = dark] /\ brightness' = brightness
      /\ headlamp' = Panel!Headlamp(fresh, minute, lit)
  BY DEF Panel!HeadlampUpdate
<1>2. Panel!Headlamp(fresh, minute, lit) =
        IF ~fresh \/ ~Panel!AfterSunset(minute) THEN [warning |-> FALSE, on |-> 0, off |-> 0]
        ELSE IF headlamp.warning THEN [warning |-> w, on |-> 0, off |-> y]
        ELSE [warning |-> v, on |-> x, off |-> 0]
  BY DEF Panel!Headlamp, Panel!Off
<1>3. /\ headlamp.on \in 0 .. HeadOn - 1 /\ headlamp.off \in 0 .. HeadOff - 1
      /\ run.dark \in 0 .. HeadOn /\ headlamp.on <= run.dark
      /\ HeadOn \in Nat \ {0} /\ HeadOff \in Nat \ {0}
  BY PanelTimes DEF PanelInv, Headlamps
<1>4. headlamp.on \in 0 .. HeadOn /\ headlamp.off \in 0 .. HeadOff
  BY <1>3
<1>5. dark \in 0 .. HeadOn /\ n \in 0 .. HeadOn /\ m \in 0 .. HeadOff
  BY <1>3, <1>4, UpCounts
<1>6. fresh /\ Panel!AfterSunset(minute) => n <= dark
  <2>1. CASE lit
    BY <2>1, <1>5
  <2>2. CASE fresh /\ ~lit /\ Panel!AfterSunset(minute)
    <3>1. minute \notin Sunrise .. Sunset + Grace - 1
      BY <2>2, PanelTimes DEF Panel!AfterSunset
    <3>2. dark = Panel!Up(run.dark, HeadOn) /\ n = Panel!Up(headlamp.on, HeadOn)
      BY <2>2, <3>1
    <3>3. /\ dark = IF run.dark < HeadOn THEN run.dark + 1 ELSE HeadOn
          /\ n = IF headlamp.on < HeadOn THEN headlamp.on + 1 ELSE HeadOn
      BY <3>2, <1>3, <1>4, UpCounts
    <3> QED
      BY <3>3, <1>3
  <2> QED
    BY <2>1, <2>2
<1>7. /\ x \in 0 .. HeadOn - 1 /\ x <= n
      /\ y \in 0 .. HeadOff - 1
  <2>1. /\ n < HeadOn => n % HeadOn = n
        /\ n = HeadOn => n % HeadOn = 0
    BY <1>3, <1>5, CountRestarts
  <2>2. /\ m < HeadOff => m % HeadOff = m
        /\ m = HeadOff => m % HeadOff = 0
    BY <1>3, <1>5, CountRestarts
  <2> HIDE DEF n, m
  <2> QED
    BY <1>3, <1>5, <2>1, <2>2
<1>8. v \in BOOLEAN /\ w \in BOOLEAN /\ (v => n >= HeadOn)
  OBVIOUS
<1> HIDE DEF dark, n, m, x, y, v, w
<1>9. /\ headlamp' \in Headlamps /\ headlamp'.on <= dark
      /\ headlamp'.warning /\ ~headlamp.warning => dark >= HeadOn
  <2>1. CASE ~fresh \/ ~Panel!AfterSunset(minute)
    BY <1>1, <1>2, <1>3, <1>5, <2>1 DEF Headlamps
  <2>2. CASE fresh /\ Panel!AfterSunset(minute) /\ headlamp.warning
    BY <1>1, <1>2, <1>3, <1>5, <1>7, <1>8, <2>2 DEF Headlamps
  <2>3. CASE fresh /\ Panel!AfterSunset(minute) /\ ~headlamp.warning
    BY <1>1, <1>2, <1>3, <1>5, <1>6, <1>7, <1>8, <2>3 DEF Headlamps
  <2> QED
    BY <2>1, <2>2, <2>3
<1>10. /\ run' \in [over : 0 .. WarnOn, lamps : 0 .. LongerLamp, seen : BOOLEAN, dark : 0 .. HeadOn]
       /\ run'.over = run.over /\ run'.lamps = run.lamps /\ run'.seen = run.seen /\ run'.dark = dark
  BY <1>1, <1>5 DEF PanelInv
<1>11. brightness'.warning = brightness.warning /\ brightness'.night = brightness.night
  BY <1>1
<1> QED
  BY <1>1, <1>9, <1>10, <1>11 DEF PanelInv, Confirmed, LongerLamp

LEMMA InitPanel == Panel!Init => PanelInv
<1> SUFFICES ASSUME Panel!Init PROVE PanelInv
  OBVIOUS
<1>1. /\ 0 \in 0 .. WarnOn - 1 /\ 0 \in 0 .. WarnOff - 1 /\ 0 \in 0 .. HeadOn - 1
      /\ 0 \in 0 .. HeadOff - 1 /\ 0 \in 0 .. WarnOn /\ 0 \in 0 .. HeadOn
      /\ 0 \in 0 .. LongerLamp /\ Manual \in 0 .. 100
  BY PanelTimes DEF LongerLamp, Panel!Most
<1>2. /\ brightness \in Brightnesses /\ brightness.on = 0 /\ brightness.pending = 0
  BY <1>1 DEF Panel!Init, Brightnesses
<1>3. headlamp \in Headlamps /\ headlamp.on = 0
  BY <1>1 DEF Panel!Init, Headlamps
<1>4. /\ run \in [over : 0 .. WarnOn, lamps : 0 .. LongerLamp, seen : BOOLEAN, dark : 0 .. HeadOn]
      /\ run.over = 0 /\ run.dark = 0
  BY <1>1 DEF Panel!Init
<1> QED
  BY <1>2, <1>3, <1>4 DEF PanelInv

LEMMA NextPanel ==
  ASSUME PanelInv, [Panel!Next]_(Panel!vars)
  PROVE  PanelInv' /\ (Confirmed \/ UNCHANGED Panel!vars)
<1>1. CASE UNCHANGED Panel!vars
  BY <1>1 DEF Panel!vars, PanelInv, LongerLamp
<1>2. CASE Panel!Next
  BY <1>2, BrightnessPanel, HeadlampPanel DEF Panel!Next
<1> QED
  BY <1>1, <1>2

\* A warning comes up, and day turns into night or back, only after the whole
\* confirmation time of fresh data without a contradiction or a gap, for any
\* times; and the brightness stays a percentage on its way.
THEOREM DisplayEvidenceIsWhole == Panel!Spec => []Panel!TypeOK /\ Panel!EvidenceIsWhole
<1>1. PanelInv => Panel!TypeOK
  BY DEF PanelInv, Brightnesses, Headlamps, Panel!TypeOK
<1>2. PanelInv /\ [Panel!Next]_(Panel!vars) => PanelInv'
  BY NextPanel
<1>3. PanelInv /\ [Panel!Next]_(Panel!vars) => [Confirmed]_(Panel!vars)
  BY NextPanel
<1>4. [][Confirmed]_(Panel!vars) => Panel!EvidenceIsWhole
  BY PTL DEF Confirmed, Panel!EvidenceIsWhole
<1> QED
  BY <1>1, <1>2, <1>3, <1>4, InitPanel, PTL DEF Panel!Spec

-----------------------------------------------------------------------------
LEMMA AutomationsOfAll == MCSpec => Sport!Spec /\ Volume!Spec /\ Panel!Spec
<1>1. MCInit => Sport!Init /\ Volume!Init /\ Panel!Init
  BY DEF MCInit
<1>2. [MCNext]_<<part, webVars, otherVars>> => [Sport!Next]_(Sport!vars)
  BY DEF MCNext, otherVars, sportVars, Sport!vars
<1>3. [MCNext]_<<part, webVars, otherVars>> => [Volume!Next]_(Volume!vars)
  BY DEF MCNext, otherVars, volumeVars, Volume!vars
<1>4. [MCNext]_<<part, webVars, otherVars>> => [Panel!Next]_(Panel!vars)
  BY DEF MCNext, otherVars, displayVars, Panel!vars
<1> QED
  BY <1>1, <1>2, <1>3, <1>4, PTL DEF MCSpec, Sport!Spec, Volume!Spec, Panel!Spec

\* The automations act on whole evidence only, give way to the driver and undo
\* only what they did themselves.
THEOREM TheAutomationsActOnEvidence == MCSpec => AutomationsOnEvidence
<1>1. Volume!TypeOK /\ Volume!OneOrder /\ Sport!TypeOK /\ Panel!TypeOK
        => /\ part = "volume" => Volume!TypeOK /\ Volume!OneOrder
           /\ part = "sport" => Sport!TypeOK
           /\ part = "display" => Panel!TypeOK
  OBVIOUS
<1> QED
  BY <1>1, AutomationsOfAll, OneOrderUnderWay, KnobGoesFirst, StepsRestOnEvidence,
     SportRestoresItsOwn, DisplayEvidenceIsWhole, PTL DEF AutomationsOnEvidence
-----------------------------------------------------------------------------
(* Start and stop of the web shell, whatever call fails and whenever the   *)
(* DNS task ends.                                                          *)


Parts == {"locks", "loop", "wifi", "ap", "sta", "radio", "user", "server", "dns"}

\* What is held may work: every part has what it needs.
Closed ==
    /\ "dns" \in held => {"radio", "wifi", "ap", "locks"} \subseteq held
    /\ "server" \in held => {"radio", "wifi", "ap", "user", "locks"} \subseteq held
    /\ "radio" \in held => "wifi" \in held
    /\ "wifi" \in held => "loop" \in held

\* The DNS task exists exactly while it is recorded as taken.
StartInv ==
    /\ held \subseteq Parts /\ Closed
    /\ dns \in {"none", "running", "stopped"} /\ (dns # "none" <=> "dns" \in held)
    /\ stage = "off" => held = {}
    /\ stage = "up" => Parts \subseteq held
    /\ after \in {"off", "starting"}

LEMMA TakeOrderIs ==
  /\ DOMAIN Shell!TakeOrder = 1 .. 9
  /\ Shell!TakeOrder[1] = "locks" /\ Shell!TakeOrder[2] = "loop"
  /\ Shell!TakeOrder[3] = "wifi" /\ Shell!TakeOrder[4] = "ap"
  /\ Shell!TakeOrder[5] = "sta" /\ Shell!TakeOrder[6] = "radio"
  /\ Shell!TakeOrder[7] = "user" /\ Shell!TakeOrder[8] = "server"
  /\ Shell!TakeOrder[9] = "dns"
  BY DEF Shell!TakeOrder

LEMMA GiveOrderIs ==
  /\ DOMAIN Shell!GiveOrder = 1 .. 9
  /\ Shell!GiveOrder[1] = "dns" /\ Shell!GiveOrder[2] = "server"
  /\ Shell!GiveOrder[3] = "user" /\ Shell!GiveOrder[4] = "radio"
  /\ Shell!GiveOrder[5] = "wifi" /\ Shell!GiveOrder[6] = "ap"
  /\ Shell!GiveOrder[7] = "sta" /\ Shell!GiveOrder[8] = "loop"
  /\ Shell!GiveOrder[9] = "locks"
  BY DEF Shell!GiveOrder

LEMMA OrdersAreWhole ==
  ASSUME NEW list \in {Shell!TakeOrder, Shell!GiveOrder}
  PROVE  /\ DOMAIN list = 1 .. 9
         /\ \A i \in 1 .. 9 : list[i] \in Parts
         /\ \A p \in Parts : \E i \in 1 .. 9 : list[i] = p
<1>1. CASE list = Shell!TakeOrder
  <2>1. \A i \in 1 .. 9 : i \in {1, 2, 3, 4, 5, 6, 7, 8, 9}
    OBVIOUS
  <2>2. \A i \in 1 .. 9 : list[i] \in Parts
    BY <1>1, <2>1, TakeOrderIs DEF Parts
  <2>3. \A p \in Parts : \E i \in 1 .. 9 : list[i] = p
    BY <1>1, TakeOrderIs DEF Parts
  <2> QED
    BY <1>1, <2>2, <2>3, TakeOrderIs
<1>2. CASE list = Shell!GiveOrder
  <2>1. \A i \in 1 .. 9 : i \in {1, 2, 3, 4, 5, 6, 7, 8, 9}
    OBVIOUS
  <2>2. \A i \in 1 .. 9 : list[i] \in Parts
    BY <1>2, <2>1, GiveOrderIs DEF Parts
  <2>3. \A p \in Parts : \E i \in 1 .. 9 : list[i] = p
    BY <1>2, GiveOrderIs DEF Parts
  <2> QED
    BY <1>2, <2>2, <2>3, GiveOrderIs
<1> QED
  BY <1>1, <1>2

LEMMA LeastExists ==
  ASSUME NEW T \in SUBSET Nat, T # {}
  PROVE  \E x \in T : \A y \in T : x <= y
<1>1. PICK x \in T : \A y \in T : <<y, x>> \notin OpToRel(<, Nat)
  BY NatLessThanWellFounded, WFMin
<1>2. \A y \in T : ~(y < x)
  BY <1>1 DEF OpToRel
<1> QED
  BY <1>2

\* FirstIn finds the first of the names: all that come earlier are missing.
LEMMA FirstIsFirst ==
  ASSUME NEW list \in {Shell!TakeOrder, Shell!GiveOrder},
         NEW names \in SUBSET Parts, names # {}
  PROVE  \E i \in 1 .. 9 : /\ Shell!FirstIn(list, names) = list[i]
                           /\ list[i] \in names
                           /\ \A j \in 1 .. 9 : j < i => list[j] \notin names
<1> DEFINE T == {i \in 1 .. 9 : list[i] \in names}
           Is(i) == /\ list[i] \in names
                    /\ \A j \in 1 .. i - 1 : list[j] \notin names
<1>1. T \in SUBSET Nat /\ T # {}
  BY OrdersAreWhole
<1>2. PICK x \in T : \A y \in T : x <= y
  BY <1>1, LeastExists
<1>3. x \in DOMAIN list /\ Is(x)
  BY <1>2, OrdersAreWhole
<1>4. (CHOOSE i \in DOMAIN list : Is(i)) \in DOMAIN list
      /\ Is(CHOOSE i \in DOMAIN list : Is(i))
  BY <1>3
<1>5. Shell!FirstIn(list, names) = list[CHOOSE i \in DOMAIN list : Is(i)]
  BY DEF Shell!FirstIn
<1> DEFINE f == CHOOSE i \in DOMAIN list : Is(i)
<1>6. f \in 1 .. 9 /\ Is(f) /\ Shell!FirstIn(list, names) = list[f]
  BY <1>4, <1>5, OrdersAreWhole
<1> HIDE DEF f
<1> QED
  BY <1>6

LEMMA MissingParts ==
  Shell!ToSet(Shell!TakeOrder) = Parts /\ Shell!Missing = Parts \ held
<1>1. Shell!ToSet(Shell!TakeOrder) = Parts
  BY OrdersAreWhole DEF Shell!ToSet
<1> QED
  BY <1>1 DEF Shell!Missing

\* Parts are taken after what they need.
LEMMA TakeInv == ASSUME StartInv, NEW r, Shell!Take(r) PROVE StartInv'
<1>1. /\ stage = "starting" /\ Parts \ held # {}
      /\ r = Shell!FirstIn(Shell!TakeOrder, Parts \ held)
      /\ held' = held \cup {r} /\ stage' = stage /\ after' = after
      /\ dns' = IF r = "dns" THEN "running" ELSE dns
  BY MissingParts DEF Shell!Take
<1>2. PICK i \in 1 .. 9 : /\ r = Shell!TakeOrder[i] /\ r \in Parts \ held
                          /\ \A j \in 1 .. 9 : j < i => Shell!TakeOrder[j] \notin Parts \ held
  BY <1>1, FirstIsFirst
<1>3. \A j \in 1 .. 9 : j < i => Shell!TakeOrder[j] \in held
  BY <1>2, OrdersAreWhole
<1>4. Closed'
  <2>1. i \in {1, 2, 3, 4, 5, 6, 7, 8, 9}
    BY <1>2
  <2>2. CASE i = 9
    <3>1. {"locks", "loop", "wifi", "ap", "sta", "radio", "user", "server"} \subseteq held
      BY <1>3, <2>2, TakeOrderIs
    <3> QED
      BY <1>1, <3>1 DEF Closed
  <2>3. CASE i = 8
    <3>1. r = "server" /\ {"locks", "loop", "wifi", "ap", "radio", "user"} \subseteq held
      BY <1>2, <1>3, <2>3, TakeOrderIs
    <3> QED
      BY <1>1, <3>1 DEF StartInv, Closed
  <2>4. CASE i = 6
    <3>1. r = "radio" /\ {"loop", "wifi"} \subseteq held
      BY <1>2, <1>3, <2>4, TakeOrderIs
    <3> QED
      BY <1>1, <3>1 DEF StartInv, Closed
  <2>5. CASE i = 3
    <3>1. r = "wifi" /\ "loop" \in held
      BY <1>2, <1>3, <2>5, TakeOrderIs
    <3> QED
      BY <1>1, <3>1 DEF StartInv, Closed
  <2>6. CASE i \in {1, 2, 4, 5, 7}
    <3>1. r \in {"locks", "loop", "ap", "sta", "user"}
      BY <1>2, <2>6, TakeOrderIs
    <3> QED
      BY <1>1, <3>1 DEF StartInv, Closed
  <2> QED
    BY <2>1, <2>2, <2>3, <2>4, <2>5, <2>6
<1> QED
  BY <1>1, <1>2, <1>4 DEF StartInv

\* Parts are given back before what they need.
LEMMA GiveInv == ASSUME StartInv, NEW r, Shell!Give(r) PROVE StartInv'
<1>1. /\ stage = "stopping" /\ held # {} /\ held \in SUBSET Parts
      /\ r = Shell!FirstIn(Shell!GiveOrder, held)
      /\ held' = held \ {r} /\ stage' = stage /\ after' = after
      /\ dns' = IF r = "dns" THEN "none" ELSE dns
  BY DEF Shell!Give, Shell!NextToGive, StartInv
<1>2. PICK i \in 1 .. 9 : /\ r = Shell!GiveOrder[i] /\ r \in held
                          /\ \A j \in 1 .. 9 : j < i => Shell!GiveOrder[j] \notin held
  BY <1>1, FirstIsFirst
<1>3. Closed'
  <2>1. i \in {1, 2, 3, 4, 5, 6, 7, 8, 9}
    BY <1>2
  <2>2. CASE i \in {1, 2}
    <3>1. r \in {"dns", "server"}
      BY <1>2, <2>2, GiveOrderIs
    <3> QED
      BY <1>1, <3>1 DEF StartInv, Closed
  <2>3. CASE i \in {3, 4}
    <3>1. r \in {"user", "radio"} /\ "dns" \notin held /\ "server" \notin held
      BY <1>2, <2>3, GiveOrderIs
    <3> QED
      BY <1>1, <3>1 DEF StartInv, Closed
  <2>4. CASE i \in {5, 6, 7, 8, 9}
    <3>1. "dns" \notin held /\ "server" \notin held /\ "radio" \notin held
      BY <1>2, <2>4, GiveOrderIs
    <3>2. r \in {"wifi", "ap", "sta", "loop", "locks"}
      BY <1>2, <2>4, GiveOrderIs
    <3>3. r = "loop" => "wifi" \notin held
      <4>1. r = "loop" => i = 8
        BY <1>2, <2>4, GiveOrderIs
      <4> QED
        BY <1>2, <4>1, GiveOrderIs
    <3> QED
      BY <1>1, <3>1, <3>2, <3>3 DEF StartInv, Closed
  <2> QED
    BY <2>1, <2>2, <2>3, <2>4
<1> QED
  BY <1>1, <1>2, <1>3 DEF StartInv

\* Nothing is taken away from under a part that still runs, whichever call of a
\* start or stop fails, how often it is tried again and whenever the DNS task
\* ends; the shell is off only when all has been given back.
THEOREM ShellNeverUndermined == Shell!Spec => []Shell!NothingInUseIsGone
<1>1. Shell!Init => StartInv
  BY DEF Shell!Init, StartInv, Closed, Parts
<1>2. StartInv /\ [Shell!Next]_(Shell!vars) => StartInv'
  <2> SUFFICES ASSUME StartInv, [Shell!Next]_(Shell!vars) PROVE StartInv'
    OBVIOUS
  <2> USE DEF StartInv, Closed
  <2>1. CASE Shell!Start
    BY <2>1 DEF Shell!Start
  <2>2. CASE Shell!Starts
    BY <2>2, MissingParts DEF Shell!Starts
  <2>3. CASE Shell!TakeFails
    BY <2>3 DEF Shell!TakeFails
  <2>4. CASE Shell!Stop
    BY <2>4 DEF Shell!Stop
  <2>5. CASE Shell!AskDns
    BY <2>5 DEF Shell!AskDns
  <2>6. CASE Shell!GiveFails
    <3>1. stage' \in {"stopping", "restart"} /\ after' = "off" /\ UNCHANGED <<held, dns>>
      BY <2>6 DEF Shell!GiveFails
    <3> QED
      BY <3>1
  <2>7. CASE Shell!Given
    BY <2>7 DEF Shell!Given
  <2>8. CASE Shell!Restarts
    BY <2>8 DEF Shell!Restarts
  <2>9. CASE Shell!DnsEnds
    BY <2>9 DEF Shell!DnsEnds
  <2>10. CASE UNCHANGED Shell!vars
    BY <2>10 DEF Shell!vars
  <2>11. ASSUME NEW r \in Shell!ToSet(Shell!TakeOrder), Shell!Take(r) \/ Shell!Give(r)
         PROVE  StartInv'
    <3> HIDE DEF StartInv
    <3> QED
      BY <2>11, TakeInv, GiveInv
  <2> QED
    BY <2>1, <2>2, <2>3, <2>4, <2>5, <2>6, <2>7, <2>8, <2>9, <2>10, <2>11 DEF Shell!Next
<1>3. StartInv => Shell!NothingInUseIsGone
  <2> SUFFICES ASSUME StartInv PROVE Shell!NothingInUseIsGone
    OBVIOUS
  <2>1. dns = "running" => Shell!Needs.dns \subseteq held
    BY DEF StartInv, Closed, Shell!Needs
  <2>2. \A r \in held \cap {"server", "radio", "wifi"} : Shell!Needs[r] \subseteq held
    <3>1. /\ Shell!Needs["server"] = {"radio", "wifi", "ap", "user", "locks"}
          /\ Shell!Needs["radio"] = {"wifi"} /\ Shell!Needs["wifi"] = {"loop"}
      BY DEF Shell!Needs
    <3> QED
      BY <3>1 DEF StartInv, Closed
  <2> QED
    BY <2>1, <2>2, MissingParts DEF StartInv, Shell!NothingInUseIsGone
<1> QED
  BY <1>1, <1>2, <1>3, PTL DEF Shell!Spec

LEMMA StartOfBoth == MCSpec => Shell!Spec
<1>1. MCInit => Shell!Init
  BY DEF MCInit
<1>2. [MCNext]_<<part, webVars, otherVars>> => [Shell!Next]_(Shell!vars)
  BY DEF MCNext, otherVars, startVars, Shell!vars
<1> QED
  BY <1>1, <1>2, PTL DEF MCSpec, Shell!Spec

\* The shell is not stopped for a worker that is alive, and nothing that is in
\* use is given back.
THEOREM TheShellIsSound == MCSpec => []ShellSound
<1>1. WTypeOK /\ SessionIsOwned /\ NoFalseAlarm /\ Shell!NothingInUseIsGone => ShellSound
  BY DEF ShellSound
<1> QED
  BY <1>1, WebOfBoth, StartOfBoth, SessionStaysOwned, NoWorkerTakenForDead,
     ShellNeverUndermined, PTL

=============================================================================
