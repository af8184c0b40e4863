----------------------------- MODULE BridgeAuth -----------------------------
(***************************************************************************)
(* canview_bridge_auth_t, the session object of the Diagnostic Bridge, as  *)
(* a record and operators on it: a challenge, at most one token, the       *)
(* window of failed attempts and the lock-out.  Times are ages in ticks,   *)
(* -1 when the thing timed does not exist.                                 *)
(***************************************************************************)
EXTENDS Integers, Sequences

CONSTANTS
    ChallengeTtl,   \* CANVIEW_BRIDGE_AUTH_CHALLENGE_TTL_MS
    TokenTtl,       \* CANVIEW_BRIDGE_AUTH_TOKEN_TTL_MS
    FailureWindow,  \* CANVIEW_BRIDGE_AUTH_FAILURE_WINDOW_MS
    FailureLimit,   \* CANVIEW_BRIDGE_AUTH_FAILURE_LIMIT
    Lockout         \* CANVIEW_BRIDGE_AUTH_LOCKOUT_MS

\* What the proofs need of the constants; MCEsp32 evaluates it.
AuthAssumption ==
    /\ ChallengeTtl \in Nat /\ TokenTtl \in Nat /\ FailureWindow \in Nat /\ Lockout \in Nat
    /\ FailureLimit \in Nat \ {0}

\* canview_bridge_auth_init
NewAuth == [open |-> FALSE, challenge |-> -1, token |-> -1,
            failures |-> 0, since |-> 0, lock |-> -1]

Ageing(age, limit) == IF age < 0 \/ age > limit THEN age ELSE age + 1

\* The clock all of them read.
Aged(a) == [a EXCEPT !.challenge = Ageing(@, ChallengeTtl),
                     !.token = Ageing(@, TokenTtl),
                     !.since = IF a.failures = 0 THEN 0
                               ELSE Ageing(@, FailureWindow),
                     !.lock = Ageing(@, Lockout)]

\* clear_token and clear_challenge: canview_bridge_auth_logout.
LoggedOut(a) == [a EXCEPT !.token = -1, !.challenge = -1]

\* refresh_lockout
Refreshed(a) == IF a.lock > Lockout
                THEN [a EXCEPT !.lock = -1, !.failures = 0, !.since = 0] ELSE a

\* Mutant: the window of failures is not restarted.
Failed_OneWindow(a) ==
    LET r == Refreshed(a)
        n == IF r.since > FailureWindow THEN 1 ELSE r.failures + 1
    IN  [r EXCEPT !.failures = n, !.lock = IF n >= FailureLimit THEN 0 ELSE @]

\* record_failure
Failed(a) ==
    LET r == Refreshed(a)
        anew == r.failures = 0 \/ r.since > FailureWindow
        n == IF anew THEN 1 ELSE r.failures + 1
    IN  [r EXCEPT !.failures = n, !.since = IF anew THEN 0 ELSE @,
                  !.lock = IF n >= FailureLimit THEN 0 ELSE @]

\* Mutant: an attempt or a request while locked starts the lock-out again.
Reconciled_Sliding(a) ==
    LET r == IF a.lock >= 0 THEN [a EXCEPT !.lock = 0] ELSE a
    IN  [r EXCEPT !.challenge = IF @ > ChallengeTtl THEN -1 ELSE @,
                  !.token = IF ~r.open \/ @ > TokenTtl THEN -1 ELSE @]

\* canview_bridge_auth_reconcile
Reconciled(a) ==
    LET r == Refreshed(a)
    IN  [r EXCEPT !.challenge = IF @ > ChallengeTtl THEN -1 ELSE @,
                  !.token = IF ~r.open \/ @ > TokenTtl THEN -1 ELSE @]

\* canview_bridge_auth_issue_challenge; the random source may fail.
Challenged(a, ok) == [a EXCEPT !.challenge = IF ok THEN 0 ELSE -1]

\* canview_bridge_auth_set_service_window
WindowSet(a, open) ==
    IF open THEN [a EXCEPT !.open = TRUE]
    ELSE [LoggedOut(a) EXCEPT !.open = FALSE]

\* canview_bridge_auth_open_session: `answers` when the challenge sent back,
\* the nonce and the PIN are right.  A good session ends the challenge.
MayOpen(a) == a.lock < 0 /\ a.open

SessionOpened(a, answers) ==
    LET r == Reconciled(a)
    IN  IF ~MayOpen(r) THEN [auth |-> r, ok |-> FALSE]
        ELSE IF r.challenge < 0 \/ ~answers
        THEN [auth |-> Failed(r), ok |-> FALSE]
        ELSE [auth |-> [r EXCEPT !.challenge = -1, !.token = 0,
                                 !.failures = 0, !.since = 0], ok |-> TRUE]

\* canview_bridge_auth_check_token, `mine` when the bytes are the token's.
Checked(a, mine) == LET r == Reconciled(a)
                    IN  [auth |-> r, ok |-> r.open /\ r.token >= 0 /\ mine]

-----------------------------------------------------------------------------
(* The object by itself, with any caller. *)

VARIABLES
    auth,
    wrong,      \* history: ages of the failed attempts since the last success
    lockedFor   \* history: age of the last lock-out, -1 before the first

vars == <<auth, wrong, lockedFor>>

Init == auth = NewAuth /\ wrong = <<>> /\ lockedFor = -1

Call(a) == auth' = a /\ UNCHANGED <<wrong, lockedFor>>

Attempt(answers) ==
    LET s == SessionOpened(auth, answers)
        locks == s.auth.lock = 0 /\ Reconciled(auth).lock < 0
    IN  /\ auth' = s.auth
        /\ wrong' = IF s.ok \/ locks THEN <<>>
                    ELSE IF ~MayOpen(Reconciled(auth)) THEN wrong
                    ELSE Append(wrong, 0)
        /\ lockedFor' = IF locks THEN 0 ELSE lockedFor

\* Attempts that grow older than the window are forgotten, the oldest first.
Tick == /\ auth' = Aged(auth)
        /\ \E n \in 0 .. Len(wrong) :
              /\ \A i \in 1 .. Len(wrong) : i <= n <=> wrong[i] >= FailureWindow
              /\ wrong' = [i \in 1 .. Len(wrong) - n |-> wrong[i + n] + 1]
        /\ lockedFor' = Ageing(lockedFor, Lockout)

Next == \/ \E ok \in BOOLEAN : Call(Challenged(auth, ok))
        \/ \E open \in BOOLEAN : Call(WindowSet(auth, open))
        \/ \E right \in BOOLEAN : Attempt(right) \/ Call(Checked(auth, right).auth)
        \/ Call(LoggedOut(auth)) \/ Call(Refreshed(auth)) \/ Call(Reconciled(auth))
        \/ Tick

Spec == Init /\ [][Next]_vars

-----------------------------------------------------------------------------
\* A session opens only with a challenge not older than its life that no
\* other session used, at least a whole lock-out after the last lock-out,
\* and the lock-out then ends by time alone.
LockoutHolds ==
    /\ [][auth'.token = 0 /\ auth.token # 0 =>
            lockedFor \notin 0 .. Lockout
              /\ auth.challenge \in 0 .. ChallengeTtl]_vars
    /\ [][lockedFor = Lockout + 1 /\ auth'.lock = auth.lock /\ auth.lock >= 0
            => auth.lock > Lockout]_vars

\* As many failures in a row as the limit allows fit into no failure window:
\* the attempt that would be one too many locks.  The window starts with the
\* first failure counted, so a time that long may hold all but the first of one
\* window and all but the last of the next.
FailuresBounded ==
    Len(wrong) <= IF FailureLimit = 1 THEN 0 ELSE 2 * FailureLimit - 3
=============================================================================
