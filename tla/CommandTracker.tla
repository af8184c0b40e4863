--------------------------- MODULE CommandTracker ---------------------------
(***************************************************************************)
(* The controller's command tracker, canview_command_tracker.c, between a  *)
(* user who begins and retries commands and a peer whose acknowledgements  *)
(* and results are lost, repeated and overtaken.  A tick of the clock is   *)
(* 40 ms; the clock wraps (% Wrap, 2^32 ms in the code).                   *)
(***************************************************************************)
EXTENDS Integers, FiniteSets

CONSTANTS
    Tokens,     \* request tokens
    Slots,      \* [0 .. 7] CANVIEW_COMMAND_TRACKER_MAX_PENDING
    Ttl,        \* ttl_ms of a command
    FirstDelay, \* [2] 80 ms
    LastDelay,  \* [6] 250 ms
    MaxRetries, \* [2] CANVIEW_COMMAND_TRACKER_MAX_RETRIES
    Wrap,
    MaxAnswers  \* bound of the answers under way

\* What the proofs need of the constants; MCEsp32 evaluates it.
TrackerAssumption == Wrap \in Nat \ {0} /\ MaxRetries \in Nat

VARIABLES
    slots,      \* canview_command_tracker_t
    now,        \* the caller's clock
    age,        \* history: ticks the command of a slot has been waiting
    frames,     \* tokens of the command frames sent
    answers,    \* acknowledgements and results under way
    peer        \* external: what the peer has done with a token

vars == <<slots, now, age, frames, answers, peer>>

Waiting  == {"WAITING_ACK", "WAITING_RESULT"}
Terminal == {"COMPLETED", "FAILED", "EXPIRED"}
Free == [token |-> "none", status |-> "EMPTY", sent |-> 0, last |-> 0,
         retries |-> 0]

Init == /\ slots = [s \in Slots |-> Free] /\ now = 0
        /\ age = [s \in Slots |-> 0]
        /\ frames = {} /\ answers = {}
        /\ peer = [t \in Tokens |-> "NEW"]

\* Mutant: a terminal slot no longer counts as its token's.
find_slot_Pending(token) ==
    {s \in Slots : slots[s].token = token /\ slots[s].status \in Waiting}

find_slot(token) == {s \in Slots : slots[s].token = token}

First(S) == CHOOSE s \in S : \A r \in S : s <= r

\* A free slot, or else the first that is done.
find_free_slot ==
    LET free == {s \in Slots : slots[s] = Free}
    IN  IF free # {} THEN free
        ELSE {s \in Slots : slots[s].status \in Terminal}

\* canview_command_tracker_begin; the command frame goes out.
Begin(t) ==
    /\ find_slot(t) = {} /\ find_free_slot # {}
    /\ LET s == First(find_free_slot)
       IN  /\ slots' = [slots EXCEPT ![s] =
                [token |-> t, status |-> "WAITING_ACK", sent |-> now,
                 last |-> now, retries |-> 0]]
           /\ age' = [age EXCEPT ![s] = 0]
    /\ frames' = frames \cup {t}
    /\ UNCHANGED <<now, answers, peer>>

SetStatus(s, status) == slots' = [slots EXCEPT ![s].status = status]

\* Mutant: an acknowledgement is taken for the outcome.
AckStatus_Done(ack) ==
    IF ack \in {"ACCEPTED", "DUPLICATE"} THEN "COMPLETED" ELSE "FAILED"

AckStatus(ack) ==
    IF ack \in {"ACCEPTED", "DUPLICATE"} THEN "WAITING_RESULT" ELSE "FAILED"

\* canview_command_tracker_on_ack: one for an unknown or finished command
\* is dropped.
OnAck(a) ==
    /\ a.kind = "ACK"
    /\ \E s \in find_slot(a.token) :
          slots[s].status \in Waiting /\ SetStatus(s, AckStatus(a.says))
    /\ UNCHANGED <<now, age, frames, answers, peer>>

ResultStatus(stage) ==
    CASE stage = "EXECUTING" -> "WAITING_RESULT"
      [] stage \in {"COMPLETED", "EXPIRED"} -> stage
      [] OTHER -> "FAILED"

\* canview_command_tracker_on_result: a token stands for one command, so the
\* command id of a result is that of the slot.
OnResult(a) ==
    /\ a.kind = "RESULT"
    /\ \E s \in find_slot(a.token) :
          slots[s].status \in Waiting /\ SetStatus(s, ResultStatus(a.says))
    /\ UNCHANGED <<now, age, frames, answers, peer>>

Least(a, b) == IF a < b THEN a ELSE b
Delay(n) == Least(Least(FirstDelay * 2 ^ n, LastDelay), Ttl \div 2)

Since(time) == (now - time) % Wrap

\* canview_command_tracker_should_retry
should_retry(s) ==
    /\ slots[s].status = "WAITING_ACK" /\ slots[s].retries < MaxRetries
    /\ Delay(slots[s].retries) > 0
    /\ Since(slots[s].last) >= Delay(slots[s].retries)

\* canview_command_tracker_mark_retry; the same token goes out again.
Retry(s) ==
    /\ should_retry(s)
    /\ slots' = [slots EXCEPT ![s].retries = @ + 1, ![s].last = now]
    /\ frames' = frames \cup {slots[s].token}
    /\ UNCHANGED <<now, age, answers, peer>>

Overdue(s) == slots[s].status \in Waiting /\ Since(slots[s].sent) >= Ttl

\* canview_command_tracker_expire
Expire ==
    /\ \E s \in Slots : Overdue(s)
    /\ slots' = [s \in Slots |->
          IF Overdue(s) THEN [slots[s] EXCEPT !.status = "EXPIRED"] ELSE slots[s]]
    /\ UNCHANGED <<now, age, frames, answers, peer>>

\* External: the peer's answers, each of which may come late, twice or never.
Say(t, kind, says) ==
    /\ answers' = answers \cup {[token |-> t, kind |-> kind, says |-> says]}
    /\ Cardinality(answers') <= MaxAnswers

PeerReceives(t) ==
    /\ t \in frames
    /\ \/ peer[t] = "NEW" /\ peer' = [peer EXCEPT ![t] = "EXECUTING"]
          /\ Say(t, "ACK", "ACCEPTED")
       \/ peer[t] = "NEW" /\ peer' = peer /\ Say(t, "ACK", "BUSY")
       \/ peer[t] # "NEW" /\ peer' = peer /\ Say(t, "ACK", "DUPLICATE")
    /\ UNCHANGED <<slots, now, age, frames>>

PeerReports(t, stage) ==
    /\ peer[t] = "EXECUTING"
    /\ peer' = [peer EXCEPT ![t] = stage]
    /\ Say(t, "RESULT", stage)
    /\ UNCHANGED <<slots, now, age, frames>>

\* External: the last copy of an answer is gone; a frame that is lost is
\* one the peer never receives.
Vanish(a) == /\ answers' = answers \ {a}
             /\ UNCHANGED <<slots, now, age, frames, peer>>

\* The caller looks after its commands before the clock comes round.
Tick == /\ \A s \in Slots : slots[s].status \in Waiting => age[s] < Wrap - 1
        /\ now' = (now + 1) % Wrap
        /\ age' = [s \in Slots |-> IF slots[s].status \in Waiting THEN age[s] + 1
                                 ELSE age[s]]
        /\ UNCHANGED <<slots, frames, answers, peer>>

Next ==
    \/ \E t \in Tokens : Begin(t) \/ PeerReceives(t)
    \/ \E a \in answers : OnAck(a) \/ OnResult(a) \/ Vanish(a)
    \/ \E s \in Slots : Retry(s)
    \/ Expire \/ Tick
    \/ \E t \in Tokens, stage \in {"EXECUTING", "COMPLETED", "EXPIRED", "REJECTED"} :
          PeerReports(t, stage)

Spec == Init /\ [][Next]_vars

-----------------------------------------------------------------------------
TypeOK == \A s \in Slots : /\ slots[s].status \in Waiting \cup Terminal \cup {"EMPTY"}
                           /\ slots[s].retries \in 0 .. MaxRetries

\* What the user is told is true: a command shown as completed was completed
\* by the peer, and one shown as expired has had its whole life or was
\* refused as expired, however answers of an earlier use of the token, late
\* acknowledgements and the wrap of the clock fall.  Of FAILED nothing is said:
\* a BUSY that comes after the ACCEPTED of a retry fails a command the peer
\* executes.
StatusIsTrue ==
    \A s \in Slots :
        /\ slots[s].status = "COMPLETED" => peer[slots[s].token] = "COMPLETED"
        /\ slots[s].status = "EXPIRED"
             => age[s] >= Ttl \/ peer[slots[s].token] = "EXPIRED"

\* What a slot says in the end it goes on saying, to late and repeated answers
\* and to a user who begins the same token again, until it is given to another
\* command.
OneOutcome ==
    [][\A s \in Slots : slots[s].status \in Terminal
         => slots'[s] = slots[s] \/ slots'[s].token # slots[s].token]_vars
=============================================================================
