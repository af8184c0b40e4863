----------------------------- MODULE EspNowQos -----------------------------
(***************************************************************************)
(* The acknowledged requests of an ESP-NOW peer, canview_espnow.c:         *)
(* canview_qos_submit, _poll and _ack, over a radio that loses, repeats    *)
(* and reorders frames and acknowledgements (whatever was sent may arrive  *)
(* at any time, often or never), and a peer that acknowledges what it      *)
(* receives.  Times of the code are modulo TimeModulus; `now` is true      *)
(* time.  The caller submits, and polls as late as it likes.               *)
(***************************************************************************)
EXTENDS Integers, FiniteSets

CONSTANTS
    Slots,        \* [8]   MAX_PENDING
    MaxAttempts,  \* [3]
    Initial, Shortest, Longest, Margin,  \* [80, 40, 250, 20] ack timeouts
    TimeModulus,  \* [2^32]
    Modulus,      \* [2^32] of the sequence numbers
    Ttls,         \* lives requests are submitted with
    Tokens,       \* request tokens
    Requests,     \* bound: requests submitted
    StartNow, MaxNow,   \* bounds of true time
    FirstSequence \* what the caller passes to the reset

VARIABLES
    now,       \* true time
    pending,   \* [1 .. Slots -> canview_qos_pending_t], NoRequest when free
    srtt,      \* smoothed round trip, -1 before the first
    sequence,  \* next_sequence
    ended,     \* history: <<request, outcome>>
    sent,      \* history: [id, token, seq, at] of every transmission
    heard      \* the transmissions the peer received and acknowledged

vars == <<now, pending, srtt, sequence, ended, sent, heard>>

Now == now % TimeModulus
Least(a, b) == IF a < b THEN a ELSE b
Most(a, b) == IF a > b THEN a ELSE b

NoRequest == [token |-> 0]

\* The fields id, ends and at are history: the request, its true expiry and
\* the true time of its current transmission.
InUse(slot) == pending[slot] # NoRequest
Submitted   == {t.id : t \in sent}

\* Mutant: deadlines are compared as plain numbers.
time_reached_Plain(deadline) == Now >= deadline

\* time_reached: the signed difference.
time_reached(deadline) ==
    (Now - deadline) % TimeModulus < TimeModulus \div 2

\* qos_ack_timeout
qos_ack_timeout ==
    LET timeout == IF srtt = -1 THEN Initial ELSE 2 * srtt + Margin
    IN  Least(Most(timeout, Shortest), Longest)

\* Mutant: the retry is due after the whole of what remains.
Delay_Full(remaining) == Least(qos_ack_timeout, remaining)

\* Never more than half of what remains of the request's life.
Delay(remaining) == Least(qos_ack_timeout, remaining \div 2)

Init ==
    /\ now = StartNow
    /\ pending = [slot \in 1 .. Slots |-> NoRequest]
    /\ srtt = -1 /\ sequence = FirstSequence
    /\ ended = {} /\ sent = {} /\ heard = {}

Transmission(p, seq) == [id |-> p.id, token |-> p.token, seq |-> seq, at |-> p.at]

Next1(seq) == (seq + 1) % Modulus

\* canview_qos_submit: a request that cannot be encoded has used a sequence.
Submit(token, ttl, encodes) ==
    LET free == {slot \in 1 .. Slots : ~InUse(slot)}
        slot == CHOOSE s \in free : \A t \in free : s <= t
        p    == [token |-> token, id |-> Cardinality(Submitted) + 1,
                 current |-> sequence, attempts |-> 1, lastSent |-> Now, at |-> now,
                 expires |-> (Now + ttl) % TimeModulus, ends |-> now + ttl,
                 next |-> (Now + Delay(ttl)) % TimeModulus]
    IN  /\ Cardinality(Submitted) < Requests /\ free # {}
        /\ (sequence - FirstSequence) % Modulus < Requests * MaxAttempts
        /\ sequence' = Next1(sequence)
        /\ IF encodes /\ Delay(ttl) > 0
           THEN /\ pending' = [pending EXCEPT ![slot] = p]
                /\ sent' = sent \cup {Transmission(p, sequence)}
           ELSE UNCHANGED <<pending, sent>>
        /\ UNCHANGED <<now, srtt, ended, heard>>

\* Mutant: the third transmission is not the last.
Exhausted_One(p) == p.attempts > MaxAttempts

Exhausted(p) == p.attempts >= MaxAttempts

\* Mutant: only the number of attempts ends a request.
Expired_Never(p) == FALSE

Expired(p) == time_reached(p.expires)

Due == {slot \in 1 .. Slots : InUse(slot) /\ time_reached(pending[slot].next)}

\* Mutant: the time of the first transmission is kept.
Resent_KeepsTime(p, delay) ==
    [p EXCEPT !.current = sequence, !.attempts = @ + 1, !.at = now,
              !.next = (Now + delay) % TimeModulus]

\* The request on the air again, with the next number.
Resent(p, delay) ==
    [p EXCEPT !.current = sequence, !.attempts = @ + 1, !.at = now,
              !.lastSent = Now, !.next = (Now + delay) % TimeModulus]

\* canview_qos_poll: one event of the first slot that is due.
Poll ==
    /\ Due # {}
    /\ LET slot      == CHOOSE s \in Due : \A t \in Due : s <= t
           p         == pending[slot]
           remaining == (p.expires - Now) % TimeModulus
           again     == Resent(p, Delay(remaining))
       IN IF Expired(p) \/ Exhausted(p) \/ Delay(remaining) = 0
          THEN /\ pending' = [pending EXCEPT ![slot] = NoRequest]
               /\ ended' = ended \cup {<<p.id, "EXPIRED">>}
               /\ UNCHANGED <<sequence, sent>>
          ELSE /\ pending' = [pending EXCEPT ![slot] = again]
               /\ sequence' = Next1(sequence)
               /\ sent' = sent \cup {Transmission(again, sequence)}
               /\ UNCHANGED ended
    /\ UNCHANGED <<now, srtt, heard>>

Smoothed(sample) == IF srtt = -1 THEN sample ELSE (7 * srtt + sample) \div 8

\* Mutant: any transmission of the request may be acknowledged.
Answers_Any(p, seq) == TRUE

Answers(p, seq) == seq = p.current

\* canview_qos_ack: the first slot with the token decides.
AckArrives(a) ==
    LET own    == {s \in 1 .. Slots : InUse(s) /\ pending[s].token = a.token}
        slot   == CHOOSE s \in own : \A t \in own : s <= t
        p      == pending[slot]
        sample == (Now - p.lastSent) % TimeModulus
    IN  /\ a \in heard
        /\ own # {} /\ Answers(p, a.seq)
        /\ pending' = [pending EXCEPT ![slot] = NoRequest]
        /\ srtt' = Smoothed(sample)
        /\ ended' = ended \cup {<<p.id, "ACKED">>}
        /\ UNCHANGED <<now, sequence, sent, heard>>

\* The peer receives a transmission and acknowledges its token and sequence.
PeerAnswers(t) ==
    /\ heard' = heard \cup {t}
    /\ UNCHANGED <<now, pending, srtt, sequence, ended, sent>>

Tick == /\ now < MaxNow /\ now' = now + 1
        /\ UNCHANGED <<pending, srtt, sequence, ended, sent, heard>>

Next ==
    \/ \E token \in Tokens, ttl \in Ttls, encodes \in BOOLEAN :
          Submit(token, ttl, encodes)
    \/ \E t \in sent : PeerAnswers(t)
    \/ \E a \in heard : AckArrives(a)
    \/ Poll \/ Tick

Spec == Init /\ [][Next]_vars

-----------------------------------------------------------------------------
TypeOK ==
    /\ now \in StartNow .. MaxNow /\ srtt \in -1 .. MaxNow - StartNow
    /\ sequence \in 0 .. Modulus - 1
    /\ \A slot \in 1 .. Slots : InUse(slot) =>
         /\ pending[slot].attempts \in 1 .. MaxAttempts
         /\ pending[slot].token \in Tokens

\* A request goes on the air only while it lives, and never more than
\* MaxAttempts times, whatever the wrap of the clock and however late the
\* caller polls.
NeverSentLate ==
    [][/\ \A t \in sent' \ sent : \A slot \in 1 .. Slots :
            pending'[slot] # NoRequest /\ pending'[slot].id = t.id =>
              now < pending'[slot].ends
       /\ \A id \in Submitted :
            Cardinality({t \in sent' : t.id = id}) <= MaxAttempts]_vars

\* A caller that polls until nothing is due keeps no request beyond its life:
\* every deadline lies before the expiry, so nobody waits for an answer that
\* can no longer come.
EndsInTime ==
    Due = {} => \A slot \in 1 .. Slots : InUse(slot) => now < pending[slot].ends

\* A request has one outcome, and ACKED only if the peer received a
\* transmission of this very request, also when two requests carry one token.
OneTrueOutcome ==
    \A e \in ended :
        /\ \A d \in ended : d[1] = e[1] => d = e
        /\ e[2] = "ACKED" => \E t \in heard : t.id = e[1]
        /\ \A slot \in 1 .. Slots : InUse(slot) => pending[slot].id # e[1]

\* The smoothed round trip is fed once per acknowledged request, with the true
\* time since the transmission the peer acknowledged: the last of the request,
\* never an earlier one (Karn's rule), also where the clock wraps between.
SampleIsRoundTrip ==
    [][LET settled == {e \in ended' \ ended : e[2] = "ACKED"}
       IN  /\ srtt' # srtt => settled # {}
           /\ \A e \in settled : \E t \in heard :
                /\ t.id = e[1] /\ srtt' = Smoothed(now - t.at)
                /\ \A u \in sent : u.id = t.id => u.at <= t.at]_vars
=============================================================================
