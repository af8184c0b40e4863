--------------------------- MODULE AdaptiveVolume ---------------------------
(***************************************************************************)
(* The controller's speed-dependent volume, canview_adaptive_volume_update *)
(* and canview_adaptive_volume_reconcile, with an amplifier that takes an  *)
(* offset late, refuses it or is switched by hand.  A tick of the model is *)
(* 100 ms, CANVIEW_AUTOMATION_MAX_EVIDENCE_MS; an update after a gap is    *)
(* one later than CANVIEW_AUTOMATION_MAX_TICK_GAP_MS.                      *)
(***************************************************************************)
EXTENDS Integers

CONSTANTS
    Attack, Release,    \* [50, 120] ticks of evidence
    StepInterval,       \* [30]
    FeedbackFreeze,     \* [20]
    ManualHold,         \* [600]
    Gap,                \* [3] ticks of an update after a gap
    MaxOffset           \* [4]

VARIABLES
    state,      \* canview_adaptive_volume_state_t
    orders,     \* external: offsets ordered and not yet reconciled
    applied,    \* external: the offset of the amplifier
    quiet,      \* history: ticks since the knob was last turned, up to ManualHold
    recalled,   \* history: 0 was ordered once, or was there, since the knob was turned
    calm,       \* history: ticks since the last step not to zero, up to CalmTime
    heard       \* history: the noise listened to, see `Heard`

VolumeAssumption ==
    /\ Attack \in Nat /\ Release \in Nat /\ StepInterval \in Nat /\ FeedbackFreeze \in Nat
    /\ ManualHold \in Nat /\ Gap \in Nat /\ MaxOffset \in Nat \ {0}

vars == <<state, orders, applied, quiet, recalled, calm, heard>>

Least(a, b) == IF a < b THEN a ELSE b
Down(value, by) == IF by >= value THEN 0 ELSE value - by

\* Bound of `calm`: both timers of a step have run out.
CalmTime == StepInterval + FeedbackFreeze

Silence == [on |-> 0, off |-> 0]
Nothing == [raise |-> Silence, lower |-> Silence]

\* canview_adaptive_volume_reset
NewVolume(offset) ==
    [desired |-> offset, attack |-> 0, release |-> 0, cooldown |-> 0,
     freeze |-> 0, hold |-> 0, pending |-> FALSE, reset |-> FALSE]

Init == /\ applied \in 0 .. 1 /\ state = NewVolume(applied)
        /\ orders = {} /\ quiet = ManualHold /\ recalled = TRUE
        /\ calm = CalmTime /\ heard = Nothing

\* What an update sees; `noise` is the band excess with all that goes with it
\* (speed, reverse gear, focus band).
Inputs == [enabled : BOOLEAN, valid : BOOLEAN, priority : BOOLEAN,
           knob : BOOLEAN, noise : {"RAISE", "LOWER", "KEEP"}]

NoEvidence(s) == [s EXCEPT !.attack = 0, !.release = 0]

\* The timers, and the knob: an intent that outlives a pending order.
Elapsed(s, in, gap) ==
    LET by == IF gap THEN Gap ELSE 1
        t == [s EXCEPT !.cooldown = Down(@, by), !.freeze = Down(@, by),
                       !.hold = Down(@, by)]
        k == IF in.knob THEN [NoEvidence(t) EXCEPT !.hold = ManualHold,
                                                   !.reset = TRUE] ELSE t
    IN  IF gap \/ ~in.valid THEN NoEvidence(k) ELSE k

\* Mutant: a new offset is ordered whatever is under way.
Order_Bare(s, offset) == [s EXCEPT !.desired = offset]

Order(s, offset) == [s EXCEPT !.desired = offset, !.pending = TRUE]
ToZero(s) == IF s.desired = 0 THEN s ELSE Order(s, 0)

Listened(s, noise) ==
    IF s.freeze > 0 THEN s
    ELSE CASE noise = "RAISE" -> [s EXCEPT !.attack = Least(@ + 1, Attack),
                                           !.release = Down(@, 2)]
           [] noise = "LOWER" -> [s EXCEPT !.release = Least(@ + 1, Release),
                                           !.attack = Down(@, 2)]
           [] OTHER           -> [s EXCEPT !.attack = Down(@, 1),
                                           !.release = Down(@, 1)]

Stepped(s) ==
    LET ready == s.cooldown = 0 /\ s.freeze = 0
        timed == [s EXCEPT !.cooldown = StepInterval, !.freeze = FeedbackFreeze]
    IN  IF ready /\ s.attack >= Attack /\ s.desired < MaxOffset
        THEN Order([timed EXCEPT !.attack = 0], s.desired + 1)
        ELSE IF ready /\ s.release >= Release /\ s.desired > 0
        THEN Order([timed EXCEPT !.release = 0], s.desired - 1)
        ELSE s

\* Mutant: the order to zero waits for its turn and is forgotten.
Updated_ForgetsKnob(old, in, gap) ==
    LET s == Elapsed(old, in, gap)
    IN  IF gap THEN s
        ELSE IF s.pending THEN [NoEvidence(s) EXCEPT !.reset = FALSE]
        ELSE IF s.reset THEN ToZero([s EXCEPT !.reset = FALSE])
        ELSE IF ~in.enabled THEN ToZero(NoEvidence(s))
        ELSE IF s.hold > 0 \/ in.priority \/ ~in.valid THEN s
        ELSE Stepped(Listened(s, in.noise))

\* canview_adaptive_volume_update, in the code's order.
Updated(old, in, gap) ==
    LET s == Elapsed(old, in, gap)
    IN  IF gap THEN s
        ELSE IF s.pending THEN NoEvidence(s)
        ELSE IF s.reset THEN ToZero([s EXCEPT !.reset = FALSE])
        ELSE IF ~in.enabled THEN ToZero(NoEvidence(s))
        ELSE IF s.hold > 0 \/ in.priority \/ ~in.valid THEN s
        ELSE Stepped(Listened(s, in.noise))

\* History of one kind of noise: its ticks in total, and the ticks of a lapse,
\* the opposite kind counting twice; one of the whole time starts all over.
Counted(h, noise, kind, time) ==
    LET off == h.off + (IF noise = "KEEP" THEN 1 ELSE 2)
    IN  IF noise = kind THEN [on |-> Least(h.on + 1, time), off |-> 0]
        ELSE IF off >= time THEN Silence ELSE [on |-> h.on, off |-> off]

\* History: what is heard before any of these counts for nothing, and nothing is
\* heard under the knob's hold, other audio or soon after a step.
Heard(in, gap) ==
    IF gap \/ in.knob \/ ~in.valid \/ ~in.enabled \/ state.pending THEN Nothing
    ELSE IF ~recalled \/ quiet + 1 < ManualHold \/ in.priority
              \/ calm + 1 < FeedbackFreeze
    THEN heard
    ELSE [raise |-> Counted(heard.raise, in.noise, "RAISE", Attack),
          lower |-> Counted(heard.lower, in.noise, "LOWER", Release)]

\* An offset is ordered exactly when the desired one changes; one other than
\* zero is a step by itself.
Update(in, gap) ==
    LET s == Updated(state, in, gap)
        by == IF gap THEN Gap ELSE 1
        ordered == s.desired # state.desired
    IN  /\ state' = s
        /\ orders' = IF ordered THEN orders \cup {s.desired} ELSE orders
        /\ quiet' = IF in.knob THEN 0 ELSE Least(quiet + by, ManualHold)
        /\ recalled' = \/ recalled /\ ~in.knob
                       \/ ~gap /\ ~state.pending /\ s.desired = 0
        /\ calm' = IF ordered /\ s.desired # 0 THEN 0
                   ELSE Least(calm + by, CalmTime)
        /\ heard' = Heard(in, gap)
        /\ UNCHANGED applied

\* The order is done, refused or cancelled, and the caller, who has seen the
\* offset that is really there, says so.
Reconcile(offset) ==
    /\ state.pending /\ offset \in {applied} \cup orders
    /\ applied' = offset /\ orders' = {}
    /\ state' = [NoEvidence(state) EXCEPT !.desired = offset, !.pending = FALSE]
    /\ heard' = Nothing
    /\ UNCHANGED <<quiet, recalled, calm>>

Next == \/ \E in \in Inputs, gap \in BOOLEAN : Update(in, gap)
        \/ \E offset \in 0 .. MaxOffset : Reconcile(offset)

Spec == Init /\ [][Next]_vars

-----------------------------------------------------------------------------
TypeOK == /\ state.desired \in 0 .. MaxOffset
          /\ state.attack \in 0 .. Attack /\ state.release \in 0 .. Release
          /\ state.hold \in 0 .. ManualHold

(***************************************************************************)
(* At most one order is under way, the amplifier has the desired offset or *)
(* that order is what stands between them.                                 *)
(***************************************************************************)
OneOrder ==
    /\ orders = (IF state.pending THEN {state.desired} ELSE {})
    /\ ~state.pending => applied = state.desired

(***************************************************************************)
(* After the knob is turned nothing is raised or lowered by itself until   *)
(* the hold is over and the offset was at zero, or was ordered back to it, *)
(* even when the knob is turned while an order is under way, or in a gap.  *)
(* The order to zero is given once: an amplifier that refuses it keeps its *)
(* offset, and after the hold the steps go on from there                   *)
(* (test_automation_regressions.c:249).                                    *)
(***************************************************************************)
KnobFirst ==
    [][state'.desired # state.desired /\ state'.pending /\ ~state.pending
         => state'.desired = 0 \/ (recalled /\ quiet + 1 >= ManualHold)]_vars

(***************************************************************************)
(* A step by itself needs the whole evidence: the noise to raise, or to    *)
(* lower, was heard for its whole time in total without a lapse that wears *)
(* all of it away, and with no gap, knob, invalid measurement, order or    *)
(* disabling in between; and the last step is a step interval ago.  An     *)
(* order to zero, which the knob and disabling also give, is exempt.       *)
(***************************************************************************)
StepsOnEvidence ==
    [][state'.desired # state.desired /\ state'.pending /\ ~state.pending
         => \/ state'.desired = 0
            \/ /\ calm + 1 >= StepInterval
               /\ \/ state'.desired = state.desired + 1 /\ heard'.raise.on >= Attack
                  \/ state'.desired = state.desired - 1 /\ heard'.lower.on >= Release]_vars
=============================================================================
