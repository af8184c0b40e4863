----------------------------- MODULE AutoSport -----------------------------
(***************************************************************************)
(* The automatic sport mode, canview_auto_sport_update, between a car that *)
(* executes mode orders late or never and a driver who presses the mode    *)
(* button whenever he likes.  A tick of the model is the 100 ms of         *)
(* CANVIEW_SPORT_MAX_EVIDENCE_MS; a gap is a tick longer than              *)
(* CANVIEW_SPORT_MAX_TICK_GAP_MS.                                          *)
(***************************************************************************)
EXTENDS Integers

CONSTANTS
    Modes,          \* modes the driver chooses, SPORT among them
    SpeedConfirm, AccelConfirm, ExitConfirm,   \* [25, 8, 80] ticks
    MinimumHold,    \* [150] ticks
    CommandTimeout, \* [15] ticks
    Gap             \* [3] ticks of an update after a gap

VARIABLES
    state,      \* canview_auto_sport_state_t
    car,        \* the car's mode
    order,      \* mode the car was asked for and has not taken, or "NONE"
    pressed,    \* the driver has pressed the button since the last update
    last,       \* history: the last update that issued ENTER, see `Entered`
    demand      \* history: the demand of the driving, see `Heeded`

SportAssumption ==
    /\ Modes \cap {"NONE", "UNKNOWN"} = {} /\ "SPORT" \in Modes
    /\ SpeedConfirm \in Nat /\ AccelConfirm \in Nat /\ ExitConfirm \in Nat
    /\ MinimumHold \in Nat /\ CommandTimeout \in Nat /\ Gap \in Nat

vars == <<state, car, order, pressed, last, demand>>

\* What SPORT may be asked for: enough speed, or enough acceleration.
Sources == {"speed", "accel"}
Confirm(source) == IF source = "speed" THEN SpeedConfirm ELSE AccelConfirm

Restorable == Modes \ {"SPORT"}
Least(a, b) == IF a < b THEN a ELSE b
Most(a, b) == IF a > b THEN a ELSE b

Fresh == [status |-> "DISABLED", previous |-> "UNKNOWN", owns |-> FALSE,
          speed |-> 0, accel |-> 0, exit |-> 0, active |-> 0, pending |-> 0]

\* canview_auto_sport_reset at start-up.
Init == /\ state = Fresh
        /\ car \in Restorable /\ order = "NONE" /\ pressed = FALSE
        /\ demand = [source \in Sources |-> [on |-> 0, off |-> 0]]
        /\ last = [mode |-> "UNKNOWN", touched |-> TRUE]

\* What an update sees besides the mode: canview_auto_sport_input_t, with the
\* conditions to enter that hold and the one to exit, which excludes both.
Inputs == {in \in [enabled : BOOLEAN, fresh : BOOLEAN, safe : BOOLEAN,
                   rearm : BOOLEAN, wants : SUBSET Sources, released : BOOLEAN] :
             in.released => in.wants = {}}

\* safety_ready
safety_ready(in) == in.fresh /\ in.safe

Up(value, by, limit) == Least(value + by, limit)
\* subtract_saturated of doubled_saturated
Down(value, by) == Most(value - 2 * by, 0)

\* Evidence of one condition after a tick.
Gathered(value, holds, limit) ==
    IF holds THEN Up(value, 1, limit) ELSE Down(value, 1)

\* Mutant: a gap leaves the evidence as it was.
AfterGap_Keeps(s, gap) == s

\* The first block of canview_auto_sport_update.
AfterGap(s, gap) ==
    IF gap THEN [s EXCEPT !.speed = 0, !.accel = 0, !.exit = 0, !.active = 0]
    ELSE s

\* Mutant: the hold remembers that the automation had set SPORT.
EnterManualHold_KeepsOwner(s) == [s EXCEPT !.status = "MANUAL_HOLD", !.pending = 0]

\* enter_manual_hold
EnterManualHold(s) == [Fresh EXCEPT !.status = "MANUAL_HOLD"]

Result(s, act) == [state |-> s, action |-> act]
Off(in) == IF in.enabled THEN "INHIBITED" ELSE "DISABLED"

HoldUpdate(s, in, gap) ==
    Result([s EXCEPT !.status =
              IF ~in.enabled THEN "DISABLED"
              ELSE IF in.rearm /\ safety_ready(in) /\ ~gap THEN "ARMED" ELSE @],
           "NONE")

\* ENTER_PENDING and EXIT_PENDING: feedback, or the time-out.
PendingUpdate(s, in, gap, elapsed, mode) ==
    LET p == [s EXCEPT !.pending = Up(@, elapsed, CommandTimeout)]
        done == ~gap /\ safety_ready(in)
                /\ mode = (IF s.status = "ENTER_PENDING" THEN "SPORT"
                           ELSE s.previous)
    IN  Result(
          IF p.pending >= CommandTimeout THEN EnterManualHold(s)
          ELSE IF ~done THEN p
          ELSE IF s.status = "ENTER_PENDING"
          THEN [p EXCEPT !.status = "ACTIVE", !.owns = TRUE, !.pending = 0,
                         !.active = 0]
          ELSE [p EXCEPT !.status = IF in.enabled THEN "ARMED" ELSE "DISABLED",
                         !.owns = FALSE, !.previous = "UNKNOWN",
                         !.pending = 0], "NONE")

Restore(s) ==
    Result([s EXCEPT !.status = "EXIT_PENDING", !.pending = 0], "RESTORE")

DisabledUpdate(s, mode) ==
    IF s.owns /\ mode = "SPORT" /\ s.previous \in Restorable THEN Restore(s)
    ELSE Result([s EXCEPT !.status = "DISABLED", !.owns = FALSE,
                          !.previous = "UNKNOWN"], "NONE")

ActiveUpdate(s, in) ==
    LET a == [s EXCEPT !.active = Up(@, 1, MinimumHold),
                       !.exit = Gathered(@, in.released, ExitConfirm)]
    IN  IF a.active >= MinimumHold /\ a.exit >= ExitConfirm
             /\ s.previous \in Restorable
        THEN Restore(a) ELSE Result(a, "NONE")

Entering(s, mode) ==
    [s EXCEPT !.previous = mode, !.status = "ENTER_PENDING", !.pending = 0,
              !.speed = 0, !.accel = 0]

ArmedUpdate(s, in, mode) ==
    LET e == [s EXCEPT !.speed = Gathered(@, "speed" \in in.wants, SpeedConfirm),
                       !.accel = Gathered(@, "accel" \in in.wants, AccelConfirm)]
    IN  IF mode = "SPORT" THEN Result([s EXCEPT !.speed = 0, !.accel = 0], "NONE")
        ELSE IF (e.speed >= SpeedConfirm \/ e.accel >= AccelConfirm)
                  /\ mode \in Restorable
        THEN Result(Entering(e, mode), "ENTER") ELSE Result(e, "NONE")

\* canview_auto_sport_update, in the code's order.
Updated(old, in, gap, mode) ==
    LET s == AfterGap(old, gap)
        elapsed == IF gap THEN Gap ELSE 1
        Woken == [s EXCEPT !.status =
                    IF @ \notin {"DISABLED", "INHIBITED"} THEN @
                    ELSE IF s.owns /\ mode = "SPORT" THEN "ACTIVE" ELSE "ARMED"]
    IN  IF pressed THEN Result(EnterManualHold(s), "NONE")
        ELSE IF s.status = "MANUAL_HOLD" THEN HoldUpdate(s, in, gap)
        ELSE IF s.status \in {"ENTER_PENDING", "EXIT_PENDING"}
        THEN PendingUpdate(s, in, gap, elapsed, mode)
        ELSE IF in.fresh /\ s.owns /\ mode \in Restorable
        THEN Result(EnterManualHold(s), "NONE")
        ELSE IF gap THEN Result([s EXCEPT !.status = Off(in)], "NONE")
        ELSE IF ~safety_ready(in)
        THEN Result([s EXCEPT !.status = Off(in), !.speed = 0, !.accel = 0,
                              !.exit = 0], "NONE")
        ELSE IF ~in.enabled THEN DisabledUpdate(s, mode)
        ELSE IF Woken.status = "ACTIVE" THEN ActiveUpdate(Woken, in)
        ELSE ArmedUpdate(Woken, in, mode)

\* History: demand from before any of these counts for nothing.
Interrupted(in, gap, mode) ==
    \/ gap \/ pressed \/ ~safety_ready(in)
    \/ in.enabled /\ mode = "SPORT"
    \/ state.status \in {"ENTER_PENDING", "EXIT_PENDING", "MANUAL_HOLD"}

\* History: the ticks of demand since then, and those of a lapse, which starts
\* all over when it lasts for half of the confirmation time.
Heeded(d, holds, confirm) ==
    IF holds THEN [on |-> Least(d.on + 1, confirm), off |-> 0]
    ELSE IF 2 * (d.off + 1) >= confirm THEN [on |-> 0, off |-> 0]
    ELSE [on |-> d.on, off |-> d.off + 1]

\* Signals that are not fresh show any mode; a release needs no button.
Update(in, gap, mode) ==
    LET r == Updated(state, in, gap, mode)
    IN  /\ in.fresh => mode = car
        /\ state' = r.state
        /\ order' = CASE r.action = "ENTER"   -> "SPORT"
                      [] r.action = "RESTORE" -> r.state.previous
                      [] OTHER                -> order
        /\ last' = IF r.action = "ENTER" THEN [mode |-> car, touched |-> FALSE]
                   ELSE last
        /\ demand' = [source \in Sources |->
              IF Interrupted(in, gap, mode) THEN [on |-> 0, off |-> 0]
              ELSE IF ~in.enabled THEN demand[source]
              ELSE Heeded(demand[source], source \in in.wants, Confirm(source))]
        /\ pressed' = FALSE
        /\ UNCHANGED car

\* The car takes the order, or drops it.
Obey == /\ order # "NONE" /\ car' = order /\ order' = "NONE"
        /\ UNCHANGED <<state, pressed, last, demand>>

Drop == /\ order # "NONE" /\ order' = "NONE"
        /\ UNCHANGED <<state, car, pressed, last, demand>>

\* The button press is reported with the next update.
Press(mode) == /\ car' = mode /\ pressed' = TRUE
               /\ last' = [last EXCEPT !.touched = TRUE]
               /\ UNCHANGED <<state, order, demand>>

Next ==
    \/ \E in \in Inputs, gap \in BOOLEAN, mode \in Modes :
          Update(in, gap, mode)
    \/ Obey \/ Drop
    \/ \E mode \in Modes : Press(mode)

Spec == Init /\ [][Next]_vars

-----------------------------------------------------------------------------
TypeOK ==
    /\ state.status \in {"DISABLED", "ARMED", "ENTER_PENDING", "ACTIVE",
                         "EXIT_PENDING", "MANUAL_HOLD", "INHIBITED"}
    /\ state.previous \in Restorable \cup {"UNKNOWN"}
    /\ state.speed \in 0 .. SpeedConfirm /\ state.accel \in 0 .. AccelConfirm
    /\ state.exit \in 0 .. ExitConfirm /\ state.active \in 0 .. MinimumHold
    /\ state.pending \in 0 .. CommandTimeout
    /\ state.status = "ACTIVE" => state.owns

\* A mode is restored only while the car is in SPORT because the automation
\* put it there and the driver has not touched the button since, and it is
\* the mode the car had when the automation asked for SPORT.
RestoresItsOwn ==
    [][state'.status = "EXIT_PENDING" /\ state.status # "EXIT_PENDING" =>
         /\ ~last.touched /\ car = "SPORT" /\ state'.previous = last.mode]_vars

\* SPORT is asked for only when one and the same condition, the speed or the
\* acceleration, has held for its whole confirmation time in total, with no
\* lapse of half that time or more in between, and without a gap, a loss of
\* safety, the button, a hold, SPORT itself or an earlier request: what was
\* seen before one of these counts for nothing.  (A shorter lapse
\* wears the evidence down at twice the rate and does not cancel it.)
EntersOnDemand ==
    [][state'.status = "ENTER_PENDING" /\ state.status # "ENTER_PENDING" =>
         \E source \in Sources : demand'[source].on >= Confirm(source)]_vars
=============================================================================
