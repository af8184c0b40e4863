-------------------------- MODULE DisplayWarnings --------------------------
(***************************************************************************)
(* What the controller's display does by itself, from signals that come    *)
(* and go: night mode, dimming and the speed warning                       *)
(* (canview_auto_brightness_update), and the warning to switch on the      *)
(* headlamps (canview_headlamp_warning_update).  A tick of the model is    *)
(* 100 ms, CANVIEW_AUTOMATION_MAX_EVIDENCE_MS; a gap is an update later    *)
(* than CANVIEW_AUTOMATION_MAX_TICK_GAP_MS.                                *)
(***************************************************************************)
EXTENDS Integers

CONSTANTS
    LampOn, LampOff,    \* [5, 15] lamp_on_confirm_ms, lamp_off_confirm_ms
    WarnOn, WarnOff,    \* [5, 10] speed_warning_*_confirm_ms
    HeadOn, HeadOff,    \* [20, 10] warning_*_confirm_ms of the headlamps
    Idle,               \* [300] idle_timeout_ms
    Gap,                \* [3] ticks of an update after a gap
    Day, Sunrise, Sunset, Grace,    \* the day in minutes [1440], [1] grace
    Manual, Night,      \* percent: the manual and the night brightness
    Ramp                \* percent the brightness moves in a tick

VARIABLES
    b,      \* canview_auto_brightness_state_t
    h,      \* canview_headlamp_warning_state_t
    run     \* history: ticks for which an observation has held without a gap

PanelAssumption ==
    /\ LampOn \in Nat \ {0} /\ LampOff \in Nat \ {0}
    /\ WarnOn \in Nat \ {0} /\ WarnOff \in Nat \ {0}
    /\ HeadOn \in Nat \ {0} /\ HeadOff \in Nat \ {0}
    /\ Idle \in Nat /\ Gap \in Nat /\ Ramp \in Nat /\ Grace \in Nat
    /\ Day \in Nat /\ Sunrise \in 0 .. Day /\ Sunset \in 0 .. Day
    /\ Manual \in 0 .. 100 /\ Night \in 0 .. 100

vars == <<b, h, run>>

Up(value, limit) == IF value < limit THEN value + 1 ELSE limit
Least(x, y) == IF x < y THEN x ELSE y
Most(x, y) == IF x > y THEN x ELSE y

\* canview_auto_brightness_reset, canview_headlamp_warning_reset
Init == /\ b = [night |-> FALSE, wanted |-> FALSE, pending |-> 0, current |-> Manual,
                idle |-> 0, dimmed |-> FALSE, warning |-> FALSE, on |-> 0, off |-> 0,
                base |-> Manual]
        /\ h = [warning |-> FALSE, on |-> 0, off |-> 0]
        /\ run = [over |-> 0, lamps |-> 0, seen |-> FALSE, dark |-> 0]

\* What an update of the brightness sees: the lamps and the speed (against
\* the two thresholds), each of which may be "STALE".
Inputs == [enabled : BOOLEAN, lamps : {"ON", "OFF", "STALE"}, touched : BOOLEAN,
           speed : {"OVER", "NEAR", "BELOW", "STALE"}]

Idled(s, touched, gap) ==
    IF touched THEN [s EXCEPT !.idle = 0, !.dimmed = FALSE]
    ELSE LET i == Least(s.idle + (IF gap THEN Gap ELSE 1), Idle)
         IN  [s EXCEPT !.idle = i, !.dimmed = @ \/ i >= Idle]

\* Mutant: evidence outlives data that have grown stale.
SpeedWarning_KeepsEvidence(s, speed, gap) ==
    IF gap \/ speed = "STALE" THEN [s EXCEPT !.warning = FALSE, !.off = 0]
    ELSE IF ~s.warning
    THEN LET n == IF speed = "OVER" THEN Up(s.on, WarnOn) ELSE 0
         IN  [s EXCEPT !.off = 0, !.on = n % WarnOn, !.warning = n >= WarnOn]
    ELSE s

\* update_speed_warning
SpeedWarning(s, speed, gap) ==
    IF gap \/ speed = "STALE" THEN [s EXCEPT !.warning = FALSE, !.on = 0, !.off = 0]
    ELSE IF ~s.warning
    THEN LET n == IF speed = "OVER" THEN Up(s.on, WarnOn) ELSE 0
         IN  [s EXCEPT !.off = 0, !.on = n % WarnOn, !.warning = n >= WarnOn]
    ELSE LET n == IF speed = "BELOW" THEN Up(s.off, WarnOff) ELSE 0
         IN  [s EXCEPT !.on = 0, !.off = n % WarnOff, !.warning = n < WarnOff]

\* The day/night decision of canview_auto_brightness_update.
NightMode(s, lamps, gap) ==
    LET night == lamps = "ON"
        start == IF s.pending = 0 \/ s.wanted # night THEN 0 ELSE s.pending
        n == Up(start, IF night THEN LampOn ELSE LampOff)
        done == n >= (IF night THEN LampOn ELSE LampOff)
    IN  IF gap \/ lamps = "STALE" THEN [s EXCEPT !.pending = 0]
        ELSE IF night = s.night THEN [s EXCEPT !.pending = 0, !.wanted = night]
        ELSE [s EXCEPT !.wanted = night, !.night = IF done THEN night ELSE @,
                       !.pending = IF done THEN 0 ELSE n]

\* What the brightness should be before dimming and warnings.
Base(s, in, gap) ==
    IF ~in.enabled THEN Manual
    ELSE IF gap \/ in.lamps = "STALE" THEN s.base
    ELSE IF s.night THEN Night ELSE Manual

\* idle_dim_percent 35, at least 8; speed_warning_brightness_percent 90
Target(s, base) ==
    LET dim == IF s.dimmed THEN Most((base * 35 + 50) \div 100, 8) ELSE base
    IN  IF s.warning THEN Most(dim, 90) ELSE dim

Moved(current, target, gap) ==
    LET by == Ramp * (IF gap THEN Gap ELSE 1)
    IN  IF current < target THEN Least(current + by, target)
        ELSE Most(current - by, target)

\* canview_auto_brightness_update
Brightness(in, gap) ==
    LET s == NightMode(SpeedWarning(Idled(b, in.touched, gap), in.speed, gap),
                       in.lamps, gap)
        base == Base(s, in, gap)
        fresh == ~gap /\ in.lamps # "STALE"
        same == fresh /\ (in.lamps = "ON") = run.seen
    IN  /\ b' = [s EXCEPT !.base = base,
                          !.current = Moved(@, Target(s, base), gap)]
        /\ run' = [run EXCEPT
             !.over = IF ~gap /\ in.speed = "OVER" THEN Up(@, WarnOn) ELSE 0,
             !.lamps = IF same THEN Up(@, Most(LampOn, LampOff))
                       ELSE IF fresh THEN 1 ELSE 0,
             !.seen = in.lamps = "ON"]
        /\ UNCHANGED h

\* after_sunset_with_grace
AfterSunset(minute) ==
    LET since == IF minute >= Sunset THEN minute - Sunset
                 ELSE (Day - Sunset) + minute
    IN  (minute >= Sunset \/ minute < Sunrise) /\ since >= Grace

Off == [warning |-> FALSE, on |-> 0, off |-> 0]

Headlamp(fresh, minute, lit) ==
    IF ~fresh \/ ~AfterSunset(minute) THEN Off
    ELSE IF h.warning
    THEN LET n == IF lit THEN Up(h.off, HeadOff) ELSE 0
         IN  [warning |-> n < HeadOff, on |-> 0, off |-> n % HeadOff]
    ELSE LET n == IF lit THEN 0 ELSE Up(h.on, HeadOn)
         IN  [warning |-> n >= HeadOn, on |-> n % HeadOn, off |-> 0]

\* canview_headlamp_warning_update; `fresh`: clock, sun and lamps are fresh,
\* the vehicle is awake and the warning is enabled.
HeadlampUpdate(fresh, minute, lit) ==
    /\ h' = Headlamp(fresh, minute, lit)
    /\ run' = [run EXCEPT !.dark = IF fresh /\ ~lit /\ minute \notin Sunrise .. Sunset + Grace - 1
                                   THEN Up(@, HeadOn) ELSE 0]
    /\ UNCHANGED b

Next ==
    \/ \E in \in Inputs, gap \in BOOLEAN : Brightness(in, gap)
    \/ \E fresh, lit \in BOOLEAN, minute \in 0 .. Day - 1 :
          HeadlampUpdate(fresh, minute, lit)

Spec == Init /\ [][Next]_vars

-----------------------------------------------------------------------------
TypeOK ==
    /\ b.current \in 0 .. 100 /\ b.base \in {Manual, Night}
    /\ b.on \in 0 .. WarnOn - 1 /\ b.off \in 0 .. WarnOff - 1
    /\ h.on \in 0 .. HeadOn - 1 /\ h.off \in 0 .. HeadOff - 1

(***************************************************************************)
(* A warning comes up, and day turns into night or back, only after the    *)
(* confirmation time of fresh data that say so without a contradiction or  *)
(* a gap; evidence from before a gap or stale data counts for nothing.     *)
(***************************************************************************)
EvidenceIsWhole ==
    [][/\ b'.warning /\ ~b.warning => run'.over >= WarnOn
       /\ h'.warning /\ ~h.warning => run'.dark >= HeadOn
       /\ b'.night # b.night
            => /\ run'.lamps >= (IF b'.night THEN LampOn ELSE LampOff)
               /\ run'.seen = b'.night]_vars
=============================================================================
