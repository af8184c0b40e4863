--------------------------- MODULE SequenceWindow ---------------------------
(***************************************************************************)
(* canview_sequence_window_* of shared/protocol/src/canview_wire.c: the    *)
(* sliding replay window over a serial number space that wraps.            *)
(***************************************************************************)
EXTENDS Integers

CONSTANTS
    Modulus,     \* [2^32] size of the sequence space
    WindowSize   \* [64]   how far behind the newest a packet may be

ASSUME WindowAssumption ==
    /\ Modulus \in Nat /\ WindowSize \in Nat \ {0}
    /\ Modulus % 2 = 0
    /\ 2 * WindowSize <= Modulus

HALF == Modulus \div 2                    \* WIRE_SEQUENCE_HALF

Sequences == 0 .. Modulus - 1

\* `seen` holds the ages (distances behind `newest`) whose bit is set.
Window == [initialized : BOOLEAN, newest : Sequences,
           seen : SUBSET (0 .. WindowSize - 1)]

window_reset == [initialized |-> FALSE, newest |-> 0, seen |-> {}]

Distance(from, to) == (to - from) % Modulus

\* Mutant: an old packet is looked up without the STALE check.
WindowStatus_NoStale(w, seq) ==
    LET forward == Distance(w.newest, seq)
        age     == Distance(seq, w.newest)
    IN  IF ~w.initialized THEN "OK"
        ELSE IF forward = 0 THEN "DUPLICATE"
        ELSE IF forward < HALF THEN "OK"
        ELSE IF age \in w.seen THEN "DUPLICATE" ELSE "OK"

WindowStatus(w, seq) ==
    LET forward == Distance(w.newest, seq)
        age     == Distance(seq, w.newest)
    IN  CASE ~w.initialized                                   -> "OK"
          [] w.initialized /\ forward = 0                     -> "DUPLICATE"
          [] w.initialized /\ forward \in 1 .. HALF - 1       -> "OK"
          [] w.initialized /\ forward >= HALF
               /\ age >= WindowSize                           -> "STALE"
          [] w.initialized /\ forward >= HALF
               /\ age < WindowSize /\ age \in w.seen          -> "DUPLICATE"
          [] w.initialized /\ forward >= HALF
               /\ age < WindowSize /\ age \notin w.seen       -> "OK"

\* Mutant: the bit of the packet that was newest falls out of the shift.
Shifted_Forgets(seen, forward) ==
    {0} \cup {age + forward : age \in {a \in seen \ {0} : a + forward < WindowSize}}

\* Mutant: the shifted bits are not cut at the width of the window.
Shifted_Wide(seen, forward) == {0} \cup {age + forward : age \in seen}

\* seen << forward | 1, in WindowSize bits.
Shifted(seen, forward) ==
    {0} \cup {age + forward : age \in {a \in seen : a + forward < WindowSize}}

\* The window after a packet with this sequence; only "OK" changes it.
WindowAfter(w, seq) ==
    LET forward == Distance(w.newest, seq)
        age     == Distance(seq, w.newest)
    IN  IF WindowStatus(w, seq) # "OK" THEN w
        ELSE IF ~w.initialized
        THEN [initialized |-> TRUE, newest |-> seq, seen |-> {0}]
        ELSE IF forward < HALF
        THEN [w EXCEPT !.newest = seq, !.seen = Shifted(@, forward)]
        ELSE [w EXCEPT !.seen = @ \cup {age}]
=============================================================================
