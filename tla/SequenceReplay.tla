--------------------------- MODULE SequenceReplay ---------------------------
(***************************************************************************)
(* A receiver that filters packets through a SequenceWindow, against a     *)
(* sender whose packet numbers never wrap: packet n carries sequence       *)
(* n % Modulus.  The channel may lose, duplicate and reorder packets, as   *)
(* long as none is out by half the sequence space.                         *)
(***************************************************************************)
EXTENDS SequenceWindow

CONSTANT MaxPacket      \* bound: the sender's last packet number

ASSUME ReplayAssumption == MaxPacket \in Nat

VARIABLES
    window,     \* canview_sequence_window_t
    accepted,   \* history: the packet numbers handed to the owner
    verdict     \* the last packet and the status it got

vars == <<window, accepted, verdict>>

Packets == 0 .. MaxPacket

\* The newest packet the owner has got; only used once there is one.
Newest == CHOOSE n \in accepted : \A m \in accepted : m <= n

InReach(n) ==
    accepted # {} => n - Newest < HALF /\ Newest - n <= HALF

Init ==
    /\ window = window_reset
    /\ accepted = {}
    /\ verdict = [packet |-> 0, status |-> "none"]

Accept(n) ==
    LET seq == n % Modulus
        status == WindowStatus(window, seq)
    IN  /\ InReach(n)
        /\ window' = WindowAfter(window, seq)
        /\ accepted' = IF status = "OK" THEN accepted \cup {n} ELSE accepted
        /\ verdict' = [packet |-> n, status |-> status]

Next == \E n \in Packets : Accept(n)

Spec == Init /\ [][Next]_vars

-----------------------------------------------------------------------------
TypeOK ==
    /\ window \in Window
    /\ accepted \subseteq Packets
    /\ verdict.packet \in Packets
    /\ verdict.status \in {"none", "OK", "DUPLICATE", "STALE"}

(***************************************************************************)
(* The window is the set of accepted packets seen through modulo-Modulus   *)
(* glasses: exactly the ages of the accepted packets that are not yet out  *)
(* of the window.  The bit shifts lose none and invent none.               *)
(***************************************************************************)
WindowMirrorsAccepted ==
    accepted # {} =>
        /\ window.initialized
        /\ window.newest = Newest % Modulus
        /\ window.seen =
              {Newest - n : n \in {m \in accepted : Newest - m < WindowSize}}

(***************************************************************************)
(* No packet reaches the owner twice, and none is refused that is new and  *)
(* not older than the window, whatever the order of arrival and across the *)
(* wrap of the sequence numbers.                                           *)
(***************************************************************************)
FilterIsExact ==
    [][LET n == verdict'.packet
       IN  /\ n \in accepted /\ Newest - n < WindowSize
                 => verdict'.status = "DUPLICATE"
           /\ n \in accepted => verdict'.status # "OK"
           /\ n \notin accepted /\ accepted # {} /\ Newest - n < WindowSize
                 => verdict'.status = "OK"]_vars
=============================================================================
