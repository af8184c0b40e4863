-------------------------- MODULE CommandDelivery --------------------------
(***************************************************************************)
(* What a session promises of commands, whatever is retried, duplicated,   *)
(* delayed or expired on the way: each is handed over for execution at     *)
(* most once, gets at most one outcome, and none once it was lost.         *)
(***************************************************************************)
CONSTANTS Commands, Outcomes

VARIABLES
    phase,      \* of each command: "new", "waiting" or "over"
    outcome     \* what was reported of it: a set with at most one member

vars == <<phase, outcome>>

Init ==
    /\ phase = [c \in Commands |-> "new"]
    /\ outcome = [c \in Commands |-> {}]

Accept(c) ==
    /\ phase[c] = "new"
    /\ phase' = [phase EXCEPT ![c] = "waiting"]
    /\ UNCHANGED outcome

\* Several commands may be concluded, or lost, in one step.
Conclude(cs, o) ==
    /\ cs # {} /\ \A c \in cs : phase[c] = "waiting"
    /\ phase' = [c \in Commands |-> IF c \in cs THEN "over" ELSE phase[c]]
    /\ outcome' = [c \in Commands |-> IF c \in cs THEN {o} ELSE outcome[c]]

Lose ==
    /\ phase' = [c \in Commands |-> IF phase[c] = "waiting" THEN "over" ELSE phase[c]]
    /\ UNCHANGED outcome

\* A new session knows nothing of the commands of the last one.
NewSession ==
    /\ phase' = [c \in Commands |-> "new"]
    /\ outcome' = [c \in Commands |-> {}]

Next ==
    \/ \E c \in Commands : Accept(c)
    \/ \E cs \in SUBSET Commands, o \in Outcomes : Conclude(cs, o)
    \/ Lose
    \/ NewSession

Spec == Init /\ [][Next]_vars
=============================================================================
