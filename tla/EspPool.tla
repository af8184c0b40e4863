------------------------------ MODULE EspPool ------------------------------
(***************************************************************************)
(* canview_esp_pool: a few message slots shared by tasks that hand tokens  *)
(* to each other.  Every call runs under the pool's lock, so it is one     *)
(* step; what can go wrong is in the order of the calls: a token copied,   *)
(* kept, released twice, or used long after its slot went to another       *)
(* owner.                                                                  *)
(***************************************************************************)
EXTENDS Integers, FiniteSets

CONSTANTS
    Slots,      \* 0 .. capacity - 1
    Data,       \* messages
    MaxGen      \* UINT32_MAX

VARIABLES
    slots,      \* canview_esp_pool_slot_t
    stats,      \* used, high_water, retired
    issued      \* history: every token handed out, and what it was for

vars == <<slots, stats, issued>>

Init == /\ slots = [s \in Slots |-> [used |-> FALSE, gen |-> 0]]
        /\ stats = [used |-> 0, high |-> 0, retired |-> 0]
        /\ issued = {}

\* A slot that has used up its generations stays out of use.
Free(s) == ~slots[s].used /\ slots[s].gen # MaxGen

\* Mutant: generations start again.
Acquire_Wraps(s, d) ==
    /\ ~slots[s].used
    /\ \A r \in Slots : r < s => ~Free(r)
    /\ LET g == (slots[s].gen % MaxGen) + 1
       IN  /\ slots' = [slots EXCEPT ![s] = [used |-> TRUE, gen |-> g, data |-> d]]
           /\ issued' = issued \cup {[slot |-> s, gen |-> g, data |-> d,
                                      live |-> TRUE]}
    /\ stats' = [stats EXCEPT !.used = @ + 1,
                              !.high = IF @ > stats.used THEN @ ELSE @ + 1]

\* canview_esp_pool_acquire: the first free slot.
Acquire(s, d) ==
    /\ Free(s)
    /\ \A r \in Slots : r < s => ~Free(r)
    /\ LET g == slots[s].gen + 1
       IN  /\ slots' = [slots EXCEPT ![s] = [used |-> TRUE, gen |-> g, data |-> d]]
           /\ issued' = issued \cup {[slot |-> s, gen |-> g, data |-> d,
                                      live |-> TRUE]}
    /\ stats' = [stats EXCEPT !.used = @ + 1,
                              !.high = IF @ > stats.used THEN @ ELSE @ + 1]

\* Mutant: any token opens the slot it names.
Found_AnyGeneration(t) == slots[t.slot].used

\* lookup
Found(t) == slots[t.slot].used /\ slots[t.slot].gen = t.gen

\* canview_esp_pool_copy
Copy(t) == IF Found(t) THEN {slots[t.slot].data} ELSE {}

\* canview_esp_pool_release, by any holder of a copy of the token.
Release(t) ==
    /\ Found(t)
    /\ slots' = [slots EXCEPT ![t.slot] = [used |-> FALSE, gen |-> @.gen]]
    /\ stats' = [stats EXCEPT !.used = @ - 1,
                              !.retired = IF slots[t.slot].gen = MaxGen
                                          THEN @ + 1 ELSE @]
    /\ issued' = (issued \ {t}) \cup {[t EXCEPT !.live = FALSE]}

Next == \/ \E s \in Slots, d \in Data : Acquire(s, d)
        \/ \E t \in issued : Release(t)

Spec == Init /\ [][Next]_vars

-----------------------------------------------------------------------------
\* A token reads the message it was issued for until it is released, and
\* nothing ever after, whoever has the slot then and however often the slot
\* has changed hands.
TokenNamesItsMessage ==
    \A t \in issued : Copy(t) = IF t.live THEN {t.data} ELSE {}

\* The counters the health report shows are the pool's state, and no
\* generation of a slot is handed out twice.
StatsTrue ==
    /\ stats.used = Cardinality({s \in Slots : slots[s].used})
    /\ stats.retired = Cardinality({s \in Slots : ~slots[s].used
                                                  /\ slots[s].gen = MaxGen})
    /\ stats.high \in stats.used .. Cardinality(Slots)
=============================================================================
