------------------------------ MODULE LinkKeys ------------------------------
(***************************************************************************)
(* The link key store of a peer, canview_link_key_store_* of               *)
(* canview_espnow.c: a new key is staged, marked ready and committed, and  *)
(* recovered after a power loss between any two of these.                  *)
(***************************************************************************)
EXTENDS Integers

CONSTANTS Generations,   \* [2^32] modulus of the generation numbers
          Roots          \* link roots

VARIABLES
    store,    \* canview_link_key_store_t, as it survives a power loss
    ready     \* history: the records that were marked ready

vars == <<store, ready>>

None   == [generation |-> 0]
Key    == [generation : 1 .. Generations - 1, root : Roots]
Newer(g, old) == (g - old) % Generations \in 1 .. (Generations \div 2) - 1

\* canview_link_key_store_reset
Init == store = [active |-> None, staging |-> None, isReady |-> FALSE]
        /\ ready = {}

\* Mutant: staging keeps the mark of the key it replaces.
Staged_KeepsReady(key) == [store EXCEPT !.staging = key]

Staged(key) == [store EXCEPT !.staging = key, !.isReady = FALSE]

\* Mutant: generations are compared as plain numbers.
MayStage_Plain(key) == key.generation > store.active.generation

\* Mutant: any generation but the active one may be staged.
MayStage_Any(key) == key.generation # store.active.generation

MayStage(key) ==
    store.active = None \/ Newer(key.generation, store.active.generation)

Stage(key) == MayStage(key) /\ store' = Staged(key) /\ UNCHANGED ready

MarkReady ==
    /\ store.staging # None
    /\ store' = [store EXCEPT !.isReady = TRUE]
    /\ ready' = ready \cup {store.staging}

Promoted == [active |-> store.staging, staging |-> None, isReady |-> FALSE]

Commit ==
    /\ store.staging # None /\ store.isReady
    /\ store' = Promoted /\ UNCHANGED ready

\* Power returns: canview_link_key_store_recover.
Recover ==
    /\ store' = IF store.isReady /\ store.staging # None THEN Promoted
                ELSE [store EXCEPT !.staging = None, !.isReady = FALSE]
    /\ UNCHANGED ready

Next == \/ \E key \in Key : Stage(key)
        \/ MarkReady \/ Commit \/ Recover

Spec == Init /\ [][Next]_vars

-----------------------------------------------------------------------------
TypeOK ==
    /\ store.active \in Key \cup {None}
    /\ store.staging \in Key \cup {None}
    /\ store.isReady => store.staging # None

\* The active key was marked ready as a whole, generation and root, whatever
\* was staged over it and wherever the power failed.
ActiveWasReady == store.active # None => store.active \in ready

\* The active key is replaced only by a newer generation, and never lost.
ActiveAdvances ==
    [][store'.active # store.active =>
         /\ store'.active # None
         /\ store.active # None =>
              Newer(store'.active.generation, store.active.generation)]_vars

\* Both: a power loss between staging, marking and committing a key leaves
\* the old key or the whole new one.
KeysAdvance == []ActiveWasReady /\ ActiveAdvances
=============================================================================
