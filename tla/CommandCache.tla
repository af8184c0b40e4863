---------------------------- MODULE CommandCache ----------------------------
(***************************************************************************)
(* The command cache of shared/protocol/src/canview_uart.c as operators on *)
(* a record.  A key is an identity (origin device and boot, wireless       *)
(* session, control generation, token, command id) with a digest of the    *)
(* arguments; two keys with one identity and two digests are in conflict.  *)
(* The field `acknowledged` is left out: it is written and never read.     *)
(***************************************************************************)
EXTENDS Integers

CONSTANTS
    Keys,            \* records with (at least) the fields id and digest
    CacheCapacity,   \* [256]   entries
    RetentionMs,     \* [60000] life of an entry
    MaxGeneration    \* [2^64 - 1] UINT64_MAX of next_generation

ASSUME CacheAssumption ==
    /\ CacheCapacity \in Nat \ {0}
    /\ RetentionMs \in Nat \ {0}
    /\ MaxGeneration \in Nat \ {0}

Slots == 0 .. CacheCapacity - 1
NoSlot == CacheCapacity              \* command_handle_clear

Free == [valid |-> FALSE]
NoResult == [stage |-> "none"]

NewEntry(gen, key, ttl, now) ==
    [valid |-> TRUE, generation |-> gen, key |-> key,
     requestExpires |-> now + ttl, expires |-> now + RetentionMs,
     result |-> NoResult]

EmptyCache(gen) == [entries |-> [s \in Slots |-> Free], next |-> gen]

\* Mutant: an entry lives no longer than its request.
EntryExpired_ByRequest(e, now) == e.valid /\ e.requestExpires <= now

EntryExpired(e, now)   == e.valid /\ e.expires <= now
RequestExpired(e, now) == e.valid /\ e.requestExpires <= now

\* Handles are never given out twice, so a reset needs an unused one.
CanReset(c) == c.next < MaxGeneration

\* Mutant: a reset starts the handles over.
cache_reset_FromOne(c) == EmptyCache(1)

cache_reset(c) == EmptyCache(c.next)

\* The entries in these slots that have run out are dropped.
Swept(c, slots, now) ==
    [c EXCEPT !.entries = [s \in Slots |->
        IF s \in slots /\ EntryExpired(@[s], now) THEN Free ELSE @[s]]]

cache_expire(c, now) == Swept(c, Slots, now)

\* Mutant: the digest is part of the identity.
Matches_WholeKey(c, key, now) ==
    {s \in Slots : /\ c.entries[s].valid
                   /\ ~EntryExpired(c.entries[s], now)
                   /\ c.entries[s].key = key}

\* Slots with a live entry of this identity.
Matches(c, key, now) ==
    {s \in Slots : /\ c.entries[s].valid
                   /\ ~EntryExpired(c.entries[s], now)
                   /\ c.entries[s].key.id = key.id}

First(slots) == CHOOSE s \in slots : \A t \in slots : s <= t

\* Both searches walk up from slot 0, drop what has run out on the way and
\* stop at the match.
Searched(c, key, now) ==
    LET m == Matches(c, key, now)
    IN  Swept(c, IF m = {} THEN Slots ELSE 0 .. First(m), now)

Handle(c, s) == [slot |-> s, generation |-> c.entries[s].generation]

-----------------------------------------------------------------------------
\* canview_uart_command_cache_lookup.
LookupStatus(c, key, now) ==
    LET m == Matches(c, key, now)
        e == c.entries[First(m)]
    IN  IF m = {} THEN "STALE"
        ELSE IF RequestExpired(e, now) THEN "TIMEOUT"
        ELSE IF e.key.digest # key.digest THEN "MALFORMED"
        ELSE "DUPLICATE"

\* The result it returns with DUPLICATE.
LookupResult(c, key, now) == c.entries[First(Matches(c, key, now))].result

\* canview_uart_command_cache_admit.
FreeSlots(c) == {s \in Slots : ~c.entries[s].valid}

\* Mutant: the generation counter may pass its maximum.
AdmitStatus_NoLimit(c, key, now) ==
    LET m == Matches(c, key, now)
        e == c.entries[First(m)]
    IN  IF m = {}
        THEN IF FreeSlots(Searched(c, key, now)) = {} THEN "RESOURCE_BUSY" ELSE "OK"
        ELSE IF e.key.digest # key.digest THEN "MALFORMED"
        ELSE IF RequestExpired(e, now) THEN "TIMEOUT"
        ELSE "DUPLICATE"

AdmitStatus(c, key, now) ==
    LET m == Matches(c, key, now)
        e == c.entries[First(m)]
    IN  IF m = {}
        THEN IF FreeSlots(Searched(c, key, now)) = {} \/ c.next = MaxGeneration
             THEN "RESOURCE_BUSY" ELSE "OK"
        ELSE IF e.key.digest # key.digest THEN "MALFORMED"
        ELSE IF RequestExpired(e, now) THEN "TIMEOUT"
        ELSE "DUPLICATE"

AdmitSlot(c, key, now) == First(FreeSlots(Searched(c, key, now)))

AfterAdmit(c, key, ttl, now) ==
    LET searched == Searched(c, key, now)
        slot == AdmitSlot(c, key, now)
    IN  IF AdmitStatus(c, key, now) # "OK" THEN searched
        ELSE [searched EXCEPT
                !.entries[slot] = NewEntry(c.next, key, ttl, now),
                !.next = @ + 1]

-----------------------------------------------------------------------------
\* Mutant: the slot alone identifies the entry.
Names_SlotOnly(c, h) == c.entries[h.slot].valid

\* command_cache_entry_from_handle.
Names(c, h) ==
    c.entries[h.slot].valid /\ c.entries[h.slot].generation = h.generation

\* Mutant: a second result overwrites the first.
RecordStatus_Overwrites(c, h, result, now) ==
    LET e == c.entries[h.slot]
    IN  IF ~Names(c, h) \/ EntryExpired(e, now) THEN "STALE"
        ELSE IF RequestExpired(e, now) THEN "TIMEOUT"
        ELSE "OK"

\* canview_uart_command_cache_record_result.
RecordStatus(c, h, result, now) ==
    LET e == c.entries[h.slot]
    IN  IF ~Names(c, h) \/ EntryExpired(e, now) THEN "STALE"
        ELSE IF RequestExpired(e, now) THEN "TIMEOUT"
        ELSE IF e.result \notin {NoResult, result} THEN "MALFORMED"
        ELSE "OK"

AfterRecord(c, h, result, now) ==
    IF Names(c, h) /\ EntryExpired(c.entries[h.slot], now)
    THEN [c EXCEPT !.entries[h.slot] = Free]
    ELSE IF RecordStatus(c, h, result, now) = "OK"
    THEN [c EXCEPT !.entries[h.slot].result = result]
    ELSE c
=============================================================================
