---------------------------- MODULE CacheService ----------------------------
(***************************************************************************)
(* The command cache used by a caller who may do anything with it, at any  *)
(* time: admit, look up, expire, reset, and record a result on any handle  *)
(* it was ever given, long after the entry is gone.                        *)
(***************************************************************************)
EXTENDS CommandCache

CONSTANTS
    Results,     \* results of an execution
    Ttls,        \* [500 .. 30000] request TTLs
    MaxTime      \* bound: the clock stops here

\* What the proofs need of the constants; MCSharedProtocol evaluates it.
ServiceAssumption == Ttls \subseteq Nat /\ MaxTime \in Nat

VARIABLES
    cache,
    now,
    handles,     \* history: every handle given out, with its key
    admitted     \* history: <<key, time>> of admissions since the last reset

vars == <<cache, now, handles, admitted>>

Init ==
    /\ cache = EmptyCache(1)
    /\ now = 0
    /\ handles = {} /\ admitted = {}

Reset ==
    /\ CanReset(cache)
    /\ cache' = cache_reset(cache)
    /\ admitted' = {}
    /\ UNCHANGED <<now, handles>>

Admit(key, ttl) ==
    /\ cache' = AfterAdmit(cache, key, ttl, now)
    /\ IF AdmitStatus(cache, key, now) = "OK"
       THEN /\ handles' = handles \cup
                 {[slot |-> AdmitSlot(cache, key, now),
                   generation |-> cache.next, key |-> key]}
            /\ admitted' = admitted \cup {<<key, now>>}
       ELSE UNCHANGED <<handles, admitted>>
    /\ UNCHANGED now

RecordResult(h, r) ==
    /\ cache' = AfterRecord(cache, h, [stage |-> r, key |-> h.key], now)
    /\ UNCHANGED <<now, handles, admitted>>

Lookup(key) ==
    /\ cache' = Searched(cache, key, now)
    /\ UNCHANGED <<now, handles, admitted>>

Expire ==
    /\ cache' = cache_expire(cache, now)
    /\ UNCHANGED <<now, handles, admitted>>

Advance ==
    /\ now < MaxTime
    /\ now' = now + 1
    /\ UNCHANGED <<cache, handles, admitted>>

Next ==
    \/ Reset
    \/ \E k \in Keys : Lookup(k) \/ \E ttl \in Ttls : Admit(k, ttl)
    \/ \E h \in handles, r \in Results : RecordResult(h, r)
    \/ Expire
    \/ Advance

Spec == Init /\ [][Next]_vars

-----------------------------------------------------------------------------
Live(s) == cache.entries[s].valid /\ ~EntryExpired(cache.entries[s], now)

TypeOK ==
    /\ cache.next \in 1 .. MaxGeneration
    /\ \A s \in Slots : cache.entries[s].valid =>
          /\ cache.entries[s].key \in Keys
          /\ cache.entries[s].generation \in 1 .. cache.next - 1
    /\ now \in 0 .. MaxTime

(***************************************************************************)
(* At most one live entry speaks for an identity, although searches stop   *)
(* early and leave entries that have run out behind them.                  *)
(***************************************************************************)
IdentityUnique ==
    \A s, t \in Slots :
        Live(s) /\ Live(t) /\ cache.entries[s].key.id = cache.entries[t].key.id
            => s = t

(***************************************************************************)
(* A recorded result is the result of the command of that entry: a handle  *)
(* kept across expiry, reuse of the slot or a reset never names another    *)
(* command's entry.                                                        *)
(***************************************************************************)
ResultBelongs ==
    \A s \in Slots : LET e == cache.entries[s]
                     IN  e.valid /\ e.result # NoResult => e.result.key = e.key

(***************************************************************************)
(* A terminal result does not change while its entry lives: retries get the*)
(* same answer.                                                            *)
(***************************************************************************)
ResultStable ==
    [][\A s \in Slots :
          /\ cache.entries[s].valid /\ cache'.entries[s].valid
          /\ cache.entries[s].generation = cache'.entries[s].generation
          /\ cache.entries[s].result # NoResult
          => cache'.entries[s].result = cache.entries[s].result]_vars

(***************************************************************************)
(* Between resets an identity is admitted at most once per retention time, *)
(* even when the cache is full and whatever digest it comes with.          *)
(***************************************************************************)
AdmittedOnce ==
    \A a, b \in admitted :
        a[1].id = b[1].id /\ a # b
            => a[2] - b[2] >= RetentionMs \/ b[2] - a[2] >= RetentionMs
=============================================================================
