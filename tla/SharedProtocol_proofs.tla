----------------------- MODULE SharedProtocol_proofs -----------------------
(***************************************************************************)
(* Proofs about the portable protocol library, for all values of its       *)
(* constants: the command cache in the hands of a caller who may do        *)
(* anything with it, the link key store over power losses, the replay      *)
(* window, an ESP-NOW session over a radio that loses, repeats, reorders   *)
(* and damages, and the acknowledged requests of a peer that polls as late *)
(* as it likes.  First each part by itself, then all of them typed; each   *)
(* theorem named The... is about the composition, MCSpec.                  *)
(***************************************************************************)
EXTENDS MCSharedProtocol, SequenceReplay_proofs, FiniteSetTheorems

Outcomes == [stage : Results, key : Keys] \cup {Cache!NoResult}

Entries == [valid : {TRUE}, generation : Nat \ {0}, key : Keys, requestExpires : Nat,
            expires : Nat, result : Outcomes]

Caches == [entries : [Cache!Slots -> Entries \cup {Cache!Free}], next : 1 .. MaxGeneration]

Handles == [slot : Cache!Slots, generation : Nat, key : Keys]

ServiceTyped ==
    /\ cache \in Caches /\ clock \in 0 .. MaxTime
    /\ handles \subseteq Handles /\ admitted \subseteq Keys \X (0 .. MaxTime)

\* Handles are older than the next one, and one that still names an entry has
\* its key.
HandlesAreTrue ==
    /\ \A s \in Cache!Slots : cache.entries[s].valid => cache.entries[s].generation < cache.next
    /\ \A h \in handles :
          /\ h.generation < cache.next
          /\ Cache!Names(cache, h) => cache.entries[h.slot].key = h.key

\* What was admitted within the retention time is remembered, by the entry it
\* was given.
Remembers(a) ==
    \/ a[2] + RetentionMs <= clock
    \/ \E s \in Cache!Slots : /\ cache.entries[s].valid
                              /\ cache.entries[s].key.id = a[1].id
                              /\ cache.entries[s].expires = a[2] + RetentionMs

\* The properties with what keeps them: a handle can only name the entry it was
\* given for, and an identity in the history still has its entry.
CacheInv ==
    /\ ServiceTyped /\ HandlesAreTrue /\ Cache!IdentityUnique /\ Cache!ResultBelongs
    /\ Cache!AdmittedOnce
    /\ \A a \in admitted : a[2] <= clock /\ Remembers(a)

-----------------------------------------------------------------------------
\* What the proofs need of the constants.
LEMMA CacheFacts ==
  /\ CacheCapacity \in Nat \ {0} /\ RetentionMs \in Nat \ {0} /\ MaxGeneration \in Nat \ {0}
  /\ CacheTtls \subseteq Nat /\ MaxTime \in Nat
  BY CacheInstance DEF Cache!ServiceAssumption

LEMMA LeastExists ==
  ASSUME NEW T \in SUBSET Nat, T # {}
  PROVE  \E x \in T : \A y \in T : x <= y
<1>1. PICK x \in T : \A y \in T : <<y, x>> \notin OpToRel(<, Nat)
  BY NatLessThanWellFounded, WFMin
<1>2. \A y \in T : ~(y < x)
  BY <1>1 DEF OpToRel
<1> QED
  BY <1>2

LEMMA LeastSlot ==
  ASSUME NEW T \in SUBSET Cache!Slots, T # {}
  PROVE  Cache!First(T) \in T
<1>1. T \subseteq Nat
  BY CacheFacts DEF Cache!Slots
<1>2. \E x \in T : \A y \in T : x <= y
  BY <1>1, LeastExists
<1> QED
  BY <1>2 DEF Cache!First

\* d is c without some entries, each of them run out at time t.
Dropped(c, d, t) ==
    /\ d \in Caches /\ d.next = c.next
    /\ \A s \in Cache!Slots : \/ d.entries[s] = c.entries[s]
                              \/ d.entries[s] = Cache!Free /\ Cache!EntryExpired(c.entries[s], t)

LEMMA SweptDrops ==
  ASSUME NEW c \in Caches, NEW slots, NEW t
  PROVE  Dropped(c, Cache!Swept(c, slots, t), t)
<1> DEFINE kept == [s \in Cache!Slots |-> IF s \in slots /\ Cache!EntryExpired(c.entries[s], t)
                                    THEN Cache!Free ELSE c.entries[s]]
<1>1. c.entries \in [Cache!Slots -> Entries \cup {Cache!Free}] /\ c.next \in 1 .. MaxGeneration
  BY DEF Caches
<1>2. Cache!Swept(c, slots, t) = [entries |-> kept, next |-> c.next]
  BY DEF Cache!Swept, Caches
<1>3. kept \in [Cache!Slots -> Entries \cup {Cache!Free}]
  BY <1>1
<1>4. \A s \in Cache!Slots : \/ kept[s] = c.entries[s]
                             \/ kept[s] = Cache!Free /\ Cache!EntryExpired(c.entries[s], t)
  OBVIOUS
<1> HIDE DEF kept
<1>5. Cache!Swept(c, slots, t) \in Caches
  BY <1>1, <1>2, <1>3 DEF Caches
<1> QED
  BY <1>2, <1>4, <1>5 DEF Dropped

LEMMA EntryFacts ==
  ASSUME NEW c \in Caches, NEW s \in Cache!Slots, c.entries[s].valid
  PROVE  c.entries[s] \in Entries
  BY DEF Caches, Cache!Free

\* Dropping what has run out disturbs nothing.
LEMMA DropInv ==
  ASSUME CacheInv, Dropped(cache, cache', clock),
         UNCHANGED <<clock, handles, admitted>>
  PROVE  CacheInv'
<1>1. \A s \in Cache!Slots : cache'.entries[s].valid =>
         cache'.entries[s] = cache.entries[s] /\ cache.entries[s].valid
  BY DEF Dropped, Cache!Free
<1>2. cache'.next = cache.next /\ cache' \in Caches
  BY DEF Dropped
<1>3. ServiceTyped'
  BY <1>2 DEF CacheInv, ServiceTyped
<1>4. HandlesAreTrue'
  <2>1. ASSUME NEW s \in Cache!Slots, cache'.entries[s].valid
        PROVE  cache'.entries[s].generation < cache'.next
    BY <1>1, <1>2, <2>1 DEF CacheInv, HandlesAreTrue
  <2>2. ASSUME NEW h \in handles
        PROVE  /\ h.generation < cache'.next
               /\ Cache!Names(cache', h) => cache'.entries[h.slot].key = h.key
    <3>1. h.slot \in Cache!Slots
      BY DEF CacheInv, ServiceTyped, Handles
    <3>2. Cache!Names(cache', h) => Cache!Names(cache, h) /\ cache'.entries[h.slot] = cache.entries[h.slot]
      BY <1>1, <3>1 DEF Cache!Names
    <3> QED
      BY <1>2, <3>2 DEF CacheInv, HandlesAreTrue
  <2> QED
    BY <2>1, <2>2 DEF HandlesAreTrue, Cache!Names
<1>5. Cache!IdentityUnique'
  BY <1>1 DEF CacheInv, Cache!IdentityUnique, Cache!Live
<1>6. Cache!ResultBelongs'
  BY <1>1 DEF CacheInv, Cache!ResultBelongs
<1>7. ASSUME NEW a \in admitted PROVE a[2] <= clock /\ Remembers(a)'
  <2>1. a[2] <= clock /\ Remembers(a) /\ a[2] \in Nat /\ clock \in Nat
    BY DEF CacheInv, ServiceTyped
  <2>2. CASE a[2] + RetentionMs <= clock
    BY <2>1, <2>2 DEF Remembers
  <2>3. CASE ~(a[2] + RetentionMs <= clock)
    <3>1. PICK s \in Cache!Slots : /\ cache.entries[s].valid
                                   /\ cache.entries[s].key.id = a[1].id
                                   /\ cache.entries[s].expires = a[2] + RetentionMs
      BY <2>1, <2>3 DEF Remembers
    <3>2. cache'.entries[s] = cache.entries[s]
      BY <2>3, <3>1 DEF Dropped, Cache!EntryExpired
    <3> QED
      BY <2>1, <3>1, <3>2 DEF Remembers
  <2> QED
    BY <2>2, <2>3
<1>8. Cache!AdmittedOnce'
  BY DEF CacheInv, Cache!AdmittedOnce
<1> QED
  BY <1>3, <1>4, <1>5, <1>6, <1>7, <1>8 DEF CacheInv
-----------------------------------------------------------------------------
(* The operations.                                                         *)

LEMMA ResetInv == ASSUME CacheInv, Cache!Reset PROVE CacheInv'
<1>1. /\ cache' = [entries |-> [s \in Cache!Slots |-> Cache!Free], next |-> cache.next]
      /\ clock' = clock /\ handles' = handles /\ admitted' = {}
  BY DEF Cache!Reset, Cache!cache_reset, Cache!EmptyCache
<1>2. /\ cache'.next = cache.next
      /\ \A s \in Cache!Slots : cache'.entries[s] = Cache!Free /\ ~cache'.entries[s].valid
  BY <1>1 DEF Cache!Free
<1>3. cache' \in Caches
  BY <1>1 DEF CacheInv, ServiceTyped, Caches
<1>4. ServiceTyped'
  BY <1>1, <1>3 DEF CacheInv, ServiceTyped
<1>5. HandlesAreTrue'
  <2>1. \A h \in handles : ~Cache!Names(cache', h)
    BY <1>2 DEF Cache!Names, CacheInv, ServiceTyped, Handles
  <2> QED
    BY <1>1, <1>2, <2>1 DEF CacheInv, HandlesAreTrue, Cache!Names
<1>6. Cache!IdentityUnique' /\ Cache!ResultBelongs' /\ Cache!AdmittedOnce'
  BY <1>1, <1>2 DEF Cache!IdentityUnique, Cache!Live, Cache!ResultBelongs, Cache!AdmittedOnce
<1> QED
  BY <1>1, <1>4, <1>5, <1>6 DEF CacheInv

\* What admitting does to the cache: one slot that was free or has run out
\* gets the new entry, and others that have run out may be dropped.
LEMMA AdmitFacts ==
  ASSUME NEW c \in Caches, NEW k \in Keys, NEW ttl \in CacheTtls, NEW t \in Nat,
         Cache!AdmitStatus(c, k, t) = "OK"
  PROVE  /\ Cache!AdmitSlot(c, k, t) \in Cache!Slots
         /\ Cache!AfterAdmit(c, k, ttl, t) \in Caches
         /\ Cache!AfterAdmit(c, k, ttl, t).next = c.next + 1
         /\ Cache!Matches(c, k, t) = {}
         /\ \A s \in Cache!Slots :
               \/ /\ s = Cache!AdmitSlot(c, k, t)
                  /\ Cache!AfterAdmit(c, k, ttl, t).entries[s] = Cache!NewEntry(c.next, k, ttl, t)
                  /\ ~c.entries[s].valid \/ Cache!EntryExpired(c.entries[s], t)
               \/ /\ s # Cache!AdmitSlot(c, k, t)
                  /\ \/ Cache!AfterAdmit(c, k, ttl, t).entries[s] = c.entries[s]
                     \/ /\ Cache!AfterAdmit(c, k, ttl, t).entries[s] = Cache!Free
                        /\ Cache!EntryExpired(c.entries[s], t)
<1> DEFINE d == Cache!Searched(c, k, t)
           slot == Cache!AdmitSlot(c, k, t)
           new == Cache!NewEntry(c.next, k, ttl, t)
           filled == [d.entries EXCEPT ![slot] = new]
<1>1. Dropped(c, d, t)
  BY SweptDrops DEF Cache!Searched
<1>2. Cache!Matches(c, k, t) = {} /\ Cache!FreeSlots(d) # {} /\ c.next # MaxGeneration
  BY DEF Cache!AdmitStatus
<1>3. Cache!AfterAdmit(c, k, ttl, t) = [d EXCEPT !.entries[slot] = new, !.next = @ + 1]
  BY DEF Cache!AfterAdmit
<1>4. slot \in Cache!FreeSlots(d)
  BY <1>2, LeastSlot DEF Cache!AdmitSlot, Cache!FreeSlots
<1> HIDE DEF d, slot
<1>5. /\ d \in Caches /\ d.entries \in [Cache!Slots -> Entries \cup {Cache!Free}]
      /\ d.next = c.next /\ c.next \in 1 .. MaxGeneration /\ d.next + 1 \in 1 .. MaxGeneration
  BY <1>1, <1>2, CacheFacts DEF Dropped, Caches
<1>6. slot \in Cache!Slots /\ ~d.entries[slot].valid
  BY <1>4 DEF Cache!FreeSlots
<1>7. new \in Entries
  <2>1. ttl \in Nat
    BY CacheFacts
  <2>2. RetentionMs \in Nat /\ c.next \in Nat \ {0}
    BY <1>5, CacheFacts
  <2> QED
    BY <2>1, <2>2 DEF Cache!NewEntry, Entries, Outcomes
<1> HIDE DEF new
<1>8. /\ filled \in [Cache!Slots -> Entries \cup {Cache!Free}]
      /\ \A s \in Cache!Slots : filled[s] = IF s = slot THEN new ELSE d.entries[s]
  BY <1>5, <1>6, <1>7
<1>9. Cache!AfterAdmit(c, k, ttl, t) = [entries |-> filled, next |-> d.next + 1]
  BY <1>3, <1>5 DEF Caches
<1> HIDE DEF filled
<1>10. Cache!AfterAdmit(c, k, ttl, t) \in Caches
  BY <1>5, <1>8, <1>9 DEF Caches
<1>11. ~c.entries[slot].valid \/ Cache!EntryExpired(c.entries[slot], t)
  BY <1>1, <1>6 DEF Dropped
<1> QED
  BY <1>1, <1>2, <1>5, <1>6, <1>8, <1>9, <1>10, <1>11 DEF Dropped, slot, new

LEMMA AdmitInv ==
  ASSUME CacheInv, NEW k \in Keys, NEW ttl \in CacheTtls, Cache!Admit(k, ttl)
  PROVE  CacheInv'
<1> DEFINE slot == Cache!AdmitSlot(cache, k, clock)
           new == Cache!NewEntry(cache.next, k, ttl, clock)
           handle == [slot |-> slot, generation |-> cache.next, key |-> k]
<1>1. CASE Cache!AdmitStatus(cache, k, clock) # "OK"
  <2>1. cache' = Cache!Searched(cache, k, clock) /\ UNCHANGED <<clock, handles, admitted>>
    BY <1>1 DEF Cache!Admit, Cache!AfterAdmit
  <2>2. Dropped(cache, cache', clock)
    BY <2>1, SweptDrops DEF Cache!Searched, CacheInv, ServiceTyped
  <2> QED
    BY <2>1, <2>2, DropInv
<1>2. CASE Cache!AdmitStatus(cache, k, clock) = "OK"
  <2>1. /\ cache' = Cache!AfterAdmit(cache, k, ttl, clock) /\ clock' = clock
        /\ handles' = handles \cup {handle} /\ admitted' = admitted \cup {<<k, clock>>}
    BY <1>2 DEF Cache!Admit
  <2>2. /\ cache \in Caches /\ clock \in Nat /\ clock \in 0 .. MaxTime
        /\ cache.next \in Nat /\ RetentionMs \in Nat \ {0}
    BY CacheFacts DEF CacheInv, ServiceTyped, Caches
  <2>3. /\ slot \in Cache!Slots /\ cache' \in Caches /\ cache'.next = cache.next + 1
        /\ Cache!Matches(cache, k, clock) = {}
        /\ \A s \in Cache!Slots :
              \/ /\ s = slot /\ cache'.entries[s] = new
                 /\ ~cache.entries[s].valid \/ Cache!EntryExpired(cache.entries[s], clock)
              \/ /\ s # slot
                 /\ \/ cache'.entries[s] = cache.entries[s]
                    \/ cache'.entries[s] = Cache!Free /\ Cache!EntryExpired(cache.entries[s], clock)
    BY <1>2, <2>1, <2>2, AdmitFacts
  <2>4. /\ new.valid /\ new.generation = cache.next /\ new.key = k
        /\ new.expires = clock + RetentionMs /\ new.result = Cache!NoResult
    BY DEF Cache!NewEntry
  <2>5. /\ handle.slot = slot /\ handle.generation = cache.next /\ handle.key = k
        /\ handle \in Handles
    BY <2>2, <2>3 DEF Handles
  <2> HIDE DEF slot, new, handle
  <2>6. \A s \in Cache!Slots : cache'.entries[s].valid /\ s # slot
          => cache'.entries[s] = cache.entries[s] /\ cache.entries[s].valid
    BY <2>3 DEF Cache!Free
  <2>7. ServiceTyped'
    BY <2>1, <2>2, <2>3, <2>5 DEF CacheInv, ServiceTyped
  <2>8. HandlesAreTrue'
    <3>1. ASSUME NEW s \in Cache!Slots, cache'.entries[s].valid
          PROVE  cache'.entries[s].generation < cache'.next
      <4>1. CASE s = slot
        BY <4>1, <2>2, <2>3, <2>4
      <4>2. CASE s # slot
        <5>1. cache'.entries[s] = cache.entries[s] /\ cache.entries[s].valid
          BY <2>6, <3>1, <4>2
        <5>2. cache.entries[s].generation < cache.next
          BY <5>1 DEF CacheInv, HandlesAreTrue
        <5>3. cache.entries[s].generation \in Nat
          BY <2>2, <5>1, EntryFacts DEF Entries
        <5> QED
          BY <2>2, <2>3, <5>1, <5>2, <5>3
      <4> QED
        BY <4>1, <4>2
    <3>2. ASSUME NEW h \in handles
          PROVE  /\ h.generation < cache'.next
                 /\ Cache!Names(cache', h) => cache'.entries[h.slot].key = h.key
      <4>1. h.slot \in Cache!Slots /\ h.generation \in Nat /\ h.generation < cache.next
        BY DEF CacheInv, ServiceTyped, Handles, HandlesAreTrue
      <4>2. Cache!Names(cache', h) => h.slot # slot
        BY <2>2, <2>3, <2>4, <4>1 DEF Cache!Names
      <4>3. Cache!Names(cache', h) => /\ Cache!Names(cache, h)
                                     /\ cache'.entries[h.slot] = cache.entries[h.slot]
        BY <2>6, <4>1, <4>2 DEF Cache!Names
      <4> QED
        BY <2>2, <2>3, <4>1, <4>3 DEF CacheInv, HandlesAreTrue
    <3>3. /\ handle.generation < cache'.next
          /\ Cache!Names(cache', handle) => cache'.entries[handle.slot].key = handle.key
      BY <2>2, <2>3, <2>4, <2>5
    <3> QED
      BY <2>1, <3>1, <3>2, <3>3 DEF HandlesAreTrue, Cache!Names
  <2>9. Cache!IdentityUnique'
    <3>1. ASSUME NEW s \in Cache!Slots, Cache!Live(s)', s # slot
          PROVE  Cache!Live(s) /\ cache'.entries[s] = cache.entries[s]
                       /\ cache'.entries[s].key.id # k.id
      <4>1. Cache!Live(s) /\ cache'.entries[s] = cache.entries[s]
        BY <2>1, <2>6, <3>1 DEF Cache!Live
      <4> QED
        BY <2>3, <4>1 DEF Cache!Live, Cache!Matches
    <3>2. ASSUME NEW s \in Cache!Slots, NEW t \in Cache!Slots, Cache!Live(s)', Cache!Live(t)',
                 cache'.entries[s].key.id = cache'.entries[t].key.id
          PROVE  s = t
      <4>1. CASE s # slot /\ t # slot
        BY <3>1, <3>2, <4>1 DEF CacheInv, Cache!IdentityUnique
      <4>2. CASE s = slot /\ t # slot
        BY <2>3, <2>4, <3>1, <3>2, <4>2
      <4>3. CASE s # slot /\ t = slot
        BY <2>3, <2>4, <3>1, <3>2, <4>3
      <4> QED
        BY <4>1, <4>2, <4>3
    <3> QED
      BY <3>2 DEF Cache!IdentityUnique
  <2>10. Cache!ResultBelongs'
    <3>1. ASSUME NEW s \in Cache!Slots, cache'.entries[s].valid, cache'.entries[s].result # Cache!NoResult
          PROVE  cache'.entries[s].result.key = cache'.entries[s].key
      BY <2>3, <2>4, <2>6, <3>1 DEF CacheInv, Cache!ResultBelongs
    <3> QED
      BY <3>1 DEF Cache!ResultBelongs
  <2>11. ASSUME NEW a \in admitted
         PROVE  /\ a[2] <= clock /\ Remembers(a)' /\ a[2] \in Nat
                /\ a[1].id = k.id => clock - a[2] >= RetentionMs
    <3>1. a[2] <= clock /\ Remembers(a) /\ a[2] \in Nat
      BY DEF CacheInv, ServiceTyped
    <3>2. CASE a[2] + RetentionMs <= clock
      BY <2>1, <2>2, <3>1, <3>2 DEF Remembers
    <3>3. CASE ~(a[2] + RetentionMs <= clock)
      <4>1. PICK s \in Cache!Slots : /\ cache.entries[s].valid
                                     /\ cache.entries[s].key.id = a[1].id
                                     /\ cache.entries[s].expires = a[2] + RetentionMs
        BY <3>1, <3>3 DEF Remembers
      <4>2. cache'.entries[s] = cache.entries[s] /\ ~Cache!EntryExpired(cache.entries[s], clock)
        BY <2>3, <3>3, <4>1 DEF Cache!EntryExpired
      <4>3. a[1].id # k.id
        BY <2>3, <4>1, <4>2 DEF Cache!Matches
      <4> QED
        BY <3>1, <4>1, <4>2, <4>3 DEF Remembers
    <3> QED
      BY <3>2, <3>3
  <2>12. LET a == <<k, clock>> IN a[2] <= clock' /\ Remembers(a)'
    BY <2>1, <2>2, <2>3, <2>4 DEF Remembers
  <2>13. Cache!AdmittedOnce'
    <3>1. ASSUME NEW a \in admitted, a[1].id = k.id
          PROVE  clock - a[2] >= RetentionMs
      BY <2>11, <3>1
    <3> QED
      BY <2>1, <3>1 DEF CacheInv, Cache!AdmittedOnce
  <2>14. \A a \in admitted' : a[2] <= clock' /\ Remembers(a)'
    BY <2>1, <2>11, <2>12
  <2> QED
    BY <2>7, <2>8, <2>9, <2>10, <2>13, <2>14 DEF CacheInv
<1> QED
  BY <1>1, <1>2

\* A result is taken for the command of the handle it comes with, and for no
\* other.
LEMMA RecordInv ==
  ASSUME CacheInv, NEW h \in handles, NEW r \in Results, Cache!RecordResult(h, r)
  PROVE  CacheInv'
<1> DEFINE result == [stage |-> r, key |-> h.key]
           e == cache.entries[h.slot]
<1>1. /\ cache' = Cache!AfterRecord(cache, h, result, clock)
      /\ UNCHANGED <<clock, handles, admitted>>
  BY DEF Cache!RecordResult
<1>2. /\ cache \in Caches /\ h \in Handles /\ h.slot \in Cache!Slots /\ h.key \in Keys
      /\ cache.entries \in [Cache!Slots -> Entries \cup {Cache!Free}]
      /\ cache.next \in 1 .. MaxGeneration
  BY DEF CacheInv, ServiceTyped, Handles, Caches
<1>3. result \in Outcomes /\ result.key = h.key
  BY <1>2 DEF Outcomes
<1> HIDE DEF result
<1>4. CASE Cache!RecordStatus(cache, h, result, clock) # "OK"
  <2>1. CASE ~(Cache!Names(cache, h) /\ Cache!EntryExpired(e, clock))
    <3>1. cache' = cache
      BY <1>1, <1>4, <2>1 DEF Cache!AfterRecord
    <3>2. Dropped(cache, cache', clock)
      BY <1>2, <3>1 DEF Dropped
    <3> QED
      BY <1>1, <3>2, DropInv
  <2>2. CASE Cache!Names(cache, h) /\ Cache!EntryExpired(e, clock)
    <3> DEFINE kept == [cache.entries EXCEPT ![h.slot] = Cache!Free]
    <3>1. cache' = [entries |-> kept, next |-> cache.next]
      BY <1>1, <1>2, <2>2 DEF Cache!AfterRecord, Caches
    <3>2. /\ kept \in [Cache!Slots -> Entries \cup {Cache!Free}]
          /\ \A s \in Cache!Slots : kept[s] = IF s = h.slot THEN Cache!Free ELSE cache.entries[s]
      BY <1>2
    <3> HIDE DEF kept
    <3>3. cache' \in Caches
      BY <1>2, <3>1, <3>2 DEF Caches
    <3>4. Dropped(cache, cache', clock)
      BY <2>2, <3>1, <3>2, <3>3 DEF Dropped
    <3> QED
      BY <1>1, <3>4, DropInv
  <2> QED
    BY <2>1, <2>2
<1>5. CASE Cache!RecordStatus(cache, h, result, clock) = "OK"
  <2> DEFINE marked == [cache.entries EXCEPT ![h.slot] = [e EXCEPT !.result = result]]
             m == [e EXCEPT !.result = result]
  <2>1. Cache!Names(cache, h) /\ ~Cache!EntryExpired(e, clock)
    BY <1>5 DEF Cache!RecordStatus
  <2>2. e \in Entries /\ e.valid
    BY <1>2, <2>1 DEF Cache!Names, Cache!Free
  <2>3. cache' = [entries |-> marked, next |-> cache.next]
    BY <1>1, <1>2, <1>5, <2>1 DEF Cache!AfterRecord, Caches
  <2>4. /\ m \in Entries /\ m.valid /\ m.generation = e.generation /\ m.key = e.key
        /\ m.expires = e.expires /\ m.result = result
    <3> HIDE DEF e
    <3> QED
      BY <1>3, <2>2 DEF Entries
  <2>5. /\ marked \in [Cache!Slots -> Entries \cup {Cache!Free}]
        /\ \A s \in Cache!Slots : marked[s] = IF s = h.slot THEN m ELSE cache.entries[s]
    <3> HIDE DEF m, e
    <3> QED
      BY <1>2, <2>4 DEF m
  <2> HIDE DEF marked, m
  <2>6. cache' \in Caches /\ cache'.next = cache.next
    BY <1>2, <2>3, <2>5 DEF Caches
  <2>7. /\ cache'.entries[h.slot] = m
        /\ \A s \in Cache!Slots : s # h.slot => cache'.entries[s] = cache.entries[s]
    BY <1>2, <2>3, <2>5
  <2>8. \A s \in Cache!Slots : /\ cache'.entries[s].valid = cache.entries[s].valid
                               /\ cache.entries[s].valid =>
                                    /\ cache'.entries[s].generation = cache.entries[s].generation
                                    /\ cache'.entries[s].key = cache.entries[s].key
                                    /\ cache'.entries[s].expires = cache.entries[s].expires
    <3>1. m.valid = e.valid
      BY <2>2, <2>4 DEF Entries
    <3> QED
      BY <2>4, <2>7, <3>1
  <2>9. ServiceTyped'
    BY <1>1, <2>6 DEF CacheInv, ServiceTyped
  <2>10. HandlesAreTrue'
    <3>1. \A g \in handles : g.slot \in Cache!Slots
      BY DEF CacheInv, ServiceTyped, Handles
    <3>2. \A g \in handles : Cache!Names(cache', g) =>
            /\ Cache!Names(cache, g)
            /\ cache'.entries[g.slot].key = cache.entries[g.slot].key
      BY <2>8, <3>1 DEF Cache!Names
    <3> QED
      BY <1>1, <2>6, <2>8, <3>2 DEF CacheInv, HandlesAreTrue, Cache!Names
  <2>11. Cache!IdentityUnique'
    BY <1>1, <2>8 DEF CacheInv, Cache!IdentityUnique, Cache!Live, Cache!EntryExpired
  <2>12. Cache!ResultBelongs'
    <3>1. e.key = h.key
      BY <2>1 DEF CacheInv, HandlesAreTrue
    <3> QED
      BY <1>3, <2>4, <2>7, <3>1 DEF CacheInv, Cache!ResultBelongs
  <2>13. \A a \in admitted : Remembers(a) => Remembers(a)'
    BY <1>1, <2>8 DEF Remembers
  <2>14. Cache!AdmittedOnce'
    BY <1>1 DEF CacheInv, Cache!AdmittedOnce
  <2> QED
    BY <1>1, <2>9, <2>10, <2>11, <2>12, <2>13, <2>14 DEF CacheInv
<1> QED
  BY <1>4, <1>5

LEMMA AdvanceInv == ASSUME CacheInv, Cache!Advance PROVE CacheInv'
<1>1. /\ clock < MaxTime /\ clock' = clock + 1 /\ clock \in 0 .. MaxTime /\ MaxTime \in Nat
      /\ cache' = cache /\ handles' = handles /\ admitted' = admitted
  BY CacheFacts DEF Cache!Advance, CacheInv, ServiceTyped
<1>2. clock' \in 0 .. MaxTime /\ clock \in Nat /\ RetentionMs \in Nat
  BY <1>1, CacheFacts
<1>3. ServiceTyped' /\ HandlesAreTrue' /\ Cache!ResultBelongs' /\ Cache!AdmittedOnce'
  BY <1>1, <1>2 DEF CacheInv, ServiceTyped, HandlesAreTrue, Cache!ResultBelongs, Cache!AdmittedOnce, Cache!Names
<1>4. \A s \in Cache!Slots : Cache!Live(s)' => Cache!Live(s)
  <2> SUFFICES ASSUME NEW s \in Cache!Slots, Cache!Live(s)' PROVE Cache!Live(s)
    OBVIOUS
  <2>1. cache.entries[s].valid /\ ~(cache.entries[s].expires <= clock + 1)
    BY <1>1 DEF Cache!Live, Cache!EntryExpired
  <2>2. cache.entries[s].expires \in Nat
    BY <2>1, EntryFacts DEF Entries, CacheInv, ServiceTyped
  <2> QED
    BY <1>2, <2>1, <2>2 DEF Cache!Live, Cache!EntryExpired
<1>5. Cache!IdentityUnique'
  BY <1>1, <1>4 DEF CacheInv, Cache!IdentityUnique
<1>6. ASSUME NEW a \in admitted PROVE a[2] <= clock' /\ Remembers(a)'
  <2>1. a[2] <= clock /\ Remembers(a) /\ a[2] \in Nat
    BY DEF CacheInv, ServiceTyped
  <2>2. CASE a[2] + RetentionMs <= clock
    BY <1>1, <1>2, <2>1, <2>2 DEF Remembers
  <2>3. CASE ~(a[2] + RetentionMs <= clock)
    BY <1>1, <1>2, <2>1, <2>3 DEF Remembers
  <2> QED
    BY <2>2, <2>3
<1> QED
  BY <1>1, <1>3, <1>5, <1>6 DEF CacheInv
-----------------------------------------------------------------------------
(* The theorems.                                                           *)

LEMMA InitCacheInv == ASSUME Cache!Init PROVE CacheInv
<1>1. cache = [entries |-> [s \in Cache!Slots |-> Cache!Free], next |-> 1] /\ clock = 0
      /\ handles = {} /\ admitted = {}
  BY DEF Cache!Init, Cache!EmptyCache
<1>2. \A s \in Cache!Slots : ~cache.entries[s].valid
  BY <1>1 DEF Cache!Free
<1>3. cache \in Caches
  BY <1>1, CacheFacts DEF Caches
<1> QED
  BY <1>1, <1>2, <1>3, CacheFacts DEF CacheInv, ServiceTyped, HandlesAreTrue, Cache!IdentityUnique,
     Cache!ResultBelongs, Cache!AdmittedOnce, Cache!Live

LEMMA NextCacheInv == ASSUME CacheInv, [Cache!Next]_(Cache!vars) PROVE CacheInv'
<1>1. ASSUME NEW k \in Keys, Cache!Lookup(k) PROVE CacheInv'
  <2>1. Dropped(cache, cache', clock)
    BY <1>1, SweptDrops DEF Cache!Lookup, Cache!Searched, CacheInv, ServiceTyped
  <2> QED
    BY <1>1, <2>1, DropInv DEF Cache!Lookup
<1>2. CASE Cache!Expire
  <2>1. Dropped(cache, cache', clock)
    BY <1>2, SweptDrops DEF Cache!Expire, Cache!cache_expire, CacheInv, ServiceTyped
  <2> QED
    BY <1>2, <2>1, DropInv DEF Cache!Expire
<1>3. CASE UNCHANGED Cache!vars
  <2>1. Dropped(cache, cache', clock)
    BY <1>3 DEF Cache!vars, Dropped, CacheInv, ServiceTyped
  <2> QED
    BY <1>3, <2>1, DropInv DEF Cache!vars
<1> QED
  BY <1>1, <1>2, <1>3, ResetInv, AdmitInv, RecordInv, AdvanceInv DEF Cache!Next

\* Whatever the caller does and whenever, the cache has at most one live entry
\* per identity, a recorded result is that of its entry's command, and between
\* two resets an identity is admitted at most once per retention time.
THEOREM CacheIsSound ==
  Cache!Spec => [](Cache!TypeOK /\ Cache!IdentityUnique /\ Cache!ResultBelongs /\ Cache!AdmittedOnce)
<1>1. CacheInv => Cache!TypeOK /\ Cache!IdentityUnique /\ Cache!ResultBelongs /\ Cache!AdmittedOnce
  <2> SUFFICES ASSUME CacheInv PROVE Cache!TypeOK
    BY DEF CacheInv
  <2>1. cache \in Caches /\ cache.next \in 1 .. MaxGeneration /\ clock \in 0 .. MaxTime
    BY DEF CacheInv, ServiceTyped, Caches
  <2>2. ASSUME NEW s \in Cache!Slots, cache.entries[s].valid
        PROVE  /\ cache.entries[s].key \in Keys
               /\ cache.entries[s].generation \in 1 .. cache.next - 1
    <3>1. cache.entries[s] \in Entries /\ cache.entries[s].generation < cache.next
      BY <2>1, <2>2, EntryFacts DEF CacheInv, HandlesAreTrue
    <3>2. /\ cache.entries[s].key \in Keys
          /\ cache.entries[s].generation \in Nat \ {0}
      BY <3>1 DEF Entries
    <3>3. cache.next \in Nat
      BY <2>1, CacheFacts
    <3> QED
      BY <3>1, <3>2, <3>3
  <2> QED
    BY <2>1, <2>2 DEF Cache!TypeOK
<1> QED
  BY <1>1, InitCacheInv, NextCacheInv, PTL DEF Cache!Spec

LEMMA StableStep ==
  ASSUME CacheInv, Cache!Next, NEW s \in Cache!Slots,
         cache.entries[s].valid, cache'.entries[s].valid,
         cache.entries[s].generation = cache'.entries[s].generation,
         cache.entries[s].result # Cache!NoResult
  PROVE  cache'.entries[s].result = cache.entries[s].result
<1>1. cache \in Caches /\ \A h \in handles : h \in Handles
  BY DEF CacheInv, ServiceTyped
<1>2. ASSUME Dropped(cache, cache', clock)
      PROVE  cache'.entries[s].result = cache.entries[s].result
  BY <1>2 DEF Dropped, Cache!Free
<1>3. CASE Cache!Reset
  BY <1>3 DEF Cache!Reset, Cache!cache_reset, Cache!EmptyCache, Cache!Free
<1>4. ASSUME NEW k \in Keys, Cache!Lookup(k) PROVE Dropped(cache, cache', clock)
  BY <1>1, <1>4, SweptDrops DEF Cache!Lookup, Cache!Searched
<1>5. CASE Cache!Expire
  BY <1>1, <1>2, <1>5, SweptDrops DEF Cache!Expire, Cache!cache_expire
<1>6. ASSUME NEW k \in Keys, NEW ttl \in CacheTtls, Cache!Admit(k, ttl)
      PROVE  cache'.entries[s].result = cache.entries[s].result
  <2>1. CASE Cache!AdmitStatus(cache, k, clock) # "OK"
    BY <1>1, <1>2, <1>6, <2>1, SweptDrops DEF Cache!Admit, Cache!AfterAdmit, Cache!Searched
  <2>2. CASE Cache!AdmitStatus(cache, k, clock) = "OK"
    <3> DEFINE d == Cache!Searched(cache, k, clock)
               slot == Cache!AdmitSlot(cache, k, clock)
               new == Cache!NewEntry(cache.next, k, ttl, clock)
    <3>1. cache' = [d EXCEPT !.entries[slot] = new, !.next = @ + 1]
      BY <1>6, <2>2 DEF Cache!Admit, Cache!AfterAdmit
    <3>2. Dropped(cache, d, clock)
      BY <1>1, SweptDrops DEF Cache!Searched
    <3>3. new.generation = cache.next
      BY DEF Cache!NewEntry
    <3> HIDE DEF d, slot, new
    <3>4. d.entries \in [Cache!Slots -> Entries \cup {Cache!Free}]
          /\ d = [entries |-> d.entries, next |-> d.next]
      BY <3>2 DEF Dropped, Caches
    <3>5. cache'.entries[s] = IF s = slot THEN new ELSE d.entries[s]
      BY <3>1, <3>4
    <3>6. cache.entries[s].generation < cache.next /\ cache.entries[s].generation \in Nat
      BY <1>1, EntryFacts DEF CacheInv, HandlesAreTrue, Entries
    <3>7. s # slot
      BY <3>3, <3>5, <3>6
    <3> QED
      BY <3>2, <3>5, <3>7 DEF Dropped, Cache!Free
  <2> QED
    BY <2>1, <2>2
<1>7. ASSUME NEW h \in handles, NEW r \in Results, Cache!RecordResult(h, r)
      PROVE  cache'.entries[s].result = cache.entries[s].result
  <2> DEFINE result == [stage |-> r, key |-> h.key]
             e == cache.entries[h.slot]
  <2>1. cache' = Cache!AfterRecord(cache, h, result, clock) /\ h.slot \in Cache!Slots
    BY <1>1, <1>7 DEF Cache!RecordResult, Handles
  <2>2. /\ cache.entries \in [Cache!Slots -> Entries \cup {Cache!Free}]
        /\ cache = [entries |-> cache.entries, next |-> cache.next]
    BY <1>1 DEF Caches
  <2> HIDE DEF result
  <2>3. CASE Cache!Names(cache, h) /\ Cache!EntryExpired(e, clock)
    <3>1. cache' = [cache EXCEPT !.entries[h.slot] = Cache!Free]
      BY <2>1, <2>3 DEF Cache!AfterRecord
    <3> QED
      BY <2>2, <3>1 DEF Cache!Free
  <2>4. CASE ~(Cache!Names(cache, h) /\ Cache!EntryExpired(e, clock)) /\ Cache!RecordStatus(cache, h, result, clock) = "OK"
    <3>1. cache' = [cache EXCEPT !.entries[h.slot].result = result]
      BY <2>1, <2>4 DEF Cache!AfterRecord
    <3>2. e.result \in {Cache!NoResult, result} /\ e.valid
      BY <2>4 DEF Cache!RecordStatus, Cache!Names
    <3>3. e \in Entries
      BY <1>1, <2>1, <3>2, EntryFacts
    <3> DEFINE m == [e EXCEPT !.result = result]
    <3>4. m.result = result
      <4> HIDE DEF e
      <4> QED
        BY <3>3 DEF Entries
    <3> HIDE DEF m
    <3>5. cache'.entries[s] = IF s = h.slot THEN m ELSE cache.entries[s]
      BY <2>1, <2>2, <3>1 DEF m
    <3> QED
      BY <3>2, <3>4, <3>5
  <2>5. CASE ~(Cache!Names(cache, h) /\ Cache!EntryExpired(e, clock)) /\ Cache!RecordStatus(cache, h, result, clock) # "OK"
    BY <2>1, <2>5 DEF Cache!AfterRecord
  <2> QED
    BY <2>3, <2>4, <2>5
<1>8. CASE Cache!Advance
  BY <1>8 DEF Cache!Advance
<1> QED
  BY <1>2, <1>3, <1>4, <1>5, <1>6, <1>7, <1>8 DEF Cache!Next

\* A recorded result does not change while its entry lives (ResultStable): whoever asks again
\* gets the same answer, whatever late results come in on old handles.
THEOREM ResultsAreStable == Cache!Spec => Cache!ResultStable
<1> DEFINE Stable == \A s \in Cache!Slots :
          /\ cache.entries[s].valid /\ cache'.entries[s].valid
          /\ cache.entries[s].generation = cache'.entries[s].generation
          /\ cache.entries[s].result # Cache!NoResult
          => cache'.entries[s].result = cache.entries[s].result
<1>1. CacheInv /\ [Cache!Next]_(Cache!vars) => [Stable]_(Cache!vars)
  BY StableStep
<1>2. Cache!Spec => [][Stable]_(Cache!vars)
  BY <1>1, InitCacheInv, NextCacheInv, PTL DEF Cache!Spec
<1> QED
  BY <1>2 DEF Cache!ResultStable

-----------------------------------------------------------------------------
(* The link key store, for every modulus of the generation numbers and     *)
(* every set of roots: a power loss at any point leaves an active key that *)
(* was marked ready as a whole, and only a newer one takes its place.      *)

\* What is staged is newer than what is active, and what carries the ready
\* mark was marked itself: both are needed for the step that promotes it.
StagingInv ==
    /\ store = [active |-> store.active, staging |-> store.staging,
                isReady |-> store.isReady]
    /\ store.isReady => store.staging # LinkStore!None /\ store.staging \in ready
    /\ store.staging # LinkStore!None /\ store.active # LinkStore!None =>
           LinkStore!Newer(store.staging.generation, store.active.generation)

KeyInv == StagingInv /\ LinkStore!ActiveWasReady

LEMMA InitKeyInv == LinkStore!Init => KeyInv
  BY DEF LinkStore!Init, KeyInv, StagingInv, LinkStore!ActiveWasReady, LinkStore!None

LEMMA NextKeyInv == KeyInv /\ [LinkStore!Next]_(LinkStore!vars) => KeyInv'
<1> SUFFICES ASSUME KeyInv, [LinkStore!Next]_(LinkStore!vars) PROVE KeyInv'
  OBVIOUS
<1> USE DEF KeyInv, StagingInv, LinkStore!ActiveWasReady
<1>1. ASSUME NEW key \in LinkStore!Key, LinkStore!Stage(key) PROVE KeyInv'
  <2>1. store' = [active |-> store.active, staging |-> key, isReady |-> FALSE]
    BY <1>1 DEF LinkStore!Stage, LinkStore!Staged
  <2> QED
    BY <1>1, <2>1 DEF LinkStore!Stage, LinkStore!MayStage
<1>2. CASE LinkStore!MarkReady
  <2>1. store' = [active |-> store.active, staging |-> store.staging, isReady |-> TRUE]
    BY <1>2 DEF LinkStore!MarkReady
  <2> QED
    BY <1>2, <2>1 DEF LinkStore!MarkReady
<1>3. CASE LinkStore!Commit
  BY <1>3 DEF LinkStore!Commit, LinkStore!Promoted
<1>4. CASE LinkStore!Recover
  <2>1. CASE store.isReady /\ store.staging # LinkStore!None
    BY <1>4, <2>1 DEF LinkStore!Recover, LinkStore!Promoted
  <2>2. CASE ~(store.isReady /\ store.staging # LinkStore!None)
    <3>1. store' = [active |-> store.active, staging |-> LinkStore!None, isReady |-> FALSE]
      BY <1>4, <2>2 DEF LinkStore!Recover
    <3> QED
      <4>1. /\ store'.active = store.active /\ store'.staging = LinkStore!None
            /\ store'.isReady = FALSE /\ ready' = ready
        BY <1>4, <3>1 DEF LinkStore!Recover
      <4>2. StagingInv'
        BY <3>1, <4>1
      <4> QED
        BY <4>1, <4>2
  <2> QED
    BY <2>1, <2>2
<1>5. CASE UNCHANGED LinkStore!vars
  BY <1>5 DEF LinkStore!vars
<1> QED
  BY <1>1, <1>2, <1>3, <1>4, <1>5 DEF LinkStore!Next

\* The active key was marked ready, whatever was staged over it and wherever
\* the power failed between staging, marking and committing.
THEOREM ActiveKeyWasReady == LinkStore!Spec => []LinkStore!ActiveWasReady
<1>1. KeyInv => LinkStore!ActiveWasReady
  BY DEF KeyInv
<1> QED
  BY <1>1, InitKeyInv, NextKeyInv, PTL DEF LinkStore!Spec

LEMMA StepAdvances ==
  KeyInv /\ [LinkStore!Next]_(LinkStore!vars) =>
    [store'.active # store.active =>
         /\ store'.active # LinkStore!None
         /\ store.active # LinkStore!None =>
              LinkStore!Newer(store'.active.generation, store.active.generation)]_(LinkStore!vars)
<1> SUFFICES ASSUME KeyInv, LinkStore!Next, store'.active # store.active
             PROVE  /\ store'.active # LinkStore!None
                    /\ store.active # LinkStore!None =>
                         LinkStore!Newer(store'.active.generation, store.active.generation)
  OBVIOUS
<1> USE DEF KeyInv, StagingInv
<1>1. ASSUME NEW key \in LinkStore!Key, LinkStore!Stage(key) PROVE FALSE
  BY <1>1 DEF LinkStore!Stage, LinkStore!Staged
<1>2. CASE LinkStore!MarkReady
  BY <1>2 DEF LinkStore!MarkReady
<1>3. CASE LinkStore!Commit
  BY <1>3 DEF LinkStore!Commit, LinkStore!Promoted
<1>4. CASE LinkStore!Recover
  BY <1>4 DEF LinkStore!Recover, LinkStore!Promoted
<1> QED
  BY <1>1, <1>2, <1>3, <1>4 DEF LinkStore!Next

\* Only a newer key replaces the active one, none is ever lost, and it was
\* ready: what canview_link_key_store_commit and _recover promise together.
THEOREM LinkKeysAdvance == LinkStore!Spec => LinkStore!KeysAdvance
<1>1. LinkStore!Spec => LinkStore!ActiveAdvances
  BY InitKeyInv, NextKeyInv, StepAdvances, PTL DEF LinkStore!Spec, LinkStore!ActiveAdvances
<1> QED
  BY <1>1, ActiveKeyWasReady DEF LinkStore!KeysAdvance
-----------------------------------------------------------------------------
(* In the composition of the library's parts.                              *)

LEMMA CacheOfBoth == MCSpec => Cache!Spec
<1>1. MCInit => Cache!Init
  BY DEF MCInit
<1>2. [MCNext]_<<part, vars, otherVars>> => [Cache!Next]_(Cache!vars)
  <2> SUFFICES ASSUME [MCNext]_<<part, vars, otherVars>> PROVE [Cache!Next]_(Cache!vars)
    OBVIOUS
  <2> USE DEF otherVars, cacheVars, Cache!vars
  <2>1. CASE part = "cache" /\ Cache!Next
    BY <2>1
  <2>2. CASE UNCHANGED cacheVars
    BY <2>2
  <2> QED
    BY <2>1, <2>2 DEF MCNext
<1> QED
  BY <1>1, <1>2, PTL DEF MCSpec, Cache!Spec

LEMMA KeysOfBoth == MCSpec => LinkStore!Spec
<1>1. MCInit => LinkStore!Init
  BY DEF MCInit
<1>2. [MCNext]_<<part, vars, otherVars>> => [LinkStore!Next]_(LinkStore!vars)
  <2> SUFFICES ASSUME [MCNext]_<<part, vars, otherVars>> PROVE [LinkStore!Next]_(LinkStore!vars)
    OBVIOUS
  <2> USE DEF otherVars, keyVars, LinkStore!vars
  <2>1. CASE part = "keys" /\ LinkStore!Next
    BY <2>1
  <2>2. CASE UNCHANGED keyVars
    BY <2>2
  <2> QED
    BY <2>1, <2>2 DEF MCNext
<1> QED
  BY <1>1, <1>2, PTL DEF MCSpec, LinkStore!Spec

LEMMA ReplayOfBoth == MCSpec => Spec
<1>1. MCInit => Init
  BY DEF MCInit
<1>2. [MCNext]_<<part, vars, otherVars>> => [Next]_vars
  BY DEF MCNext
<1> QED
  BY <1>1, <1>2, PTL DEF MCSpec, Spec

\* One live cache entry speaks for an identity, its result is its own, and a
\* command is admitted once per retention time (CacheSound).
THEOREM TheCacheIsSound == MCSpec => []CacheSound
<1>1. Cache!TypeOK /\ Cache!IdentityUnique /\ Cache!ResultBelongs /\ Cache!AdmittedOnce => CacheSound
  BY DEF CacheSound
<1> QED
  BY <1>1, CacheOfBoth, CacheIsSound, PTL

\* A recorded result does not change (ResultStable).
THEOREM TheResultsAreStable == MCSpec => ResultStable
  BY CacheOfBoth, ResultsAreStable DEF ResultStable

\* The active link key was ready, and only a newer one replaces it
\* (KeysAdvance).
THEOREM TheKeysAdvance == MCSpec => KeysAdvance
  BY KeysOfBoth, LinkKeysAdvance DEF KeysAdvance

\* No packet passes the replay window twice and none is refused that is new
\* and not older than the window (FilterIsExact).
THEOREM TheFilterIsExact == MCSpec => FilterIsExact
  BY ReplayOfBoth, ReplayFilterIsExact

-----------------------------------------------------------------------------
(* The receiving half of an ESP-NOW session.                               *)

States == {"PAIRING", "SECURE_HELLO", "NEGOTIATING", "TIME_SYNC", "STATE_SYNC",
           "ONLINE", "DEGRADED", "RECOVERING"}
Late == {"ONLINE", "DEGRADED", "RECOVERING"}

\* A session object with all its fields in range: it has an id exactly if it
\* was started, and is in TIME_SYNC only while a time sync is missing.
LinkOK(s) ==
    /\ s = [initialized |-> s.initialized, id |-> s.id, state |-> s.state,
            samples |-> s.samples, secure |-> s.secure, window |-> s.window,
            reserved |-> s.reserved, failures |-> s.failures, until |-> s.until,
            limiter |-> s.limiter, synced |-> s.synced, updated |-> s.updated,
            generation |-> s.generation]
    /\ s.limiter = [start |-> s.limiter.start, emitted |-> s.limiter.emitted]
    /\ s.initialized \in BOOLEAN /\ s.id \in Nat /\ s.state \in States
    /\ s.samples \in 0 .. SampleTarget /\ s.secure \in BOOLEAN
    /\ s.window \in Session!W!Window /\ s.reserved \in Nat /\ s.failures \in Nat
    /\ s.limiter.emitted \in 0 .. ErrorLimit
    /\ s.initialized <=> s.state # "PAIRING"
    /\ s.initialized <=> s.id # 0
    /\ s.state = "TIME_SYNC" => s.samples < SampleTarget

\* s and t differ at most in limiter, failures, until and time sync.
SameProgress(s, t) ==
    /\ t.initialized = s.initialized /\ t.id = s.id /\ t.state = s.state
    /\ t.samples = s.samples /\ t.secure = s.secure /\ t.window = s.window
    /\ t.reserved = s.reserved

SameSync(s, t) ==
    t.synced = s.synced /\ t.updated = s.updated /\ t.generation = s.generation

Frames == [type : SessionTypes, seq : 1 .. MaxSequence, session : Nat]

\* A frame of a session has a number of its own in it.
TrafficTrue ==
    /\ peer = [role |-> peer.role, session |-> peer.session, next |-> peer.next]
    /\ peer.role \in Session!Both /\ peer.session \in Nat
    /\ peer.next \in 1 .. MaxSequence + 1 /\ peer.session <= link.id
    /\ air \subseteq Frames /\ delivered \subseteq Frames /\ IsFiniteSet(delivered)
    /\ \A f \in air \cup delivered :
          /\ f.session <= peer.session
          /\ f.session = peer.session => f.seq < peer.next
          /\ f.type = "PAIR_REQUEST" => f.session = 0
    /\ \A f \in air \cup delivered, g \in air \cup delivered :
          f.session # 0 /\ f.session = g.session /\ f.seq = g.seq => f = g

\* The window holds the delivered frames of the session, and no other.
WindowTrue ==
    LET w == link.window
    IN  /\ ~w.initialized => delivered = {}
        /\ w.initialized =>
              w.newest \in 1 .. MaxSequence /\ \E f \in delivered : f.seq = w.newest
        /\ \A f \in delivered :
              /\ f.session = link.id /\ f.seq <= w.newest
              /\ w.newest - f.seq < SessionWindow => w.newest - f.seq \in w.seen
        /\ \A a \in w.seen : \E f \in delivered : f.seq = w.newest - a

Stage(n) ==
    link.state \in CASE n = 1 -> {"NEGOTIATING", "TIME_SYNC", "STATE_SYNC"} \cup Late
                     [] n = 2 -> {"TIME_SYNC", "STATE_SYNC"} \cup Late
                     [] n = 3 -> {"STATE_SYNC"} \cup Late
                     [] n = 4 -> Late

\* Each stage of the handshake was earned by the frames delivered.
StagesEarned ==
    /\ Stage(1) => Session!Sent("HELLO") # {}
    /\ Stage(2) => /\ Session!Sent("CAPABILITIES") # {}
                   /\ link.samples <= Cardinality(Session!Sent("TIME_SYNC"))
    /\ Stage(3) => link.samples >= SampleTarget
    /\ Stage(4) => link.secure
    /\ Stage(4) /\ Session!LocalRole = "CONTROLLER" => Session!Sent("STATE_SNAPSHOT") # {}

\* The times the code keeps are the true ones, seen through the clock.
TimesTrue ==
    /\ failed.run = link.failures
    /\ failed.run >= FailureLimit =>
          /\ failed.at \in SessionStart .. now
          /\ link.until = (failed.at + Session!Backoff(failed.run)) % TimeModulus
    /\ link.synced => /\ syncedAt \in SessionStart .. now
                      /\ link.updated = syncedAt % TimeModulus

SessionInv ==
    /\ LinkOK(link) /\ link.reserved = held /\ held \in 0 .. RxLimit
    /\ now \in SessionStart .. SessionEnd
    /\ TrafficTrue /\ WindowTrue /\ StagesEarned /\ acked \subseteq delivered
    /\ TimesTrue

-----------------------------------------------------------------------------
LEMMA SessionConstants ==
  /\ Session!W!HALF \in Nat /\ SessionModulus = 2 * Session!W!HALF
  /\ SessionModulus \in Nat /\ SessionWindow \in Nat /\ 1 <= SessionWindow
  /\ SessionWindow <= Session!W!HALF
  /\ MaxSequence \in Nat /\ MaxSequence < Session!W!HALF
  BY SessionInstance DEF Session!W!HALF

\* Numbers of a session are less than half a turn apart.
LEMMA DistanceOfNumbers ==
  ASSUME NEW x \in 0 .. MaxSequence, NEW y \in 0 .. MaxSequence
  PROVE  Session!W!Distance(x, y) = IF x <= y THEN y - x ELSE SessionModulus - (x - y)
<1>1. CASE x <= y
  <2>1. y - x \in 0 .. SessionModulus - 1
    BY <1>1, SessionConstants
  <2>2. (y - x) % SessionModulus = y - x
    BY <2>1, SessionConstants
  <2> QED
    BY <1>1, <2>2 DEF Session!W!Distance
<1>2. CASE ~(x <= y)
  <2> DEFINE d == y - x
  <2>1. d \in Int /\ d + SessionModulus \in 0 .. SessionModulus - 1 /\ SessionModulus \in Nat \ {0}
    BY <1>2, SessionConstants
  <2> HIDE DEF d
  <2>2. d % SessionModulus = d + SessionModulus
    BY <2>1, Z3
  <2> QED
    BY <1>2, <2>2, SessionConstants DEF Session!W!Distance, d
<1> QED
  BY <1>1, <1>2

LEMMA DistanceIsInt ==
  ASSUME NEW x \in Int, NEW y \in Int PROVE Session!W!Distance(x, y) \in Int
  BY SessionConstants DEF Session!W!Distance

\* What the window says of a number: refused as a duplicate only if it is in
\* it, passed only if it is not and not older than it.
LEMMA WindowSays ==
  ASSUME NEW w \in Session!W!Window, NEW seq \in 1 .. MaxSequence,
         w.initialized => w.newest \in 1 .. MaxSequence
  PROVE  /\ Session!W!WindowStatus(w, seq) = "DUPLICATE" =>
              /\ w.initialized
              /\ seq = w.newest \/ (seq < w.newest /\ w.newest - seq \in w.seen)
         /\ Session!W!WindowStatus(w, seq) = "OK" /\ w.initialized =>
              \/ seq > w.newest
              \/ /\ seq < w.newest /\ w.newest - seq \in 1 .. SessionWindow - 1
                 /\ w.newest - seq \notin w.seen
<1> DEFINE f == Session!W!Distance(w.newest, seq)
           g == Session!W!Distance(seq, w.newest)
           st == Session!W!WindowStatus(w, seq)
<1>1. /\ ~w.initialized => st = "OK"
      /\ w.initialized /\ f = 0 => st = "DUPLICATE"
      /\ w.initialized /\ f # 0 /\ f \in 1 .. Session!W!HALF - 1 => st = "OK"
      /\ w.initialized /\ f # 0 /\ f \notin 1 .. Session!W!HALF - 1 /\ f >= Session!W!HALF =>
           /\ g >= SessionWindow => st = "STALE"
           /\ ~(g >= SessionWindow) /\ g < SessionWindow /\ g \in w.seen => st = "DUPLICATE"
           /\ ~(g >= SessionWindow) /\ g < SessionWindow /\ g \notin w.seen => st = "OK"
  <2>1. st = CASE ~w.initialized -> "OK"
               [] w.initialized /\ f = 0 -> "DUPLICATE"
               [] w.initialized /\ f \in 1 .. Session!W!HALF - 1 -> "OK"
               [] w.initialized /\ f >= Session!W!HALF /\ g >= SessionWindow -> "STALE"
               [] w.initialized /\ f >= Session!W!HALF /\ g < SessionWindow /\ g \in w.seen -> "DUPLICATE"
               [] w.initialized /\ f >= Session!W!HALF /\ g < SessionWindow /\ g \notin w.seen -> "OK"
    BY DEF Session!W!WindowStatus
  <2> f \in Int /\ g \in Int
    <3>1. w.newest \in Int /\ seq \in Int
      BY SessionConstants DEF Session!W!Window, Session!W!Sequences
    <3> QED
      BY <3>1, DistanceIsInt
  <2> HIDE DEF f, g, st
  <2>2. CASE w.initialized /\ f = 0
    BY <2>1, <2>2, SessionConstants
  <2>3. CASE w.initialized /\ f # 0 /\ f \in 1 .. Session!W!HALF - 1
    BY <2>1, <2>3, SessionConstants
  <2>4. CASE w.initialized /\ f # 0 /\ f \notin 1 .. Session!W!HALF - 1 /\ f >= Session!W!HALF
    <3>2. CASE g >= SessionWindow /\ ~(g < SessionWindow)
      BY <2>1, <2>4, <3>2
    <3>3. CASE ~(g >= SessionWindow) /\ g < SessionWindow /\ g \in w.seen
      BY <2>1, <2>4, <3>3
    <3>4. CASE ~(g >= SessionWindow) /\ g < SessionWindow /\ g \notin w.seen
      BY <2>1, <2>4, <3>4
    <3>5. g >= SessionWindow => ~(g < SessionWindow)
      BY SessionConstants
    <3> QED
      BY <2>4, <3>2, <3>3, <3>4, <3>5
  <2> QED
    BY <2>1, <2>2, <2>3, <2>4
<1>2. CASE ~w.initialized
  BY <1>1, <1>2
<1>3. CASE w.initialized
  <2>1. /\ f = IF w.newest <= seq THEN seq - w.newest ELSE SessionModulus - (w.newest - seq)
        /\ g = IF seq <= w.newest THEN w.newest - seq ELSE SessionModulus - (seq - w.newest)
        /\ w.newest \in 1 .. MaxSequence
    BY <1>3, DistanceOfNumbers, SessionConstants
  <2> HIDE DEF f, g, st
  <2>2. CASE w.newest = seq
    <3>1. f = 0
      BY <2>1, <2>2, SessionConstants
    <3>2. st = "DUPLICATE"
      BY <1>1, <1>3, <3>1
    <3>3. Session!W!WindowStatus(w, seq) # "OK"
      BY <3>2 DEF st
    <3> QED
      BY <1>3, <2>2, <3>3
  <2>3. CASE w.newest < seq
    <3>1. f \in 1 .. Session!W!HALF - 1
      BY <2>1, <2>3, SessionConstants
    <3> QED
      BY <1>1, <1>3, <2>1, <2>3, <3>1 DEF st
  <2>4. CASE seq < w.newest
    <3>1. f >= Session!W!HALF /\ f # 0 /\ g = w.newest - seq /\ g \in Nat /\ g >= 1
          /\ f \notin 1 .. Session!W!HALF - 1
      BY <2>1, <2>4, SessionConstants
    <3>2. CASE g >= SessionWindow
      BY <1>1, <1>3, <3>1, <3>2 DEF st
    <3>3. CASE g < SessionWindow /\ g \in w.seen
      <4>1. st = "DUPLICATE"
        BY <1>1, <1>3, <3>1, <3>3, SessionConstants
      <4> QED
        BY <1>3, <2>4, <3>1, <3>3, <4>1 DEF st
    <3>4. CASE g < SessionWindow /\ g \notin w.seen
      <4>1. st = "OK" /\ g \in 1 .. SessionWindow - 1
        BY <1>1, <1>3, <3>1, <3>4, SessionConstants
      <4> QED
        BY <1>3, <2>4, <3>1, <3>4, <4>1 DEF st
    <3> QED
      BY <3>1, <3>2, <3>3, <3>4, SessionConstants
  <2> QED
    BY <2>1, <2>2, <2>3, <2>4, SessionConstants
<1> QED
  BY <1>2, <1>3 DEF Session!W!Window

\* The window after a number it passed.
LEMMA WindowTakes ==
  ASSUME NEW w \in Session!W!Window, NEW seq \in 1 .. MaxSequence,
         w.initialized => w.newest \in 1 .. MaxSequence,
         Session!W!WindowStatus(w, seq) = "OK",
         NEW v, v = Session!W!WindowAfter(w, seq)
  PROVE  /\ v \in Session!W!Window /\ v.initialized
         /\ v.newest = IF w.initialized /\ seq < w.newest THEN w.newest ELSE seq
         /\ v.seen = IF ~w.initialized THEN {0}
                     ELSE IF seq < w.newest THEN w.seen \cup {w.newest - seq}
                     ELSE Session!W!Shifted(w.seen, seq - w.newest)
<1>1. w.initialized \in BOOLEAN /\ w.seen \subseteq 0 .. SessionWindow - 1
      /\ w.newest \in 0 .. SessionModulus - 1
  BY DEF Session!W!Window, Session!W!Sequences
<1>2. CASE ~w.initialized
  <2>1. v = [initialized |-> TRUE, newest |-> seq, seen |-> {0}]
    BY <1>2 DEF Session!W!WindowAfter
  <2>2. seq \in 0 .. SessionModulus - 1 /\ {0} \subseteq 0 .. SessionWindow - 1
    BY SessionConstants
  <2> QED
    BY <1>2, <2>1, <2>2 DEF Session!W!Window, Session!W!Sequences
<1>3. CASE w.initialized
  <2> DEFINE f == Session!W!Distance(w.newest, seq)
             g == Session!W!Distance(seq, w.newest)
  <2>1. /\ f = IF w.newest <= seq THEN seq - w.newest ELSE SessionModulus - (w.newest - seq)
        /\ g = IF seq <= w.newest THEN w.newest - seq ELSE SessionModulus - (seq - w.newest)
        /\ w.newest \in 1 .. MaxSequence
    BY <1>3, DistanceOfNumbers, SessionConstants
  <2>2. v = IF f < Session!W!HALF
            THEN [w EXCEPT !.newest = seq, !.seen = Session!W!Shifted(@, f)]
            ELSE [w EXCEPT !.seen = @ \cup {g}]
    BY <1>3 DEF Session!W!WindowAfter
  <2> HIDE DEF f, g
  <2>3. \/ seq > w.newest
        \/ seq < w.newest /\ w.newest - seq \in 1 .. SessionWindow - 1
    BY <1>3, WindowSays
  <2>4. CASE seq > w.newest
    <3>1. f = seq - w.newest /\ f < Session!W!HALF /\ f \in Nat
      BY <2>1, <2>4, SessionConstants
    <3>2. v = [w EXCEPT !.newest = seq, !.seen = Session!W!Shifted(@, seq - w.newest)]
      BY <2>2, <3>1
    <3>3. Session!W!Shifted(w.seen, seq - w.newest) \subseteq 0 .. SessionWindow - 1
      BY <1>1, <3>1, SessionConstants DEF Session!W!Shifted
    <3>4. seq \in 0 .. SessionModulus - 1 /\ ~(seq < w.newest)
      BY <2>1, <2>4, SessionConstants
    <3> QED
      BY <1>3, <3>2, <3>3, <3>4 DEF Session!W!Window, Session!W!Sequences
  <2>5. CASE seq < w.newest /\ w.newest - seq \in 1 .. SessionWindow - 1
    <3>1. g = w.newest - seq /\ ~(f < Session!W!HALF) /\ g \in 0 .. SessionWindow - 1
      BY <2>1, <2>5, SessionConstants
    <3>2. v = [w EXCEPT !.seen = @ \cup {w.newest - seq}]
      BY <2>2, <3>1
    <3> QED
      BY <1>1, <1>3, <2>5, <3>1, <3>2 DEF Session!W!Window, Session!W!Sequences
  <2> QED
    BY <2>3, <2>4, <2>5
<1> QED
  BY <1>1, <1>2, <1>3

-----------------------------------------------------------------------------
(* What the operators on a session do.                                     *)

LEMMA LimitedFacts ==
  ASSUME NEW l, l = [start |-> l.start, emitted |-> l.emitted], l.emitted \in 0 .. ErrorLimit
  PROVE  LET k == Session!Limited(l)
         IN  k = [start |-> k.start, emitted |-> k.emitted] /\ k.emitted \in 0 .. ErrorLimit
<1> DEFINE w == IF Session!Since(l.start) >= ErrorPeriod
                THEN [start |-> Session!Now, emitted |-> 0] ELSE l
<1>1. /\ w = [start |-> w.start, emitted |-> w.emitted]
      /\ w.emitted \in 0 .. ErrorLimit /\ ErrorLimit \in Nat
  BY SessionInstance
<1>2. Session!Limited(l) = IF w.emitted >= ErrorLimit THEN w ELSE [w EXCEPT !.emitted = @ + 1]
  BY DEF Session!Limited
<1> HIDE DEF w
<1>3. CASE w.emitted >= ErrorLimit
  BY <1>1, <1>2, <1>3
<1>4. CASE ~(w.emitted >= ErrorLimit)
  <2>1. Session!Limited(l) = [start |-> w.start, emitted |-> w.emitted + 1]
    BY <1>1, <1>2, <1>4
  <2>2. w.emitted + 1 \in 0 .. ErrorLimit
    BY <1>1, <1>4
  <2> QED
    BY <2>1, <2>2
<1> QED
  BY <1>3, <1>4

\* An error answer touches the limiter only.
LEMMA FailedFacts ==
  ASSUME NEW s, LinkOK(s)
  PROVE  LET t == Session!Failed(s)
         IN  /\ LinkOK(t) /\ SameProgress(s, t) /\ SameSync(s, t)
             /\ t.failures = s.failures /\ t.until = s.until
<1> DEFINE l == Session!Limited(s.limiter)
           t == Session!Failed(s)
<1>1. l = [start |-> l.start, emitted |-> l.emitted] /\ l.emitted \in 0 .. ErrorLimit
  BY LimitedFacts DEF LinkOK
<1> HIDE DEF l
<1>2. t = [s EXCEPT !.limiter = l]
  BY DEF Session!Failed, l
<1> HIDE DEF t
<1>3. s = [initialized |-> s.initialized, id |-> s.id, state |-> s.state,
            samples |-> s.samples, secure |-> s.secure, window |-> s.window,
            reserved |-> s.reserved, failures |-> s.failures, until |-> s.until,
            limiter |-> s.limiter, synced |-> s.synced, updated |-> s.updated,
            generation |-> s.generation]
  BY DEF LinkOK
<1>4. t = [initialized |-> s.initialized, id |-> s.id, state |-> s.state,
            samples |-> s.samples, secure |-> s.secure, window |-> s.window,
            reserved |-> s.reserved, failures |-> s.failures, until |-> s.until,
            limiter |-> l, synced |-> s.synced, updated |-> s.updated,
            generation |-> s.generation]
  BY <1>2, <1>3
<1>5. SameProgress(s, t) /\ SameSync(s, t) /\ t.failures = s.failures /\ t.until = s.until
      /\ t.limiter = l
  BY <1>4 DEF SameProgress, SameSync
<1>6. LinkOK(t)
  BY <1>1, <1>4 DEF LinkOK
<1> QED
  BY <1>5, <1>6 DEF t

\* A failure counts, and the last of them starts the back-off.
LEMMA AuthFailureFacts ==
  ASSUME NEW s, LinkOK(s)
  PROVE  LET t == Session!AuthFailure(s)
         IN  /\ LinkOK(t) /\ SameProgress(s, t) /\ SameSync(s, t)
             /\ t.failures = s.failures + 1
             /\ t.failures >= FailureLimit =>
                  t.until = (Session!Now + Session!Backoff(t.failures)) % TimeModulus
<1> DEFINE t == Session!AuthFailure(s)
           n == s.failures + 1
           u == IF n >= FailureLimit
                THEN (Session!Now + Session!Backoff(n)) % TimeModulus ELSE s.until
<1>1. s = [initialized |-> s.initialized, id |-> s.id, state |-> s.state,
            samples |-> s.samples, secure |-> s.secure, window |-> s.window,
            reserved |-> s.reserved, failures |-> s.failures, until |-> s.until,
            limiter |-> s.limiter, synced |-> s.synced, updated |-> s.updated,
            generation |-> s.generation]
  BY DEF LinkOK
<1>2. t = [s EXCEPT !.failures = n, !.until = u]
  BY DEF Session!AuthFailure
<1>3. n \in Nat
  BY DEF LinkOK
<1> HIDE DEF t, n, u
<1>4. t = [initialized |-> s.initialized, id |-> s.id, state |-> s.state,
            samples |-> s.samples, secure |-> s.secure, window |-> s.window,
            reserved |-> s.reserved, failures |-> n, until |-> u,
            limiter |-> s.limiter, synced |-> s.synced, updated |-> s.updated,
            generation |-> s.generation]
  BY <1>1, <1>2
<1>5. SameProgress(s, t) /\ SameSync(s, t) /\ t.failures = n /\ t.until = u /\ t.limiter = s.limiter
  BY <1>4 DEF SameProgress, SameSync
<1>6. LinkOK(t)
  BY <1>3, <1>4 DEF LinkOK
<1> QED
  BY <1>5, <1>6 DEF t, n, u

\* What a message does to the handshake.
LEMMA TransitionFacts ==
  ASSUME NEW s, LinkOK(s), NEW type
  PROVE  LET t == Session!Transition(s, type)
         IN  /\ LinkOK(t) /\ SameSync(s, t)
             /\ t.initialized = s.initialized /\ t.id = s.id /\ t.secure = s.secure
             /\ t.window = s.window /\ t.reserved = s.reserved
             /\ t.failures = s.failures /\ t.until = s.until
             /\ \/ t.state = s.state /\ t.samples = s.samples
                \/ /\ s.state = "SECURE_HELLO" /\ type = "HELLO"
                   /\ t.state = "NEGOTIATING" /\ t.samples = s.samples
                \/ /\ s.state = "NEGOTIATING" /\ type = "CAPABILITIES"
                   /\ t.state = "TIME_SYNC" /\ t.samples = 0
                \/ /\ s.state = "TIME_SYNC" /\ type = "TIME_SYNC"
                   /\ t.samples = s.samples + 1
                   /\ t.state = IF s.samples + 1 >= SampleTarget
                                THEN "STATE_SYNC" ELSE "TIME_SYNC"
                \/ /\ s.state = "STATE_SYNC" /\ type = "STATE_SNAPSHOT"
                   /\ t.state = "ONLINE" /\ t.samples = s.samples
                \/ /\ s.state \in {"DEGRADED", "RECOVERING"}
                   /\ t.state = "ONLINE" /\ t.samples = s.samples
<1> DEFINE t == Session!Transition(s, type)
<1>1. s = [initialized |-> s.initialized, id |-> s.id, state |-> s.state,
            samples |-> s.samples, secure |-> s.secure, window |-> s.window,
            reserved |-> s.reserved, failures |-> s.failures, until |-> s.until,
            limiter |-> s.limiter, synced |-> s.synced, updated |-> s.updated,
            generation |-> s.generation]
  BY DEF LinkOK
<1> DEFINE Moved(state, samples) ==
           [initialized |-> s.initialized, id |-> s.id, state |-> state,
            samples |-> samples, secure |-> s.secure, window |-> s.window,
            reserved |-> s.reserved, failures |-> s.failures, until |-> s.until,
            limiter |-> s.limiter, synced |-> s.synced, updated |-> s.updated,
            generation |-> s.generation]
<1>2. ASSUME NEW state \in States \ {"PAIRING"}, NEW samples \in 0 .. SampleTarget,
             s.initialized, state = "TIME_SYNC" => samples < SampleTarget
      PROVE  /\ LinkOK(Moved(state, samples)) /\ SameSync(s, Moved(state, samples))
             /\ Moved(state, samples).initialized = s.initialized
             /\ Moved(state, samples).id = s.id /\ Moved(state, samples).secure = s.secure
             /\ Moved(state, samples).window = s.window
             /\ Moved(state, samples).reserved = s.reserved
             /\ Moved(state, samples).failures = s.failures
             /\ Moved(state, samples).until = s.until
             /\ Moved(state, samples).state = state /\ Moved(state, samples).samples = samples
  BY <1>2 DEF LinkOK, SameSync
<1>3. CASE s.state = "SECURE_HELLO" /\ type = "HELLO"
  <2>1. t = [s EXCEPT !.state = "NEGOTIATING"]
    BY <1>3 DEF Session!Transition
  <2>2. t = Moved("NEGOTIATING", s.samples)
    BY <1>1, <2>1
  <2> HIDE DEF t, Moved
  <2> QED
    BY <1>2, <1>3, <2>2 DEF LinkOK, States, t
<1>4. CASE s.state = "NEGOTIATING" /\ type = "CAPABILITIES"
  <2>1. t = [s EXCEPT !.state = "TIME_SYNC", !.samples = 0]
    BY <1>4 DEF Session!Transition
  <2>2. t = Moved("TIME_SYNC", 0)
    BY <1>1, <2>1
  <2> HIDE DEF t, Moved
  <2>3. 0 \in 0 .. SampleTarget /\ 0 < SampleTarget
    BY SessionInstance
  <2> QED
    BY <1>2, <1>4, <2>2, <2>3 DEF LinkOK, States, t
<1>5. CASE s.state = "TIME_SYNC" /\ type = "TIME_SYNC"
  <2> DEFINE count == s.samples + 1
  <2>1. t = [s EXCEPT !.samples = @ + 1,
                      !.state = IF s.samples + 1 >= SampleTarget
                                THEN "STATE_SYNC" ELSE @]
    BY <1>5 DEF Session!Transition
  <2>2. count \in 0 .. SampleTarget /\ s.initialized /\ SampleTarget \in Nat
    BY <1>5, SessionInstance DEF LinkOK, States
  <2>3. CASE count >= SampleTarget
    <3>1. t = Moved("STATE_SYNC", count)
      BY <1>1, <2>1, <2>3
    <3>a. "STATE_SYNC" \in States \ {"PAIRING"} /\ ("STATE_SYNC" = "TIME_SYNC" => count < SampleTarget)
      BY <2>2 DEF States
    <3> HIDE DEF t, Moved, count
    <3>b. LinkOK(t) /\ SameSync(s, t)
      BY <1>2, <2>2, <3>a, <3>1
    <3>c. t.state = "STATE_SYNC" /\ t.samples = count
      BY <1>2, <2>2, <3>a, <3>1
    <3>2. /\ t.state = "STATE_SYNC" /\ t.samples = count
          /\ t.initialized = s.initialized /\ t.id = s.id /\ t.secure = s.secure
          /\ t.window = s.window /\ t.reserved = s.reserved
          /\ t.failures = s.failures /\ t.until = s.until
      BY <1>2, <2>2, <3>a, <3>1, <3>c, ZenonT(60)
    <3> QED
      BY <1>5, <2>3, <3>b, <3>2 DEF t, count
  <2>4. CASE ~(count >= SampleTarget)
    <3>1. t = Moved("TIME_SYNC", count)
      BY <1>1, <1>5, <2>1, <2>4
    <3>0. count < SampleTarget
      BY <2>2, <2>4
    <3>a. "TIME_SYNC" \in States \ {"PAIRING"} /\ ("TIME_SYNC" = "TIME_SYNC" => count < SampleTarget)
      BY <3>0, <2>2 DEF States
    <3> HIDE DEF t, Moved, count
    <3>b. LinkOK(t) /\ SameSync(s, t)
      BY <1>2, <2>2, <3>a, <3>1
    <3>c. t.state = "TIME_SYNC" /\ t.samples = count
      BY <1>2, <2>2, <3>a, <3>1
    <3>2. /\ t.state = "TIME_SYNC" /\ t.samples = count
          /\ t.initialized = s.initialized /\ t.id = s.id /\ t.secure = s.secure
          /\ t.window = s.window /\ t.reserved = s.reserved
          /\ t.failures = s.failures /\ t.until = s.until
      BY <1>2, <2>2, <3>a, <3>1, <3>c, ZenonT(60)
    <3> QED
      BY <1>5, <2>4, <3>b, <3>2 DEF t, count
  <2> QED
    BY <2>3, <2>4
<1>6. CASE s.state = "STATE_SYNC" /\ type = "STATE_SNAPSHOT"
  <2>1. t = [s EXCEPT !.state = "ONLINE"]
    BY <1>6 DEF Session!Transition
  <2>2. t = Moved("ONLINE", s.samples)
    BY <1>1, <2>1
  <2> HIDE DEF t, Moved
  <2> QED
    BY <1>2, <1>6, <2>2 DEF LinkOK, States, t
<1>7. CASE s.state \in {"DEGRADED", "RECOVERING"} /\ type = "HEARTBEAT"
  <2>1. t = [s EXCEPT !.state = "ONLINE"]
    BY <1>7 DEF Session!Transition
  <2>2. t = Moved("ONLINE", s.samples)
    BY <1>1, <2>1
  <2> HIDE DEF t, Moved
  <2> QED
    BY <1>2, <1>7, <2>2 DEF LinkOK, States, t
<1>8. CASE ~(\/ s.state = "SECURE_HELLO" /\ type = "HELLO"
             \/ s.state = "NEGOTIATING" /\ type = "CAPABILITIES"
             \/ s.state = "TIME_SYNC" /\ type = "TIME_SYNC"
             \/ s.state = "STATE_SYNC" /\ type = "STATE_SNAPSHOT"
             \/ s.state \in {"DEGRADED", "RECOVERING"} /\ type = "HEARTBEAT")
  <2>1. t = s
    BY <1>8 DEF Session!Transition
  <2> HIDE DEF t
  <2> QED
    BY <2>1 DEF SameSync, t
<1> QED
  BY <1>3, <1>4, <1>5, <1>6, <1>7, <1>8

LEMMA ContractFacts ==
  ASSUME NEW type \in SessionTypes
  PROVE  /\ Session!contract(type).zero = (type = "PAIR_REQUEST")
         /\ type = "PAIR_REQUEST" => /\ Session!contract(type).states = {"PAIRING"}
                                     /\ Session!contract(type).ack = FALSE
<1>1. CASE type = "PAIR_REQUEST"
  BY <1>1 DEF Session!contract
<1>2. CASE type = "HELLO"
  BY <1>2 DEF Session!contract
<1>3. CASE type = "CAPABILITIES"
  BY <1>3 DEF Session!contract
<1>4. CASE type = "TIME_SYNC"
  BY <1>4 DEF Session!contract
<1>5. CASE type = "HEARTBEAT"
  BY <1>5 DEF Session!contract
<1>6. CASE type = "SNAPSHOT_REQUEST"
  BY <1>6 DEF Session!contract
<1>7. CASE type = "STATE_SNAPSHOT"
  BY <1>7 DEF Session!contract
<1>8. CASE type = "COMMAND_REQUEST"
  BY <1>8 DEF Session!contract
<1> QED
  BY <1>1, <1>2, <1>3, <1>4, <1>5, <1>6, <1>7, <1>8, SessionInstance

\* What the policy passes: before a session the request to pair, in one only
\* frames of this session, protected.
LEMMA PolicyPasses ==
  ASSUME SessionInv, NEW f \in air, NEW protected \in BOOLEAN,
         Session!Policy(f, protected) = "NONE"
  PROVE  /\ f \in Frames /\ f.session = link.id
         /\ f.type # "PAIR_REQUEST" => /\ link.initialized /\ link.secure /\ link.id # 0
         /\ f.type = "PAIR_REQUEST" => ~link.initialized
         /\ f.type = "COMMAND_REQUEST" => Session!TimeSyncValid
<1>1. /\ f \in Frames /\ f.type \in SessionTypes /\ LinkOK(link)
      /\ f.type = "PAIR_REQUEST" => f.session = 0
  BY DEF SessionInv, TrafficTrue, Frames
<1> DEFINE c == Session!contract(f.type)
<1>2. /\ link.state \in c.states
      /\ ~(f.session = 0 /\ ~c.zero)
      /\ ~(~c.zero /\ link.id # 0 /\ f.session # link.id)
      /\ ~(~c.zero /\ ~(protected /\ link.initialized /\ link.secure))
      /\ ~(f.type = "COMMAND_REQUEST" /\ ~Session!TimeSyncValid)
  <2> HIDE DEF c
  <2>1. Session!Policy(f, protected) =
          IF Session!PeerRole \notin c.from THEN "ROLE_MISMATCH"
          ELSE IF link.state \notin c.states THEN "STATE_MISMATCH"
          ELSE IF f.session = 0 /\ ~c.zero THEN "SESSION_MISMATCH"
          ELSE IF ~c.zero /\ link.id # 0 /\ f.session # link.id
          THEN "SESSION_MISMATCH"
          ELSE IF ~c.zero /\ ~(protected /\ link.initialized /\ link.secure)
          THEN "ENCRYPTION_REQUIRED"
          ELSE IF f.type = "COMMAND_REQUEST" /\ ~Session!TimeSyncValid
          THEN "TIME_SYNC_STALE" ELSE "NONE"
    BY DEF Session!Policy, c
  <2> QED
    BY <2>1
<1>3. /\ c.zero = (f.type = "PAIR_REQUEST")
      /\ f.type = "PAIR_REQUEST" => c.states = {"PAIRING"}
  BY <1>1, ContractFacts
<1> HIDE DEF c
<1>4. CASE f.type = "PAIR_REQUEST"
  <2>1. link.state = "PAIRING"
    BY <1>2, <1>3, <1>4
  <2> QED
    BY <1>1, <1>2, <1>4, <2>1 DEF LinkOK
<1>5. CASE f.type # "PAIR_REQUEST"
  <2>1. c.zero = FALSE
    BY <1>3, <1>5
  <2>2. link.initialized /\ link.secure
    BY <1>1, <1>2, <2>1 DEF LinkOK
  <2> QED
    BY <1>1, <1>2, <1>5, <2>1, <2>2 DEF LinkOK
<1> QED
  BY <1>4, <1>5

\* A step that leaves progress, window and deliveries alone.
LEMMA QuietInv ==
  ASSUME SessionInv, LinkOK(link'), SameProgress(link, link'),
         now' \in SessionStart .. SessionEnd, peer' = peer, air' \subseteq air,
         delivered' = delivered, held' = held, acked' \subseteq delivered, TimesTrue'
  PROVE  SessionInv'
<1>1. /\ link'.initialized = link.initialized /\ link'.id = link.id
      /\ link'.state = link.state /\ link'.samples = link.samples
      /\ link'.secure = link.secure /\ link'.window = link.window
      /\ link'.reserved = link.reserved
  BY DEF SameProgress
<1>2. TrafficTrue'
  <2>1. TrafficTrue
    BY DEF SessionInv
  <2>2. /\ peer' = [role |-> peer'.role, session |-> peer'.session, next |-> peer'.next]
        /\ peer'.role \in Session!Both /\ peer'.session \in Nat
        /\ peer'.next \in 1 .. MaxSequence + 1 /\ peer'.session <= link'.id
        /\ air' \subseteq Frames /\ delivered' \subseteq Frames /\ IsFiniteSet(delivered')
    BY <1>1, <2>1 DEF TrafficTrue
  <2>3. \A f \in air' \cup delivered' :
          /\ f.session <= peer'.session
          /\ f.session = peer'.session => f.seq < peer'.next
          /\ f.type = "PAIR_REQUEST" => f.session = 0
    BY <2>1 DEF TrafficTrue
  <2>4. \A f \in air' \cup delivered', g \in air' \cup delivered' :
          f.session # 0 /\ f.session = g.session /\ f.seq = g.seq => f = g
    BY <2>1 DEF TrafficTrue
  <2> QED
    BY <2>2, <2>3, <2>4 DEF TrafficTrue, Session!Both
<1>3. WindowTrue'
  BY <1>1 DEF SessionInv, WindowTrue
<1>4. StagesEarned'
  BY <1>1 DEF SessionInv, StagesEarned, Stage, Session!Sent, Session!LocalRole, Session!PeerRole
<1> QED
  BY <1>1, <1>2, <1>3, <1>4 DEF SessionInv

-----------------------------------------------------------------------------
(* Times.                                                                  *)

LEMMA TimeApart ==
  ASSUME NEW m \in Nat \ {0}, NEW a \in Nat, NEW b \in Nat, b <= a, a - b < m
  PROVE  ((a % m) - (b % m)) % m = a - b
<1>1. PICK p \in Nat, q \in Nat : /\ a = p * m + (a % m) /\ b = q * m + (b % m)
                                  /\ (a % m) \in 0 .. m - 1 /\ (b % m) \in 0 .. m - 1
  <2>1. /\ a \div m \in Nat /\ a = (a \div m) * m + (a % m) /\ (a % m) \in 0 .. m - 1
    BY Z3
  <2>2. /\ b \div m \in Nat /\ b = (b \div m) * m + (b % m) /\ (b % m) \in 0 .. m - 1
    BY Z3
  <2> QED
    BY <2>1, <2>2
<1> DEFINE d == (a % m) - (b % m)
<1>2. d = a - b \/ d = a - b - m
  <2> DEFINE r == (a % m)
             t == (b % m)
  <2>1. /\ r \in 0 .. m - 1 /\ t \in 0 .. m - 1 /\ a = p * m + r /\ b = q * m + t
    BY <1>1
  <2> HIDE DEF r, t
  <2>2. q = p \/ q = p - 1
    <3>1. CASE q > p
      <4>1. q * m >= p * m + m
        BY <3>1, Z3
      <4> QED
        BY <2>1, <4>1
    <3>2. CASE q < p - 1
      <4>1. p * m >= q * m + 2 * m
        BY <3>2, Z3
      <4> QED
        BY <2>1, <4>1
    <3> QED
      BY <3>1, <3>2
  <2>3. CASE q = p
    BY <2>1, <2>3 DEF r, t
  <2>4. CASE q = p - 1
    <3>1. p * m = q * m + m
      BY <2>4, Z3
    <3> QED
      BY <2>1, <3>1 DEF r, t
  <2> QED
    BY <2>2, <2>3, <2>4
<1> HIDE DEF d
<1>3. (d % m) = a - b
  BY <1>2, Z3
<1> QED
  BY <1>3 DEF d

\* A deadline at most half a turn away and not yet there is not reached.
LEMMA NotReached ==
  ASSUME NEW m \in Nat \ {0}, m % 2 = 0, NEW n \in Nat, NEW d \in Nat, n < d, 2 * (d - n) <= m
  PROVE  ~(((n % m) - (d % m)) % m < m \div 2)
<1> DEFINE k == d - n
<1>1. ((d % m) - (n % m)) % m = d - n
  <2>1. d - n < m /\ n <= d
    OBVIOUS
  <2> QED
    BY <2>1, TimeApart
<1> DEFINE e == (d % m) - (n % m)
<1>2. e \in Int
  OBVIOUS
<1>3. e % m = k /\ k \in 1 .. m - 1
  BY <1>1
<1> HIDE DEF e, k
<1>4. (0 - e) % m = m - k
  <2> DEFINE q == e \div m
             u == 0 - q - 1
  <2>1. q \in Int /\ e = q * m + k
    BY <1>2, <1>3, Z3
  <2> HIDE DEF q
  <2>2. u \in Int /\ 0 - e = u * m + (m - k)
    BY <1>3, <2>1, Z3
  <2> HIDE DEF u
  <2> DEFINE x == 0 - e
             p == x \div m
             w == x % m
  <2>3. p \in Int /\ w \in 0 .. m - 1 /\ x = p * m + w
    BY <1>2, Z3
  <2>4. m - k \in 1 .. m - 1 /\ x = u * m + (m - k)
    BY <1>3, <2>2
  <2> HIDE DEF x, p, w
  <2>5. p = u
    <3>1. CASE p > u
      <4>1. p * m >= u * m + m
        BY <2>2, <2>3, <3>1, Z3
      <4> QED
        BY <2>2, <2>3, <2>4, <4>1
    <3>2. CASE p < u
      <4>1. u * m >= p * m + m
        BY <2>2, <2>3, <3>2, Z3
      <4> QED
        BY <2>2, <2>3, <2>4, <4>1
    <3> QED
      BY <2>2, <2>3, <3>1, <3>2
  <2>6. w = m - k
    BY <1>3, <2>2, <2>3, <2>4, <2>5
  <2> QED
    BY <2>6 DEF w, x
<1>5. (n % m) - (d % m) = 0 - e
  BY DEF e
<1>6. m - k >= m \div 2
  BY DEF k
<1> QED
  BY <1>4, <1>5, <1>6

-----------------------------------------------------------------------------
(* Delivery.                                                               *)

LEMMA AcceptedFacts ==
  ASSUME LinkOK(link), NEW f, NEW v \in Session!W!Window,
         v = Session!W!WindowAfter(link.window, f.seq)
  PROVE  LET t == Session!Accepted(f)
         IN  /\ LinkOK(t) /\ SameSync(link, t)
             /\ t.initialized = link.initialized /\ t.id = link.id
             /\ t.secure = link.secure /\ t.window = v
             /\ t.reserved = link.reserved + 1 /\ t.failures = 0 /\ t.until = 0
             /\ \E n : /\ n = IF link.initialized THEN Session!Transition(link, f.type) ELSE link
                       /\ t.state = n.state /\ t.samples = n.samples
<1> DEFINE n == IF link.initialized THEN Session!Transition(link, f.type) ELSE link
           t == Session!Accepted(f)
<1>1. /\ LinkOK(n) /\ SameSync(link, n)
      /\ n.initialized = link.initialized /\ n.id = link.id /\ n.secure = link.secure
      /\ n.reserved = link.reserved
  BY TransitionFacts DEF SameSync
<1>2. t = [n EXCEPT !.window = v, !.reserved = @ + 1, !.failures = 0, !.until = 0]
  BY DEF Session!Accepted
<1> HIDE DEF n, t
<1>3. n = [initialized |-> n.initialized, id |-> n.id, state |-> n.state,
            samples |-> n.samples, secure |-> n.secure, window |-> n.window,
            reserved |-> n.reserved, failures |-> n.failures, until |-> n.until,
            limiter |-> n.limiter, synced |-> n.synced, updated |-> n.updated,
            generation |-> n.generation]
  BY <1>1 DEF LinkOK
<1>4. t = [initialized |-> n.initialized, id |-> n.id, state |-> n.state,
            samples |-> n.samples, secure |-> n.secure, window |-> v,
            reserved |-> n.reserved + 1, failures |-> 0, until |-> 0,
            limiter |-> n.limiter, synced |-> n.synced, updated |-> n.updated,
            generation |-> n.generation]
  BY <1>2, <1>3
<1>5. n.reserved + 1 \in Nat
  BY <1>1 DEF LinkOK
<1>6. LinkOK(t)
  BY <1>1, <1>4, <1>5 DEF LinkOK
<1>7. /\ SameSync(link, t) /\ t.initialized = link.initialized /\ t.id = link.id
      /\ t.secure = link.secure /\ t.window = v
      /\ t.reserved = link.reserved + 1 /\ t.failures = 0 /\ t.until = 0
      /\ t.state = n.state /\ t.samples = n.samples
  BY <1>1, <1>4 DEF SameSync
<1> QED
  BY <1>6, <1>7 DEF n, t

LEMMA WindowDelivers ==
  ASSUME SessionInv, NEW f \in Frames, f.session = link.id,
         Session!W!WindowStatus(link.window, f.seq) = "OK",
         NEW v, v = Session!W!WindowAfter(link.window, f.seq),
         link'.window = v, link'.id = link.id, delivered' = delivered \cup {f}
  PROVE  v \in Session!W!Window /\ f \notin delivered /\ WindowTrue'
<1> DEFINE w == link.window
           seq == f.seq
<1>1. /\ seq \in 1 .. MaxSequence /\ w \in Session!W!Window
      /\ (w.initialized => w.newest \in 1 .. MaxSequence)
      /\ w.initialized \in BOOLEAN /\ w.seen \subseteq 0 .. SessionWindow - 1
      /\ \A g \in delivered : g.seq \in 1 .. MaxSequence
      /\ SessionWindow \in Nat /\ 1 <= SessionWindow /\ MaxSequence \in Nat
  BY SessionConstants DEF SessionInv, WindowTrue, TrafficTrue, Frames, LinkOK, Session!W!Window
<1>2. /\ ~w.initialized => delivered = {}
      /\ w.initialized => \E g \in delivered : g.seq = w.newest
      /\ \A g \in delivered :
              /\ g.session = link.id /\ g.seq <= w.newest
              /\ w.newest - g.seq < SessionWindow => w.newest - g.seq \in w.seen
      /\ \A a \in w.seen : \E g \in delivered : g.seq = w.newest - a
  BY DEF SessionInv, WindowTrue
<1>3. Session!W!WindowStatus(w, seq) = "OK" /\ v = Session!W!WindowAfter(w, seq)
      /\ f.session = link.id /\ link'.window = v /\ link'.id = link.id
  OBVIOUS
<1> HIDE DEF w
<1>4. w.initialized =>
        \/ seq > w.newest
        \/ /\ seq < w.newest /\ w.newest - seq \in 1 .. SessionWindow - 1
           /\ w.newest - seq \notin w.seen
  BY <1>1, <1>3, WindowSays
<1>5. /\ v \in Session!W!Window /\ v.initialized
      /\ v.newest = IF w.initialized /\ seq < w.newest THEN w.newest ELSE seq
      /\ v.seen = IF ~w.initialized THEN {0}
                  ELSE IF seq < w.newest THEN w.seen \cup {w.newest - seq}
                  ELSE Session!W!Shifted(w.seen, seq - w.newest)
  BY <1>1, <1>3, WindowTakes
<1>6. CASE ~w.initialized
  <2>1. delivered = {} /\ v.newest = seq /\ v.seen = {0}
    BY <1>2, <1>5, <1>6
  <2>2. seq - seq = 0 /\ seq - 0 = seq /\ seq <= seq
    BY <1>1
  <2> QED
    BY <1>1, <1>3, <1>5, <2>1, <2>2 DEF WindowTrue
<1>7. CASE w.initialized /\ seq < w.newest
  <2>1. v.newest = w.newest /\ v.seen = w.seen \cup {w.newest - seq}
        /\ w.newest \in 1 .. MaxSequence /\ w.newest - seq \in 1 .. SessionWindow - 1
        /\ w.newest - seq \notin w.seen
    BY <1>1, <1>4, <1>5, <1>7
  <2>2. \A g \in delivered : g.seq # seq
    BY <1>1, <1>2, <2>1
  <2>3. w.newest - (w.newest - seq) = seq /\ seq <= w.newest
    BY <1>1, <1>7, <2>1
  <2>4. \A g \in delivered' :
            /\ g.session = link'.id /\ g.seq <= v.newest
            /\ v.newest - g.seq < SessionWindow => v.newest - g.seq \in v.seen
    BY <1>2, <1>3, <2>1, <2>3
  <2>5. \A a \in v.seen : \E g \in delivered' : g.seq = v.newest - a
    BY <1>2, <2>1, <2>3
  <2>6. \E g \in delivered' : g.seq = v.newest
    BY <1>2, <1>7, <2>1
  <2> QED
    BY <1>3, <1>5, <2>1, <2>2, <2>4, <2>5, <2>6 DEF WindowTrue
<1>8. CASE w.initialized /\ ~(seq < w.newest)
  <2> DEFINE k == seq - w.newest
  <2>1. /\ v.newest = seq /\ v.seen = Session!W!Shifted(w.seen, k)
        /\ w.newest \in 1 .. MaxSequence /\ k \in Nat /\ k >= 1 /\ seq = w.newest + k
    BY <1>1, <1>4, <1>5, <1>8
  <2> HIDE DEF k
  <2>2. v.seen = {0} \cup {age + k : age \in {a \in w.seen : a + k < SessionWindow}}
    BY <2>1 DEF Session!W!Shifted
  <2>3. \A g \in delivered : g.seq < seq /\ g.seq # seq
    BY <1>1, <1>2, <2>1
  <2>4. ASSUME NEW g \in delivered'
        PROVE  /\ g.session = link'.id /\ g.seq <= v.newest
               /\ v.newest - g.seq < SessionWindow => v.newest - g.seq \in v.seen
    <3>1. CASE g = f
      <4>1. seq - seq = 0 /\ seq <= seq
        BY <1>1
      <4> QED
        BY <1>3, <2>1, <2>2, <3>1, <4>1
    <3>2. CASE g \in delivered
      <4>1. v.newest - g.seq = (w.newest - g.seq) + k /\ g.seq <= v.newest
            /\ w.newest - g.seq \in Nat
        BY <1>1, <1>2, <2>1, <3>2
      <4>2. ASSUME v.newest - g.seq < SessionWindow PROVE v.newest - g.seq \in v.seen
        <5>1. w.newest - g.seq < SessionWindow
          BY <1>1, <2>1, <4>1, <4>2
        <5>2. w.newest - g.seq \in w.seen /\ (w.newest - g.seq) + k < SessionWindow
          BY <1>2, <3>2, <4>1, <4>2, <5>1
        <5> QED
          BY <2>2, <4>1, <5>2
      <4> QED
        BY <1>2, <1>3, <3>2, <4>1, <4>2
    <3> QED
      BY <3>1, <3>2
  <2>5. ASSUME NEW a \in v.seen PROVE \E g \in delivered' : g.seq = v.newest - a
    <3>1. CASE a = 0
      <4>1. v.newest - a = seq
        BY <1>1, <2>1, <3>1
      <4> QED
        BY <4>1
    <3>2. CASE a # 0
      <4>1. PICK b \in w.seen : a = b + k
        BY <2>2, <3>2
      <4>2. PICK g \in delivered : g.seq = w.newest - b
        BY <1>2
      <4>3. v.newest - a = w.newest - b
        BY <1>1, <2>1, <4>1
      <4> QED
        BY <4>2, <4>3
    <3> QED
      BY <3>1, <3>2
  <2>6. \E g \in delivered' : g.seq = v.newest
    BY <2>1
  <2>7. f \notin delivered /\ v.newest \in 1 .. MaxSequence
    BY <1>1, <2>1, <2>3
  <2> QED
    BY <1>3, <1>5, <2>4, <2>5, <2>6, <2>7 DEF WindowTrue
<1> QED
  BY <1>6, <1>7, <1>8

-----------------------------------------------------------------------------
(* Steps of a session.                                                     *)

Taken(type, s) == {f \in s : f.type = type}

LEMMA SentIsTaken ==
  ASSUME NEW type
  PROVE  Session!Sent(type) = Taken(type, delivered)
         /\ Session!Sent(type)' = Taken(type, delivered')
  BY DEF Session!Sent, Taken

\* One more frame, never delivered before, counts one more.
LEMMA TakenGrows ==
  ASSUME NEW s, IsFiniteSet(s), NEW f, f \notin s, NEW type
  PROVE  /\ Taken(type, s) \subseteq Taken(type, s \cup {f})
         /\ f.type = type => f \in Taken(type, s \cup {f})
         /\ Cardinality(Taken(type, s)) \in Nat
         /\ Cardinality(Taken(type, s \cup {f})) =
              IF f.type = type THEN Cardinality(Taken(type, s)) + 1
              ELSE Cardinality(Taken(type, s))
<1>1. IsFiniteSet(Taken(type, s))
  <2>1. Taken(type, s) \subseteq s
    BY DEF Taken
  <2> QED
    BY <2>1, FS_Subset
<1>2. Cardinality(Taken(type, s)) \in Nat
  BY <1>1, FS_CardinalityType
<1>3. CASE f.type = type
  <2>1. Taken(type, s \cup {f}) = Taken(type, s) \cup {f} /\ f \notin Taken(type, s)
    BY <1>3 DEF Taken
  <2>2. Cardinality(Taken(type, s) \cup {f}) = Cardinality(Taken(type, s)) + 1
    BY <1>1, <2>1, FS_AddElement
  <2> QED
    BY <1>2, <1>3, <2>1, <2>2
<1>4. CASE f.type # type
  <2>1. Taken(type, s \cup {f}) = Taken(type, s)
    BY <1>4 DEF Taken
  <2> QED
    BY <1>2, <1>4, <2>1
<1> QED
  BY <1>3, <1>4

\* What a session owes to the stages after a step of the handshake.
LEMMA StageMoves ==
  ASSUME LinkOK(link), LinkOK(link'), StagesEarned, IsFiniteSet(delivered),
         NEW f, f \notin delivered, delivered' = delivered \cup {f},
         peer' = peer, link'.secure = link.secure, f.type # "PAIR_REQUEST" => link.secure,
         \/ link'.state = link.state /\ link'.samples = link.samples
         \/ /\ link.state = "SECURE_HELLO" /\ f.type = "HELLO"
            /\ link'.state = "NEGOTIATING" /\ link'.samples = link.samples
         \/ /\ link.state = "NEGOTIATING" /\ f.type = "CAPABILITIES"
            /\ link'.state = "TIME_SYNC" /\ link'.samples = 0
         \/ /\ link.state = "TIME_SYNC" /\ f.type = "TIME_SYNC"
            /\ link'.samples = link.samples + 1
            /\ link'.state = IF link.samples + 1 >= SampleTarget
                             THEN "STATE_SYNC" ELSE "TIME_SYNC"
         \/ /\ link.state = "STATE_SYNC" /\ f.type = "STATE_SNAPSHOT"
            /\ link'.state = "ONLINE" /\ link'.samples = link.samples
         \/ /\ link.state \in {"DEGRADED", "RECOVERING"}
            /\ link'.state = "ONLINE" /\ link'.samples = link.samples
  PROVE  StagesEarned'
<1> DEFINE count == Cardinality(Taken("TIME_SYNC", delivered))
           after == Cardinality(Taken("TIME_SYNC", delivered'))
           hello == Taken("HELLO", delivered)
           hello2 == Taken("HELLO", delivered')
           caps == Taken("CAPABILITIES", delivered)
           caps2 == Taken("CAPABILITIES", delivered')
           snap == Taken("STATE_SNAPSHOT", delivered)
           snap2 == Taken("STATE_SNAPSHOT", delivered')
           controller == Session!LocalRole = "CONTROLLER"
<1>1. /\ hello \subseteq hello2 /\ (f.type = "HELLO" => f \in hello2)
      /\ caps \subseteq caps2 /\ (f.type = "CAPABILITIES" => f \in caps2)
      /\ snap \subseteq snap2 /\ (f.type = "STATE_SNAPSHOT" => f \in snap2)
  BY TakenGrows
<1>2. count \in Nat /\ after = IF f.type = "TIME_SYNC" THEN count + 1 ELSE count
  BY TakenGrows
<1>3. /\ Stage(1) => hello # {}
      /\ Stage(2) => caps # {} /\ link.samples <= count
      /\ Stage(3) => link.samples >= SampleTarget
      /\ Stage(4) => link.secure
      /\ Stage(4) /\ controller => snap # {}
  BY SentIsTaken DEF StagesEarned
<1>4. /\ (Stage(1)' => hello2 # {})
      /\ (Stage(2)' => caps2 # {} /\ link'.samples <= after)
      /\ (Stage(3)' => link'.samples >= SampleTarget)
      /\ (Stage(4)' => link'.secure)
      /\ (Stage(4)' /\ controller => snap2 # {})
      => StagesEarned'
  <2>1. Session!LocalRole' = Session!LocalRole
    BY DEF Session!LocalRole, Session!PeerRole
  <2> QED
    BY <2>1, SentIsTaken DEF StagesEarned
<1>5. link.samples \in Nat /\ link'.samples \in Nat /\ SampleTarget \in Nat
  BY SessionInstance DEF LinkOK
<1> HIDE DEF count, after, hello, hello2, caps, caps2, snap, snap2, controller
<1>6. CASE link'.state = link.state /\ link'.samples = link.samples
  BY <1>1, <1>2, <1>3, <1>4, <1>5, <1>6 DEF Stage
<1>7. CASE /\ link.state = "SECURE_HELLO" /\ f.type = "HELLO"
           /\ link'.state = "NEGOTIATING" /\ link'.samples = link.samples
  BY <1>1, <1>4, <1>7 DEF Stage, Late
<1>8. CASE /\ link.state = "NEGOTIATING" /\ f.type = "CAPABILITIES"
           /\ link'.state = "TIME_SYNC" /\ link'.samples = 0
  <2>1. hello2 # {} /\ caps2 # {} /\ 0 <= after
    BY <1>1, <1>2, <1>3, <1>8 DEF Stage
  <2> QED
    BY <1>4, <1>8, <2>1 DEF Stage, Late
<1>9. CASE /\ link.state = "TIME_SYNC" /\ f.type = "TIME_SYNC"
           /\ link'.samples = link.samples + 1
           /\ link'.state = IF link.samples + 1 >= SampleTarget
                            THEN "STATE_SYNC" ELSE "TIME_SYNC"
  <2>1. hello2 # {} /\ caps2 # {} /\ link'.samples <= after
    BY <1>1, <1>2, <1>3, <1>5, <1>9 DEF Stage
  <2>2. link'.state \in {"STATE_SYNC", "TIME_SYNC"}
        /\ (link'.state = "STATE_SYNC" => link'.samples >= SampleTarget)
    BY <1>9
  <2> QED
    BY <1>4, <2>1, <2>2 DEF Stage, Late
<1>10. CASE /\ link.state = "STATE_SYNC" /\ f.type = "STATE_SNAPSHOT"
            /\ link'.state = "ONLINE" /\ link'.samples = link.samples
  BY <1>1, <1>2, <1>3, <1>4, <1>5, <1>10 DEF Stage, Late
<1>11. CASE /\ link.state \in {"DEGRADED", "RECOVERING"}
            /\ link'.state = "ONLINE" /\ link'.samples = link.samples
  BY <1>1, <1>2, <1>3, <1>4, <1>5, <1>11 DEF Stage, Late
<1> QED
  BY <1>6, <1>7, <1>8, <1>9, <1>10, <1>11

\* A frame delivered.
LEMMA DeliverInv ==
  ASSUME SessionInv, NEW f \in air, f.session = link.id,
         f.type # "PAIR_REQUEST" => link.secure,
         Session!W!WindowStatus(link.window, f.seq) = "OK", link.reserved < RxLimit,
         link' = Session!Accepted(f), delivered' = delivered \cup {f}, held' = held + 1,
         acked' \subseteq delivered', failed' = [run |-> 0, at |-> 0],
         now' = now, peer' = peer, air' = air, syncedAt' = syncedAt
  PROVE  SessionInv' /\ f \notin delivered
<1> DEFINE v == Session!W!WindowAfter(link.window, f.seq)
           n == IF link.initialized THEN Session!Transition(link, f.type) ELSE link
<1>1. /\ f \in Frames /\ LinkOK(link) /\ link.window \in Session!W!Window
      /\ f.seq \in 1 .. MaxSequence /\ (link.window.initialized => link.window.newest \in 1 .. MaxSequence)
      /\ link.reserved = held /\ held \in 0 .. RxLimit /\ RxLimit \in Nat
      /\ IsFiniteSet(delivered) /\ now \in SessionStart .. SessionEnd /\ StagesEarned
  BY SessionInstance DEF SessionInv, TrafficTrue, WindowTrue, LinkOK, Frames
<1>2. v \in Session!W!Window
  BY <1>1, WindowTakes
<1>3. /\ LinkOK(link') /\ SameSync(link, link')
      /\ link'.initialized = link.initialized /\ link'.id = link.id
      /\ link'.secure = link.secure /\ link'.window = v
      /\ link'.reserved = link.reserved + 1 /\ link'.failures = 0 /\ link'.until = 0
      /\ link'.state = n.state /\ link'.samples = n.samples
  <2> HIDE DEF v
  <2>1. v = Session!W!WindowAfter(link.window, f.seq)
    BY DEF v
  <2> QED
    BY <1>1, <1>2, <2>1, AcceptedFacts
<1>4. f \notin delivered /\ WindowTrue'
  BY <1>1, <1>3, WindowDelivers
<1>5. StagesEarned'
  <2>1. \/ n.state = link.state /\ n.samples = link.samples
        \/ /\ link.state = "SECURE_HELLO" /\ f.type = "HELLO"
           /\ n.state = "NEGOTIATING" /\ n.samples = link.samples
        \/ /\ link.state = "NEGOTIATING" /\ f.type = "CAPABILITIES"
           /\ n.state = "TIME_SYNC" /\ n.samples = 0
        \/ /\ link.state = "TIME_SYNC" /\ f.type = "TIME_SYNC"
           /\ n.samples = link.samples + 1
           /\ n.state = IF link.samples + 1 >= SampleTarget
                        THEN "STATE_SYNC" ELSE "TIME_SYNC"
        \/ /\ link.state = "STATE_SYNC" /\ f.type = "STATE_SNAPSHOT"
           /\ n.state = "ONLINE" /\ n.samples = link.samples
        \/ /\ link.state \in {"DEGRADED", "RECOVERING"}
           /\ n.state = "ONLINE" /\ n.samples = link.samples
    BY <1>1, TransitionFacts
  <2> HIDE DEF n
  <2> QED
    BY <1>1, <1>3, <1>4, <2>1, StageMoves
<1>6. TrafficTrue'
  <2>1. TrafficTrue
    BY DEF SessionInv
  <2>2. air' \cup delivered' = air \cup delivered
    OBVIOUS
  <2>3. /\ peer' = [role |-> peer'.role, session |-> peer'.session, next |-> peer'.next]
        /\ peer'.role \in Session!Both /\ peer'.session \in Nat
        /\ peer'.next \in 1 .. MaxSequence + 1 /\ peer'.session <= link'.id
        /\ air' \subseteq Frames /\ delivered' \subseteq Frames
    BY <1>1, <1>3, <2>1 DEF TrafficTrue
  <2>4. IsFiniteSet(delivered')
    BY <1>1, FS_AddElement
  <2>5. \A g \in air' \cup delivered' :
          /\ g.session <= peer'.session
          /\ g.session = peer'.session => g.seq < peer'.next
          /\ g.type = "PAIR_REQUEST" => g.session = 0
    BY <2>1, <2>2 DEF TrafficTrue
  <2>6. \A g \in air' \cup delivered', h \in air' \cup delivered' :
          g.session # 0 /\ g.session = h.session /\ g.seq = h.seq => g = h
    BY <2>1, <2>2 DEF TrafficTrue
  <2> QED
    BY <2>3, <2>4, <2>5, <2>6 DEF TrafficTrue, Session!Both
<1>7. TimesTrue'
  <2>1. failed'.run = 0 /\ link'.failures = 0 /\ ~(0 >= FailureLimit)
    BY <1>3, SessionInstance
  <2>2. link'.synced = link.synced /\ link'.updated = link.updated
    BY <1>3 DEF SameSync
  <2> QED
    BY <2>1, <2>2 DEF SessionInv, TimesTrue
<1>8. link'.reserved = held' /\ held' \in 0 .. RxLimit
  BY <1>1, <1>3
<1> QED
  BY <1>1, <1>3, <1>4, <1>5, <1>6, <1>7, <1>8 DEF SessionInv

-----------------------------------------------------------------------------
LEMMA ModOfSum ==
  ASSUME NEW m \in Nat \ {0}, NEW a \in Nat, NEW b \in Nat
  PROVE  ((a % m) + b) % m = (a + b) % m
<1> DEFINE q == a \div m
           r == a % m
<1>1. q \in Nat /\ r \in 0 .. m - 1 /\ a = q * m + r
  BY Z3
<1> HIDE DEF q, r
<1>2. r + b \in Nat /\ a + b = q * m + (r + b)
  BY <1>1
<1> DEFINE x == r + b
           p == x \div m
           w == x % m
<1>3. p \in Nat /\ w \in 0 .. m - 1 /\ x = p * m + w
  BY <1>2, Z3
<1> DEFINE y == a + b
           u == y \div m
           z == y % m
<1>4. u \in Nat /\ z \in 0 .. m - 1 /\ y = u * m + z /\ y = q * m + x
  BY <1>2, Z3
<1> HIDE DEF x, p, w, y, u, z
<1>5. u = q + p
  <2> DEFINE v == q + p
  <2>1. v \in Nat /\ v * m = q * m + p * m
    BY <1>1, <1>3, Z3
  <2> HIDE DEF v
  <2>2. y = v * m + w
    BY <1>1, <1>3, <1>4, <2>1
  <2>3. CASE u > v
    <3>1. u * m >= v * m + m
      BY <1>4, <2>1, <2>3, Z3
    <3> QED
      BY <1>3, <1>4, <2>2, <3>1, <2>1
  <2>4. CASE u < v
    <3>1. v * m >= u * m + m
      BY <1>4, <2>1, <2>4, Z3
    <3> QED
      BY <1>3, <1>4, <2>2, <3>1, <2>1
  <2>5. u = v
    BY <1>4, <2>1, <2>3, <2>4 DEF v
  <2> QED
    BY <2>5 DEF v
<1>6. u * m = q * m + p * m
  BY <1>1, <1>3, <1>5, Z3
<1>7. w = z
  BY <1>1, <1>3, <1>4, <1>6
<1> QED
  BY <1>7 DEF w, z, x, y, r

LEMMA BackoffIsNat ==
  ASSUME NEW n \in Nat, n >= FailureLimit
  PROVE  Session!Backoff(n) \in 0 .. BackoffMax
<1>1. n - FailureLimit \in Nat /\ BackoffSteps \in Nat /\ BackoffMax \in Nat
  BY SessionInstance
<1> DEFINE k == Session!Least(n - FailureLimit, BackoffSteps)
<1>2. k \in 0 .. BackoffSteps
  BY <1>1 DEF Session!Least
<1> DEFINE b == BackoffBase * 2 ^ k
<1>3. b \in Nat
  <2> HIDE DEF k
  <2> QED
    BY <1>2, SessionInstance
<1> HIDE DEF k
<1>4. Session!Backoff(n) = Session!Least(b, BackoffMax)
  BY DEF Session!Backoff, k
<1> HIDE DEF b
<1> QED
  BY <1>1, <1>3, <1>4 DEF Session!Least

\* A number the window has was delivered in this very frame.
LEMMA DuplicateDelivered ==
  ASSUME SessionInv, NEW f \in air, f.session = link.id, f.session # 0,
         Session!W!WindowStatus(link.window, f.seq) = "DUPLICATE"
  PROVE  f \in delivered
<1> DEFINE w == link.window
<1>1. /\ f \in Frames /\ w \in Session!W!Window /\ f.seq \in 1 .. MaxSequence
      /\ (w.initialized => w.newest \in 1 .. MaxSequence) /\ MaxSequence \in Nat
      /\ \A g \in delivered : g.seq \in 1 .. MaxSequence
  BY SessionConstants DEF SessionInv, TrafficTrue, WindowTrue, LinkOK, Frames
<1>2. /\ w.initialized
      /\ f.seq = w.newest \/ (f.seq < w.newest /\ w.newest - f.seq \in w.seen)
  BY <1>1, WindowSays
<1>3. PICK g \in delivered : g.seq = f.seq
  <2>1. CASE f.seq = w.newest
    BY <1>2, <2>1 DEF SessionInv, WindowTrue
  <2>2. CASE f.seq < w.newest /\ w.newest - f.seq \in w.seen
    <3>1. PICK g \in delivered : g.seq = w.newest - (w.newest - f.seq)
      BY <2>2 DEF SessionInv, WindowTrue
    <3>2. w.newest - (w.newest - f.seq) = f.seq
      BY <1>1, <1>2
    <3> QED
      BY <3>1, <3>2
  <2> QED
    BY <1>2, <2>1, <2>2
<1>4. g.session = link.id
  BY DEF SessionInv, WindowTrue
<1>5. f = g
  BY <1>3, <1>4 DEF SessionInv, TrafficTrue
<1> QED
  BY <1>5

-----------------------------------------------------------------------------
(* What decoding a frame can do.                                           *)

Refuses ==
    /\ link' = Session!Failed(link) /\ failed' = failed
    /\ delivered' = delivered /\ held' = held /\ acked' = acked

Fails ==
    /\ link' = Session!Failed(Session!AuthFailure(link))
    /\ failed' = [run |-> failed.run + 1, at |-> now]
    /\ delivered' = delivered /\ held' = held /\ acked' = acked

Repeats(f, protected) ==
    /\ Session!Policy(f, protected) = "NONE"
    /\ Session!W!WindowStatus(link.window, f.seq) = "DUPLICATE"
    /\ link' = link /\ failed' = failed
    /\ delivered' = delivered /\ held' = held
    /\ acked' = IF Session!contract(f.type).ack THEN acked \cup {f} ELSE acked

Delivers(f, protected) ==
    /\ Session!AuthAllowed /\ Session!Policy(f, protected) = "NONE"
    /\ Session!W!WindowStatus(link.window, f.seq) = "OK"
    /\ link.reserved < RxLimit /\ link' = Session!Accepted(f)
    /\ failed' = [run |-> 0, at |-> 0]
    /\ delivered' = delivered \cup {f} /\ held' = held + 1
    /\ acked' \subseteq acked \cup {f}

LEMMA DecodeCases ==
  ASSUME NEW f, NEW damaged \in BOOLEAN, NEW protected \in BOOLEAN,
         Session!Decode(f, damaged, protected)
  PROVE  /\ f \in air /\ UNCHANGED <<now, peer, air, syncedAt>>
         /\ \/ Refuses \/ Fails
            \/ Repeats(f, protected) \/ Delivers(f, protected)
<1> DEFINE reason == Session!Policy(f, protected)
           status == Session!W!WindowStatus(link.window, f.seq)
           Answered(deliver) ==
             CASE deliver -> [run |-> 0, at |-> 0]
               [] Session!AuthAllowed /\ ~damaged /\ reason = "ENCRYPTION_REQUIRED" ->
                    [run |-> failed.run + 1, at |-> now]
               [] OTHER -> failed
           Outcome(s, deliver, answer) ==
             /\ link' = s
             /\ delivered' = IF deliver THEN delivered \cup {f} ELSE delivered
             /\ held' = IF deliver THEN held + 1 ELSE held
             /\ acked' = IF answer /\ Session!contract(f.type).ack
                         THEN acked \cup {f} ELSE acked
             /\ failed' = Answered(deliver)
<1>1. /\ f \in air /\ UNCHANGED <<now, peer, air, syncedAt>>
      /\ \/ (~Session!AuthAllowed \/ damaged) /\ Outcome(Session!Failed(link), FALSE, FALSE)
         \/ /\ Session!AuthAllowed /\ ~damaged
            /\ \/ /\ reason = "ENCRYPTION_REQUIRED"
                  /\ Outcome(Session!Failed(Session!AuthFailure(link)), FALSE, FALSE)
               \/ /\ reason \notin {"NONE", "ENCRYPTION_REQUIRED"}
                  /\ Outcome(Session!Failed(link), FALSE, FALSE)
               \/ /\ reason = "NONE" /\ status = "DUPLICATE"
                  /\ Outcome(link, FALSE, TRUE)
               \/ /\ reason = "NONE" /\ status = "STALE"
                  /\ Outcome(Session!Failed(link), FALSE, FALSE)
               \/ /\ reason = "NONE" /\ status = "OK"
                  /\ link.reserved >= RxLimit
                  /\ Outcome(Session!Failed(link), FALSE, FALSE)
               \/ /\ reason = "NONE" /\ status = "OK"
                  /\ link.reserved < RxLimit
                  /\ Outcome(Session!Accepted(f), TRUE, TRUE)
  BY DEF Session!Decode, Session!Duplicate, Session!Refused
<1>2. /\ reason = "NONE" => Answered(TRUE) = [run |-> 0, at |-> 0]
      /\ Session!AuthAllowed /\ ~damaged /\ reason = "ENCRYPTION_REQUIRED" =>
           Answered(FALSE) = [run |-> failed.run + 1, at |-> now]
      /\ ~(Session!AuthAllowed /\ ~damaged /\ reason = "ENCRYPTION_REQUIRED") =>
           Answered(FALSE) = failed
  <2> DEFINE guilty == Session!AuthAllowed /\ ~damaged /\ reason = "ENCRYPTION_REQUIRED"
  <2>1. \A deliver \in BOOLEAN :
          Answered(deliver) = CASE deliver -> [run |-> 0, at |-> 0]
                                [] guilty -> [run |-> failed.run + 1, at |-> now]
                                [] OTHER -> failed
    OBVIOUS
  <2> HIDE DEF reason, guilty, Answered
  <2>2. ~guilty => Answered(TRUE) = [run |-> 0, at |-> 0]
    BY <2>1
  <2>3. guilty => Answered(FALSE) = [run |-> failed.run + 1, at |-> now]
    BY <2>1
  <2>4. ~guilty => Answered(FALSE) = failed
    BY <2>1
  <2> QED
    BY <2>2, <2>3, <2>4 DEF guilty
<1> HIDE DEF Answered
<1>3. /\ \A s : Outcome(s, FALSE, FALSE) =>
            /\ link' = s /\ failed' = Answered(FALSE)
            /\ delivered' = delivered /\ held' = held /\ acked' = acked
      /\ \A s : Outcome(s, FALSE, TRUE) =>
            /\ link' = s /\ failed' = Answered(FALSE)
            /\ delivered' = delivered /\ held' = held
            /\ acked' = IF Session!contract(f.type).ack THEN acked \cup {f} ELSE acked
      /\ \A s : Outcome(s, TRUE, TRUE) =>
            /\ link' = s /\ failed' = Answered(TRUE)
            /\ delivered' = delivered \cup {f} /\ held' = held + 1
            /\ acked' \subseteq acked \cup {f}
  OBVIOUS
<1> HIDE DEF Outcome
<1>4. CASE /\ ~Session!AuthAllowed \/ damaged
           /\ Outcome(Session!Failed(link), FALSE, FALSE)
  BY <1>1, <1>2, <1>3, <1>4 DEF Refuses
<1>5. CASE /\ Session!AuthAllowed /\ ~damaged /\ reason = "ENCRYPTION_REQUIRED"
           /\ Outcome(Session!Failed(Session!AuthFailure(link)), FALSE, FALSE)
  BY <1>1, <1>2, <1>3, <1>5 DEF Fails
<1>6. CASE reason # "ENCRYPTION_REQUIRED" /\ Outcome(Session!Failed(link), FALSE, FALSE)
  BY <1>1, <1>2, <1>3, <1>6 DEF Refuses
<1>7. CASE /\ Session!AuthAllowed /\ reason = "NONE" /\ status = "DUPLICATE"
           /\ Outcome(link, FALSE, TRUE)
  BY <1>1, <1>2, <1>3, <1>7 DEF Repeats
<1>8. CASE /\ Session!AuthAllowed /\ reason = "NONE" /\ status = "OK"
           /\ link.reserved < RxLimit /\ Outcome(Session!Accepted(f), TRUE, TRUE)
  BY <1>1, <1>2, <1>3, <1>8 DEF Delivers
<1> HIDE DEF reason, status
<1> QED
  BY <1>1, <1>4, <1>5, <1>6, <1>7, <1>8

\* A frame refused or answered leaves the times of the code true.
LEMMA QuietTimes ==
  ASSUME TimesTrue, SameSync(link, link'), link'.failures = link.failures,
         link'.until = link.until, failed' = failed, syncedAt' = syncedAt, now' = now
  PROVE  TimesTrue'
  BY DEF TimesTrue, SameSync, Session!Backoff, Session!Least

LEMMA DecodeInv ==
  ASSUME SessionInv, NEW f \in air, NEW damaged \in BOOLEAN, NEW protected \in BOOLEAN,
         Session!Decode(f, damaged, protected)
  PROVE  SessionInv'
<1>1. /\ f \in air /\ now' = now /\ peer' = peer /\ air' = air /\ syncedAt' = syncedAt
  BY DecodeCases
<1>2. /\ LinkOK(link) /\ TimesTrue /\ acked \subseteq delivered
      /\ now \in SessionStart .. SessionEnd
  BY DEF SessionInv
<1>3. CASE Refuses
  <2> USE <1>3 DEF Refuses
  <2>1. /\ LinkOK(link') /\ SameProgress(link, link') /\ SameSync(link, link')
        /\ link'.failures = link.failures /\ link'.until = link.until
    BY <1>2, <1>3, FailedFacts
  <2>2. TimesTrue'
    BY <1>1, <1>2, <1>3, <2>1, QuietTimes
  <2> QED
    BY <1>1, <1>2, <1>3, <2>1, <2>2, QuietInv
<1>4. CASE Fails
  <2> USE <1>4 DEF Fails
  <2> DEFINE t == Session!AuthFailure(link)
  <2>1. /\ LinkOK(t) /\ SameProgress(link, t) /\ SameSync(link, t)
        /\ t.failures = link.failures + 1
        /\ t.failures >= FailureLimit =>
             t.until = (Session!Now + Session!Backoff(t.failures)) % TimeModulus
    BY <1>2, AuthFailureFacts
  <2> HIDE DEF t
  <2>2. /\ LinkOK(link') /\ SameProgress(t, link') /\ SameSync(t, link')
        /\ link'.failures = t.failures /\ link'.until = t.until
    <3>1. link' = Session!Failed(t)
      BY <1>4 DEF t
    <3> QED
      BY <2>1, <3>1, FailedFacts
  <2>3. SameProgress(link, link') /\ SameSync(link, link')
    BY <2>1, <2>2 DEF SameProgress, SameSync
  <2>4. TimesTrue'
    <3>1. failed'.run = link'.failures /\ failed'.at = now
      BY <1>2, <1>4, <2>1, <2>2 DEF TimesTrue
    <3>2. failed'.run >= FailureLimit =>
            /\ failed'.at \in SessionStart .. now
            /\ link'.until = (failed'.at + Session!Backoff(failed'.run)) % TimeModulus
      <4>1. failed'.at \in SessionStart .. now
        BY <1>2, <3>1, SessionInstance
      <4>2. ASSUME link'.failures >= FailureLimit
            PROVE  link'.until = (now + Session!Backoff(link'.failures)) % TimeModulus
        <5>1. link'.until = (Session!Now + Session!Backoff(link'.failures)) % TimeModulus
          BY <2>1, <2>2, <4>2
        <5>2. (Session!Now + Session!Backoff(link'.failures)) % TimeModulus
                = (now + Session!Backoff(link'.failures)) % TimeModulus
          <6>1. link'.failures \in Nat
            BY <2>2 DEF LinkOK
          <6>2. /\ now \in Nat /\ TimeModulus \in Nat \ {0}
                /\ Session!Backoff(link'.failures) \in Nat
            BY <1>2, <4>2, <6>1, BackoffIsNat, SessionInstance
          <6> QED
            BY <6>2, ModOfSum DEF Session!Now
        <5> QED
          BY <5>1, <5>2
      <4> QED
        BY <3>1, <4>1, <4>2
    <3>3. link'.synced => /\ syncedAt' \in SessionStart .. now
                          /\ link'.updated = syncedAt' % TimeModulus
      BY <1>1, <1>2, <2>3 DEF TimesTrue, SameSync
    <3>4. \A k : Session!Backoff(k)' = Session!Backoff(k)
      BY DEF Session!Backoff, Session!Least
    <3> QED
      BY <1>1, <3>1, <3>2, <3>3 DEF TimesTrue, Session!Backoff, Session!Least
  <2> QED
    BY <1>1, <1>2, <1>4, <2>2, <2>3, <2>4, QuietInv
<1>5. CASE Repeats(f, protected)
  <2> USE <1>5 DEF Repeats
  <2>1. acked' \subseteq delivered
    <3>1. CASE ~Session!contract(f.type).ack
      BY <1>2, <1>5, <3>1
    <3>2. CASE Session!contract(f.type).ack
      <4>1. /\ f \in Frames /\ f.type \in SessionTypes /\ f.session = link.id
            /\ f.type # "PAIR_REQUEST" => link.id # 0
        BY <1>5, PolicyPasses DEF Frames
      <4>2. f.session # 0
        BY <3>2, <4>1, ContractFacts
      <4>3. f \in delivered
        BY <1>5, <4>1, <4>2, DuplicateDelivered
      <4> QED
        BY <1>2, <1>5, <4>3
    <3> QED
      BY <3>1, <3>2
  <2>2. SameProgress(link, link') /\ SameSync(link, link')
    BY <1>5 DEF SameProgress, SameSync
  <2>3. TimesTrue'
    BY <1>1, <1>2, <1>5, <2>2, QuietTimes
  <2>4. LinkOK(link')
    BY <1>2, <1>5
  <2> QED
    BY <1>1, <1>2, <1>5, <2>1, <2>2, <2>3, <2>4, QuietInv
<1>6. CASE Delivers(f, protected)
  <2> USE <1>6 DEF Delivers
  <2>1. f.session = link.id /\ (f.type # "PAIR_REQUEST" => link.secure)
    BY <1>6, PolicyPasses
  <2>2. acked' \subseteq delivered'
    BY <1>2, <1>6
  <2> QED
    BY <1>1, <1>6, <2>1, <2>2, DeliverInv
<1> QED
  BY <1>3, <1>4, <1>5, <1>6, DecodeCases

-----------------------------------------------------------------------------
(* The other steps.                                                        *)

LEMMA SameTraffic ==
  ASSUME TrafficTrue, link'.id = link.id, peer' = peer, air' \subseteq air,
         delivered' = delivered
  PROVE  TrafficTrue'
<1>2. /\ peer' = [role |-> peer'.role, session |-> peer'.session, next |-> peer'.next]
      /\ peer'.role \in Session!Both /\ peer'.session \in Nat
      /\ peer'.next \in 1 .. MaxSequence + 1 /\ peer'.session <= link'.id
      /\ air' \subseteq Frames /\ delivered' \subseteq Frames /\ IsFiniteSet(delivered')
  BY DEF TrafficTrue
<1>3. \A f \in air' \cup delivered' :
        /\ f.session <= peer'.session
        /\ f.session = peer'.session => f.seq < peer'.next
        /\ f.type = "PAIR_REQUEST" => f.session = 0
  BY DEF TrafficTrue
<1>4. \A f \in air' \cup delivered', g \in air' \cup delivered' :
        f.session # 0 /\ f.session = g.session /\ f.seq = g.seq => f = g
  BY DEF TrafficTrue
<1> QED
  BY <1>2, <1>3, <1>4 DEF TrafficTrue, Session!Both

LEMMA ReleaseInv ==
  ASSUME SessionInv, Session!Release PROVE SessionInv'
<1>1. /\ link.reserved > 0 /\ held > 0 /\ link' = [link EXCEPT !.reserved = @ - 1]
      /\ held' = held - 1 /\ now' = now /\ peer' = peer /\ air' = air
      /\ delivered' = delivered /\ acked' = acked /\ failed' = failed /\ syncedAt' = syncedAt
  BY DEF Session!Release
<1>2. /\ LinkOK(link) /\ link.reserved = held /\ held \in 0 .. RxLimit /\ TimesTrue
      /\ RxLimit \in Nat /\ TrafficTrue
  BY SessionInstance DEF SessionInv
<1>3. link' = [initialized |-> link.initialized, id |-> link.id, state |-> link.state,
               samples |-> link.samples, secure |-> link.secure, window |-> link.window,
               reserved |-> link.reserved - 1, failures |-> link.failures,
               until |-> link.until, limiter |-> link.limiter, synced |-> link.synced,
               updated |-> link.updated, generation |-> link.generation]
  BY <1>1, <1>2 DEF LinkOK
<1>4. link.reserved - 1 \in Nat
  BY <1>1, <1>2 DEF LinkOK
<1>5. LinkOK(link') /\ SameSync(link, link')
  BY <1>2, <1>3, <1>4 DEF LinkOK, SameSync
<1>6. /\ link'.initialized = link.initialized /\ link'.id = link.id
      /\ link'.state = link.state /\ link'.samples = link.samples
      /\ link'.secure = link.secure /\ link'.window = link.window
      /\ link'.failures = link.failures /\ link'.until = link.until
      /\ link'.reserved = link.reserved - 1
  BY <1>3
<1>7. TrafficTrue'
  BY <1>1, <1>2, <1>6, SameTraffic
<1>8. WindowTrue'
  BY <1>1, <1>6 DEF SessionInv, WindowTrue
<1>9. StagesEarned'
  BY <1>1, <1>6 DEF SessionInv, StagesEarned, Stage, Session!Sent, Session!LocalRole, Session!PeerRole
<1>10. TimesTrue'
  BY <1>1, <1>2, <1>5, <1>6, QuietTimes
<1>11. link'.reserved = held' /\ held' \in 0 .. RxLimit
  BY <1>1, <1>2, <1>6
<1> QED
  BY <1>1, <1>5, <1>7, <1>8, <1>9, <1>10, <1>11 DEF SessionInv

LEMMA StartInv ==
  ASSUME SessionInv, NEW secure \in BOOLEAN, Session!Start(secure) PROVE SessionInv'
<1>1. /\ link' = Session!Started(link.id + 1, secure)
      /\ held' = 0 /\ delivered' = {} /\ acked' = {} /\ failed' = [run |-> 0, at |-> 0]
      /\ syncedAt' = -1 /\ now' = now /\ peer' = peer /\ air' = air
  BY DEF Session!Start
<1>2. LinkOK(link) /\ TrafficTrue /\ link.id \in Nat /\ now \in SessionStart .. SessionEnd
  BY DEF SessionInv, LinkOK
<1>3. link' = [initialized |-> TRUE, id |-> link.id + 1, state |-> "SECURE_HELLO",
               samples |-> 0, secure |-> secure, window |-> Session!W!window_reset,
               reserved |-> 0, failures |-> 0, until |-> 0, limiter |-> Session!NoLimiter,
               synced |-> FALSE, updated |-> 0, generation |-> 0]
  BY <1>1 DEF Session!Started, Session!Disabled
<1>4. /\ Session!W!window_reset \in Session!W!Window
      /\ ~Session!W!window_reset.initialized /\ Session!W!window_reset.seen = {}
  <2>1. 0 \in 0 .. SessionModulus - 1
    BY SessionConstants
  <2> QED
    BY <2>1 DEF Session!W!window_reset, Session!W!Window, Session!W!Sequences
<1>5. LinkOK(link')
  <2>1. /\ 0 \in 0 .. SampleTarget /\ 0 \in 0 .. ErrorLimit /\ 0 \in Nat
        /\ link.id + 1 \in Nat /\ link.id + 1 # 0
    BY <1>2, SessionInstance
  <2>2. /\ Session!NoLimiter = [start |-> Session!NoLimiter.start, emitted |-> Session!NoLimiter.emitted]
        /\ Session!NoLimiter.emitted = 0
    BY DEF Session!NoLimiter
  <2> QED
    BY <1>3, <1>4, <2>1, <2>2 DEF LinkOK, States
<1>6. TrafficTrue'
  <2>1. /\ peer' = [role |-> peer'.role, session |-> peer'.session, next |-> peer'.next]
        /\ peer'.role \in Session!Both /\ peer'.session \in Nat
        /\ peer'.next \in 1 .. MaxSequence + 1
        /\ air' \subseteq Frames /\ delivered' \subseteq Frames
    BY <1>1, <1>2 DEF TrafficTrue
  <2>2. peer'.session <= link'.id
    <3>1. peer.session \in Nat /\ peer.session <= link.id
      BY <1>2 DEF TrafficTrue
    <3>2. peer.session <= link.id + 1
      BY <1>2, <3>1
    <3> QED
      BY <1>1, <1>3, <3>2
  <2>3. IsFiniteSet(delivered')
    BY <1>1, FS_EmptySet
  <2>4. air' \cup delivered' \subseteq air \cup delivered
    BY <1>1
  <2>5. \A f \in air' \cup delivered' :
          /\ f.session <= peer'.session
          /\ f.session = peer'.session => f.seq < peer'.next
          /\ f.type = "PAIR_REQUEST" => f.session = 0
    BY <1>1, <1>2, <2>4 DEF TrafficTrue
  <2>6. \A f \in air' \cup delivered', g \in air' \cup delivered' :
          f.session # 0 /\ f.session = g.session /\ f.seq = g.seq => f = g
    BY <1>2, <2>4 DEF TrafficTrue
  <2> QED
    BY <2>1, <2>2, <2>3, <2>5, <2>6 DEF TrafficTrue, Session!Both
<1>7. WindowTrue'
  BY <1>1, <1>3, <1>4 DEF WindowTrue
<1>8. StagesEarned'
  BY <1>3 DEF StagesEarned, Stage, Late
<1>9. TimesTrue'
  <2>1. ~(0 >= FailureLimit)
    BY SessionInstance
  <2> QED
    BY <1>1, <1>3, <2>1 DEF TimesTrue
<1>10. link'.reserved = held' /\ held' \in 0 .. RxLimit
  BY <1>1, <1>3, SessionInstance
<1> QED
  BY <1>1, <1>2, <1>5, <1>6, <1>7, <1>8, <1>9, <1>10 DEF SessionInv

\* A step of the peer or the radio.
LEMMA TrafficStep ==
  ASSUME SessionInv, TrafficTrue', UNCHANGED <<now, link, held, delivered, acked, failed, syncedAt>>,
         peer'.role = peer.role
  PROVE  SessionInv'
<1>1. WindowTrue'
  BY DEF SessionInv, WindowTrue
<1>2. StagesEarned'
  BY DEF SessionInv, StagesEarned, Stage, Session!Sent, Session!LocalRole, Session!PeerRole
<1>3. TimesTrue'
  BY DEF SessionInv, TimesTrue, Session!Backoff, Session!Least
<1> QED
  BY <1>1, <1>2, <1>3 DEF SessionInv

LEMMA PeerFollowsInv ==
  ASSUME SessionInv, Session!PeerFollows PROVE SessionInv'
<1>1. /\ peer.session # link.id /\ peer' = [peer EXCEPT !.session = link.id, !.next = 1]
      /\ UNCHANGED <<now, link, air, held, delivered, acked, failed, syncedAt>>
  BY DEF Session!PeerFollows
<1>2. TrafficTrue /\ link.id \in Nat
  BY DEF SessionInv, LinkOK
<1>3. peer' = [role |-> peer.role, session |-> link.id, next |-> 1]
  BY <1>1, <1>2 DEF TrafficTrue
<1>4. \A f \in air \cup delivered : f.session \in Nat /\ f.session < link.id
  <2>1. peer.session \in Nat /\ peer.session < link.id
    BY <1>1, <1>2 DEF TrafficTrue
  <2>2. \A f \in air \cup delivered : f.session \in Nat /\ f.session <= peer.session
    BY <1>2 DEF TrafficTrue, Frames
  <2> QED
    BY <1>2, <2>1, <2>2
<1>5. TrafficTrue'
  <2>1. /\ peer' = [role |-> peer'.role, session |-> peer'.session, next |-> peer'.next]
        /\ peer'.role \in Session!Both /\ peer'.session \in Nat
        /\ air' \subseteq Frames /\ delivered' \subseteq Frames /\ IsFiniteSet(delivered')
    BY <1>1, <1>2, <1>3 DEF TrafficTrue, Session!Both
  <2>2. peer'.next \in 1 .. MaxSequence + 1 /\ peer'.session <= link'.id
    <3>1. peer'.next = 1 /\ peer'.session = link.id /\ link'.id = link.id
      BY <1>1, <1>3
    <3> QED
      BY <1>2, <3>1, SessionConstants
  <2>3. \A f \in air' \cup delivered' :
          /\ f.session <= peer'.session
          /\ f.session = peer'.session => f.seq < peer'.next
          /\ f.type = "PAIR_REQUEST" => f.session = 0
    <3>1. \A f \in air \cup delivered : f.session <= link.id /\ f.session # link.id
      BY <1>2, <1>4
    <3> QED
      BY <1>1, <1>2, <1>3, <3>1 DEF TrafficTrue
  <2>4. \A f \in air' \cup delivered', g \in air' \cup delivered' :
          f.session # 0 /\ f.session = g.session /\ f.seq = g.seq => f = g
    BY <1>1, <1>2 DEF TrafficTrue
  <2> QED
    BY <2>1, <2>2, <2>3, <2>4 DEF TrafficTrue, Session!Both
<1>6. peer'.role = peer.role
  BY <1>3
<1> QED
  BY <1>1, <1>5, <1>6, TrafficStep

LEMMA SendInv ==
  ASSUME SessionInv, NEW type \in SessionTypes, Session!Send(type) PROVE SessionInv'
<1> DEFINE n == [type |-> type, seq |-> peer.next,
                 session |-> IF Session!contract(type).zero THEN 0 ELSE peer.session]
<1>1. /\ peer.next <= MaxSequence /\ air' = air \cup {n}
      /\ peer' = [peer EXCEPT !.next = @ + 1]
      /\ UNCHANGED <<now, link, held, delivered, acked, failed, syncedAt>>
  BY DEF Session!Send
<1>2. TrafficTrue /\ link.id \in Nat /\ MaxSequence \in Nat
  BY SessionConstants DEF SessionInv, LinkOK
<1>3. peer' = [role |-> peer.role, session |-> peer.session, next |-> peer.next + 1]
  BY <1>1, <1>2 DEF TrafficTrue
<1>4. /\ n.type = type /\ n.seq = peer.next /\ n.session \in {0, peer.session}
      /\ type = "PAIR_REQUEST" => n.session = 0
  BY ContractFacts
<1>5. n \in Frames
  BY <1>1, <1>2 DEF TrafficTrue, Frames
<1> HIDE DEF n
<1>6. \A f \in air \cup delivered :
        /\ f.session \in Nat /\ f.session <= peer.session /\ f.seq \in Nat
        /\ f.session = peer.session => f.seq < peer.next
        /\ f.type = "PAIR_REQUEST" => f.session = 0
  BY <1>2 DEF TrafficTrue, Frames
<1>7. peer.next \in Nat /\ peer.session \in Nat /\ peer.next + 1 \in 1 .. MaxSequence + 1
  BY <1>1, <1>2 DEF TrafficTrue
<1>8. TrafficTrue'
  <2>1. /\ peer' = [role |-> peer'.role, session |-> peer'.session, next |-> peer'.next]
        /\ peer'.role \in Session!Both /\ peer'.session \in Nat
        /\ peer'.session <= link'.id /\ peer'.next \in 1 .. MaxSequence + 1
        /\ air' \subseteq Frames /\ delivered' \subseteq Frames /\ IsFiniteSet(delivered')
    BY <1>1, <1>2, <1>3, <1>5, <1>7 DEF TrafficTrue, Session!Both
  <2>2. ASSUME NEW f \in air' \cup delivered'
        PROVE  /\ f.session <= peer'.session
               /\ f.session = peer'.session => f.seq < peer'.next
               /\ f.type = "PAIR_REQUEST" => f.session = 0
    <3>1. CASE f = n
      BY <1>3, <1>4, <1>7, <3>1
    <3>2. CASE f \in air \cup delivered
      BY <1>3, <1>6, <1>7, <3>2
    <3> QED
      BY <1>1, <3>1, <3>2
  <2>3. ASSUME NEW f \in air' \cup delivered', NEW g \in air' \cup delivered',
               f.session # 0, f.session = g.session, f.seq = g.seq
        PROVE  f = g
    <3>1. CASE f \in air \cup delivered /\ g \in air \cup delivered
      BY <1>2, <2>3, <3>1 DEF TrafficTrue
    <3>2. CASE f = n /\ g \in air \cup delivered
      BY <1>4, <1>6, <1>7, <2>3, <3>2
    <3>3. CASE g = n /\ f \in air \cup delivered
      BY <1>4, <1>6, <1>7, <2>3, <3>3
    <3> QED
      BY <1>1, <3>1, <3>2, <3>3
  <2> QED
    BY <2>1, <2>2, <2>3 DEF TrafficTrue, Session!Both
<1>9. peer'.role = peer.role
  BY <1>3
<1> QED
  BY <1>1, <1>8, <1>9, TrafficStep

LEMMA VanishInv ==
  ASSUME SessionInv, NEW f \in air, Session!Vanish(f) PROVE SessionInv'
<1>1. TrafficTrue'
  BY SameTraffic DEF SessionInv, Session!Vanish
<1> QED
  BY <1>1, TrafficStep DEF Session!Vanish

LEMMA TimeSyncInv ==
  ASSUME SessionInv, NEW generation \in 1 .. 2, Session!TimeSync(generation)
  PROVE  SessionInv'
<1>1. /\ link' = [link EXCEPT !.synced = TRUE, !.updated = Session!Now, !.generation = generation]
      /\ syncedAt' = now
      /\ UNCHANGED <<now, peer, air, held, delivered, acked, failed>>
  BY DEF Session!TimeSync
<1>2. LinkOK(link) /\ TimesTrue /\ acked \subseteq delivered /\ now \in SessionStart .. SessionEnd
  BY DEF SessionInv
<1>3. link' = [initialized |-> link.initialized, id |-> link.id, state |-> link.state,
               samples |-> link.samples, secure |-> link.secure, window |-> link.window,
               reserved |-> link.reserved, failures |-> link.failures,
               until |-> link.until, limiter |-> link.limiter, synced |-> TRUE,
               updated |-> Session!Now, generation |-> generation]
  BY <1>1, <1>2 DEF LinkOK
<1>4. LinkOK(link') /\ SameProgress(link, link')
  BY <1>2, <1>3 DEF LinkOK, SameProgress
<1>5. TimesTrue'
  <2>1. now \in SessionStart .. now
    BY <1>2, SessionInstance
  <2>2. /\ link'.failures = link.failures /\ link'.until = link.until
        /\ link'.updated = now % TimeModulus
    BY <1>3 DEF Session!Now
  <2> QED
    BY <1>1, <1>2, <2>1, <2>2 DEF TimesTrue, Session!Backoff, Session!Least
<1> QED
  BY <1>1, <1>2, <1>4, <1>5, QuietInv

\* Only the state changes.
LEMMA StateStep ==
  ASSUME SessionInv, LinkOK(link'), SameSync(link, link'),
         link'.id = link.id, link'.samples = link.samples, link'.secure = link.secure,
         link'.window = link.window, link'.reserved = link.reserved,
         link'.failures = link.failures, link'.until = link.until, StagesEarned',
         UNCHANGED <<now, peer, air, held, delivered, acked, failed, syncedAt>>
  PROVE  SessionInv'
<1>1. TrafficTrue'
  BY SameTraffic DEF SessionInv
<1>2. WindowTrue'
  BY DEF SessionInv, WindowTrue
<1>3. TimesTrue'
  BY QuietTimes DEF SessionInv
<1> QED
  BY <1>1, <1>2, <1>3 DEF SessionInv

LEMMA SnapshotSentInv ==
  ASSUME SessionInv, Session!SnapshotSent PROVE SessionInv'
<1> DEFINE t == Session!Transition(link, "STATE_SNAPSHOT")
<1>1. /\ Session!LocalRole = "COMMUNICATOR" /\ link.state = "STATE_SYNC" /\ link.secure
      /\ link' = t
      /\ UNCHANGED <<now, peer, air, held, delivered, acked, failed, syncedAt>>
  BY DEF Session!SnapshotSent
<1>2. LinkOK(link) /\ StagesEarned
  BY DEF SessionInv
<1>3. /\ LinkOK(t) /\ SameSync(link, t)
      /\ t.initialized = link.initialized /\ t.id = link.id /\ t.secure = link.secure
      /\ t.window = link.window /\ t.reserved = link.reserved
      /\ t.failures = link.failures /\ t.until = link.until
      /\ t.samples = link.samples /\ t.state \in {"STATE_SYNC", "ONLINE"}
  BY <1>1, <1>2, TransitionFacts, ZenonT(30)
<1> HIDE DEF t
<1>4. StagesEarned'
  <2>1. Stage(1) /\ Stage(2) /\ Stage(3)
    BY <1>1 DEF Stage, Late
  <2>2. /\ Session!Sent("HELLO") # {} /\ Session!Sent("CAPABILITIES") # {}
        /\ link.samples <= Cardinality(Session!Sent("TIME_SYNC"))
        /\ link.samples >= SampleTarget
    BY <1>2, <2>1 DEF StagesEarned
  <2>3. /\ \A type : Session!Sent(type)' = Session!Sent(type)
        /\ Session!LocalRole' = "COMMUNICATOR"
    BY <1>1 DEF Session!Sent, Session!LocalRole, Session!PeerRole
  <2> QED
    BY <1>1, <1>3, <2>2, <2>3 DEF StagesEarned
<1> QED
  BY <1>1, <1>3, <1>4, StateStep

LEMMA DegradeInv ==
  ASSUME SessionInv, Session!Degrade PROVE SessionInv'
<1> DEFINE s == IF link.state = "ONLINE" THEN "DEGRADED" ELSE "RECOVERING"
<1>1. /\ link.state \in {"ONLINE", "DEGRADED"}
      /\ link' = [link EXCEPT !.state = s]
      /\ UNCHANGED <<now, peer, air, held, delivered, acked, failed, syncedAt>>
  BY DEF Session!Degrade
<1>2. LinkOK(link) /\ StagesEarned /\ s \in Late
  BY DEF SessionInv, Late
<1> HIDE DEF s
<1>3. link' = [initialized |-> link.initialized, id |-> link.id, state |-> s,
               samples |-> link.samples, secure |-> link.secure, window |-> link.window,
               reserved |-> link.reserved, failures |-> link.failures,
               until |-> link.until, limiter |-> link.limiter, synced |-> link.synced,
               updated |-> link.updated, generation |-> link.generation]
  BY <1>1, <1>2 DEF LinkOK
<1>4. link.initialized /\ s \in States /\ s # "PAIRING" /\ s # "TIME_SYNC"
  BY <1>1, <1>2 DEF LinkOK, States, Late
<1>5. LinkOK(link') /\ SameSync(link, link')
  BY <1>2, <1>3, <1>4 DEF LinkOK, SameSync
<1>6. StagesEarned'
  <2>1. Stage(1) /\ Stage(2) /\ Stage(3) /\ Stage(4)
    BY <1>1 DEF Stage, Late
  <2>2. /\ Session!Sent("HELLO") # {} /\ Session!Sent("CAPABILITIES") # {}
        /\ link.samples <= Cardinality(Session!Sent("TIME_SYNC"))
        /\ link.samples >= SampleTarget /\ link.secure
        /\ Session!LocalRole = "CONTROLLER" => Session!Sent("STATE_SNAPSHOT") # {}
    BY <1>2, <2>1 DEF StagesEarned
  <2>3. /\ \A type : Session!Sent(type)' = Session!Sent(type)
        /\ Session!LocalRole' = Session!LocalRole
    BY <1>1 DEF Session!Sent, Session!LocalRole, Session!PeerRole
  <2> QED
    BY <1>3, <2>2, <2>3 DEF StagesEarned
<1>7. /\ link'.id = link.id /\ link'.samples = link.samples /\ link'.secure = link.secure
      /\ link'.window = link.window /\ link'.reserved = link.reserved
      /\ link'.failures = link.failures /\ link'.until = link.until
  BY <1>3
<1> QED
  BY <1>1, <1>5, <1>6, <1>7, StateStep

LEMMA TickInv ==
  ASSUME SessionInv, Session!Tick PROVE SessionInv'
<1>1. /\ now < SessionEnd /\ now' = now + 1
      /\ UNCHANGED <<link, peer, air, held, delivered, acked, failed, syncedAt>>
  BY DEF Session!Tick
<1>2. LinkOK(link) /\ TimesTrue /\ acked \subseteq delivered /\ now \in SessionStart .. SessionEnd
  BY DEF SessionInv
<1>3. now' \in SessionStart .. SessionEnd /\ \A t \in SessionStart .. now : t \in SessionStart .. now'
  BY <1>1, <1>2, SessionInstance
<1>4. TimesTrue'
  BY <1>1, <1>2, <1>3 DEF TimesTrue, Session!Backoff, Session!Least
<1>5. LinkOK(link') /\ SameProgress(link, link')
  BY <1>1, <1>2 DEF SameProgress
<1> QED
  BY <1>1, <1>2, <1>3, <1>4, <1>5, QuietInv

LEMMA StillInv ==
  ASSUME SessionInv, UNCHANGED Session!vars PROVE SessionInv'
<1>1. UNCHANGED <<now, link, peer, air, held, delivered, acked, failed, syncedAt>>
  BY DEF Session!vars
<1>2. TrafficTrue'
  BY <1>1, SameTraffic DEF SessionInv
<1> QED
  BY <1>1, <1>2, TrafficStep

LEMMA NextSessionInv ==
  ASSUME SessionInv, [Session!Next]_(Session!vars) PROVE SessionInv'
<1>1. CASE \E f \in air, damaged \in BOOLEAN, protected \in Protections :
             Session!Decode(f, damaged, protected)
  BY <1>1, DecodeInv, SessionInstance
<1>2. CASE \E secure \in BOOLEAN : Session!Start(secure)
  BY <1>2, StartInv
<1>3. CASE \E type \in SessionTypes : Session!Send(type)
  BY <1>3, SendInv
<1>4. CASE \E f \in air : Session!Vanish(f)
  BY <1>4, VanishInv
<1>5. CASE \E generation \in 1 .. 2 : Session!TimeSync(generation)
  BY <1>5, TimeSyncInv
<1> QED
  BY <1>1, <1>2, <1>3, <1>4, <1>5, ReleaseInv, PeerFollowsInv, SnapshotSentInv,
     DegradeInv, TickInv, StillInv DEF Session!Next

LEMMA InitSessionInv == Session!Init => SessionInv
<1> SUFFICES ASSUME Session!Init PROVE SessionInv
  OBVIOUS
<1>1. /\ now = SessionStart /\ link = Session!Disabled
      /\ peer \in [role : Session!Both, session : {0}, next : {1}]
      /\ air = {} /\ held = 0 /\ delivered = {} /\ acked = {}
      /\ failed = [run |-> 0, at |-> 0] /\ syncedAt = -1
  BY DEF Session!Init
<1>2. link = [initialized |-> FALSE, id |-> 0, state |-> "PAIRING", samples |-> 0,
              secure |-> FALSE, window |-> Session!W!window_reset, reserved |-> 0,
              failures |-> 0, until |-> 0, limiter |-> Session!NoLimiter,
              synced |-> FALSE, updated |-> 0, generation |-> 0]
  BY <1>1 DEF Session!Disabled
<1>4. /\ Session!W!window_reset \in Session!W!Window
      /\ ~Session!W!window_reset.initialized /\ Session!W!window_reset.seen = {}
  <2>1. 0 \in 0 .. SessionModulus - 1
    BY SessionConstants
  <2> QED
    BY <2>1 DEF Session!W!window_reset, Session!W!Window, Session!W!Sequences
<1>5. LinkOK(link)
  <2>1. /\ 0 \in 0 .. SampleTarget /\ 0 \in 0 .. ErrorLimit /\ 0 \in Nat
    BY SessionInstance
  <2>2. /\ Session!NoLimiter = [start |-> Session!NoLimiter.start, emitted |-> Session!NoLimiter.emitted]
        /\ Session!NoLimiter.emitted = 0
    BY DEF Session!NoLimiter
  <2> QED
    BY <1>2, <1>4, <2>1, <2>2 DEF LinkOK, States
<1>6. TrafficTrue
  <2>1. peer = [role |-> peer.role, session |-> 0, next |-> 1] /\ peer.role \in Session!Both
    BY <1>1
  <2>2. 1 \in 1 .. MaxSequence + 1
    BY SessionConstants
  <2>3. IsFiniteSet(delivered)
    BY <1>1, FS_EmptySet
  <2> QED
    BY <1>1, <1>2, <2>1, <2>2, <2>3 DEF TrafficTrue
<1>7. WindowTrue
  BY <1>1, <1>2, <1>4 DEF WindowTrue
<1>8. StagesEarned
  BY <1>2 DEF StagesEarned, Stage, Late
<1>9. TimesTrue
  <2>1. ~(0 >= FailureLimit)
    BY SessionInstance
  <2> QED
    BY <1>1, <1>2, <2>1 DEF TimesTrue
<1>10. link.reserved = held /\ held \in 0 .. RxLimit /\ now \in SessionStart .. SessionEnd
  BY <1>1, <1>2, SessionInstance
<1> QED
  BY <1>1, <1>5, <1>6, <1>7, <1>8, <1>9, <1>10 DEF SessionInv

LEMMA SessionInvariant == Session!Spec => []SessionInv
  BY InitSessionInv, NextSessionInv, PTL DEF Session!Spec

-----------------------------------------------------------------------------
(* What the sessions promise.                                              *)

LEMMA SessionOfBoth == MCSpec => Session!Spec
<1>1. MCInit => Session!Init
  BY DEF MCInit
<1>2. [MCNext]_<<part, vars, otherVars>> => [Session!Next]_(Session!vars)
  <2> SUFFICES ASSUME [MCNext]_<<part, vars, otherVars>> PROVE [Session!Next]_(Session!vars)
    OBVIOUS
  <2> USE DEF otherVars, linkVars, Session!vars
  <2>1. CASE part = "session" /\ Session!Next
    BY <2>1
  <2>2. CASE UNCHANGED linkVars
    BY <2>2
  <2> QED
    BY <2>1, <2>2 DEF MCNext
<1> QED
  BY <1>1, <1>2, PTL DEF MCSpec, Session!Spec

LEMMA SessionTyped == SessionInv => Session!TypeOK
  BY DEF SessionInv, LinkOK, States, Session!TypeOK

\* The counting operator of the instance is the library's.
LEMMA SameCardinality == \A s : Session!Cardinality(s) = Cardinality(s)
  BY Zenon DEF Session!Cardinality, Cardinality

LEMMA SessionEarns ==
  SessionInv => Session!ProgressIsEarned /\ Session!AckMeansDelivered
<1> SUFFICES ASSUME SessionInv PROVE Session!ProgressIsEarned /\ Session!AckMeansDelivered
  OBVIOUS
<1>1. \A f \in delivered : f.session \in {0, link.id}
  BY DEF SessionInv, WindowTrue
<1>2. StagesEarned /\ link.samples \in Nat /\ SampleTarget \in Nat
      /\ IsFiniteSet(delivered)
  BY SessionInstance DEF SessionInv, LinkOK, TrafficTrue
<1>3. Cardinality(Session!Sent("TIME_SYNC")) \in Nat
  <2>1. Session!Sent("TIME_SYNC") \subseteq delivered
    BY DEF Session!Sent
  <2> QED
    BY <1>2, <2>1, FS_Subset, FS_CardinalityType
<1>4. Session!Cardinality(Session!Sent("TIME_SYNC")) = Cardinality(Session!Sent("TIME_SYNC"))
  BY SameCardinality
<1>5. /\ Stage(3) => Stage(2)
      /\ Stage(3) => Cardinality(Session!Sent("TIME_SYNC")) >= SampleTarget
  <2>1. Stage(3) => Stage(2)
    BY DEF Stage
  <2> QED
    BY <1>2, <1>3, <2>1 DEF StagesEarned
<1>6. Session!ProgressIsEarned
  BY <1>1, <1>2, <1>4, <1>5 DEF Session!ProgressIsEarned, StagesEarned, Stage, Late
<1> QED
  BY <1>6 DEF SessionInv, Session!AckMeansDelivered

\* Nothing is delivered while the back-off lasts.
LEMMA LockoutStep ==
  ASSUME SessionInv, [Session!Next]_(Session!vars), delivered' # delivered, link'.id = link.id
  PROVE  ~(failed.run >= FailureLimit /\ now < failed.at + Session!Backoff(failed.run))
<1>1. link.id \in Nat
  BY DEF SessionInv, LinkOK
<1>2. PICK f \in air, damaged \in BOOLEAN, protected \in BOOLEAN :
         Session!Decode(f, damaged, protected)
  <2>1. ASSUME NEW secure, Session!Start(secure) PROVE FALSE
    <3>1. link' = Session!Started(link.id + 1, secure)
      BY <2>1 DEF Session!Start
    <3>2. link'.id = link.id + 1
      BY <3>1 DEF Session!Started, Session!Disabled
    <3> QED
      BY <1>1, <3>2
  <2>2. ~\E type \in SessionTypes : Session!Send(type)
    BY DEF Session!Send
  <2>3. ~\E f \in air : Session!Vanish(f)
    BY DEF Session!Vanish
  <2>4. ~\E generation \in 1 .. 2 : Session!TimeSync(generation)
    BY DEF Session!TimeSync
  <2>5. ~(Session!Release \/ Session!PeerFollows \/ Session!SnapshotSent \/ Session!Degrade
          \/ Session!Tick \/ UNCHANGED Session!vars)
    BY DEF Session!Release, Session!PeerFollows, Session!SnapshotSent, Session!Degrade,
           Session!Tick, Session!vars
  <2> QED
    BY <2>1, <2>2, <2>3, <2>4, <2>5, SessionInstance DEF Session!Next
<1>3. Session!AuthAllowed
  BY <1>2, DecodeCases DEF Refuses, Fails, Repeats, Delivers
<1> SUFFICES ASSUME failed.run >= FailureLimit, now < failed.at + Session!Backoff(failed.run)
             PROVE  FALSE
  OBVIOUS
<1> DEFINE b == Session!Backoff(failed.run)
           d == failed.at + b
<1>4. /\ failed.run = link.failures /\ link.failures \in Nat
      /\ failed.at \in SessionStart .. now /\ now \in SessionStart .. SessionEnd
      /\ link.until = d % TimeModulus
  BY DEF SessionInv, LinkOK, TimesTrue
<1>5. b \in 0 .. BackoffMax
  BY <1>4, BackoffIsNat
<1> HIDE DEF b
<1>6. /\ TimeModulus \in Nat \ {0} /\ TimeModulus % 2 = 0 /\ SessionStart \in Nat
      /\ now \in Nat /\ d \in Nat /\ now < d /\ 2 * (d - now) <= TimeModulus
  BY <1>4, <1>5, SessionInstance DEF b
<1> HIDE DEF d
<1>7. ~(((now % TimeModulus) - (d % TimeModulus)) % TimeModulus < TimeModulus \div 2)
  BY <1>6, NotReached
<1>8. Session!Since(link.until) < Session!TimeHalf
  <2>1. FailureLimit \in Nat /\ ~(link.failures < FailureLimit)
    BY <1>4, SessionInstance
  <2> QED
    BY <1>3, <2>1 DEF Session!AuthAllowed
<1>9. Session!Since(link.until) = ((now % TimeModulus) - (d % TimeModulus)) % TimeModulus
  BY <1>4 DEF Session!Since, Session!Now
<1> QED
  BY <1>7, <1>8, <1>9 DEF Session!TimeHalf

\* A command is delivered only soon after a control time sync.
LEMMA CommandStep ==
  ASSUME SessionInv, [Session!Next]_(Session!vars), NEW f \in delivered' \ delivered,
         f.type = "COMMAND_REQUEST"
  PROVE  syncedAt # -1 /\ now - syncedAt <= MaxAge
<1>1. PICK g \in air, damaged \in BOOLEAN, protected \in BOOLEAN :
         Session!Decode(g, damaged, protected)
  <2>1. ~\E secure \in BOOLEAN : Session!Start(secure)
    BY DEF Session!Start
  <2>2. ~\E type \in SessionTypes : Session!Send(type)
    BY DEF Session!Send
  <2>3. ~\E h \in air : Session!Vanish(h)
    BY DEF Session!Vanish
  <2>4. ~\E generation \in 1 .. 2 : Session!TimeSync(generation)
    BY DEF Session!TimeSync
  <2>5. ~(Session!Release \/ Session!PeerFollows \/ Session!SnapshotSent \/ Session!Degrade
          \/ Session!Tick \/ UNCHANGED Session!vars)
    BY DEF Session!Release, Session!PeerFollows, Session!SnapshotSent, Session!Degrade,
           Session!Tick, Session!vars
  <2> QED
    BY <2>1, <2>2, <2>3, <2>4, <2>5, SessionInstance DEF Session!Next
<1>2. Delivers(g, protected)
  BY <1>1, DecodeCases DEF Refuses, Fails, Repeats
<1>3. f = g /\ Session!Policy(f, protected) = "NONE"
  BY <1>2 DEF Delivers
<1>4. Session!TimeSyncValid
  BY <1>1, <1>3, PolicyPasses
<1>5. /\ link.synced /\ syncedAt \in SessionStart .. now /\ now \in SessionStart .. SessionEnd
      /\ link.updated = syncedAt % TimeModulus
      /\ Session!Since(link.updated) <= MaxAge
  BY <1>4 DEF Session!TimeSyncValid, SessionInv, TimesTrue
<1>6. /\ TimeModulus \in Nat \ {0} /\ now \in Nat /\ syncedAt \in Nat
      /\ syncedAt <= now /\ now - syncedAt < TimeModulus
  BY <1>5, SessionInstance
<1>7. Session!Since(link.updated) = now - syncedAt
  <2>1. Session!Since(link.updated) = ((now % TimeModulus) - (syncedAt % TimeModulus)) % TimeModulus
    BY <1>5 DEF Session!Since, Session!Now
  <2>2. ((now % TimeModulus) - (syncedAt % TimeModulus)) % TimeModulus = now - syncedAt
    BY <1>6, TimeApart
  <2> QED
    BY <2>1, <2>2
<1> QED
  BY <1>5, <1>6, <1>7

\* A session is online only by a handshake of its own, and a frame is
\* acknowledged only if the application got it (SessionEarned).
THEOREM TheSessionIsEarned == MCSpec => []SessionEarned
<1>1. SessionInv => SessionEarned
  BY SessionEarns DEF SessionEarned
<1> QED
  BY <1>1, SessionOfBoth, SessionInvariant, PTL

\* Nothing is accepted during the back-off after repeated authentication
\* failures, and no command without a recent time sync of the session, in true
\* time across the wrap of the clock (SessionGuarded).
THEOREM TheSessionIsGuarded == MCSpec => SessionGuarded
<1>1. SessionInv /\ [Session!Next]_(Session!vars) =>
        [delivered' # delivered /\ link'.id = link.id =>
           ~(failed.run >= FailureLimit /\ now < failed.at + Session!Backoff(failed.run))
        ]_(Session!vars)
  BY LockoutStep
<1>2. SessionInv /\ [Session!Next]_(Session!vars) =>
        [\A f \in delivered' \ delivered : f.type = "COMMAND_REQUEST" =>
           syncedAt # -1 /\ now - syncedAt <= MaxAge]_(Session!vars)
  BY CommandStep
<1>3. Session!Spec => Session!LockoutHolds
  BY <1>1, SessionInvariant, PTL DEF Session!Spec, Session!LockoutHolds
<1>4. Session!Spec => Session!CommandIsFresh
  BY <1>2, SessionInvariant, PTL DEF Session!Spec, Session!CommandIsFresh
<1> QED
  BY <1>3, <1>4, SessionOfBoth DEF SessionGuarded

-----------------------------------------------------------------------------
(* The acknowledged requests.                                              *)

IdsOf(traffic) == {t.id : t \in traffic}
OfRequest(traffic, id) == {t \in traffic : t.id = id}
Used(slots, s) == slots[s] # Qos!NoRequest

Transmissions == [id : Nat, token : Tokens, seq : 0 .. QosModulus - 1, at : Nat]

\* A request in a slot: its times are true ones seen through the clock, the
\* next attempt is due before the request ends, and it ends soon enough.
RequestTrue(p, t) ==
    /\ p = [token |-> p.token, id |-> p.id, current |-> p.current,
            attempts |-> p.attempts, lastSent |-> p.lastSent,
            expires |-> p.expires, ends |-> p.ends, next |-> p.next, at |-> p.at]
    /\ p.token \in Tokens /\ p.id \in Nat /\ p.attempts \in 1 .. MaxAttempts
    /\ p.current \in 0 .. QosModulus - 1
    /\ p.ends \in Nat /\ p.ends - t <= TimeModulus \div 2 /\ p.expires = p.ends % TimeModulus
    /\ p.at \in QosStart .. t /\ p.lastSent = p.at % TimeModulus
    /\ \E u \in QosStart .. p.ends : p.next = u % TimeModulus

\* The transmissions the requests in the slots still have.
SpareOf(slots) == {r \in (1 .. QosSlots) \X (2 .. MaxAttempts) :
                     Used(slots, r[1]) /\ r[2] > slots[r[1]].attempts}

Most == Requests * MaxAttempts + QosSlots * (MaxAttempts - 1)

\* The number drawn as the k-th.
Number(k) == (FirstSequence + k) % QosModulus

QosTyped ==
    /\ time \in QosStart .. QosEnd /\ srtt \in -1 .. QosEnd - QosStart
    /\ pending = [s \in 1 .. QosSlots |-> pending[s]]
    /\ sent \subseteq Transmissions /\ IsFiniteSet(sent) /\ heard \subseteq sent
    /\ \A s \in 1 .. QosSlots : Used(pending, s) => RequestTrue(pending[s], time)

\* No two transmissions have one number, and there are numbers for what the
\* requests may still transmit.
NumbersTrue ==
    \E k \in Nat :
       /\ sequence = Number(k) /\ k + Cardinality(SpareOf(pending)) <= Most
       /\ \A t \in sent : \E j \in 0 .. k - 1 : t.seq = Number(j)
       /\ \A t \in sent, u \in sent : t.seq = u.seq => t = u

\* Requests are numbered as they come, a request has one slot or an outcome,
\* and no more transmissions than attempts.
RequestsTrue ==
    /\ \E n \in Nat : IdsOf(sent) = 1 .. n
    /\ \A s \in 1 .. QosSlots : Used(pending, s) =>
         /\ Qos!Transmission(pending[s], pending[s].current) \in sent
         /\ Cardinality(OfRequest(sent, pending[s].id)) <= pending[s].attempts
         /\ \A r \in 1 .. QosSlots : Used(pending, r) /\ pending[r].id = pending[s].id => r = s
         /\ \A e \in ended : e[1] # pending[s].id
    /\ \A id : Cardinality(OfRequest(sent, id)) <= MaxAttempts
    /\ \A e \in ended :
         /\ e[1] \in IdsOf(sent)
         /\ e[2] = "ACKED" => \E t \in heard : t.id = e[1]
         /\ \A d \in ended : d[1] = e[1] => d = e

\* Nothing was sent later than now, nor any transmission of a request later
\* than the current one.
NewestTrue ==
    /\ \A u \in sent : u.at <= time
    /\ \A s \in 1 .. QosSlots : Used(pending, s) =>
         \A u \in sent : u.id = pending[s].id => u.at <= pending[s].at

QosInv == QosTyped /\ NumbersTrue /\ RequestsTrue /\ NewestTrue

-----------------------------------------------------------------------------
LEMMA QosConstants ==
  /\ TimeModulus \in Nat \ {0} /\ QosModulus \in Nat \ {0} /\ FirstSequence \in 0 .. QosModulus - 1
  /\ QosStart \in Nat /\ QosEnd \in Nat /\ QosSlots \in Nat /\ MaxAttempts \in Nat \ {0}
  /\ TimeModulus \div 2 \in Nat /\ TimeModulus \div 2 < TimeModulus
  /\ QosEnd - QosStart < TimeModulus \div 2
<1>1. TimeModulus \div 2 \in Nat /\ TimeModulus \div 2 < TimeModulus
  <2>1. TimeModulus \in Nat \ {0}
    BY QosInstance
  <2> QED
    BY <2>1
<1> QED
  BY <1>1, QosInstance

\* A deadline passed within half a turn is seen as passed.
LEMMA ReachedInTime ==
  ASSUME time \in QosStart .. QosEnd, NEW d \in Nat, QosStart <= d, d <= time
  PROVE  Qos!time_reached(d % TimeModulus)
<1>1. /\ time \in Nat /\ TimeModulus \in Nat \ {0} /\ time - d < TimeModulus
      /\ time - d < TimeModulus \div 2
  BY QosConstants
<1>2. ((time % TimeModulus) - (d % TimeModulus)) % TimeModulus = time - d
  BY <1>1, TimeApart
<1> QED
  BY <1>1, <1>2 DEF Qos!time_reached, Qos!Now

\* How long the code waits for an answer.
LEMMA DelayFacts ==
  ASSUME srtt \in -1 .. QosEnd - QosStart, NEW r \in Nat
  PROVE  Qos!Delay(r) \in Nat /\ Qos!Delay(r) <= r /\ (Qos!Delay(r) > 0 => r > 0)
<1> DEFINE timeout == IF srtt = -1 THEN Initial ELSE 2 * srtt + Margin
           wait == Qos!qos_ack_timeout
<1>1. /\ Initial \in Nat /\ Margin \in Nat /\ Shortest \in Nat /\ Longest \in Nat
      /\ QosEnd - QosStart \in Int
  BY QosInstance
<1>2. timeout \in Nat
  BY <1>1
<1>3. wait = Qos!Least(Qos!Most(timeout, Shortest), Longest)
  BY DEF Qos!qos_ack_timeout
<1> HIDE DEF timeout, wait
<1>4. wait \in Nat
  BY <1>1, <1>2, <1>3 DEF Qos!Least, Qos!Most
<1>5. Qos!Delay(r) = Qos!Least(wait, r \div 2)
  BY DEF Qos!Delay, wait
<1>6. r \div 2 \in Nat /\ r \div 2 <= r
  OBVIOUS
<1> QED
  BY <1>4, <1>5, <1>6 DEF Qos!Least

\* What is left of a request that is not seen as expired.
LEMMA RemainingFacts ==
  ASSUME time \in QosStart .. QosEnd, NEW p, RequestTrue(p, time), ~Qos!Expired(p), QosStart <= p.ends
  PROVE  /\ time < p.ends /\ (p.expires - Qos!Now) % TimeModulus = p.ends - time
<1>1. p.ends \in Nat /\ p.expires = p.ends % TimeModulus /\ p.ends - time <= TimeModulus \div 2
      /\ time \in Nat
  BY QosConstants DEF RequestTrue
<1>2. time < p.ends
  <2>1. ~Qos!time_reached(p.ends % TimeModulus)
    BY <1>1 DEF Qos!Expired
  <2> QED
    BY <1>1, <2>1, ReachedInTime
<1>3. time <= p.ends /\ p.ends - time < TimeModulus /\ TimeModulus \in Nat \ {0}
  BY <1>1, <1>2, QosConstants
<1>4. ((p.ends % TimeModulus) - (time % TimeModulus)) % TimeModulus = p.ends - time
  BY <1>1, <1>3, TimeApart
<1> QED
  BY <1>1, <1>2, <1>4 DEF Qos!Now

\* A new number differs from those drawn before it.
LEMMA NumberIsNew ==
  ASSUME NEW k \in Nat, k < QosModulus, NEW j \in 0 .. k - 1
  PROVE  Number(j) # Number(k)
<1>1. /\ FirstSequence + k \in Nat /\ FirstSequence + j \in Nat
      /\ FirstSequence + j <= FirstSequence + k /\ (FirstSequence + k) - (FirstSequence + j) = k - j
      /\ k - j < QosModulus /\ k - j > 0 /\ QosModulus \in Nat \ {0}
  BY QosConstants
<1>2. (Number(k) - Number(j)) % QosModulus = k - j
  BY <1>1, TimeApart DEF Number
<1>3. Number(k) \in Int
  BY <1>1 DEF Number
<1>4. (Number(k) - Number(k)) % QosModulus = 0
  <2>1. Number(k) - Number(k) = 0
    BY <1>3
  <2>2. 0 % QosModulus = 0
    BY <1>1, Z3
  <2> QED
    BY <2>1, <2>2
<1> QED
  BY <1>1, <1>2, <1>4

LEMMA NumberFacts ==
  ASSUME NEW k \in Nat
  PROVE  /\ Number(k) \in 0 .. QosModulus - 1
         /\ Qos!Next1(Number(k)) = Number(k + 1)
         /\ k < QosModulus => (Number(k) - FirstSequence) % QosModulus = k
<1>1. FirstSequence + k \in Nat /\ QosModulus \in Nat \ {0} /\ FirstSequence \in Nat
      /\ FirstSequence < QosModulus
  BY QosConstants
<1>2. Number(k) \in 0 .. QosModulus - 1
  BY <1>1, Z3 DEF Number
<1>3. Qos!Next1(Number(k)) = Number(k + 1)
  <2>1. (((FirstSequence + k) % QosModulus) + 1) % QosModulus = ((FirstSequence + k) + 1) % QosModulus
    BY <1>1, ModOfSum
  <2>2. (FirstSequence + k) + 1 = FirstSequence + (k + 1)
    BY <1>1
  <2> QED
    BY <2>1, <2>2 DEF Qos!Next1, Number
<1>4. ASSUME k < QosModulus PROVE (Number(k) - FirstSequence) % QosModulus = k
  <2>1. FirstSequence % QosModulus = FirstSequence
    BY <1>1, Z3
  <2>2. (((FirstSequence + k) % QosModulus) - (FirstSequence % QosModulus)) % QosModulus
           = (FirstSequence + k) - FirstSequence
    <3>1. FirstSequence <= FirstSequence + k /\ (FirstSequence + k) - FirstSequence < QosModulus
      BY <1>1, <1>4
    <3> QED
      BY <1>1, <3>1, TimeApart
  <2>3. (FirstSequence + k) - FirstSequence = k
    BY <1>1
  <2> QED
    BY <2>1, <2>2, <2>3 DEF Number
<1> QED
  BY <1>2, <1>3, <1>4

-----------------------------------------------------------------------------
\* The counting operator of the instance is the library's.
LEMMA SameQosCardinality == \A s : Qos!Cardinality(s) = Cardinality(s)
  BY Zenon DEF Qos!Cardinality, Cardinality

LEMMA SpareBound ==
  ASSUME NEW S \in SUBSET ((1 .. QosSlots) \X (2 .. MaxAttempts))
  PROVE  /\ IsFiniteSet(S) /\ Cardinality(S) \in Nat
         /\ Cardinality(S) <= QosSlots * (MaxAttempts - 1)
<1>1. /\ IsFiniteSet(1 .. QosSlots) /\ Cardinality(1 .. QosSlots) = QosSlots
      /\ IsFiniteSet(2 .. MaxAttempts) /\ Cardinality(2 .. MaxAttempts) = MaxAttempts - 1
  <2>1. QosSlots \in Nat /\ MaxAttempts \in Nat \ {0}
    BY QosConstants
  <2>2. Cardinality(1 .. QosSlots) = IF 1 > QosSlots THEN 0 ELSE QosSlots - 1 + 1
    BY <2>1, FS_Interval
  <2>3. Cardinality(2 .. MaxAttempts) = IF 2 > MaxAttempts THEN 0 ELSE MaxAttempts - 2 + 1
    BY <2>1, FS_Interval
  <2>4. IsFiniteSet(1 .. QosSlots) /\ IsFiniteSet(2 .. MaxAttempts)
    BY <2>1, FS_Interval
  <2> QED
    BY <2>1, <2>2, <2>3, <2>4
<1> DEFINE P == (1 .. QosSlots) \X (2 .. MaxAttempts)
<1>2. IsFiniteSet(P) /\ Cardinality(P) = QosSlots * (MaxAttempts - 1)
  BY <1>1, FS_Product, ZenonT(30)
<1> HIDE DEF P
<1>3. S \in SUBSET P
  BY DEF P
<1>4. IsFiniteSet(S) /\ Cardinality(S) <= Cardinality(P)
  BY <1>2, <1>3, FS_Subset
<1>5. Cardinality(S) \in Nat
  BY <1>4, FS_CardinalityType
<1> QED
  BY <1>2, <1>4, <1>5

LEMMA SlotSet ==
  ASSUME pending = [s \in 1 .. QosSlots |-> pending[s]], NEW slot \in 1 .. QosSlots, NEW v,
         pending' = [pending EXCEPT ![slot] = v]
  PROVE  /\ pending' = [s \in 1 .. QosSlots |-> pending'[s]] /\ pending'[slot] = v
         /\ \A s \in 1 .. QosSlots : s # slot => pending'[s] = pending[s]
<1>1. DOMAIN pending = 1 .. QosSlots
  <2> DEFINE old == [s \in 1 .. QosSlots |-> pending[s]]
  <2>1. DOMAIN old = 1 .. QosSlots
    OBVIOUS
  <2> HIDE DEF old
  <2>2. pending = old
    BY DEF old
  <2> QED
    BY <2>1, <2>2
<1>2. pending' = [s \in 1 .. QosSlots |-> IF s = slot THEN v ELSE pending[s]]
  BY <1>1
<1> QED
  BY <1>2

LEMMA RequestStays ==
  ASSUME NEW p, NEW t \in Nat, NEW u \in Nat, t <= u, RequestTrue(p, t) PROVE RequestTrue(p, u)
<1>1. p.ends - u <= TimeModulus \div 2
  BY QosConstants DEF RequestTrue
<1>2. p.at \in QosStart .. u
  BY QosConstants DEF RequestTrue
<1> QED
  BY <1>1, <1>2 DEF RequestTrue

LEMMA MostFits == /\ Requests * MaxAttempts \in Nat /\ Most \in Int /\ Most < QosModulus
                  /\ Requests * MaxAttempts + QosSlots * (MaxAttempts - 1) = Most
                  /\ QosSlots * (MaxAttempts - 1) \in Nat
<1>1. QosSlots \in Nat /\ MaxAttempts - 1 \in Nat
  BY QosConstants
<1>2. QosSlots * (MaxAttempts - 1) \in Nat
  BY <1>1, Z3
<1> DEFINE x == QosSlots * (MaxAttempts - 1)
           y == Requests * MaxAttempts
<1>3. x \in Nat /\ y \in Nat /\ x + y < QosModulus /\ QosModulus \in Nat /\ y + x = Most
  BY <1>2, QosInstance DEF Most
<1> HIDE DEF x, y
<1>4. Most \in Int /\ Most < QosModulus
  BY <1>3
<1> QED
  BY <1>3, <1>4 DEF x, y, Most

\* What the state gives to every step.
LEMMA QosFacts ==
  ASSUME QosInv
  PROVE  /\ time \in Nat /\ time \in QosStart .. QosEnd /\ srtt \in -1 .. QosEnd - QosStart
         /\ pending = [s \in 1 .. QosSlots |-> pending[s]]
         /\ \A s \in 1 .. QosSlots : Used(pending, s) =>
              RequestTrue(pending[s], time) /\ QosStart <= pending[s].ends
         /\ sequence \in 0 .. QosModulus - 1
  <1>1. time \in Nat
    BY QosConstants DEF QosInv, QosTyped
  <1>2. sequence \in 0 .. QosModulus - 1
    BY NumberFacts DEF QosInv, NumbersTrue
  <1>3. ASSUME NEW s \in 1 .. QosSlots, Used(pending, s) PROVE QosStart <= pending[s].ends
    <2>1. RequestTrue(pending[s], time)
      BY <1>3 DEF QosInv, QosTyped
    <2>2. PICK u \in QosStart .. pending[s].ends : TRUE
      BY <2>1 DEF RequestTrue
    <2> QED
      BY <2>1, <2>2, QosConstants DEF RequestTrue
  <1> QED
    BY <1>1, <1>2, <1>3 DEF QosInv, QosTyped

\* What a draw of a number leaves true, of requests that still transmit less.
LEMMA DrawNumber ==
  ASSUME NumbersTrue, sequence' = Qos!Next1(sequence),
         SpareOf(pending') \subseteq (1 .. QosSlots) \X (2 .. MaxAttempts),
         \/ (sequence - FirstSequence) % QosModulus < Requests * MaxAttempts
         \/ \E r \in SpareOf(pending) : SpareOf(pending') \subseteq SpareOf(pending) \ {r},
         \/ sent' = sent
         \/ \E t : t.seq = sequence /\ sent' = sent \cup {t}
  PROVE  NumbersTrue' /\ \A t \in sent : t.seq # sequence
<1>1. PICK k \in Nat :
         /\ sequence = Number(k) /\ k + Cardinality(SpareOf(pending)) <= Most
         /\ \A t \in sent : \E j \in 0 .. k - 1 : t.seq = Number(j)
         /\ \A t \in sent, u \in sent : t.seq = u.seq => t = u
  BY DEF NumbersTrue
<1> DEFINE c == Cardinality(SpareOf(pending))
           d == Cardinality(SpareOf(pending'))
           spare == QosSlots * (MaxAttempts - 1)
           drawn == Requests * MaxAttempts
<1>2. /\ c \in Nat /\ d \in Nat /\ d <= spare
      /\ IsFiniteSet(SpareOf(pending))
  <2>1. SpareOf(pending) \subseteq (1 .. QosSlots) \X (2 .. MaxAttempts)
    BY DEF SpareOf
  <2> QED
    BY <2>1, SpareBound
<1>3. spare \in Nat /\ drawn \in Nat /\ Most = drawn + spare /\ Most < QosModulus
      /\ QosModulus \in Nat
  BY MostFits, QosConstants
<1>4. (\E r \in SpareOf(pending) : SpareOf(pending') \subseteq SpareOf(pending) \ {r}) => d + 1 <= c
  <2> SUFFICES ASSUME NEW r \in SpareOf(pending), SpareOf(pending') \subseteq SpareOf(pending) \ {r}
               PROVE  d + 1 <= c
    OBVIOUS
  <2> DEFINE rest == SpareOf(pending) \ {r}
  <2>1. IsFiniteSet(rest) /\ Cardinality(rest) = c - 1
    BY <1>2, FS_RemoveElement
  <2> HIDE DEF rest
  <2>2. SpareOf(pending') \in SUBSET rest
    BY DEF rest
  <2>3. d <= Cardinality(rest)
    BY <2>1, <2>2, FS_Subset
  <2> QED
    BY <1>2, <2>1, <2>3
<1> HIDE DEF spare, drawn, c, d
<1>5. k < QosModulus
  BY <1>1, <1>2, <1>3 DEF c
<1>6. (k + 1) + d <= Most
  <2>1. CASE (sequence - FirstSequence) % QosModulus < Requests * MaxAttempts
    <3>1. (sequence - FirstSequence) % QosModulus = k
      BY <1>1, <1>5, NumberFacts
    <3>2. k < drawn
      BY <2>1, <3>1 DEF drawn
    <3> QED
      BY <1>2, <1>3, <3>2
  <2>2. CASE \E r \in SpareOf(pending) : SpareOf(pending') \subseteq SpareOf(pending) \ {r}
    <3>1. d + 1 <= c /\ k + c <= Most
      BY <1>1, <1>4, <2>2 DEF c
    <3> QED
      BY <1>2, <1>3, <3>1
  <2> QED
    BY <2>1, <2>2
<1>7. \A t \in sent : t.seq # sequence
  BY <1>1, <1>5, NumberIsNew
<1>8. sequence' = Number(k + 1) /\ k + 1 \in Nat
  BY <1>1, NumberFacts
<1>9. \A t \in sent' : \E j \in 0 .. (k + 1) - 1 : t.seq = Number(j)
  <2>1. \A t \in sent : \E j \in 0 .. (k + 1) - 1 : t.seq = Number(j)
    <3>1. \A j \in 0 .. k - 1 : j \in 0 .. (k + 1) - 1
      OBVIOUS
    <3> QED
      BY <1>1, <3>1
  <2>2. k \in 0 .. (k + 1) - 1
    OBVIOUS
  <2> QED
    BY <1>1, <2>1, <2>2
<1>10. \A t \in sent', u \in sent' : t.seq = u.seq => t = u
  BY <1>1, <1>7
<1> QED
  BY <1>6, <1>7, <1>8, <1>9, <1>10 DEF NumbersTrue, d

-----------------------------------------------------------------------------
\* Whoever goes on the air lives.
SentLive ==
    \A t \in sent' \ sent : \A s \in 1 .. QosSlots :
       Used(pending', s) /\ pending'[s].id = t.id => time < pending'[s].ends

LEMMA RequestGrows ==
  ASSUME IsFiniteSet(sent), NEW t, NEW id
  PROVE  /\ Cardinality(OfRequest(sent, id)) \in Nat
         /\ t.id # id => OfRequest(sent \cup {t}, id) = OfRequest(sent, id)
         /\ Cardinality(OfRequest(sent \cup {t}, id)) \in Nat
         /\ Cardinality(OfRequest(sent \cup {t}, id)) <= Cardinality(OfRequest(sent, id)) + 1
<1> DEFINE old == OfRequest(sent, id)
<1>1. IsFiniteSet(old) /\ Cardinality(old) \in Nat
  <2>1. old \in SUBSET sent
    BY DEF OfRequest
  <2> HIDE DEF old
  <2>2. IsFiniteSet(old)
    BY <2>1, FS_Subset
  <2> QED
    BY <2>2, FS_CardinalityType
<1>2. OfRequest(sent \cup {t}, id) = IF t.id = id THEN old \cup {t} ELSE old
  BY DEF OfRequest
<1> HIDE DEF old
<1>3. Cardinality(old \cup {t}) = IF t \in old THEN Cardinality(old) ELSE Cardinality(old) + 1
  BY <1>1, FS_AddElement
<1>4. Cardinality(old \cup {t}) \in Nat /\ Cardinality(old \cup {t}) <= Cardinality(old) + 1
  BY <1>1, <1>3
<1> QED
  BY <1>1, <1>2, <1>4 DEF old

\* A submission that draws a number and no more.
LEMMA SubmitFails ==
  ASSUME QosInv, (sequence - FirstSequence) % QosModulus < Requests * MaxAttempts,
         sequence' = Qos!Next1(sequence),
         UNCHANGED <<time, srtt, ended, heard, pending, sent>>
  PROVE  QosInv' /\ SentLive
<1>1. SpareOf(pending') \subseteq (1 .. QosSlots) \X (2 .. MaxAttempts)
  BY DEF SpareOf
<1>2. NumbersTrue'
  BY <1>1, DrawNumber DEF QosInv
<1>3. QosTyped' /\ RequestsTrue' /\ NewestTrue'
  BY DEF QosInv, QosTyped, RequestsTrue, NewestTrue
<1> QED
  BY <1>2, <1>3 DEF QosInv, SentLive

\* A new request in a free slot.
LEMMA SubmitTakes ==
  ASSUME QosInv, (sequence - FirstSequence) % QosModulus < Requests * MaxAttempts,
         sequence' = Qos!Next1(sequence), UNCHANGED <<time, srtt, ended, heard>>,
         NEW slot \in 1 .. QosSlots, ~Used(pending, slot), NEW n \in Nat, IdsOf(sent) = 1 .. n,
         NEW token \in Tokens, NEW ttl \in QosTtls, Qos!Delay(ttl) > 0,
         NEW p, p = [token |-> token, id |-> n + 1, current |-> sequence, attempts |-> 1,
                     lastSent |-> Qos!Now, at |-> time,
                     expires |-> (Qos!Now + ttl) % TimeModulus,
                     ends |-> time + ttl, next |-> (Qos!Now + Qos!Delay(ttl)) % TimeModulus],
         pending' = [pending EXCEPT ![slot] = p],
         sent' = sent \cup {Qos!Transmission(p, sequence)}
  PROVE  QosInv' /\ SentLive
<1>1. /\ time \in Nat /\ time \in QosStart .. QosEnd /\ srtt \in -1 .. QosEnd - QosStart
      /\ pending = [s \in 1 .. QosSlots |-> pending[s]] /\ sequence \in 0 .. QosModulus - 1
  BY QosFacts
<1>2. ttl \in Nat /\ ttl <= TimeModulus \div 2 /\ TimeModulus \in Nat \ {0} /\ MaxAttempts \in Nat \ {0}
      /\ QosStart \in Nat
  BY QosInstance, QosConstants
<1>3. Qos!Delay(ttl) \in Nat /\ Qos!Delay(ttl) <= ttl /\ ttl > 0
  BY <1>1, <1>2, DelayFacts
<1>4. RequestTrue(p, time)
  <2>1. (Qos!Now + ttl) % TimeModulus = (time + ttl) % TimeModulus
    BY <1>1, <1>2, ModOfSum DEF Qos!Now
  <2>2. (Qos!Now + Qos!Delay(ttl)) % TimeModulus = (time + Qos!Delay(ttl)) % TimeModulus
    BY <1>1, <1>2, <1>3, ModOfSum DEF Qos!Now
  <2>3. /\ time + ttl \in Nat /\ (time + ttl) - time <= TimeModulus \div 2
        /\ time \in QosStart .. time /\ 1 \in 1 .. MaxAttempts
        /\ time + Qos!Delay(ttl) \in QosStart .. time + ttl /\ n + 1 \in Nat
    BY <1>1, <1>2, <1>3, SMTT(30)
  <2>4. p.lastSent = time % TimeModulus
    BY DEF Qos!Now
  <2>5. p.next = (time + Qos!Delay(ttl)) % TimeModulus /\ p.ends = time + ttl
        /\ p.expires = (time + ttl) % TimeModulus
    BY <2>1, <2>2
  <2>6. /\ p = [token |-> p.token, id |-> p.id, current |-> p.current,
                attempts |-> p.attempts, lastSent |-> p.lastSent,
                expires |-> p.expires, ends |-> p.ends, next |-> p.next, at |-> p.at]
        /\ p.token \in Tokens /\ p.id \in Nat /\ p.attempts \in 1 .. MaxAttempts
        /\ p.current \in 0 .. QosModulus - 1
    BY <1>1, <2>3
  <2>7. /\ p.at \in QosStart .. time /\ p.lastSent = p.at % TimeModulus
        /\ (\E u \in QosStart .. p.ends : p.next = u % TimeModulus)
    BY <2>3, <2>4, <2>5
  <2>8. p.ends \in Nat /\ p.ends - time <= TimeModulus \div 2 /\ p.expires = p.ends % TimeModulus
    BY <2>3, <2>5
  <2> QED
    BY <2>6, <2>7, <2>8 DEF RequestTrue
<1>5. /\ pending' = [s \in 1 .. QosSlots |-> pending'[s]] /\ pending'[slot] = p
      /\ \A s \in 1 .. QosSlots : s # slot => pending'[s] = pending[s]
  BY <1>1, SlotSet
<1>6. p.id = n + 1 /\ p.token = token /\ p.attempts = 1 /\ p.current = sequence
      /\ p.at = time /\ time < p.ends
  <2>1. p.ends = time + ttl
    OBVIOUS
  <2>2. time < time + ttl
    BY <1>1, <1>2, <1>3
  <2> QED
    BY <2>1, <2>2
<1> DEFINE t == Qos!Transmission(p, sequence)
<1>7. t = [id |-> n + 1, token |-> token, seq |-> sequence, at |-> time]
      /\ t.id = n + 1 /\ t.seq = sequence /\ t.at = time
      /\ t = Qos!Transmission(p, p.current)
  BY <1>6 DEF Qos!Transmission
<1>8. t \in Transmissions
  BY <1>1, <1>7 DEF Transmissions
<1> HIDE DEF t
<1>9. sent' = sent \cup {t} /\ IsFiniteSet(sent) /\ sent \subseteq Transmissions /\ heard \subseteq sent
  BY DEF QosInv, QosTyped, t
<1>10. QosTyped'
  <2>1. IsFiniteSet(sent')
    BY <1>9, FS_AddElement
  <2>2. \A s \in 1 .. QosSlots : Used(pending', s) => RequestTrue(pending'[s], time)
    BY <1>4, <1>5 DEF QosInv, QosTyped, Used
  <2> QED
    BY <1>1, <1>5, <1>8, <1>9, <2>1, <2>2 DEF QosTyped
<1>11. NumbersTrue'
  <2>1. SpareOf(pending') \subseteq (1 .. QosSlots) \X (2 .. MaxAttempts)
    BY DEF SpareOf
  <2>2. t.seq = sequence /\ sent' = sent \cup {t}
    BY <1>7, <1>9
  <2> QED
    BY <2>1, <2>2, DrawNumber DEF QosInv
<1>12. \A u \in sent : u.id \in 1 .. n
  BY DEF IdsOf
<1>13. IdsOf(sent') = 1 .. (n + 1)
  <2>1. IdsOf(sent') = IdsOf(sent) \cup {n + 1}
    BY <1>7, <1>9 DEF IdsOf
  <2>2. (1 .. n) \cup {n + 1} = 1 .. (n + 1)
    OBVIOUS
  <2> QED
    BY <2>1, <2>2
<1>14. OfRequest(sent, n + 1) = {} /\ ~(n + 1 \in 1 .. n)
  BY <1>12 DEF OfRequest
<1>15. /\ \A id : id # n + 1 => OfRequest(sent', id) = OfRequest(sent, id)
       /\ Cardinality(OfRequest(sent', n + 1)) <= 1
  <2>1. \A id : id # n + 1 => OfRequest(sent \cup {t}, id) = OfRequest(sent, id)
    BY <1>7, <1>9, RequestGrows
  <2>2. /\ Cardinality(OfRequest(sent \cup {t}, n + 1)) <= Cardinality(OfRequest(sent, n + 1)) + 1
        /\ Cardinality(OfRequest(sent \cup {t}, n + 1)) \in Nat
    BY <1>9, RequestGrows
  <2>3. Cardinality(OfRequest(sent, n + 1)) = 0
    BY <1>14, FS_EmptySet
  <2> DEFINE c == Cardinality(OfRequest(sent \cup {t}, n + 1))
  <2>4. c \in Nat /\ c <= 0 + 1
    BY <2>2, <2>3
  <2> HIDE DEF c
  <2>5. c <= 1
    BY <2>4
  <2> QED
    BY <1>9, <2>1, <2>5 DEF c
<1>16. RequestsTrue'
  <2> DEFINE Fine(s) == /\ Qos!Transmission(pending'[s], pending'[s].current) \in sent'
                        /\ Cardinality(OfRequest(sent', pending'[s].id)) <= pending'[s].attempts
                        /\ \A r \in 1 .. QosSlots : Used(pending', r) /\ pending'[r].id = pending'[s].id => r = s
                        /\ \A e \in ended : e[1] # pending'[s].id
  <2>0. RequestsTrue
    BY DEF QosInv
  <2>1. \A s \in 1 .. QosSlots : Used(pending, s) => pending[s].id \in 1 .. n
    <3>1. \A s \in 1 .. QosSlots : Used(pending, s) => Qos!Transmission(pending[s], pending[s].current) \in sent
      BY <2>0 DEF RequestsTrue
    <3> QED
      BY <1>12, <3>1 DEF Qos!Transmission
  <2>2. \A e \in ended : e[1] \in 1 .. n
    BY <2>0 DEF RequestsTrue
  <2>3. Fine(slot)
    <3>1. Qos!Transmission(pending'[slot], pending'[slot].current) \in sent'
      BY <1>5, <1>7, <1>9
    <3>2. Cardinality(OfRequest(sent', pending'[slot].id)) <= pending'[slot].attempts
      BY <1>5, <1>6, <1>15
    <3>3. \A r \in 1 .. QosSlots : Used(pending', r) /\ pending'[r].id = pending'[slot].id => r = slot
      BY <1>5, <1>6, <1>14, <2>1 DEF Used
    <3>4. \A e \in ended : e[1] # pending'[slot].id
      BY <1>5, <1>6, <1>14, <2>2
    <3> QED
      BY <3>1, <3>2, <3>3, <3>4
  <2>4. ASSUME NEW s \in 1 .. QosSlots, s # slot, Used(pending, s) PROVE Fine(s)
    <3>0. pending'[s] = pending[s] /\ pending[s].id \in 1 .. n /\ pending[s].id # n + 1
      BY <1>5, <1>14, <2>1, <2>4
    <3>1. Qos!Transmission(pending[s], pending[s].current) \in sent'
      BY <1>9, <2>0, <2>4 DEF RequestsTrue
    <3>2. Cardinality(OfRequest(sent', pending[s].id)) <= pending[s].attempts
      <4>1. Cardinality(OfRequest(sent, pending[s].id)) <= pending[s].attempts
        BY <2>0, <2>4 DEF RequestsTrue
      <4>2. OfRequest(sent', pending[s].id) = OfRequest(sent, pending[s].id)
        BY <1>15, <3>0
      <4> QED
        BY <4>1, <4>2
    <3>3. \A r \in 1 .. QosSlots : Used(pending', r) /\ pending'[r].id = pending[s].id => r = s
      BY <1>5, <1>6, <2>0, <2>4, <3>0 DEF RequestsTrue, Used
    <3>4. \A e \in ended : e[1] # pending[s].id
      BY <2>0, <2>4 DEF RequestsTrue
    <3> QED
      BY <3>0, <3>1, <3>2, <3>3, <3>4
  <2>5. \A s \in 1 .. QosSlots : Used(pending', s) => Fine(s)
    <3>1. \A s \in 1 .. QosSlots : s # slot /\ Used(pending', s) => Used(pending, s)
      BY <1>5 DEF Used
    <3> HIDE DEF Fine
    <3> QED
      BY <2>3, <2>4, <3>1
  <2>6. \A id : Cardinality(OfRequest(sent', id)) <= MaxAttempts
    <3>1. \A id : Cardinality(OfRequest(sent, id)) <= MaxAttempts
      BY <2>0 DEF RequestsTrue
    <3>2. Cardinality(OfRequest(sent', n + 1)) <= MaxAttempts
      <4>1. Cardinality(OfRequest(sent', n + 1)) \in Nat
        BY <1>9, RequestGrows
      <4> QED
        BY <1>2, <1>15, <4>1
    <3> QED
      BY <1>15, <3>1, <3>2
  <2>7. \A e \in ended' :
         /\ e[1] \in IdsOf(sent')
         /\ e[2] = "ACKED" => \E u \in heard' : u.id = e[1]
         /\ \A d \in ended' : d[1] = e[1] => d = e
    <3>1. \A e \in ended : e[1] \in 1 .. (n + 1)
      BY <2>2
    <3> QED
      BY <1>13, <2>0, <3>1 DEF RequestsTrue
  <2>8. \E m \in Nat : IdsOf(sent') = 1 .. m
    BY <1>13
  <2> QED
    BY <2>5, <2>6, <2>7, <2>8 DEF RequestsTrue
<1>17. SentLive
  <2>1. \A u \in sent' \ sent : u = t
    BY <1>9
  <2>2. \A s \in 1 .. QosSlots : Used(pending', s) /\ pending'[s].id = n + 1 => s = slot
    <3>1. \A s \in 1 .. QosSlots : Used(pending, s) => pending[s].id \in 1 .. n
      <4>1. \A s \in 1 .. QosSlots : Used(pending, s) => Qos!Transmission(pending[s], pending[s].current) \in sent
        BY DEF QosInv, RequestsTrue
      <4> QED
        BY <1>12, <4>1 DEF Qos!Transmission
    <3> QED
      BY <1>5, <1>14, <3>1 DEF Used
  <2>3. ASSUME NEW u \in sent' \ sent, NEW s \in 1 .. QosSlots,
               Used(pending', s), pending'[s].id = u.id
        PROVE  time < pending'[s].ends
    <3>1. u.id = n + 1
      BY <1>7, <2>1
    <3>2. s = slot
      BY <2>2, <2>3, <3>1
    <3> QED
      BY <1>5, <1>6, <3>2
  <2> QED
    BY <2>3 DEF SentLive
<1>18. NewestTrue'
  <2>1. \A u \in sent' : u.at <= time
    BY <1>1, <1>7, <1>9 DEF QosInv, NewestTrue
  <2>2. \A s \in 1 .. QosSlots : Used(pending, s) => pending[s].id \in 1 .. n
    <3>1. \A s \in 1 .. QosSlots : Used(pending, s) => Qos!Transmission(pending[s], pending[s].current) \in sent
      BY DEF QosInv, RequestsTrue
    <3> QED
      BY <1>12, <3>1 DEF Qos!Transmission
  <2>3. ASSUME NEW s \in 1 .. QosSlots, Used(pending', s), NEW u \in sent', u.id = pending'[s].id
        PROVE  u.at <= pending'[s].at
    <3>1. CASE s = slot
      BY <1>5, <1>6, <2>1, <3>1
    <3>2. CASE s # slot
      <4>1. pending'[s] = pending[s] /\ Used(pending, s)
        BY <1>5, <2>3, <3>2 DEF Used
      <4>2. u # t
        BY <1>7, <1>14, <2>2, <2>3, <4>1
      <4> QED
        BY <1>9, <2>3, <4>1, <4>2 DEF QosInv, NewestTrue
    <3> QED
      BY <3>1, <3>2
  <2> QED
    BY <2>1, <2>3 DEF NewestTrue
<1> QED
  BY <1>10, <1>11, <1>16, <1>17, <1>18 DEF QosInv

LEMMA SubmitInv ==
  ASSUME QosInv, NEW token \in Tokens, NEW ttl \in QosTtls, NEW encodes \in BOOLEAN,
         Qos!Submit(token, ttl, encodes)
  PROVE  QosInv' /\ SentLive
<1> DEFINE free == {s \in 1 .. QosSlots : ~Used(pending, s)}
           slot == CHOOSE s \in free : \A t \in free : s <= t
           p    == [token |-> token, id |-> Cardinality(IdsOf(sent)) + 1,
                    current |-> sequence, attempts |-> 1, lastSent |-> Qos!Now, at |-> time,
                    expires |-> (Qos!Now + ttl) % TimeModulus, ends |-> time + ttl,
                    next |-> (Qos!Now + Qos!Delay(ttl)) % TimeModulus]
<1>1. /\ free # {} /\ (sequence - FirstSequence) % QosModulus < Requests * MaxAttempts
      /\ sequence' = Qos!Next1(sequence)
      /\ IF encodes /\ Qos!Delay(ttl) > 0
         THEN /\ pending' = [pending EXCEPT ![slot] = p]
              /\ sent' = sent \cup {Qos!Transmission(p, sequence)}
         ELSE UNCHANGED <<pending, sent>>
      /\ UNCHANGED <<time, srtt, ended, heard>>
  BY SameQosCardinality DEF Qos!Submit, Qos!Submitted, Qos!InUse, Used, IdsOf
<1>2. slot \in free
  <2>1. free \in SUBSET Nat
    BY QosConstants
  <2> HIDE DEF free
  <2>2. \E s \in free : \A t \in free : s <= t
    BY <1>1, <2>1, LeastExists
  <2> QED
    BY <2>2
<1>3. slot \in 1 .. QosSlots /\ ~Used(pending, slot)
  BY <1>2
<1> HIDE DEF slot, free
<1>4. PICK n \in Nat : IdsOf(sent) = 1 .. n
  BY DEF QosInv, RequestsTrue
<1>5. Cardinality(IdsOf(sent)) = n
  <2>1. Cardinality(1 .. n) = IF 1 > n THEN 0 ELSE n - 1 + 1
    BY FS_Interval
  <2> QED
    BY <1>4, <2>1
<1>6. p = [token |-> token, id |-> n + 1, current |-> sequence, attempts |-> 1,
           lastSent |-> Qos!Now, at |-> time, expires |-> (Qos!Now + ttl) % TimeModulus,
           ends |-> time + ttl, next |-> (Qos!Now + Qos!Delay(ttl)) % TimeModulus]
  BY <1>5
<1> HIDE DEF p
<1>7. CASE encodes /\ Qos!Delay(ttl) > 0
  <2>1. pending' = [pending EXCEPT ![slot] = p] /\ sent' = sent \cup {Qos!Transmission(p, sequence)}
    BY <1>1, <1>7
  <2>2. PICK q : q = p
    OBVIOUS
  <2>3. PICK x : x = slot
    OBVIOUS
  <2>4. /\ q = [token |-> token, id |-> n + 1, current |-> sequence, attempts |-> 1,
                lastSent |-> Qos!Now, at |-> time,
                expires |-> (Qos!Now + ttl) % TimeModulus,
                ends |-> time + ttl, next |-> (Qos!Now + Qos!Delay(ttl)) % TimeModulus]
        /\ x \in 1 .. QosSlots /\ ~Used(pending, x)
        /\ pending' = [pending EXCEPT ![x] = q] /\ sent' = sent \cup {Qos!Transmission(q, sequence)}
    BY <1>3, <1>6, <2>1, <2>2, <2>3
  <2> QED
    BY <1>1, <1>4, <1>7, <2>4, SubmitTakes
<1>8. CASE ~(encodes /\ Qos!Delay(ttl) > 0)
  BY <1>1, <1>8, SubmitFails
<1> QED
  BY <1>7, <1>8

-----------------------------------------------------------------------------
\* A request ends: its slot is free, and it has the outcome it gets.
LEMMA RequestEnds ==
  ASSUME QosInv, UNCHANGED <<time, sequence, sent, heard>>, srtt' \in -1 .. QosEnd - QosStart,
         NEW slot \in 1 .. QosSlots, Used(pending, slot), NEW id, id = pending[slot].id,
         NEW outcome, outcome = "ACKED" => \E t \in heard : t.id = id,
         pending' = [pending EXCEPT ![slot] = Qos!NoRequest],
         ended' = ended \cup {<<id, outcome>>}
  PROVE  QosInv'
<1>1. /\ time \in QosStart .. QosEnd /\ pending = [s \in 1 .. QosSlots |-> pending[s]]
  BY QosFacts
<1>2. /\ pending' = [s \in 1 .. QosSlots |-> pending'[s]] /\ pending'[slot] = Qos!NoRequest
      /\ \A s \in 1 .. QosSlots : s # slot => pending'[s] = pending[s]
  BY <1>1, SlotSet
<1>3. /\ ~Used(pending', slot)
      /\ \A s \in 1 .. QosSlots : Used(pending', s) =>
           s # slot /\ Used(pending, s) /\ pending'[s] = pending[s]
  BY <1>2 DEF Used
<1>4. QosTyped'
  BY <1>1, <1>2, <1>3 DEF QosInv, QosTyped
<1>5. NumbersTrue'
  <2>1. SpareOf(pending') \subseteq SpareOf(pending)
    BY <1>3 DEF SpareOf
  <2>2. /\ IsFiniteSet(SpareOf(pending)) /\ Cardinality(SpareOf(pending)) \in Nat
        /\ Cardinality(SpareOf(pending')) \in Nat
    <3>1. /\ SpareOf(pending) \subseteq (1 .. QosSlots) \X (2 .. MaxAttempts)
          /\ SpareOf(pending') \subseteq (1 .. QosSlots) \X (2 .. MaxAttempts)
      BY DEF SpareOf
    <3> QED
      BY <3>1, SpareBound
  <2>3. Cardinality(SpareOf(pending')) <= Cardinality(SpareOf(pending))
    BY <2>1, <2>2, FS_Subset
  <2>4. PICK k \in Nat :
         /\ sequence = Number(k) /\ k + Cardinality(SpareOf(pending)) <= Most
         /\ \A t \in sent : \E j \in 0 .. k - 1 : t.seq = Number(j)
         /\ \A t \in sent, u \in sent : t.seq = u.seq => t = u
    BY DEF QosInv, NumbersTrue
  <2>5. k + Cardinality(SpareOf(pending')) <= Most
    BY <2>2, <2>3, <2>4, MostFits
  <2> QED
    BY <2>4, <2>5 DEF NumbersTrue
<1>6. RequestsTrue'
  <2>0. RequestsTrue
    BY DEF QosInv
  <2>1. Qos!Transmission(pending[slot], pending[slot].current) \in sent
    BY <2>0 DEF RequestsTrue
  <2>2. id \in IdsOf(sent)
    BY <2>1 DEF IdsOf, Qos!Transmission
  <2>3. \A e \in ended : e[1] # id
    BY <2>0 DEF RequestsTrue
  <2>4. \A s \in 1 .. QosSlots : Used(pending', s) =>
         /\ Qos!Transmission(pending'[s], pending'[s].current) \in sent'
         /\ Cardinality(OfRequest(sent', pending'[s].id)) <= pending'[s].attempts
         /\ \A r \in 1 .. QosSlots : Used(pending', r) /\ pending'[r].id = pending'[s].id => r = s
         /\ \A e \in ended : e[1] # pending'[s].id
    <3> SUFFICES ASSUME NEW s \in 1 .. QosSlots, Used(pending', s)
                 PROVE  /\ Qos!Transmission(pending'[s], pending'[s].current) \in sent'
                        /\ Cardinality(OfRequest(sent', pending'[s].id)) <= pending'[s].attempts
                        /\ \A r \in 1 .. QosSlots : Used(pending', r) /\ pending'[r].id = pending'[s].id => r = s
                        /\ \A e \in ended : e[1] # pending'[s].id
      OBVIOUS
    <3>1. Used(pending, s) /\ pending'[s] = pending[s]
      BY <1>3
    <3>2. /\ Qos!Transmission(pending[s], pending[s].current) \in sent
          /\ Cardinality(OfRequest(sent, pending[s].id)) <= pending[s].attempts
          /\ \A r \in 1 .. QosSlots : Used(pending, r) /\ pending[r].id = pending[s].id => r = s
          /\ \A e \in ended : e[1] # pending[s].id
      BY <2>0, <3>1 DEF RequestsTrue
    <3>3. \A r \in 1 .. QosSlots : Used(pending', r) /\ pending'[r].id = pending[s].id => r = s
      BY <1>3, <3>2
    <3>4. sent' = sent
      OBVIOUS
    <3>5. Qos!Transmission(pending'[s], pending'[s].current) \in sent'
      BY <3>1, <3>2, <3>4
    <3>6. Cardinality(OfRequest(sent', pending'[s].id)) <= pending'[s].attempts
      BY <3>1, <3>2, <3>4
    <3>7. \A r \in 1 .. QosSlots : Used(pending', r) /\ pending'[r].id = pending'[s].id => r = s
      BY <3>1, <3>3
    <3>8. \A e \in ended : e[1] # pending'[s].id
      BY <3>1, <3>2
    <3> QED
      BY <3>5, <3>6, <3>7, <3>8
  <2>5. \A s \in 1 .. QosSlots : Used(pending', s) => pending'[s].id # id
    BY <1>3, <2>0 DEF RequestsTrue
  <2>6. \A s \in 1 .. QosSlots : Used(pending', s) => \A e \in ended' : e[1] # pending'[s].id
    <3>1. <<id, outcome>>[1] = id
      OBVIOUS
    <3> QED
      BY <2>4, <2>5, <3>1
  <2>7. ASSUME NEW e \in ended'
        PROVE  /\ e[1] \in IdsOf(sent')
               /\ e[2] = "ACKED" => \E t \in heard' : t.id = e[1]
               /\ \A d \in ended' : d[1] = e[1] => d = e
    <3>1. CASE e \in ended
      <4>1. /\ e[1] \in IdsOf(sent)
            /\ e[2] = "ACKED" => \E t \in heard : t.id = e[1]
            /\ \A d \in ended : d[1] = e[1] => d = e
        BY <2>0, <3>1 DEF RequestsTrue
      <4>2. \A d \in ended' : d[1] = e[1] => d = e
        BY <2>3, <3>1, <4>1
      <4> QED
        BY <4>1, <4>2
    <3>2. CASE e = <<id, outcome>>
      <4>1. e[1] = id /\ e[2] = outcome
        BY <3>2
      <4>2. \A d \in ended' : d[1] = e[1] => d = e
        BY <2>3, <3>2, <4>1
      <4> QED
        BY <2>2, <4>1, <4>2
    <3> QED
      BY <3>1, <3>2
  <2>8. (\E n \in Nat : IdsOf(sent') = 1 .. n) /\ \A x : Cardinality(OfRequest(sent', x)) <= MaxAttempts
    BY <2>0 DEF RequestsTrue
  <2> QED
    BY <2>4, <2>6, <2>7, <2>8 DEF RequestsTrue
<1>7. NewestTrue'
  BY <1>3 DEF QosInv, NewestTrue
<1> QED
  BY <1>4, <1>5, <1>6, <1>7 DEF QosInv

\* A request is transmitted again, under a new number.
LEMMA RequestRepeats ==
  ASSUME QosInv, UNCHANGED <<time, srtt, ended, heard>>, sequence' = Qos!Next1(sequence),
         NEW slot \in 1 .. QosSlots, Used(pending, slot), NEW p, p = pending[slot],
         time < p.ends, p.attempts < MaxAttempts, NEW wait \in Nat, time + wait <= p.ends,
         NEW q, q = [token |-> p.token, id |-> p.id, current |-> sequence,
                     attempts |-> p.attempts + 1, lastSent |-> Qos!Now,
                     expires |-> p.expires, ends |-> p.ends, at |-> time,
                     next |-> (Qos!Now + wait) % TimeModulus],
         pending' = [pending EXCEPT ![slot] = q],
         sent' = sent \cup {Qos!Transmission(q, sequence)}
  PROVE  QosInv' /\ SentLive
<1>1. /\ time \in Nat /\ time \in QosStart .. QosEnd /\ srtt \in -1 .. QosEnd - QosStart
      /\ pending = [s \in 1 .. QosSlots |-> pending[s]] /\ sequence \in 0 .. QosModulus - 1
      /\ RequestTrue(p, time) /\ MaxAttempts \in Nat \ {0} /\ QosStart \in Nat
      /\ TimeModulus \in Nat \ {0}
  BY QosFacts, QosConstants
<1>2. /\ p.token \in Tokens /\ p.id \in Nat /\ p.attempts \in 1 .. MaxAttempts /\ p.ends \in Nat
      /\ p.ends - time <= TimeModulus \div 2 /\ p.expires = p.ends % TimeModulus
  BY <1>1 DEF RequestTrue
<1>3. /\ q.token = p.token /\ q.id = p.id /\ q.current = sequence /\ q.attempts = p.attempts + 1
      /\ q.lastSent = Qos!Now /\ q.expires = p.expires /\ q.ends = p.ends
      /\ q.next = (Qos!Now + wait) % TimeModulus /\ q.at = time
      /\ q = [token |-> q.token, id |-> q.id, current |-> q.current,
              attempts |-> q.attempts, lastSent |-> q.lastSent,
              expires |-> q.expires, ends |-> q.ends, next |-> q.next, at |-> q.at]
  OBVIOUS
<1>4. RequestTrue(q, time)
  <2>1. q.next = (time + wait) % TimeModulus
    <3>1. (Qos!Now + wait) % TimeModulus = (time + wait) % TimeModulus
      BY <1>1, ModOfSum DEF Qos!Now
    <3> QED
      BY <1>3, <3>1
  <2>2. q.lastSent = time % TimeModulus
    BY <1>3 DEF Qos!Now
  <2>3. time \in QosStart .. time /\ time + wait \in QosStart .. q.ends
        /\ q.attempts \in 1 .. MaxAttempts
    <3>0. time \in QosStart .. QosEnd /\ QosStart \in Nat /\ QosEnd \in Nat /\ MaxAttempts \in Nat
      BY <1>1, QosConstants
    <3> DEFINE b == p.ends
               n == p.attempts
    <3>a. /\ b \in Nat /\ time + wait <= b /\ n \in 1 .. MaxAttempts /\ n < MaxAttempts
      BY <1>2
    <3> HIDE DEF b, n
    <3>1. time \in QosStart .. time /\ time + wait \in QosStart .. b
      BY <3>0, <3>a
    <3>2. n + 1 \in 1 .. MaxAttempts
      BY <3>0, <3>a
    <3> QED
      BY <1>3, <3>1, <3>2 DEF b, n
  <2>4. /\ q.at \in QosStart .. time /\ q.lastSent = q.at % TimeModulus
        /\ \E u \in QosStart .. q.ends : q.next = u % TimeModulus
    BY <1>3, <2>1, <2>2, <2>3
  <2>5. /\ q.token \in Tokens /\ q.id \in Nat /\ q.current \in 0 .. QosModulus - 1
        /\ q.ends \in Nat /\ q.ends - time <= TimeModulus \div 2 /\ q.expires = q.ends % TimeModulus
    BY <1>1, <1>2, <1>3
  <2> QED
    BY <1>3, <2>3, <2>4, <2>5 DEF RequestTrue
<1>5. /\ pending' = [s \in 1 .. QosSlots |-> pending'[s]] /\ pending'[slot] = q
      /\ \A s \in 1 .. QosSlots : s # slot => pending'[s] = pending[s]
  BY <1>1, SlotSet
<1> DEFINE t == Qos!Transmission(q, sequence)
<1>6. t = [id |-> p.id, token |-> p.token, seq |-> sequence, at |-> time]
      /\ t.id = p.id /\ t.seq = sequence /\ t.at = time
      /\ t = Qos!Transmission(q, q.current)
  BY <1>3 DEF Qos!Transmission
<1> HIDE DEF t
<1>7. t \in Transmissions
  <2>1. p.id \in Nat /\ p.token \in Tokens /\ sequence \in 0 .. QosModulus - 1
    BY <1>1, <1>2
  <2>2. t = [id |-> p.id, token |-> p.token, seq |-> sequence, at |-> time] /\ time \in Nat
    BY <1>1, <1>6
  <2> QED
    BY <2>1, <2>2 DEF Transmissions
<1>8. sent' = sent \cup {t} /\ IsFiniteSet(sent) /\ sent \subseteq Transmissions /\ heard \subseteq sent
  BY DEF QosInv, QosTyped, t
<1>9. QosTyped'
  <2>1. IsFiniteSet(sent')
    BY <1>8, FS_AddElement
  <2>2. \A s \in 1 .. QosSlots : Used(pending', s) => RequestTrue(pending'[s], time)
    BY <1>4, <1>5 DEF QosInv, QosTyped, Used
  <2> QED
    BY <1>1, <1>5, <1>7, <1>8, <2>1, <2>2 DEF QosTyped
<1>10. NumbersTrue'
  <2> DEFINE r == <<slot, p.attempts + 1>>
  <2>1. r \in (1 .. QosSlots) \X (2 .. MaxAttempts) /\ r[1] = slot /\ r[2] = p.attempts + 1
    <3>1. PICK m : m = p.attempts + 1
      OBVIOUS
    <3>2. m \in 2 .. MaxAttempts
      <4>1. p.attempts \in 1 .. MaxAttempts /\ MaxAttempts \in Nat /\ p.attempts < MaxAttempts
        BY <1>1, <1>2
      <4> QED
        BY <3>1, <4>1
    <3>3. <<slot, m>> \in (1 .. QosSlots) \X (2 .. MaxAttempts)
      BY <3>2, Zenon
    <3> QED
      BY <3>1, <3>3
  <2>2. r \in SpareOf(pending)
    <3>1. p.attempts + 1 > p.attempts
      BY <1>2
    <3> QED
      BY <2>1, <3>1 DEF SpareOf
  <2>3. SpareOf(pending') \subseteq SpareOf(pending) \ {r}
    <3> SUFFICES ASSUME NEW x \in SpareOf(pending') PROVE x \in SpareOf(pending) /\ x # r
      OBVIOUS
    <3>1. /\ x \in (1 .. QosSlots) \X (2 .. MaxAttempts) /\ Used(pending', x[1])
          /\ x[2] > pending'[x[1]].attempts /\ x[1] \in 1 .. QosSlots /\ x[2] \in Nat
      BY <1>1 DEF SpareOf
    <3>2. CASE x[1] = slot
      <4>1. x[2] > p.attempts + 1
        BY <1>3, <1>5, <3>1, <3>2
      <4>2. x[2] > p.attempts /\ x[2] # p.attempts + 1
        BY <1>2, <3>1, <4>1
      <4> QED
        BY <2>1, <3>1, <3>2, <4>2 DEF SpareOf
    <3>3. CASE x[1] # slot
      <4>1. pending'[x[1]] = pending[x[1]]
        BY <1>5, <3>1, <3>3
      <4> QED
        BY <2>1, <3>1, <3>3, <4>1 DEF SpareOf, Used
    <3> QED
      BY <3>2, <3>3
  <2> HIDE DEF r
  <2>4. SpareOf(pending') \subseteq (1 .. QosSlots) \X (2 .. MaxAttempts)
    BY DEF SpareOf
  <2>5. t.seq = sequence /\ sent' = sent \cup {t}
    BY <1>6, <1>8
  <2> QED
    BY <2>2, <2>3, <2>4, <2>5, DrawNumber DEF QosInv
<1>11. RequestsTrue
  BY DEF QosInv
<1>12. /\ Cardinality(OfRequest(sent, p.id)) <= p.attempts
       /\ \A s \in 1 .. QosSlots : Used(pending, s) /\ pending[s].id = p.id => s = slot
       /\ \A e \in ended : e[1] # p.id
       /\ p.id \in IdsOf(sent)
  <2>1. /\ Qos!Transmission(p, p.current) \in sent
        /\ Cardinality(OfRequest(sent, p.id)) <= p.attempts
        /\ \A s \in 1 .. QosSlots : Used(pending, s) /\ pending[s].id = p.id => s = slot
        /\ \A e \in ended : e[1] # p.id
    BY <1>11 DEF RequestsTrue
  <2>2. Qos!Transmission(p, p.current).id = p.id
    BY DEF Qos!Transmission
  <2>3. p.id \in IdsOf(sent)
    BY <2>1, <2>2 DEF IdsOf
  <2> QED
    BY <2>1, <2>3
<1>13. /\ \A id : id # p.id => OfRequest(sent', id) = OfRequest(sent, id)
       /\ Cardinality(OfRequest(sent', p.id)) <= p.attempts + 1
  <2>1. \A id : id # p.id => OfRequest(sent \cup {t}, id) = OfRequest(sent, id)
    BY <1>6, <1>8, RequestGrows
  <2> DEFINE c == Cardinality(OfRequest(sent, p.id))
             d == Cardinality(OfRequest(sent \cup {t}, p.id))
  <2>2. c \in Nat /\ d \in Nat /\ d <= c + 1 /\ c <= p.attempts
    BY <1>8, <1>12, RequestGrows
  <2> HIDE DEF c, d
  <2>3. d <= p.attempts + 1
    BY <1>2, <2>2
  <2> QED
    BY <1>8, <2>1, <2>3 DEF d
<1>14. RequestsTrue'
  <2> DEFINE Fine(s) == /\ Qos!Transmission(pending'[s], pending'[s].current) \in sent'
                        /\ Cardinality(OfRequest(sent', pending'[s].id)) <= pending'[s].attempts
                        /\ \A r \in 1 .. QosSlots : Used(pending', r) /\ pending'[r].id = pending'[s].id => r = s
                        /\ \A e \in ended : e[1] # pending'[s].id
  <2>0. \A s \in 1 .. QosSlots : s # slot => (Used(pending', s) <=> Used(pending, s))
    BY <1>5 DEF Used
  <2>1. Fine(slot)
    <3>1. Qos!Transmission(pending'[slot], pending'[slot].current) \in sent'
      BY <1>5, <1>6, <1>8
    <3>2. Cardinality(OfRequest(sent', pending'[slot].id)) <= pending'[slot].attempts
      BY <1>3, <1>5, <1>13
    <3>3. \A r \in 1 .. QosSlots : Used(pending', r) /\ pending'[r].id = pending'[slot].id => r = slot
      BY <1>3, <1>5, <1>12, <2>0
    <3>4. \A e \in ended : e[1] # pending'[slot].id
      BY <1>3, <1>5, <1>12
    <3> QED
      BY <3>1, <3>2, <3>3, <3>4
  <2>2. ASSUME NEW s \in 1 .. QosSlots, s # slot, Used(pending, s) PROVE Fine(s)
    <3>0. pending'[s] = pending[s] /\ pending[s].id # p.id
      BY <1>5, <1>12, <2>2
    <3>1. Qos!Transmission(pending[s], pending[s].current) \in sent'
      BY <1>8, <1>11, <2>2 DEF RequestsTrue
    <3>2. Cardinality(OfRequest(sent', pending[s].id)) <= pending[s].attempts
      <4>1. Cardinality(OfRequest(sent, pending[s].id)) <= pending[s].attempts
        BY <1>11, <2>2 DEF RequestsTrue
      <4>2. OfRequest(sent', pending[s].id) = OfRequest(sent, pending[s].id)
        BY <1>13, <3>0
      <4> QED
        BY <4>1, <4>2
    <3>3. \A r \in 1 .. QosSlots : Used(pending', r) /\ pending'[r].id = pending[s].id => r = s
      <4>1. \A r \in 1 .. QosSlots : Used(pending, r) /\ pending[r].id = pending[s].id => r = s
        BY <1>11, <2>2 DEF RequestsTrue
      <4> QED
        BY <1>3, <1>5, <2>0, <3>0, <4>1
    <3>4. \A e \in ended : e[1] # pending[s].id
      BY <1>11, <2>2 DEF RequestsTrue
    <3> QED
      BY <3>0, <3>1, <3>2, <3>3, <3>4
  <2>3. \A s \in 1 .. QosSlots : Used(pending', s) => Fine(s)
    <3> HIDE DEF Fine
    <3> QED
      BY <2>0, <2>1, <2>2
  <2>4. \A id : Cardinality(OfRequest(sent', id)) <= MaxAttempts
    <3>1. \A id : Cardinality(OfRequest(sent, id)) <= MaxAttempts
      BY <1>11 DEF RequestsTrue
    <3>2. Cardinality(OfRequest(sent', p.id)) <= MaxAttempts
      <4> DEFINE d == Cardinality(OfRequest(sent', p.id))
      <4>1. d \in Nat /\ d <= p.attempts + 1
        BY <1>8, <1>13, RequestGrows
      <4> HIDE DEF d
      <4>2. d <= MaxAttempts
        BY <1>1, <1>2, <4>1
      <4> QED
        BY <4>2 DEF d
    <3> QED
      BY <1>13, <3>1, <3>2
  <2>5. IdsOf(sent') = IdsOf(sent)
    BY <1>6, <1>8, <1>12 DEF IdsOf
  <2> QED
    BY <1>11, <2>3, <2>4, <2>5 DEF RequestsTrue
<1>15. SentLive
  <2>1. ASSUME NEW u \in sent' \ sent, NEW s \in 1 .. QosSlots,
               Used(pending', s), pending'[s].id = u.id
        PROVE  time < pending'[s].ends
    <3>1. u.id = p.id
      BY <1>6, <1>8
    <3>2. s = slot
      BY <1>5, <1>12, <2>1, <3>1 DEF Used
    <3> QED
      BY <1>3, <1>5, <3>2
  <2> QED
    BY <2>1 DEF SentLive
<1>16. NewestTrue'
  <2>1. \A u \in sent' : u.at <= time
    BY <1>1, <1>6, <1>8 DEF QosInv, NewestTrue
  <2>2. ASSUME NEW s \in 1 .. QosSlots, Used(pending', s), NEW u \in sent', u.id = pending'[s].id
        PROVE  u.at <= pending'[s].at
    <3>1. CASE s = slot
      BY <1>3, <1>5, <2>1, <3>1
    <3>2. CASE s # slot
      <4>1. pending'[s] = pending[s] /\ Used(pending, s)
        BY <1>5, <2>2, <3>2 DEF Used
      <4>2. u # t
        BY <1>6, <1>12, <2>2, <3>2, <4>1
      <4> QED
        BY <1>8, <2>2, <4>1, <4>2 DEF QosInv, NewestTrue
    <3> QED
      BY <3>1, <3>2
  <2> QED
    BY <2>1, <2>2 DEF NewestTrue
<1> QED
  BY <1>9, <1>10, <1>14, <1>15, <1>16 DEF QosInv

-----------------------------------------------------------------------------
LEMMA PollInv == ASSUME QosInv, Qos!Poll PROVE QosInv' /\ SentLive
<1> DEFINE slot == CHOOSE s \in Qos!Due : \A t \in Qos!Due : s <= t
           p == pending[slot]
           remaining == (p.expires - Qos!Now) % TimeModulus
           wait == Qos!Delay(remaining)
           gone == [pending EXCEPT ![slot] = Qos!NoRequest]
           again == Qos!Resent(p, wait)
<1>1. /\ Qos!Due # {} /\ UNCHANGED <<time, srtt, heard>>
      /\ IF Qos!Expired(p) \/ Qos!Exhausted(p) \/ wait = 0
         THEN /\ pending' = gone /\ ended' = ended \cup {<<p.id, "EXPIRED">>}
              /\ UNCHANGED <<sequence, sent>>
         ELSE /\ pending' = [pending EXCEPT ![slot] = again]
              /\ sequence' = Qos!Next1(sequence)
              /\ sent' = sent \cup {Qos!Transmission(again, sequence)} /\ UNCHANGED ended
  BY DEF Qos!Poll
<1>2. slot \in 1 .. QosSlots /\ Used(pending, slot)
  <2>1. Qos!Due \in SUBSET Nat /\ \A s \in Qos!Due : s \in 1 .. QosSlots /\ Used(pending, s)
    BY QosConstants DEF Qos!Due, Qos!InUse, Used
  <2>2. \E s \in Qos!Due : \A t \in Qos!Due : s <= t
    BY <1>1, <2>1, LeastExists
  <2>3. slot \in Qos!Due
    BY <2>2
  <2> QED
    BY <2>1, <2>3
<1>3. PICK x : x = slot
  OBVIOUS
<1>4. PICK o : o = p
  OBVIOUS
<1> HIDE DEF slot
<1>5. /\ x \in 1 .. QosSlots /\ Used(pending, x) /\ o = pending[x]
  BY <1>2, <1>3, <1>4
<1>6. RequestTrue(o, time) /\ QosStart <= o.ends
  BY <1>5, QosFacts
<1>7. CASE Qos!Expired(p) \/ Qos!Exhausted(p) \/ wait = 0
  <2>1. /\ pending' = [pending EXCEPT ![x] = Qos!NoRequest]
        /\ ended' = ended \cup {<<o.id, "EXPIRED">>}
        /\ UNCHANGED <<sequence, sent>>
    BY <1>1, <1>3, <1>4, <1>7
  <2>2. PICK i : i = o.id
    OBVIOUS
  <2>3. srtt' \in -1 .. QosEnd - QosStart
    BY <1>1, QosFacts
  <2>4. i = pending[x].id /\ ended' = ended \cup {<<i, "EXPIRED">>}
    BY <1>5, <2>1, <2>2
  <2>5. PICK z : z = "EXPIRED"
    OBVIOUS
  <2>6. z = "ACKED" => \E t \in heard : t.id = i
    BY <2>5
  <2>7. UNCHANGED <<time, sequence, sent, heard>>
    BY <1>1, <2>1
  <2>8. /\ x \in 1 .. QosSlots /\ Used(pending, x) /\ i = pending[x].id
        /\ pending' = [pending EXCEPT ![x] = Qos!NoRequest]
        /\ ended' = ended \cup {<<i, z>>}
    BY <1>5, <2>1, <2>4, <2>5
  <2> HIDE DEF p, remaining, wait, gone, again
  <2>9. QosInv'
    BY <2>3, <2>6, <2>7, <2>8, RequestEnds
  <2> QED
    BY <2>1, <2>9 DEF SentLive
<1>8. CASE ~(Qos!Expired(p) \/ Qos!Exhausted(p) \/ wait = 0)
  <2>1. ~Qos!Expired(o) /\ ~(o.attempts >= MaxAttempts)
    BY <1>4, <1>8 DEF Qos!Exhausted
  <2>2. time \in QosStart .. QosEnd /\ time \in Nat /\ srtt \in -1 .. QosEnd - QosStart
    BY QosFacts
  <2>3. time < o.ends /\ (o.expires - Qos!Now) % TimeModulus = o.ends - time
    BY <1>6, <2>1, <2>2, RemainingFacts
  <2>4. o.ends \in Nat /\ o.attempts \in 1 .. MaxAttempts /\ MaxAttempts \in Nat
    BY <1>6, QosConstants DEF RequestTrue
  <2>5. PICK w : w = wait
    OBVIOUS
  <2>6. w = Qos!Delay(o.ends - time)
    BY <1>4, <2>3, <2>5
  <2>7. w \in Nat /\ w <= o.ends - time
    <3>1. o.ends - time \in Nat
      BY <2>2, <2>3, <2>4
    <3> QED
      BY <2>2, <2>6, <3>1, DelayFacts
  <2>8. time + w <= o.ends /\ o.attempts < MaxAttempts
    BY <2>1, <2>2, <2>4, <2>7
  <2>9. PICK q : q = again
    OBVIOUS
  <2>10. q = [o EXCEPT !.current = sequence, !.attempts = @ + 1, !.at = time,
                       !.lastSent = Qos!Now, !.next = (Qos!Now + w) % TimeModulus]
    BY <1>4, <2>5, <2>9 DEF Qos!Resent
  <2>11. q = [token |-> o.token, id |-> o.id, current |-> sequence,
              attempts |-> o.attempts + 1, lastSent |-> Qos!Now,
              expires |-> o.expires, ends |-> o.ends, at |-> time,
              next |-> (Qos!Now + w) % TimeModulus]
    <3>1. o = [token |-> o.token, id |-> o.id, current |-> o.current,
               attempts |-> o.attempts, lastSent |-> o.lastSent,
               expires |-> o.expires, ends |-> o.ends, next |-> o.next, at |-> o.at]
      BY <1>6 DEF RequestTrue
    <3> QED
      BY <2>10, <3>1
  <2>12. /\ pending' = [pending EXCEPT ![x] = q] /\ sequence' = Qos!Next1(sequence)
         /\ sent' = sent \cup {Qos!Transmission(q, sequence)} /\ ended' = ended
         /\ UNCHANGED <<time, srtt, ended, heard>>
    BY <1>1, <1>3, <1>4, <1>8, <2>9
  <2> HIDE DEF p, remaining, wait, gone, again
  <2> QED
    BY <1>5, <2>3, <2>7, <2>8, <2>11, <2>12, RequestRepeats
<1> QED
  BY <1>7, <1>8

\* An acknowledged request brings the time since the last of its transmissions,
\* the one the peer answered.
SampleTrue ==
    LET settled == {e \in ended' \ ended : e[2] = "ACKED"}
    IN  /\ srtt' # srtt => settled # {}
        /\ \A e \in settled : \E t \in heard :
             /\ t.id = e[1] /\ srtt' = Qos!Smoothed(time - t.at)
             /\ \A u \in sent : u.id = t.id => u.at <= t.at

\* The answer of the peer ends the request it answers, and its round trip is
\* that of the transmission answered.
LEMMA AckInv ==
  ASSUME QosInv, NEW a \in heard, Qos!AckArrives(a)
  PROVE  QosInv' /\ sent' = sent /\ SampleTrue
<1> DEFINE own == {s \in 1 .. QosSlots : Used(pending, s) /\ pending[s].token = a.token}
           slot == CHOOSE s \in own : \A t \in own : s <= t
           p == pending[slot]
           sample == (Qos!Now - p.lastSent) % TimeModulus
<1>1. /\ own # {} /\ a.seq = p.current
      /\ pending' = [pending EXCEPT ![slot] = Qos!NoRequest]
      /\ srtt' = IF srtt = -1 THEN sample ELSE (7 * srtt + sample) \div 8
      /\ ended' = ended \cup {<<p.id, "ACKED">>}
      /\ UNCHANGED <<time, sequence, sent, heard>>
  BY DEF Qos!AckArrives, Qos!Answers, Qos!InUse, Used, Qos!Smoothed
<1>2. slot \in own
  <2>1. own \in SUBSET Nat
    BY QosConstants
  <2> HIDE DEF own
  <2>2. \E s \in own : \A t \in own : s <= t
    BY <1>1, <2>1, LeastExists
  <2> QED
    BY <2>2
<1>3. slot \in 1 .. QosSlots /\ Used(pending, slot) /\ p.token = a.token
  BY <1>2
<1> HIDE DEF own, slot
<1>4. RequestTrue(p, time) /\ time \in Nat /\ time \in QosStart .. QosEnd
      /\ srtt \in -1 .. QosEnd - QosStart
  BY <1>3, QosFacts
<1>5. Qos!Transmission(p, p.current) \in sent /\ a \in sent /\ heard \subseteq sent
  BY <1>3 DEF QosInv, RequestsTrue, QosTyped
<1>6. a = Qos!Transmission(p, p.current)
  <2>1. Qos!Transmission(p, p.current).seq = a.seq
    BY <1>1 DEF Qos!Transmission
  <2>2. \A t \in sent, u \in sent : t.seq = u.seq => t = u
    BY DEF QosInv, NumbersTrue
  <2> QED
    BY <1>5, <2>1, <2>2
<1>7. a.id = p.id /\ a.at = p.at
  BY <1>6 DEF Qos!Transmission
<1>8. sample \in 0 .. QosEnd - QosStart /\ sample = time - p.at
  <2>1. PICK u \in QosStart .. time : p.lastSent = u % TimeModulus /\ u = p.at
    BY <1>4 DEF RequestTrue
  <2>2. u \in Nat /\ u <= time /\ time - u < TimeModulus /\ TimeModulus \in Nat \ {0}
        /\ time - u \in 0 .. QosEnd - QosStart
    BY <1>4, <2>1, QosConstants
  <2>3. ((time % TimeModulus) - (u % TimeModulus)) % TimeModulus = time - u
    BY <1>4, <2>2, TimeApart
  <2> QED
    BY <2>1, <2>2, <2>3 DEF Qos!Now
<1>9. srtt' \in -1 .. QosEnd - QosStart
  <2> HIDE DEF sample
  <2> DEFINE m == QosEnd - QosStart
  <2>1. m \in Int /\ sample \in 0 .. m /\ srtt \in -1 .. m
        /\ srtt' = IF srtt = -1 THEN sample ELSE (7 * srtt + sample) \div 8
    BY <1>1, <1>4, <1>8, QosConstants
  <2> HIDE DEF m
  <2>2. CASE srtt = -1
    BY <2>1, <2>2 DEF m
  <2>3. CASE srtt # -1
    <3>1. (7 * srtt + sample) \div 8 \in 0 .. m
      BY <2>1, <2>3, Z3
    <3> QED
      BY <2>1, <2>3, <3>1 DEF m
  <2> QED
    BY <2>2, <2>3
<1>10. PICK x : x = slot
  OBVIOUS
<1>11. PICK i : i = p.id
  OBVIOUS
<1>12. QosInv'
  <2>1. /\ x \in 1 .. QosSlots /\ Used(pending, x) /\ i = pending[x].id
        /\ pending' = [pending EXCEPT ![x] = Qos!NoRequest]
        /\ ended' = ended \cup {<<i, "ACKED">>}
        /\ \E t \in heard : t.id = i
    BY <1>1, <1>3, <1>7, <1>10, <1>11
  <2> QED
    BY <1>1, <1>9, <2>1, RequestEnds
<1>13. <<p.id, "ACKED">> \in ended' \ ended
  <2>1. \A e \in ended : e[1] # p.id
    BY <1>3 DEF QosInv, RequestsTrue
  <2> QED
    BY <1>1, <2>1
<1>14. \A e \in ended' \ ended : e[1] = p.id
  BY <1>1
<1>15. /\ srtt' = Qos!Smoothed(time - a.at)
       /\ \A u \in sent : u.id = a.id => u.at <= a.at
  <2>1. srtt' = Qos!Smoothed(sample)
    BY <1>1 DEF Qos!Smoothed
  <2>2. \A u \in sent : u.id = p.id => u.at <= p.at
    BY <1>3 DEF QosInv, NewestTrue
  <2> QED
    BY <1>7, <1>8, <2>1, <2>2
<1>16. SampleTrue
  BY <1>7, <1>13, <1>14, <1>15 DEF SampleTrue
<1> QED
  BY <1>1, <1>12, <1>16

LEMMA PeerAnswersInv ==
  ASSUME QosInv, NEW t \in sent, Qos!PeerAnswers(t) PROVE QosInv'
<1>1. /\ heard' = heard \cup {t} /\ UNCHANGED <<time, pending, srtt, sequence, ended, sent>>
  BY DEF Qos!PeerAnswers
<1>2. QosTyped' /\ NumbersTrue' /\ NewestTrue'
  BY <1>1 DEF QosInv, QosTyped, NumbersTrue, NewestTrue
<1>3. RequestsTrue'
  <2>1. RequestsTrue
    BY DEF QosInv
  <2>2. \A e \in ended : e[2] = "ACKED" => \E u \in heard' : u.id = e[1]
    BY <1>1, <2>1 DEF RequestsTrue
  <2> QED
    BY <1>1, <2>1, <2>2 DEF RequestsTrue
<1> QED
  BY <1>2, <1>3 DEF QosInv

LEMMA QosTickInv == ASSUME QosInv, Qos!Tick PROVE QosInv'
<1>1. /\ time < QosEnd /\ time' = time + 1
      /\ UNCHANGED <<pending, srtt, sequence, ended, sent, heard>>
  BY DEF Qos!Tick
<1>2. time \in Nat /\ time + 1 \in Nat /\ time + 1 \in QosStart .. QosEnd
  <2>1. time \in QosStart .. QosEnd /\ QosStart \in Nat /\ QosEnd \in Nat
    BY QosFacts, QosConstants
  <2> QED
    BY <1>1, <2>1
<1>3. \A s \in 1 .. QosSlots : Used(pending, s) => RequestTrue(pending[s], time + 1)
  <2> SUFFICES ASSUME NEW s \in 1 .. QosSlots, Used(pending, s)
               PROVE  RequestTrue(pending[s], time + 1)
    OBVIOUS
  <2>1. PICK q, t, u : q = pending[s] /\ t = time /\ u = time + 1
    OBVIOUS
  <2>2. RequestTrue(q, t) /\ t \in Nat /\ u \in Nat /\ t <= u
    BY <1>2, <2>1, QosFacts
  <2>3. RequestTrue(q, u)
    BY <2>2, RequestStays
  <2> QED
    BY <2>1, <2>3
<1>4. QosTyped'
  BY <1>1, <1>2, <1>3 DEF QosInv, QosTyped
<1>5. NumbersTrue' /\ RequestsTrue'
  BY <1>1 DEF QosInv, NumbersTrue, RequestsTrue
<1>6. NewestTrue'
  <2>1. \A u \in sent : u.at \in Nat /\ u.at <= time
    BY DEF QosInv, QosTyped, NewestTrue, Transmissions
  <2>2. \A u \in sent : u.at <= time + 1
    BY <1>2, <2>1
  <2> QED
    BY <1>1, <2>2 DEF QosInv, NewestTrue
<1> QED
  BY <1>4, <1>5, <1>6 DEF QosInv

LEMMA InitQosInv == Qos!Init => QosInv
<1> SUFFICES ASSUME Qos!Init PROVE QosInv
  OBVIOUS
<1>1. /\ time = QosStart /\ pending = [slot \in 1 .. QosSlots |-> Qos!NoRequest]
      /\ srtt = -1 /\ sequence = FirstSequence /\ ended = {} /\ sent = {} /\ heard = {}
  BY DEF Qos!Init
<1>2. \A s \in 1 .. QosSlots : ~Used(pending, s)
  BY <1>1 DEF Used
<1>3. QosTyped
  <2>1. time \in QosStart .. QosEnd /\ srtt \in -1 .. QosEnd - QosStart
    BY <1>1, QosInstance
  <2>2. IsFiniteSet(sent)
    BY <1>1, FS_EmptySet
  <2>3. pending = [s \in 1 .. QosSlots |-> pending[s]]
    BY <1>1
  <2> QED
    BY <1>1, <1>2, <2>1, <2>2, <2>3 DEF QosTyped
<1>4. NumbersTrue
  <2>1. SpareOf(pending) = {}
    BY <1>2 DEF SpareOf
  <2>2. Cardinality(SpareOf(pending)) = 0
    BY <2>1, FS_EmptySet
  <2>3. 0 + 0 <= Most
    BY QosInstance, MostFits DEF Most
  <2>4. sequence = Number(0)
    <3>1. FirstSequence + 0 = FirstSequence /\ FirstSequence % QosModulus = FirstSequence
      BY QosConstants, Z3
    <3> QED
      BY <1>1, <3>1 DEF Number
  <2> QED
    BY <1>1, <2>2, <2>3, <2>4 DEF NumbersTrue
<1>5. RequestsTrue
  <2>1. IdsOf(sent) = 1 .. 0
    BY <1>1 DEF IdsOf
  <2>2. \A id : Cardinality(OfRequest(sent, id)) <= MaxAttempts
    <3>1. \A id : OfRequest(sent, id) = {}
      BY <1>1 DEF OfRequest
    <3> QED
      BY <3>1, FS_EmptySet, QosConstants
  <2> QED
    BY <1>1, <1>2, <2>1, <2>2 DEF RequestsTrue
<1>6. NewestTrue
  BY <1>1, <1>2 DEF NewestTrue
<1> QED
  BY <1>3, <1>4, <1>5, <1>6 DEF QosInv

LEMMA StillQosInv == ASSUME QosInv, UNCHANGED Qos!vars PROVE QosInv'
  BY DEF Qos!vars, QosInv, QosTyped, NumbersTrue, RequestsTrue, NewestTrue

LEMMA NextQosInv ==
  ASSUME QosInv, [Qos!Next]_(Qos!vars) PROVE QosInv' /\ SentLive /\ SampleTrue
<1>0. srtt' = srtt /\ ended' = ended => SampleTrue
  BY DEF SampleTrue
<1>1. CASE \E token \in Tokens, ttl \in QosTtls, encodes \in BOOLEAN : Qos!Submit(token, ttl, encodes)
  <2>1. srtt' = srtt /\ ended' = ended
    BY <1>1 DEF Qos!Submit
  <2> QED
    BY <1>0, <1>1, <2>1, SubmitInv
<1>2. CASE \E t \in sent : Qos!PeerAnswers(t)
  <2>1. srtt' = srtt /\ sent' = sent /\ ended' = ended
    BY <1>2 DEF Qos!PeerAnswers
  <2> QED
    BY <1>0, <1>2, <2>1, PeerAnswersInv DEF SentLive
<1>3. CASE \E a \in heard : Qos!AckArrives(a)
  BY <1>3, AckInv DEF SentLive
<1>4. CASE Qos!Poll
  <2>1. srtt' = srtt
    BY <1>4 DEF Qos!Poll
  <2>2. \A e \in ended' \ ended : e[2] = "EXPIRED"
    <3>1. ended' = ended \/ \E id : ended' = ended \cup {<<id, "EXPIRED">>}
      BY <1>4 DEF Qos!Poll
    <3> QED
      BY <3>1
  <2> QED
    BY <1>4, <2>1, <2>2, PollInv DEF SampleTrue
<1>5. CASE Qos!Tick
  <2>1. srtt' = srtt /\ sent' = sent /\ ended' = ended
    BY <1>5 DEF Qos!Tick
  <2> QED
    BY <1>0, <1>5, <2>1, QosTickInv DEF SentLive
<1>6. CASE UNCHANGED Qos!vars
  <2>1. srtt' = srtt /\ sent' = sent /\ ended' = ended
    BY <1>6 DEF Qos!vars
  <2> QED
    BY <1>0, <1>6, <2>1, StillQosInv DEF SentLive
<1> QED
  BY <1>1, <1>2, <1>3, <1>4, <1>5, <1>6 DEF Qos!Next

LEMMA QosInvariant == Qos!Spec => []QosInv
<1>1. QosInv /\ [Qos!Next]_(Qos!vars) => QosInv'
  BY NextQosInv
<1> QED
  BY <1>1, InitQosInv, PTL DEF Qos!Spec

LEMMA QosOfBoth == MCSpec => Qos!Spec
<1>1. MCInit => Qos!Init
  BY DEF MCInit
<1>2. [MCNext]_<<part, vars, otherVars>> => [Qos!Next]_(Qos!vars)
  <2> SUFFICES ASSUME [MCNext]_<<part, vars, otherVars>> PROVE [Qos!Next]_(Qos!vars)
    OBVIOUS
  <2> USE DEF otherVars, qosVars, Qos!vars
  <2>1. CASE part = "qos" /\ Qos!Next
    BY <2>1
  <2>2. CASE UNCHANGED qosVars
    BY <2>2
  <2> QED
    BY <2>1, <2>2 DEF MCNext
<1> QED
  BY <1>1, <1>2, PTL DEF MCSpec, Qos!Spec

LEMMA QosTypedTrue == QosInv => Qos!TypeOK
<1> SUFFICES ASSUME QosInv PROVE Qos!TypeOK
  OBVIOUS
<1>1. /\ time \in QosStart .. QosEnd /\ srtt \in -1 .. QosEnd - QosStart
      /\ sequence \in 0 .. QosModulus - 1
      /\ \A s \in 1 .. QosSlots : Used(pending, s) => RequestTrue(pending[s], time)
  BY QosFacts
<1> QED
  BY <1>1 DEF Qos!TypeOK, Qos!InUse, Used, RequestTrue

\* A slot whose request has ended is due.
LEMMA QosEndsInTime == QosInv => Qos!EndsInTime
<1> SUFFICES ASSUME QosInv, Qos!Due = {}, NEW slot \in 1 .. QosSlots, Qos!InUse(slot)
             PROVE  time < pending[slot].ends
  BY DEF Qos!EndsInTime
<1> DEFINE p == pending[slot]
<1>1. RequestTrue(p, time) /\ time \in QosStart .. QosEnd /\ time \in Nat
  BY QosFacts DEF Qos!InUse, Used
<1>2. PICK u \in QosStart .. p.ends : p.next = u % TimeModulus
  BY <1>1 DEF RequestTrue
<1>3. ~Qos!time_reached(p.next)
  BY DEF Qos!Due
<1>4. p.ends \in Nat
  BY <1>1 DEF RequestTrue
<1> HIDE DEF p
<1>5. u \in Nat /\ QosStart <= u /\ u <= p.ends
  BY <1>2, <1>4, QosConstants
<1>6. ~(u <= time)
  BY <1>1, <1>2, <1>3, <1>5, ReachedInTime
<1>7. time < p.ends
  BY <1>1, <1>4, <1>5, <1>6
<1> QED
  BY <1>7 DEF p

\* A request has one true outcome and none is kept beyond its life; it goes on
\* the air only while it lives and never more often than it may, and the round
\* trip is fed with the true time since the last transmission, which is the one
\* the peer acknowledged (QosTrue).
THEOREM TheRequestsAreTrue == MCSpec => QosTrue
<1>1. QosInv => Qos!EndsInTime /\ Qos!OneTrueOutcome
  BY QosEndsInTime DEF QosInv, RequestsTrue, Qos!OneTrueOutcome, Qos!InUse, Used
<1>2. QosInv /\ [Qos!Next]_(Qos!vars) =>
        [/\ \A t \in sent' \ sent : \A slot \in 1 .. QosSlots :
              pending'[slot] # Qos!NoRequest /\ pending'[slot].id = t.id =>
                time < pending'[slot].ends
         /\ \A id \in Qos!Submitted :
              Qos!Cardinality({t \in sent' : t.id = id}) <= MaxAttempts]_(Qos!vars)
  <2> SUFFICES ASSUME QosInv, [Qos!Next]_(Qos!vars)
               PROVE  /\ \A t \in sent' \ sent : \A slot \in 1 .. QosSlots :
                           pending'[slot] # Qos!NoRequest /\ pending'[slot].id = t.id =>
                             time < pending'[slot].ends
                      /\ \A id \in Qos!Submitted :
                           Qos!Cardinality({t \in sent' : t.id = id}) <= MaxAttempts
    OBVIOUS
  <2>1. QosInv' /\ SentLive
    BY NextQosInv
  <2>2. \A id : Cardinality(OfRequest(sent', id)) <= MaxAttempts
    BY <2>1 DEF QosInv, RequestsTrue
  <2>3. \A id \in Qos!Submitted : Qos!Cardinality({t \in sent' : t.id = id}) <= MaxAttempts
    BY <2>2, SameQosCardinality DEF OfRequest
  <2> QED
    BY <2>1, <2>3 DEF SentLive, Used
<1>3. QosInv /\ [Qos!Next]_(Qos!vars) =>
        [LET settled == {e \in ended' \ ended : e[2] = "ACKED"}
         IN  /\ srtt' # srtt => settled # {}
             /\ \A e \in settled : \E t \in heard :
                  /\ t.id = e[1] /\ srtt' = Qos!Smoothed(time - t.at)
                  /\ \A u \in sent : u.id = t.id => u.at <= t.at]_(Qos!vars)
  BY NextQosInv DEF SampleTrue
<1>4. Qos!Spec => Qos!NeverSentLate
  BY <1>2, QosInvariant, PTL DEF Qos!Spec, Qos!NeverSentLate
<1>5. Qos!Spec => Qos!SampleIsRoundTrip
  BY <1>3, QosInvariant, PTL DEF Qos!Spec, Qos!SampleIsRoundTrip
<1>6. Qos!Spec => [](part = "qos" => Qos!EndsInTime /\ Qos!OneTrueOutcome)
  BY <1>1, QosInvariant, PTL
<1> QED
  BY <1>4, <1>5, <1>6, QosOfBoth DEF QosTrue


-----------------------------------------------------------------------------
(* The types of all the parts.                                             *)

LEMMA NextKeyTyped ==
  KeyInv /\ LinkStore!TypeOK /\ [LinkStore!Next]_(LinkStore!vars) => LinkStore!TypeOK'
<1> SUFFICES ASSUME KeyInv, LinkStore!TypeOK, [LinkStore!Next]_(LinkStore!vars)
             PROVE  LinkStore!TypeOK'
  OBVIOUS
<1> USE DEF LinkStore!TypeOK
<1>0. KeyInv' /\ (store.isReady => store.staging # LinkStore!None)'
  <2>1. KeyInv'
    BY NextKeyInv
  <2> QED
    BY <2>1 DEF KeyInv, StagingInv
<1>1. ASSUME NEW key \in LinkStore!Key, LinkStore!Stage(key) PROVE LinkStore!TypeOK'
  <2>1. store' = [active |-> store.active, staging |-> key, isReady |-> FALSE]
    BY <1>1 DEF LinkStore!Stage, LinkStore!Staged, KeyInv, StagingInv
  <2> QED
    BY <2>1
<1>2. CASE LinkStore!MarkReady
  <2>1. store' = [active |-> store.active, staging |-> store.staging, isReady |-> TRUE]
    BY <1>2 DEF LinkStore!MarkReady, KeyInv, StagingInv
  <2> QED
    BY <1>0, <2>1
<1>3. CASE LinkStore!Commit
  BY <1>3 DEF LinkStore!Commit, LinkStore!Promoted
<1>4. CASE LinkStore!Recover
  <2>1. CASE store.isReady /\ store.staging # LinkStore!None
    BY <1>4, <2>1 DEF LinkStore!Recover, LinkStore!Promoted
  <2>2. CASE ~(store.isReady /\ store.staging # LinkStore!None)
    <3>1. store' = [active |-> store.active, staging |-> LinkStore!None, isReady |-> FALSE]
      BY <1>4, <2>2 DEF LinkStore!Recover, KeyInv, StagingInv
    <3> QED
      BY <3>1
  <2> QED
    BY <2>1, <2>2
<1>5. CASE UNCHANGED LinkStore!vars
  BY <1>5 DEF LinkStore!vars
<1> QED
  BY <1>1, <1>2, <1>3, <1>4, <1>5 DEF LinkStore!Next

LEMMA KeysTyped == LinkStore!Spec => []LinkStore!TypeOK
<1>1. LinkStore!Init => LinkStore!TypeOK
  BY DEF LinkStore!Init, LinkStore!TypeOK
<1> QED
  BY <1>1, InitKeyInv, NextKeyInv, NextKeyTyped, PTL DEF LinkStore!Spec

\* The state of every part has its type in every state it can reach, and the
\* replay window holds exactly the ages of the packets it accepted
\* (PartsTyped).
THEOREM ThePartsAreTyped == MCSpec => []PartsTyped
<1>1. /\ Session!TypeOK /\ LinkStore!TypeOK /\ Qos!TypeOK
      /\ Cache!TypeOK /\ Cache!IdentityUnique /\ Cache!ResultBelongs /\ Cache!AdmittedOnce
      /\ TypeOK /\ WindowMirrorsAccepted
      => PartsTyped
  BY DEF PartsTyped
<1>2. MCSpec => []Session!TypeOK
  BY SessionOfBoth, SessionInvariant, SessionTyped, PTL
<1>3. MCSpec => []Qos!TypeOK
  BY QosOfBoth, QosInvariant, QosTypedTrue, PTL
<1>4. MCSpec => []LinkStore!TypeOK
  BY KeysOfBoth, KeysTyped, PTL
<1>5. MCSpec => [](Cache!TypeOK /\ Cache!IdentityUnique /\ Cache!ResultBelongs /\ Cache!AdmittedOnce)
  BY CacheOfBoth, CacheIsSound
<1>6. MCSpec => [](TypeOK /\ WindowMirrorsAccepted)
  BY ReplayOfBoth, WindowIsExact
<1> QED
  BY <1>1, <1>2, <1>3, <1>4, <1>5, <1>6, PTL
=============================================================================
