--------------------------- MODULE StmUart_proofs ---------------------------
(***************************************************************************)
(* Proofs about the runtime with its history, for any commands, clocks,    *)
(* capacities and thresholds: the types of its state, that the pending     *)
(* list and the cache agree (PendingIsOpen) and that what is reported as   *)
(* done was executed (ReportedWasExecuted), whether or not the reset hook  *)
(* succeeds; and, when it does, that sessions start empty                  *)
(* (NoFormerInSession) and that the runtime implements CommandDelivery     *)
(* (DeliversOnce), also in the run in which sessions end at any point,     *)
(* MCStmSessions.                                                          *)
(***************************************************************************)
EXTENDS MCStmSessions, SequenceTheorems, WellFoundedInduction, TLAPS

Outcomes == Stages \cup {"EXPIRED"}

Handles == [slot : Slots, generation : Nat]
Waiting == [handle : Handles, cmd : Keys]

PlainTypes == {"LINK_HELLO", "LINK_HELLO_ACK", "ERROR", "SAFETY_SNAPSHOT",
               "CONTROL_TIME_SYNC", "ACK", "HEARTBEAT"}

Messages == {Plain(t) : t \in PlainTypes} \cup {Result(c, s) : c \in Keys, s \in Outcomes}

Queues == {q \in [ClassNames -> Seq(Messages)] :
              \A class \in ClassNames : Len(q[class]) <= QueueCapacity}

Outs == [tx : [queue : Queues, current : Messages \cup {NoItem}, class : ClassNames],
         inhibited : BOOLEAN]

Results == [stage : Outcomes, cmd : Keys]

Entries == [valid : {TRUE}, generation : Nat, key : Keys, requestExpires : Nat,
            expires : Nat, result : Results \cup {NoResult}]

Caches == [entries : [Slots -> Entries \cup {Free}], next : 1 .. MaxGeneration]

Mappings == [valid : {TRUE}, gen : Generations, updated : Nat]

\* Every variable the properties look at has its type.
Typed ==
    /\ link \in Link
    /\ cts \in [known : BOOLEAN, blocked : BOOLEAN]
    /\ cache \in Caches
    /\ pending \in Seq(Waiting) /\ Len(pending) <= PendingCapacity
    /\ mapping = NoMapping \/ (mapping \in Mappings /\ mapping.updated <= now)
    /\ out \in Outs
    /\ held \in Waiting \cup {NoHeld}
    /\ now \in Nat /\ beat \in Nat /\ beat <= now

\* The results the cache can repeat.
CacheReports(c) ==
    {<<c.entries[s].result.cmd, c.entries[s].result.stage>> :
        s \in {x \in Slots : c.entries[x].valid /\ c.entries[x].result # NoResult}}

\* No handle is given out twice, so none of them can come to name the entry of
\* another command.
HandlesAreOld ==
    /\ \A s \in Slots : cache.entries[s].valid => cache.entries[s].generation < cache.next
    /\ \A i \in DOMAIN pending : pending[i].handle.generation < cache.next
    /\ \A i, j \in DOMAIN pending :
          pending[i].handle.generation = pending[j].handle.generation => i = j
    /\ held # NoHeld =>
          /\ held.handle.generation < cache.next
          /\ \A i \in DOMAIN pending :
                pending[i].handle = held.handle => pending[i].cmd = held.cmd

\* A result other than an expiry is one of a command the executor had.
Earned(reports, done) == \A t \in reports : t[2] # "EXPIRED" => t[1] \in done

ReportsAreEarned ==
    /\ held # NoHeld => held.cmd \in executed
    /\ Earned(CacheReports(cache), executed)
    /\ Earned(Reported(out), executed)
    /\ Earned(told, executed)

CoreInv == Typed /\ HandlesAreOld /\ PendingIsOpen /\ ReportsAreEarned

-----------------------------------------------------------------------------
(* The link: every operation returns a link, and none of them but HELLO    *)
(* starts a session.                                                       *)

\* l2 is in session only if l1 was, with the same peer.
NoNewSession(l1, l2) ==
    l2.hello_complete => l1.hello_complete /\ l2.peer_boot_id = l1.peer_boot_id

LEMMA RequireHelloFacts ==
  ASSUME NEW l \in Link
  PROVE  /\ link_require_hello(l) \in Link
         /\ ~link_require_hello(l).hello_complete
         /\ link_require_hello(l).peer_boot_id = l.peer_boot_id
  BY DEF link_require_hello, link_reset, Link, OFFLINE

LEMMA TickFacts ==
  ASSUME NEW l \in Link, NEW t \in Nat
  PROVE  /\ link_tick(l, t) \in Link
         /\ NoNewSession(l, link_tick(l, t))
         /\ link_tick(l, t).peer_boot_id = l.peer_boot_id
<1>1. CASE ~l.hello_complete \/ link_session_expired(l, t)
  <2>1. link_tick(l, t) = link_require_hello(l)
    BY <1>1 DEF link_tick
  <2> QED
    BY <2>1, RequireHelloFacts DEF NoNewSession
<1>2. CASE ~(~l.hello_complete \/ link_session_expired(l, t))
  <2>1. link_tick(l, t) = [l EXCEPT !.snapshot_valid = @ /\ ~SafetyStale(l, t),
                                    !.state = StateAt(l, t)]
    BY <1>2 DEF link_tick
  <2>2. StateAt(l, t) \in {OFFLINE, SUSPECT, ONLINE}
    BY DEF StateAt, Link
  <2>3. (l.snapshot_valid /\ ~SafetyStale(l, t)) \in BOOLEAN
    BY DEF SafetyStale
  <2>4. link_tick(l, t) \in Link
    BY <2>1, <2>2, <2>3 DEF Link
  <2>5. /\ link_tick(l, t).hello_complete = l.hello_complete
        /\ link_tick(l, t).peer_boot_id = l.peer_boot_id
    BY <2>1 DEF Link
  <2> QED
    BY <2>4, <2>5 DEF NoNewSession
<1> QED
  BY <1>1, <1>2

LEMMA ResetFacts == link_reset \in Link /\ ~link_reset.hello_complete
  BY DEF link_reset, Link, OFFLINE

LEMMA NoteHelloFacts ==
  ASSUME NEW l \in Link, NEW b \in Boots, NEW t \in Nat
  PROVE  note_hello(l, b, t) \in Link /\ note_hello(l, b, t).peer_boot_id = b
  BY DEF note_hello, link_reset, Link, OFFLINE

LEMMA AckFacts ==
  ASSUME NEW l \in Link, NEW t \in Nat
  PROVE  note_hello_ack(l, t) \in Link /\ NoNewSession(l, note_hello_ack(l, t))
<1> DEFINE acked == [l EXCEPT !.hello_ack_complete = TRUE]
<1>1. /\ acked \in Link /\ acked.hello_complete = l.hello_complete
      /\ acked.peer_boot_id = l.peer_boot_id
  BY DEF Link
<1> HIDE DEF acked
<1>2. link_tick(acked, t) \in Link /\ NoNewSession(acked, link_tick(acked, t))
  BY <1>1, TickFacts
<1> QED
  BY <1>1, <1>2 DEF note_hello_ack, acked, NoNewSession

LEMMA SnapshotFacts ==
  ASSUME NEW l \in Link, NEW r \in Revisions, NEW t \in Nat
  PROVE  /\ note_safety_snapshot(l, r, t) \in Link
         /\ NoNewSession(l, note_safety_snapshot(l, r, t))
<1> DEFINE noted == [l EXCEPT !.snapshot_valid = TRUE, !.snapshot_time = t,
                              !.safety_revision = r]
<1>1. /\ noted \in Link /\ noted.hello_complete = l.hello_complete
      /\ noted.peer_boot_id = l.peer_boot_id
  BY DEF Link
<1> HIDE DEF noted
<1>2. link_tick(noted, t) \in Link /\ NoNewSession(noted, link_tick(noted, t))
  BY <1>1, TickFacts
<1> QED
  BY <1>1, <1>2 DEF note_safety_snapshot, noted, NoNewSession

LEMMA HeartbeatFacts ==
  ASSUME NEW l \in Link, NEW b \in Boots, NEW r \in Revisions, NEW t \in Nat
  PROVE  /\ note_heartbeat(l, b, r, t) \in Link
         /\ NoNewSession(l, note_heartbeat(l, b, r, t))
         /\ HeartbeatNeedsHello(l, b) \/ link_session_expired(l, t)
              => ~note_heartbeat(l, b, r, t).hello_complete
<1> DEFINE named == [l EXCEPT !.peer_boot_id = b]
           noted == [l EXCEPT !.heartbeat_seen = TRUE, !.last_heartbeat = t,
                              !.snapshot_valid = @ /\ l.safety_revision = r]
<1>1. named \in Link
  BY DEF Link
<1>2. /\ noted \in Link /\ noted.hello_complete = l.hello_complete
      /\ noted.peer_boot_id = l.peer_boot_id
  BY DEF Link
<1>3. note_heartbeat(l, b, r, t) =
        IF HeartbeatNeedsHello(l, b) THEN link_require_hello(named)
        ELSE IF link_session_expired(l, t) THEN link_require_hello(l)
        ELSE link_tick(noted, t)
  BY DEF note_heartbeat
<1> HIDE DEF named, noted
<1>4. link_tick(noted, t) \in Link /\ NoNewSession(noted, link_tick(noted, t))
  BY <1>2, TickFacts
<1>5. NoNewSession(l, link_tick(noted, t))
  BY <1>2, <1>4 DEF NoNewSession
<1> QED
  BY <1>1, <1>3, <1>4, <1>5, RequireHelloFacts DEF NoNewSession

LEMMA CtsFacts ==
  ASSUME NEW l \in Link, NEW blocked \in BOOLEAN, NEW t \in Nat
  PROVE  /\ set_cts_blocked(l, blocked, t) \in Link
         /\ NoNewSession(l, set_cts_blocked(l, blocked, t))
         /\ CtsOffline(l, t) => ~set_cts_blocked(l, blocked, t).hello_complete
<1> DEFINE noted == [l EXCEPT !.cts_known = TRUE, !.cts_blocked = blocked,
                              !.cts_since = IF blocked /\ ~l.cts_blocked THEN t ELSE @]
<1>1. /\ noted \in Link /\ noted.hello_complete = l.hello_complete
      /\ noted.peer_boot_id = l.peer_boot_id
  BY DEF Link
<1>2. set_cts_blocked(l, blocked, t) =
        IF CtsOffline(l, t) THEN link_require_hello(l) ELSE link_tick(noted, t)
  BY DEF set_cts_blocked
<1> HIDE DEF noted
<1>3. link_tick(noted, t) \in Link /\ NoNewSession(noted, link_tick(noted, t))
  BY <1>1, TickFacts
<1>4. NoNewSession(l, link_tick(noted, t))
  BY <1>1, <1>3 DEF NoNewSession
<1> QED
  BY <1>2, <1>3, <1>4, RequireHelloFacts DEF NoNewSession

LEMMA ReappliedFacts ==
  ASSUME NEW l \in Link, NEW c \in [known : BOOLEAN, blocked : BOOLEAN], now \in Nat
  PROVE  CtsReapplied(l, c) \in Link /\ NoNewSession(l, CtsReapplied(l, c))
<1>1. c.known => /\ set_cts_blocked(l, c.blocked, now) \in Link
                 /\ NoNewSession(l, set_cts_blocked(l, c.blocked, now))
  BY CtsFacts
<1> QED
  BY <1>1 DEF CtsReapplied, NoNewSession

-----------------------------------------------------------------------------
(* The transmit queues: every item offered leaves them typed, and the only *)
(* result it can add to those reported is itself.                          *)

LEMMA ClassFacts ==
  /\ ClassNames = {"P0", "P1", "STATE", "RAW"}
  /\ "P0" \in ClassNames /\ "P1" \in ClassNames /\ "STATE" \in ClassNames
<1>1. /\ Classes[1] = "P0" /\ Classes[2] = "P1"
      /\ Classes[3] = "STATE" /\ Classes[4] = "RAW"
  BY DEF Classes
<1>2. 1 .. 4 = {1, 2, 3, 4}
  OBVIOUS
<1> QED
  BY <1>1, <1>2 DEF ClassNames

LEMMA MessageFacts ==
  /\ \A t \in PlainTypes : /\ Plain(t) \in Messages
                           /\ Plain(t).type # "COMMAND_RESULT"
  /\ \A c \in Keys, s \in Outcomes :
        /\ Result(c, s) \in Messages
        /\ Result(c, s).cmd = c /\ Result(c, s).stage = s
<1>1. \A t \in PlainTypes : Plain(t) \in Messages
  BY DEF Messages
<1>2. \A t \in PlainTypes : Plain(t).type # "COMMAND_RESULT"
  BY DEF Plain, PlainTypes
<1>3. \A c \in Keys, s \in Outcomes : Result(c, s) \in Messages
  BY DEF Messages
<1>4. \A c, s : Result(c, s).cmd = c /\ Result(c, s).stage = s
  BY DEF Result
<1> QED
  BY <1>1, <1>2, <1>3, <1>4

LEMMA ReportedTyped ==
  ASSUME NEW q \in Seq(Messages), NEW m \in Range(q), m.type = "COMMAND_RESULT"
  PROVE  m.cmd \in Keys /\ m.stage \in Outcomes
<1>1. m \in Messages
  BY DEF Range
<1>2. PICK c \in Keys, s \in Outcomes : m = Result(c, s)
  BY <1>1 DEF Messages, PlainTypes, Plain
<1> QED
  BY <1>2, MessageFacts

\* publish_tx_item, as far as types, length and contents go.
LEMMA QueueAfterFacts ==
  ASSUME NEW t, NEW class \in ClassNames, t.queue[class] \in Seq(Messages),
         Len(t.queue[class]) <= QueueCapacity, NEW item \in Messages
  PROVE  /\ QueueAfter(t, class, item) \in Seq(Messages)
         /\ Len(QueueAfter(t, class, item)) <= QueueCapacity
         /\ Range(QueueAfter(t, class, item)) \subseteq Range(t.queue[class]) \cup {item}
<1> DEFINE q == t.queue[class]
           replaced == [i \in DOMAIN q |-> IF SameKey(q[i], item) THEN item ELSE q[i]]
<1>1. /\ q \in Seq(Messages) /\ Len(q) \in Nat /\ DOMAIN q = 1 .. Len(q)
      /\ Len(q) <= QueueCapacity
      /\ Full(t, class) <=> Len(q) >= QueueCapacity
  BY DEF Full
<1>2. \/ QueueAfter(t, class, item) = q
      \/ QueueAfter(t, class, item) = replaced
      \/ ~Full(t, class) /\ QueueAfter(t, class, item) = Append(q, item)
      \/ Full(t, class) /\ QueueAfter(t, class, item) = Append(Tail(q), item)
  BY DEF QueueAfter
<1> HIDE DEF q
<1>3. /\ replaced \in Seq(Messages) /\ Len(replaced) = Len(q)
      /\ Range(replaced) \subseteq Range(q) \cup {item}
  <2>1. \A i \in 1 .. Len(q) : replaced[i] \in Messages /\ replaced[i] \in {q[i], item}
    BY <1>1
  <2>2. replaced \in [1 .. Len(q) -> Messages]
    BY <1>1, <2>1
  <2>3. replaced \in Seq(Messages) /\ DOMAIN replaced = 1 .. Len(q)
    BY <1>1, <2>2
  <2>4. Len(replaced) = Len(q)
    BY <2>3, <1>1, LenProperties
  <2> HIDE DEF replaced
  <2> QED
    BY <1>1, <2>1, <2>3, <2>4 DEF Range
<1>4. /\ Append(q, item) \in Seq(Messages) /\ Len(Append(q, item)) = Len(q) + 1
      /\ Range(Append(q, item)) \subseteq Range(q) \cup {item}
  <2> DEFINE a == Append(q, item)
  <2>1. /\ a \in Seq(Messages) /\ Len(a) = Len(q) + 1 /\ DOMAIN a = 1 .. Len(q) + 1
        /\ \A i \in 1 .. Len(q) : a[i] = q[i]
        /\ a[Len(q) + 1] = item
    BY <1>1
  <2> HIDE DEF a
  <2>2. \A i \in DOMAIN a : a[i] \in Range(q) \cup {item}
    BY <2>1, <1>1 DEF Range
  <2> QED
    BY <2>1, <2>2 DEF Range, a
<1>5. Full(t, class) =>
        /\ Append(Tail(q), item) \in Seq(Messages)
        /\ Len(Append(Tail(q), item)) = Len(q)
        /\ Range(Append(Tail(q), item)) \subseteq Range(q) \cup {item}
  <2> SUFFICES ASSUME Full(t, class)
               PROVE  /\ Append(Tail(q), item) \in Seq(Messages)
                      /\ Len(Append(Tail(q), item)) = Len(q)
                      /\ Range(Append(Tail(q), item)) \subseteq Range(q) \cup {item}
    OBVIOUS
  <2>1. q # <<>>
    BY <1>1, QueueAssumption
  <2> DEFINE r == Tail(q)
             a == Append(Tail(q), item)
  <2>2. /\ r \in Seq(Messages) /\ Len(r) = Len(q) - 1 /\ DOMAIN r = 1 .. Len(q) - 1
        /\ \A i \in 1 .. Len(q) - 1 : r[i] = q[i + 1]
    BY <1>1, <2>1
  <2>3. /\ a \in Seq(Messages) /\ Len(a) = Len(q) /\ DOMAIN a = 1 .. Len(q)
        /\ \A i \in 1 .. Len(q) - 1 : a[i] = r[i]
        /\ a[Len(q)] = item
    BY <1>1, <2>1, <2>2
  <2> HIDE DEF a, r
  <2>4. \A i \in DOMAIN a : a[i] \in Range(q) \cup {item}
    <3> TAKE i \in DOMAIN a
    <3>1. CASE i = Len(q)
      BY <3>1, <2>3
    <3>2. CASE i # Len(q)
      <4>1. i \in 1 .. Len(q) - 1 /\ i + 1 \in DOMAIN q
        BY <3>2, <2>3, <1>1
      <4> QED
        BY <4>1, <2>2, <2>3 DEF Range
    <3> QED
      BY <3>1, <3>2
  <2> QED
    BY <2>3, <2>4 DEF Range, a
<1> HIDE DEF replaced
<1>6. QueueCapacity \in Nat
  BY QueueAssumption
<1> DEFINE after == QueueAfter(t, class, item)
<1> HIDE DEF after
<1>7. after \in Seq(Messages) /\ Len(after) <= QueueCapacity
  <2>1. CASE after = q
    BY <2>1, <1>1
  <2>2. CASE after = replaced
    BY <2>2, <1>1, <1>3
  <2>3. CASE ~Full(t, class) /\ after = Append(q, item)
    <3>1. Len(q) + 1 <= QueueCapacity
      BY <2>3, <1>1, <1>6
    <3> QED
      BY <2>3, <3>1, <1>4
  <2>4. CASE Full(t, class) /\ after = Append(Tail(q), item)
    BY <2>4, <1>1, <1>5
  <2> QED
    BY <1>2, <2>1, <2>2, <2>3, <2>4 DEF after
<1>8. Range(after) \subseteq Range(q) \cup {item}
  BY <1>2, <1>3, <1>4, <1>5 DEF after
<1> QED
  BY <1>7, <1>8 DEF q, after

LEMMA SendFacts ==
  ASSUME NEW o \in Outs, NEW class \in ClassNames, NEW item \in Messages
  PROVE  /\ Send(o, class, item) \in Outs
         /\ Range(Send(o, class, item).tx.queue["P0"]) \subseteq
               Range(o.tx.queue["P0"]) \cup {item}
<1> DEFINE after == QueueAfter(o.tx, class, item)
           queues == [o.tx.queue EXCEPT ![class] = after]
           late == o.inhibited \/ Overflows(o.tx, class, item)
<1>1. /\ o.tx.queue \in Queues /\ o.tx.current \in Messages \cup {NoItem}
      /\ o.tx.class \in ClassNames
  BY DEF Outs
<1>2. /\ o.tx.queue \in [ClassNames -> Seq(Messages)]
      /\ \A c \in ClassNames : Len(o.tx.queue[c]) <= QueueCapacity
  BY <1>1 DEF Queues
<1>3. /\ after \in Seq(Messages) /\ Len(after) <= QueueCapacity
      /\ Range(after) \subseteq Range(o.tx.queue[class]) \cup {item}
  BY <1>2, QueueAfterFacts
<1>4. late \in BOOLEAN
  BY DEF Overflows, Outs
<1>5. Send(o, class, item) = [tx |-> [o.tx EXCEPT !.queue = queues], inhibited |-> late]
  BY DEF Send, Published, Outs
<1> HIDE DEF after, late
<1>6. queues \in Queues
  BY <1>2, <1>3 DEF Queues
<1>7. queues["P0"] = IF class = "P0" THEN after ELSE o.tx.queue["P0"]
  BY <1>2, ClassFacts
<1> HIDE DEF queues
<1>8. /\ [o.tx EXCEPT !.queue = queues].queue = queues
      /\ [o.tx EXCEPT !.queue = queues] \in
            [queue : Queues, current : Messages \cup {NoItem}, class : ClassNames]
  BY <1>1, <1>6 DEF Outs
<1>9. Send(o, class, item) \in Outs
  BY <1>4, <1>5, <1>8 DEF Outs
<1> QED
  BY <1>3, <1>5, <1>7, <1>8, <1>9

\* What is not a result adds nothing to the reports.
LEMMA PlainAddsNothing ==
  ASSUME NEW o \in Outs, NEW class \in ClassNames, NEW t \in PlainTypes
  PROVE  /\ Send(o, class, Plain(t)) \in Outs
         /\ Reported(Send(o, class, Plain(t))) \subseteq Reported(o)
  BY SendFacts, MessageFacts DEF Reported

LEMMA ResultAddsItself ==
  ASSUME NEW o \in Outs, NEW c \in Keys, NEW s \in Outcomes
  PROVE  /\ Send(o, "P0", Result(c, s)) \in Outs
         /\ Reported(Send(o, "P0", Result(c, s))) \subseteq Reported(o) \cup {<<c, s>>}
<1> DEFINE r == Result(c, s)
           sent == Send(o, "P0", r)
<1>1. r \in Messages /\ r.cmd = c /\ r.stage = s
  BY MessageFacts
<1> HIDE DEF r
<1>2. sent \in Outs /\ Range(sent.tx.queue["P0"]) \subseteq Range(o.tx.queue["P0"]) \cup {r}
  BY <1>1, SendFacts, ClassFacts
<1> HIDE DEF sent
<1>3. Reported(sent) \subseteq Reported(o) \cup {<<c, s>>}
  BY <1>1, <1>2 DEF Reported
<1> QED
  BY <1>2, <1>3 DEF sent, r

LEMMA ErrorAddsNothing ==
  ASSUME NEW o \in Outs, NEW limited
  PROVE  /\ SendError(o, limited) \in Outs
         /\ Reported(SendError(o, limited)) \subseteq Reported(o)
<1>1. "ERROR" \in PlainTypes /\ "P1" \in ClassNames
  BY ClassFacts DEF PlainTypes
<1> QED
  BY <1>1, PlainAddsNothing DEF SendError

LEMMA OfferedAddsNothing ==
  ASSUME NEW o \in Outs, NEW due, NEW class \in ClassNames, NEW t \in PlainTypes
  PROVE  /\ Offered(o, due, class, Plain(t)) \in Outs
         /\ Reported(Offered(o, due, class, Plain(t))) \subseteq Reported(o)
  BY PlainAddsNothing DEF Offered

LEMMA FullMarkAddsNothing ==
  ASSUME NEW o \in Outs
  PROVE  MarkFull(o) \in Outs /\ Reported(MarkFull(o)) = Reported(o)
  BY DEF MarkFull, Outs, Reported

\* After a recovery or a reset nothing is reported any more.
LEMMA ClearedOut ==
  ASSUME NEW o \in Outs
  PROVE  [o EXCEPT !.tx = EmptyTx] \in Outs /\ Reported([o EXCEPT !.tx = EmptyTx]) = {}
<1>1. EmptyTx.queue \in Queues /\ EmptyTx.queue["P0"] = <<>>
  BY ClassFacts, QueueAssumption DEF EmptyTx, Queues
<1>2. EmptyTx \in [queue : Queues, current : Messages \cup {NoItem}, class : ClassNames]
  BY <1>1, ClassFacts DEF EmptyTx
<1>3. /\ [o EXCEPT !.tx = EmptyTx] \in Outs
      /\ [o EXCEPT !.tx = EmptyTx].tx = EmptyTx
  BY <1>2 DEF Outs
<1> QED
  BY <1>1, <1>3 DEF Reported, Range

LEMMA RestartedFacts ==
  ASSUME out \in Outs, NEW acks
  PROVE  Restarted(acks) \in Outs /\ Reported(Restarted(acks)) = {}
<1> DEFINE cleared == [out EXCEPT !.tx = EmptyTx]
           hello == Send(cleared, "P0", Plain("LINK_HELLO"))
<1>1. /\ cleared \in Outs /\ Reported(cleared) = {}
      /\ "LINK_HELLO" \in PlainTypes /\ "LINK_HELLO_ACK" \in PlainTypes
  BY ClearedOut DEF PlainTypes
<1> HIDE DEF cleared
<1>2. hello \in Outs /\ Reported(hello) = {}
  BY <1>1, PlainAddsNothing, ClassFacts
<1> HIDE DEF hello
<1>3. /\ Offered(hello, acks, "P0", Plain("LINK_HELLO_ACK")) \in Outs
      /\ Reported(Offered(hello, acks, "P0", Plain("LINK_HELLO_ACK"))) = {}
  BY <1>1, <1>2, OfferedAddsNothing, ClassFacts
<1> QED
  BY <1>3 DEF Restarted, hello, cleared

LEMMA SendKeeps ==
  ASSUME NEW o \in Outs, NEW class \in ClassNames, NEW item \in Messages
  PROVE  Range(o.tx.queue["P0"]) \subseteq Range(Send(o, class, item).tx.queue["P0"])
<1> DEFINE q == o.tx.queue["P0"]
           after == QueueAfter(o.tx, class, item)
<1>1. q \in Seq(Messages) /\ o.tx.queue \in [ClassNames -> Seq(Messages)]
  BY ClassFacts DEF Outs, Queues
<1>2. Send(o, class, item).tx.queue = [o.tx.queue EXCEPT ![class] = after]
  BY DEF Send, Published, Outs
<1>3. class = "P0" => after = q \/ after = Append(q, item)
  BY DEF QueueAfter, Refused, Coalesces
<1>4. Range(q) \subseteq Range(Append(q, item))
  <2>1. /\ DOMAIN Append(q, item) = 1 .. Len(q) + 1 /\ DOMAIN q = 1 .. Len(q)
        /\ Len(q) \in Nat
        /\ \A i \in 1 .. Len(q) : Append(q, item)[i] = q[i]
    BY <1>1
  <2> HIDE DEF q
  <2> QED
    BY <2>1 DEF Range
<1> HIDE DEF after
<1>5. Send(o, class, item).tx.queue["P0"] = IF class = "P0" THEN after ELSE q
  BY <1>1, <1>2, ClassFacts
<1> QED
  BY <1>3, <1>4, <1>5

LEMMA OfferedKeeps ==
  ASSUME NEW o \in Outs, NEW due, NEW class \in ClassNames, NEW t \in PlainTypes
  PROVE  Reported(o) \subseteq Reported(Offered(o, due, class, Plain(t)))
  BY SendKeeps, MessageFacts DEF Offered, Reported

LEMMA OfferedReports ==
  ASSUME NEW o \in Outs, NEW due, NEW class \in {"P0", "STATE"}, NEW t \in PlainTypes
  PROVE  /\ Offered(o, due, class, Plain(t)) \in Outs
         /\ Reported(Offered(o, due, class, Plain(t))) = Reported(o)
<1>1. class \in ClassNames
  BY ClassFacts
<1>2. /\ Offered(o, due, class, Plain(t)) \in Outs
      /\ Reported(Offered(o, due, class, Plain(t))) \subseteq Reported(o)
  BY <1>1, OfferedAddsNothing
<1>3. Reported(o) \subseteq Reported(Offered(o, due, class, Plain(t)))
  BY <1>1, OfferedKeeps
<1> QED
  BY <1>2, <1>3

\* A result for which there is room is on its way.
LEMMA ResultIsSent ==
  ASSUME NEW o \in Outs, ~P0Full(o), NEW c \in Keys, NEW s \in Outcomes
  PROVE  <<c, s>> \in Reported(Send(o, "P0", Result(c, s)))
<1> DEFINE q == o.tx.queue["P0"]
           r == Result(c, s)
           sent == Send(o, "P0", r)
<1>1. q \in Seq(Messages) /\ o.tx.queue \in [ClassNames -> Seq(Messages)]
  BY ClassFacts DEF Outs, Queues
<1>2. sent.tx.queue = [o.tx.queue EXCEPT !["P0"] = QueueAfter(o.tx, "P0", r)]
  BY DEF Send, Published, Outs
<1>3. QueueAfter(o.tx, "P0", r) = Append(q, r)
  BY DEF QueueAfter, Refused, Coalesces, P0Full
<1>4. r.type = "COMMAND_RESULT" /\ r.cmd = c /\ r.stage = s
  BY DEF Result
<1>5. Len(q) \in Nat /\ DOMAIN Append(q, r) = 1 .. Len(q) + 1 /\ Append(q, r)[Len(q) + 1] = r
  <2>1. r \in Messages
    BY MessageFacts
  <2> HIDE DEF r, q
  <2> QED
    BY <1>1, <2>1
<1> HIDE DEF r, q
<1>6. r \in Range(Append(q, r))
  BY <1>5 DEF Range
<1>7. sent.tx.queue["P0"] = Append(q, r)
  BY <1>1, <1>2, <1>3, ClassFacts
<1> HIDE DEF sent
<1> QED
  BY <1>4, <1>6, <1>7 DEF Reported, sent, r

-----------------------------------------------------------------------------
(* Numbers and sequences.                                                  *)

LEMMA LeastExists ==
  ASSUME NEW T \in SUBSET Nat, T # {}
  PROVE  \E x \in T : \A y \in T : x <= y
<1>1. PICK x \in T : \A y \in T : <<y, x>> \notin OpToRel(<, Nat)
  BY NatLessThanWellFounded, WFMin
<1>2. \A y \in T : ~(y < x)
  BY <1>1 DEF OpToRel
<1> QED
  BY <1>2

LEMMA MinOfTwo ==
  ASSUME NEW a \in Int, NEW b \in Int
  PROVE  Min({a, b}) \in {a, b} /\ Min({a, b}) <= a /\ Min({a, b}) <= b
<1>1. \E x \in {a, b} : \A y \in {a, b} : x <= y
  OBVIOUS
<1>2. Min({a, b}) \in {a, b} /\ \A y \in {a, b} : Min({a, b}) <= y
  BY <1>1 DEF Min
<1> QED
  BY <1>2

\* r is q without the elements at the positions `gone`.
Remains(q, gone, r) ==
    \E f \in [DOMAIN r -> DOMAIN q \ gone] :
        /\ \A i, j \in DOMAIN r : f[i] = f[j] => i = j
        /\ \A k \in DOMAIN q \ gone : \E i \in DOMAIN r : f[i] = k
        /\ \A i \in DOMAIN r : r[i] = q[f[i]]

LEMMA AllRemain ==
  ASSUME NEW q
  PROVE  Remains(q, {}, q)
<1> DEFINE f == [i \in DOMAIN q |-> i]
<1>1. f \in [DOMAIN q -> DOMAIN q \ {}] /\ \A i \in DOMAIN q : f[i] = i
  OBVIOUS
<1> HIDE DEF f
<1> QED
  BY <1>1 DEF Remains

LEMMA RemoveAtRemains ==
  ASSUME NEW S, NEW q \in Seq(S), NEW k \in DOMAIN q
  PROVE  /\ RemoveAt(q, k) \in Seq(S) /\ Len(RemoveAt(q, k)) <= Len(q)
         /\ Remains(q, {k}, RemoveAt(q, k))
<1> DEFINE n == Len(q)
           s1 == SubSeq(q, 1, k - 1)
           s2 == SubSeq(q, k + 1, n)
           r == s1 \o s2
<1>1. /\ n \in Nat /\ DOMAIN q = 1 .. n /\ k \in 1 .. n
      /\ \A i \in 1 .. n : q[i] \in S
  OBVIOUS
<1> HIDE DEF n
<1>2. /\ s1 \in Seq(S) /\ Len(s1) = k - 1
      /\ \A i \in 1 .. k - 1 : s1[i] = q[i]
  <2>1. \A i \in 1 .. k - 1 : q[i] \in S
    BY <1>1
  <2>2. /\ SubSeq(q, 1, k - 1) \in Seq(S)
        /\ Len(SubSeq(q, 1, k - 1)) = IF 1 <= k - 1 THEN (k - 1) - 1 + 1 ELSE 0
        /\ \A i \in 1 .. (k - 1) - 1 + 1 : SubSeq(q, 1, k - 1)[i] = q[1 + i - 1]
    BY <1>1, <2>1, SubSeqProperties
  <2> HIDE DEF s1
  <2>3. \A i \in 1 .. k - 1 : 1 + i - 1 = i /\ i \in 1 .. (k - 1) - 1 + 1
    BY <1>1
  <2> QED
    BY <1>1, <2>2, <2>3 DEF s1
<1>3. /\ s2 \in Seq(S) /\ Len(s2) = n - k
      /\ \A i \in 1 .. n - k : s2[i] = q[k + i]
  <2>1. \A i \in k + 1 .. n : q[i] \in S
    BY <1>1
  <2>2. /\ SubSeq(q, k + 1, n) \in Seq(S)
        /\ Len(SubSeq(q, k + 1, n)) = IF k + 1 <= n THEN n - (k + 1) + 1 ELSE 0
        /\ \A i \in 1 .. n - (k + 1) + 1 : SubSeq(q, k + 1, n)[i] = q[(k + 1) + i - 1]
    BY <1>1, <2>1, SubSeqProperties
  <2>3. \A i \in 1 .. n - k : (k + 1) + i - 1 = k + i /\ i \in 1 .. n - (k + 1) + 1
    BY <1>1
  <2> QED
    BY <1>1, <2>2, <2>3
<1> HIDE DEF s1, s2
<1>4. /\ r \in Seq(S) /\ Len(r) = (k - 1) + (n - k)
      /\ \A i \in 1 .. (k - 1) + (n - k) : r[i] = IF i <= k - 1 THEN s1[i] ELSE s2[i - (k - 1)]
  <2>1. /\ s1 \o s2 \in Seq(S) /\ Len(s1 \o s2) = Len(s1) + Len(s2)
        /\ \A i \in 1 .. Len(s1) + Len(s2) :
              (s1 \o s2)[i] = IF i <= Len(s1) THEN s1[i] ELSE s2[i - Len(s1)]
    BY <1>2, <1>3, ConcatProperties
  <2> QED
    BY <2>1, <1>2, <1>3
<1> HIDE DEF r
<1>5. Len(r) = n - 1 /\ DOMAIN r = 1 .. n - 1
  BY <1>1, <1>4
<1> DEFINE f == [i \in 1 .. n - 1 |-> IF i < k THEN i ELSE i + 1]
<1>6. \A i \in 1 .. n - 1 : r[i] = q[f[i]]
  <2> TAKE i \in 1 .. n - 1
  <2>1. CASE i < k
    BY <2>1, <1>1, <1>2, <1>4
  <2>2. CASE ~(i < k)
    <3>1. /\ i - (k - 1) \in 1 .. n - k /\ k + (i - (k - 1)) = i + 1
          /\ i \in 1 .. (k - 1) + (n - k) /\ ~(i <= k - 1)
      BY <2>2, <1>1
    <3>2. r[i] = s2[i - (k - 1)]
      BY <3>1, <1>4
    <3>3. s2[i - (k - 1)] = q[i + 1]
      BY <3>1, <1>3
    <3>4. f[i] = i + 1
      BY <2>2
    <3> QED
      BY <3>2, <3>3, <3>4
  <2> QED
    BY <2>1, <2>2
<1>7. f \in [1 .. n - 1 -> 1 .. n \ {k}]
  BY <1>1
<1>8. \A i, j \in 1 .. n - 1 : f[i] = f[j] => i = j
  BY <1>1
<1>9. \A m \in 1 .. n \ {k} : \E i \in 1 .. n - 1 : f[i] = m
  <2> TAKE m \in 1 .. n \ {k}
  <2>1. CASE m < k
    <3>1. m \in 1 .. n - 1 /\ f[m] = m
      BY <2>1, <1>1
    <3> QED
      BY <3>1
  <2>2. CASE ~(m < k)
    <3>1. m - 1 \in 1 .. n - 1 /\ f[m - 1] = m
      BY <2>2, <1>1
    <3> QED
      BY <3>1
  <2> QED
    BY <2>1, <2>2
<1> HIDE DEF f
<1>10. Remains(q, {k}, r)
  <2>1. f \in [DOMAIN r -> DOMAIN q \ {k}]
    BY <1>1, <1>5, <1>7
  <2>2. \A i, j \in DOMAIN r : f[i] = f[j] => i = j
    BY <1>5, <1>8
  <2>3. \A m \in DOMAIN q \ {k} : \E i \in DOMAIN r : f[i] = m
    BY <1>1, <1>5, <1>9
  <2>4. \A i \in DOMAIN r : r[i] = q[f[i]]
    BY <1>5, <1>6
  <2> QED
    BY <2>1, <2>2, <2>3, <2>4, Zenon DEF Remains
<1>11. RemoveAt(q, k) = r
  BY DEF RemoveAt, r, s1, s2, n
<1>12. Len(r) <= Len(q)
  BY <1>1, <1>5 DEF n
<1> QED
  BY <1>4, <1>10, <1>11, <1>12

LEMMA TailRemains ==
  ASSUME NEW S, NEW q \in Seq(S), NEW k \in 0 .. Len(q)
  PROVE  /\ SubSeq(q, k + 1, Len(q)) \in Seq(S)
         /\ Len(SubSeq(q, k + 1, Len(q))) <= Len(q)
         /\ Remains(q, 1 .. k, SubSeq(q, k + 1, Len(q)))
<1> DEFINE n == Len(q)
           r == SubSeq(q, k + 1, n)
<1>1. /\ n \in Nat /\ DOMAIN q = 1 .. n /\ k \in 0 .. n
      /\ \A i \in 1 .. n : q[i] \in S
  OBVIOUS
<1> HIDE DEF n
<1>2. /\ r \in Seq(S) /\ Len(r) = n - k
      /\ \A i \in 1 .. n - k : r[i] = q[k + i]
  <2>1. \A i \in k + 1 .. n : q[i] \in S
    BY <1>1
  <2>2. /\ SubSeq(q, k + 1, n) \in Seq(S)
        /\ Len(SubSeq(q, k + 1, n)) = IF k + 1 <= n THEN n - (k + 1) + 1 ELSE 0
        /\ \A i \in 1 .. n - (k + 1) + 1 : SubSeq(q, k + 1, n)[i] = q[(k + 1) + i - 1]
    BY <1>1, <2>1, SubSeqProperties
  <2>3. \A i \in 1 .. n - k : (k + 1) + i - 1 = k + i /\ i \in 1 .. n - (k + 1) + 1
    BY <1>1
  <2> HIDE DEF r
  <2>4. Len(r) = n - k
    BY <1>1, <2>2 DEF r
  <2> QED
    BY <2>2, <2>3, <2>4 DEF r
<1> HIDE DEF r
<1>3. DOMAIN r = 1 .. n - k
  BY <1>1, <1>2
<1> DEFINE f == [i \in 1 .. n - k |-> k + i]
<1>4. f \in [1 .. n - k -> 1 .. n \ (1 .. k)]
  BY <1>1
<1>5. \A i, j \in 1 .. n - k : f[i] = f[j] => i = j
  BY <1>1
<1>6. \A m \in 1 .. n \ (1 .. k) : \E i \in 1 .. n - k : f[i] = m
  <2> TAKE m \in 1 .. n \ (1 .. k)
  <2>1. m - k \in 1 .. n - k /\ f[m - k] = m
    BY <1>1
  <2> QED
    BY <2>1
<1>7. \A i \in 1 .. n - k : r[i] = q[f[i]]
  BY <1>2
<1> HIDE DEF f
<1>8. Remains(q, 1 .. k, r)
  <2>1. f \in [DOMAIN r -> DOMAIN q \ (1 .. k)]
    BY <1>1, <1>3, <1>4
  <2>2. \A i, j \in DOMAIN r : f[i] = f[j] => i = j
    BY <1>3, <1>5
  <2>3. \A m \in DOMAIN q \ (1 .. k) : \E i \in DOMAIN r : f[i] = m
    BY <1>1, <1>3, <1>6
  <2>4. \A i \in DOMAIN r : r[i] = q[f[i]]
    BY <1>3, <1>7
  <2> QED
    BY <2>1, <2>2, <2>3, <2>4, Zenon DEF Remains
<1>9. Len(r) <= n
  BY <1>1, <1>2
<1> QED
  BY <1>2, <1>8, <1>9 DEF r, n

LEMMA FrontIsPrefix ==
  ASSUME NEW S, NEW q \in Seq(S), NEW k \in 0 .. Len(q)
  PROVE  /\ SubSeq(q, 1, k) \in Seq(S) /\ Len(SubSeq(q, 1, k)) = k
         /\ DOMAIN SubSeq(q, 1, k) = 1 .. k
         /\ \A i \in 1 .. k : SubSeq(q, 1, k)[i] = q[i]
<1>1. \A i \in 1 .. k : q[i] \in S
  OBVIOUS
<1>2. /\ SubSeq(q, 1, k) \in Seq(S)
      /\ Len(SubSeq(q, 1, k)) = IF 1 <= k THEN k - 1 + 1 ELSE 0
      /\ \A i \in 1 .. k - 1 + 1 : SubSeq(q, 1, k)[i] = q[1 + i - 1]
  BY <1>1, SubSeqProperties
<1>3. \A i \in 1 .. k : 1 + i - 1 = i /\ i \in 1 .. k - 1 + 1
  OBVIOUS
<1>4. Len(SubSeq(q, 1, k)) = k
  BY <1>2
<1> QED
  BY <1>2, <1>3, <1>4, LenProperties

-----------------------------------------------------------------------------
(* The command cache.                                                      *)

\* d is c without some entries, each of them run out at time t.
Dropped(c, d, t) ==
    /\ d \in Caches /\ d.next = c.next
    /\ \A s \in Slots : \/ d.entries[s] = c.entries[s]
                        \/ d.entries[s] = Free /\ EntryExpired(c.entries[s], t)

LEMMA SweptDrops ==
  ASSUME NEW c \in Caches, NEW slots, NEW t
  PROVE  Dropped(c, Swept(c, slots, t), t)
<1> DEFINE kept == [s \in Slots |-> IF s \in slots /\ EntryExpired(c.entries[s], t)
                                    THEN Free ELSE c.entries[s]]
<1>1. c.entries \in [Slots -> Entries \cup {Free}] /\ c.next \in 1 .. MaxGeneration
  BY DEF Caches
<1>2. Swept(c, slots, t) = [entries |-> kept, next |-> c.next]
  BY DEF Swept, Caches
<1>3. kept \in [Slots -> Entries \cup {Free}]
  BY <1>1
<1>4. \A s \in Slots : \/ kept[s] = c.entries[s]
                       \/ kept[s] = Free /\ EntryExpired(c.entries[s], t)
  OBVIOUS
<1> HIDE DEF kept
<1>5. Swept(c, slots, t) \in Caches
  BY <1>1, <1>2, <1>3 DEF Caches
<1> QED
  BY <1>2, <1>4, <1>5 DEF Dropped

LEMMA SearchedDrops ==
  ASSUME NEW c \in Caches, NEW k, NEW t
  PROVE  Dropped(c, Searched(c, k, t), t)
  BY SweptDrops DEF Searched

LEMMA NothingDropped ==
  ASSUME NEW c \in Caches, NEW t
  PROVE  Dropped(c, c, t)
  BY DEF Dropped

\* A result that is not taken may only drop its entry.
LEMMA RefusedRecordDrops ==
  ASSUME NEW c \in Caches, NEW h \in Handles, NEW r, NEW t, RecordStatus(c, h, r, t) # "OK"
  PROVE  Dropped(c, AfterRecord(c, h, r, t), t)
<1>1. /\ c.entries \in [Slots -> Entries \cup {Free}] /\ c.next \in 1 .. MaxGeneration
      /\ h.slot \in Slots
  BY DEF Caches, Handles
<1>2. CASE ~(Names(c, h) /\ EntryExpired(c.entries[h.slot], t))
  <2>1. AfterRecord(c, h, r, t) = c
    BY <1>2 DEF AfterRecord
  <2> QED
    BY <2>1, NothingDropped
<1>3. CASE Names(c, h) /\ EntryExpired(c.entries[h.slot], t)
  <2> DEFINE kept == [c.entries EXCEPT ![h.slot] = Free]
  <2>1. AfterRecord(c, h, r, t) = [entries |-> kept, next |-> c.next]
    BY <1>3 DEF AfterRecord, Caches
  <2>2. /\ kept \in [Slots -> Entries \cup {Free}]
        /\ \A s \in Slots : kept[s] = IF s = h.slot THEN Free ELSE c.entries[s]
    BY <1>1
  <2> HIDE DEF kept
  <2>3. AfterRecord(c, h, r, t) \in Caches
    BY <1>1, <2>1, <2>2 DEF Caches
  <2> QED
    BY <1>3, <2>1, <2>2, <2>3 DEF Dropped
<1> QED
  BY <1>2, <1>3

\* A result that is taken changes the one entry it belongs to.
LEMMA RecordFacts ==
  ASSUME NEW c \in Caches, NEW h \in Handles, NEW r \in Results, NEW t,
         RecordStatus(c, h, r, t) = "OK"
  PROVE  /\ Names(c, h)
         /\ AfterRecord(c, h, r, t) \in Caches
         /\ AfterRecord(c, h, r, t).next = c.next
         /\ c.entries[h.slot] \in Entries
         /\ AfterRecord(c, h, r, t).entries[h.slot] \in Entries
         /\ \A s \in Slots : AfterRecord(c, h, r, t).entries[s] =
               IF s = h.slot THEN [c.entries[s] EXCEPT !.result = r] ELSE c.entries[s]
<1> DEFINE e == c.entries[h.slot]
           marked == [c.entries EXCEPT ![h.slot] = [e EXCEPT !.result = r]]
<1>1. /\ c.entries \in [Slots -> Entries \cup {Free}] /\ c.next \in 1 .. MaxGeneration
      /\ h.slot \in Slots
  BY DEF Caches, Handles
<1>2. Names(c, h) /\ ~EntryExpired(e, t)
  BY DEF RecordStatus
<1>3. e \in Entries
  BY <1>1, <1>2 DEF Names, Free
<1>4. AfterRecord(c, h, r, t) = [entries |-> marked, next |-> c.next]
  BY <1>2 DEF AfterRecord, Caches
<1>5. [e EXCEPT !.result = r] \in Entries
  <2> HIDE DEF e
  <2> QED
    BY <1>3 DEF Entries
<1>6. /\ marked \in [Slots -> Entries \cup {Free}]
      /\ \A s \in Slots : marked[s] = IF s = h.slot THEN [e EXCEPT !.result = r]
                                      ELSE c.entries[s]
  <2> DEFINE m == [e EXCEPT !.result = r]
  <2> HIDE DEF m, e
  <2> QED
    BY <1>1, <1>5 DEF m
<1> HIDE DEF marked
<1>7. AfterRecord(c, h, r, t) \in Caches
  BY <1>1, <1>4, <1>6 DEF Caches
<1> QED
  BY <1>1, <1>2, <1>3, <1>4, <1>5, <1>6, <1>7

LEMMA FirstFacts ==
  ASSUME NEW T \in SUBSET Slots, T # {}
  PROVE  First(T) \in T
<1>1. T \subseteq Nat
  BY CacheAssumption DEF Slots
<1>2. \E x \in T : \A y \in T : x <= y
  BY <1>1, LeastExists
<1> QED
  BY <1>2 DEF First

\* canview_uart_command_cache_admit when it answers OK.
LEMMA AdmitFacts ==
  ASSUME NEW c \in Caches, NEW k \in Keys, NEW t \in Nat, AdmitStatus(c, k, t) = "OK"
  PROVE  /\ AdmitSlot(c, k, t) \in Slots
         /\ AfterAdmit(c, k, k.ttl, t) \in Caches
         /\ AfterAdmit(c, k, k.ttl, t).next = c.next + 1
         /\ Matches(c, k, t) = {}
         /\ \A s \in Slots :
               \/ /\ s = AdmitSlot(c, k, t)
                  /\ AfterAdmit(c, k, k.ttl, t).entries[s] = NewEntry(c.next, k, k.ttl, t)
                  /\ ~c.entries[s].valid \/ EntryExpired(c.entries[s], t)
               \/ /\ s # AdmitSlot(c, k, t)
                  /\ \/ AfterAdmit(c, k, k.ttl, t).entries[s] = c.entries[s]
                     \/ /\ AfterAdmit(c, k, k.ttl, t).entries[s] = Free
                        /\ EntryExpired(c.entries[s], t)
<1> DEFINE d == Searched(c, k, t)
           slot == AdmitSlot(c, k, t)
           new == NewEntry(c.next, k, k.ttl, t)
           filled == [d.entries EXCEPT ![slot] = new]
<1>1. Dropped(c, d, t)
  BY SearchedDrops
<1>2. Matches(c, k, t) = {} /\ FreeSlots(d) # {} /\ c.next # MaxGeneration
  BY DEF AdmitStatus
<1>3. AfterAdmit(c, k, k.ttl, t) = [d EXCEPT !.entries[slot] = new, !.next = @ + 1]
  BY DEF AfterAdmit
<1>4. slot \in FreeSlots(d)
  BY <1>2, FirstFacts DEF AdmitSlot, FreeSlots
<1> HIDE DEF d, slot
<1>5. /\ d \in Caches /\ d.entries \in [Slots -> Entries \cup {Free}]
      /\ d.next = c.next /\ c.next \in 1 .. MaxGeneration /\ d.next + 1 \in 1 .. MaxGeneration
  BY <1>1, <1>2, CacheAssumption DEF Dropped, Caches
<1>6. slot \in Slots /\ ~d.entries[slot].valid
  BY <1>4 DEF FreeSlots
<1>7. new \in Entries
  <2>1. k.ttl \in Nat /\ RetentionMs \in Nat /\ c.next \in Nat
    BY <1>5, StmUartAssumption, CacheAssumption
  <2> QED
    BY <2>1 DEF NewEntry, Entries
<1> HIDE DEF new
<1>8. /\ filled \in [Slots -> Entries \cup {Free}]
      /\ \A s \in Slots : filled[s] = IF s = slot THEN new ELSE d.entries[s]
  BY <1>5, <1>6, <1>7
<1>9. AfterAdmit(c, k, k.ttl, t) = [entries |-> filled, next |-> d.next + 1]
  BY <1>3, <1>5 DEF Caches
<1> HIDE DEF filled
<1>10. AfterAdmit(c, k, k.ttl, t) \in Caches
  BY <1>5, <1>8, <1>9 DEF Caches
<1>11. ~c.entries[slot].valid \/ EntryExpired(c.entries[slot], t)
  BY <1>1, <1>6 DEF Dropped
<1> QED
  BY <1>1, <1>2, <1>5, <1>6, <1>8, <1>9, <1>10, <1>11 DEF Dropped, slot, new

-----------------------------------------------------------------------------
(* Steps.  All but a few conclude some pending commands (most of them      *)
(* none): the results of these are queued, and recorded in the cache where *)
(* it still has their entries.                                             *)

Endings(gone, stage) == {<<pending[i].cmd, stage>> : i \in gone}

Recorded1(i, stage) == [stage |-> stage, cmd |-> pending[i].cmd]

EntryMoves(s, gone, stage) ==
    \/ cache'.entries[s] \in {cache.entries[s], Free}
    \/ \E i \in gone :
          /\ pending[i].handle.slot = s /\ Names(cache, pending[i].handle)
          /\ cache'.entries[s] = [cache.entries[s] EXCEPT !.result = Recorded1(i, stage)]

Concludes(gone, stage) ==
    /\ gone \subseteq DOMAIN pending /\ stage \in Outcomes
    /\ Remains(pending, gone, pending')
    /\ cache'.next = cache.next /\ \A s \in Slots : EntryMoves(s, gone, stage)
    /\ Reported(out') \subseteq Reported(out) \cup CacheReports(cache) \cup Endings(gone, stage)
    /\ Endings(gone, stage) \subseteq Reported(out')
    /\ held' \in {held, NoHeld} \/ (pending # <<>> /\ held' = Head(pending))
    /\ stage # "EXPIRED" => \A i \in gone : pending[i].cmd \in executed

\* Everything that belongs to the session is gone.
Restarts ==
    /\ pending' = <<>> /\ Reported(out') = {}
    /\ cache'.next = cache.next
    /\ \A s \in Slots : cache'.entries[s] \in {cache.entries[s], Free}
    /\ held' = held

LEMMA EntryFacts ==
  ASSUME cache \in Caches, NEW s \in Slots, cache.entries[s].valid
  PROVE  cache.entries[s] \in Entries
  BY DEF Caches, Free

LEMMA ExpiryTyped ==
  ASSUME Typed, NEW s \in Slots, cache.entries[s].valid
  PROVE  cache.entries[s].expires \in Int
<1>1. cache.entries[s] \in Entries
  BY EntryFacts DEF Typed
<1>2. \A e \in Entries : e.expires \in Nat
  BY DEF Entries
<1> QED
  BY <1>1, <1>2

LEMMA RecordHistory ==
  ASSUME Record
  PROVE  /\ told' \subseteq told \cup Reported(out')
         /\ executed \subseteq executed'
         /\ held' \in {held, NoHeld} \/ held'.cmd \in executed'
  BY DEF Record

LEMMA ConcludesKeepsHandles ==
  ASSUME CoreInv, Typed', NEW gone, NEW stage, Concludes(gone, stage)
  PROVE  HandlesAreOld'
<1>1. /\ pending \in Seq(Waiting) /\ cache \in Caches /\ cache' \in Caches
      /\ held \in Waiting \cup {NoHeld}
  BY DEF CoreInv, Typed
<1>2. PICK f \in [DOMAIN pending' -> DOMAIN pending \ gone] :
        /\ \A i, j \in DOMAIN pending' : f[i] = f[j] => i = j
        /\ \A i \in DOMAIN pending' : pending'[i] = pending[f[i]]
  BY DEF Concludes, Remains
<1>3. \A s \in Slots : cache'.entries[s].valid => cache'.entries[s].generation < cache'.next
  <2> TAKE s \in Slots
  <2>1. /\ EntryMoves(s, gone, stage) /\ cache'.next = cache.next
        /\ cache.entries[s].valid => cache.entries[s].generation < cache.next
    BY DEF Concludes, CoreInv, HandlesAreOld
  <2>2. CASE cache'.entries[s] \in {cache.entries[s], Free}
    BY <2>1, <2>2 DEF Free
  <2>3. ASSUME NEW i \in gone,
               pending[i].handle.slot = s /\ Names(cache, pending[i].handle),
               cache'.entries[s] = [cache.entries[s] EXCEPT !.result = Recorded1(i, stage)]
        PROVE  cache'.entries[s].generation < cache'.next
    <3>1. cache.entries[s].valid
      BY <2>3 DEF Names
    <3>2. cache.entries[s] \in Entries
      BY <1>1, <3>1, EntryFacts
    <3>3. cache'.entries[s].generation = cache.entries[s].generation
      BY <2>3, <3>2 DEF Entries
    <3> QED
      BY <2>1, <3>1, <3>3
  <2> QED
    BY <2>1, <2>2, <2>3 DEF EntryMoves
<1>4. \A i \in DOMAIN pending' : pending'[i].handle.generation < cache'.next
  BY <1>2 DEF CoreInv, HandlesAreOld, Concludes
<1>5. \A i, j \in DOMAIN pending' :
        pending'[i].handle.generation = pending'[j].handle.generation => i = j
  BY <1>2 DEF CoreInv, HandlesAreOld
<1>6. held' # NoHeld =>
        /\ held'.handle.generation < cache'.next
        /\ \A i \in DOMAIN pending' : pending'[i].handle = held'.handle => pending'[i].cmd = held'.cmd
  <2>1. CASE held' \in {held, NoHeld}
    BY <2>1, <1>2 DEF CoreInv, HandlesAreOld, Concludes
  <2>2. CASE pending # <<>> /\ held' = Head(pending)
    <3>1. 1 \in DOMAIN pending /\ held' = pending[1]
      BY <2>2, <1>1
    <3>2. held'.handle.generation < cache'.next
      BY <3>1 DEF CoreInv, HandlesAreOld, Concludes
    <3>3. ASSUME NEW i \in DOMAIN pending', pending'[i].handle = held'.handle
          PROVE  pending'[i].cmd = held'.cmd
      <4>1. pending[f[i]].handle.generation = pending[1].handle.generation /\ f[i] \in DOMAIN pending
        BY <3>1, <3>3, <1>2
      <4>2. f[i] = 1
        BY <4>1, <3>1 DEF CoreInv, HandlesAreOld
      <4> QED
        BY <4>2, <3>1, <1>2
    <3> QED
      BY <3>2, <3>3
  <2> QED
    BY <2>1, <2>2 DEF Concludes
<1> QED
  BY <1>3, <1>4, <1>5, <1>6 DEF HandlesAreOld

LEMMA ConcludesKeepsOpen ==
  ASSUME CoreInv, Typed', NEW gone, NEW stage, Concludes(gone, stage)
  PROVE  PendingIsOpen'
<1>1. /\ pending \in Seq(Waiting) /\ cache \in Caches
  BY DEF CoreInv, Typed
<1>2. PICK f \in [DOMAIN pending' -> DOMAIN pending \ gone] :
        \A i \in DOMAIN pending' : pending'[i] = pending[f[i]]
  BY DEF Concludes, Remains
<1>3. ASSUME NEW i \in DOMAIN pending', Names(cache', pending'[i].handle)
      PROVE  /\ cache'.entries[pending'[i].handle.slot].key = pending'[i].cmd
             /\ cache'.entries[pending'[i].handle.slot].result = NoResult
  <2> DEFINE k == f[i]
             s == pending[k].handle.slot
  <2>1. k \in DOMAIN pending /\ k \notin gone /\ pending'[i] = pending[k]
    BY <1>2
  <2> HIDE DEF k
  <2>2. s \in Slots
    <3>1. pending[k] \in Waiting
      BY <2>1, <1>1
    <3> QED
      BY <3>1 DEF Waiting, Handles
  <2>3. /\ cache'.entries[s].valid
        /\ cache'.entries[s].generation = pending[k].handle.generation
    BY <1>3, <2>1 DEF Names
  <2>4. EntryMoves(s, gone, stage)
    BY <2>2 DEF Concludes
  <2>5. CASE cache'.entries[s] \in {cache.entries[s], Free}
    <3>1. cache'.entries[s] = cache.entries[s]
      BY <2>3, <2>5 DEF Free
    <3>2. Names(cache, pending[k].handle)
      BY <2>3, <3>1 DEF Names
    <3> QED
      BY <2>1, <3>1, <3>2 DEF CoreInv, PendingIsOpen
  <2>6. ASSUME NEW j \in gone,
               pending[j].handle.slot = s /\ Names(cache, pending[j].handle),
               cache'.entries[s] = [cache.entries[s] EXCEPT !.result = Recorded1(j, stage)]
        PROVE  FALSE
    <3>1. cache.entries[s].valid /\ cache.entries[s].generation = pending[j].handle.generation
      BY <2>6 DEF Names
    <3>2. cache.entries[s] \in Entries
      BY <1>1, <2>2, <3>1, EntryFacts
    <3>3. cache'.entries[s].generation = cache.entries[s].generation
      BY <2>6, <3>2 DEF Entries
    <3>4. j \in DOMAIN pending
      BY DEF Concludes
    <3>5. j = k
      BY <2>1, <2>3, <3>1, <3>3, <3>4 DEF CoreInv, HandlesAreOld
    <3> QED
      BY <2>1, <3>5
  <2> QED
    BY <2>1, <2>4, <2>5, <2>6 DEF EntryMoves
<1> QED
  BY <1>3 DEF PendingIsOpen

LEMMA ConcludesReports ==
  ASSUME cache \in Caches, NEW gone, NEW stage, Concludes(gone, stage)
  PROVE  CacheReports(cache') \subseteq CacheReports(cache) \cup Endings(gone, stage)
<1> SUFFICES ASSUME NEW s \in Slots, cache'.entries[s].valid,
                    cache'.entries[s].result # NoResult
             PROVE  <<cache'.entries[s].result.cmd, cache'.entries[s].result.stage>>
                      \in CacheReports(cache) \cup Endings(gone, stage)
  BY DEF CacheReports
<1>1. EntryMoves(s, gone, stage)
  BY DEF Concludes
<1>2. CASE cache'.entries[s] \in {cache.entries[s], Free}
  <2>1. cache'.entries[s] = cache.entries[s]
    BY <1>2 DEF Free
  <2> QED
    BY <2>1 DEF CacheReports
<1>3. ASSUME NEW i \in gone,
             pending[i].handle.slot = s /\ Names(cache, pending[i].handle),
             cache'.entries[s] = [cache.entries[s] EXCEPT !.result = Recorded1(i, stage)]
      PROVE  <<cache'.entries[s].result.cmd, cache'.entries[s].result.stage>>
                = <<pending[i].cmd, stage>>
  <2>1. cache.entries[s] \in Entries
    BY <1>3, EntryFacts DEF Names
  <2>2. cache'.entries[s].result = Recorded1(i, stage)
    BY <1>3, <2>1 DEF Entries
  <2> QED
    BY <2>2 DEF Recorded1
<1> QED
  BY <1>1, <1>2, <1>3 DEF EntryMoves, Endings

LEMMA ConcludesCore ==
  ASSUME CoreInv, Typed', NEW gone, NEW stage, Concludes(gone, stage), Record
  PROVE  CoreInv'
<1>1. HandlesAreOld' /\ PendingIsOpen'
  BY ConcludesKeepsHandles, ConcludesKeepsOpen
<1>2. Earned(CacheReports(cache), executed') /\ Earned(Reported(out), executed')
      /\ Earned(told, executed')
  BY RecordHistory DEF CoreInv, ReportsAreEarned, Earned
<1>3. Earned(Endings(gone, stage), executed')
  BY RecordHistory DEF Earned, Endings, Concludes
<1>4. Earned(CacheReports(cache'), executed')
  BY <1>2, <1>3, ConcludesReports DEF Earned, CoreInv, Typed
<1>5. Earned(Reported(out'), executed')
  BY <1>2, <1>3 DEF Earned, Concludes
<1>6. Earned(told', executed')
  BY <1>2, <1>5, RecordHistory DEF Earned
<1>7. held' # NoHeld => held'.cmd \in executed'
  BY RecordHistory DEF CoreInv, ReportsAreEarned
<1> QED
  BY <1>1, <1>4, <1>5, <1>6, <1>7 DEF CoreInv, ReportsAreEarned

LEMMA RestartsCore ==
  ASSUME CoreInv, Typed', Restarts, Record
  PROVE  CoreInv'
<1>1. \A s \in Slots : cache'.entries[s].valid => cache'.entries[s] = cache.entries[s]
  BY DEF Restarts, Free
<1>2. DOMAIN pending' = {}
  BY DEF Restarts
<1>3. HandlesAreOld'
  BY <1>1, <1>2 DEF CoreInv, HandlesAreOld, Restarts
<1>4. PendingIsOpen'
  BY <1>2 DEF PendingIsOpen
<1>5. CacheReports(cache') \subseteq CacheReports(cache)
  BY <1>1 DEF CacheReports
<1>6. Earned(CacheReports(cache'), executed')
  BY <1>5, RecordHistory DEF CoreInv, ReportsAreEarned, Earned
<1>7. Earned(Reported(out'), executed')
  BY DEF Restarts, Earned
<1>8. Earned(told', executed')
  BY RecordHistory DEF CoreInv, ReportsAreEarned, Earned, Restarts
<1>9. held' # NoHeld => held'.cmd \in executed'
  BY RecordHistory DEF CoreInv, ReportsAreEarned, Restarts
<1> QED
  BY <1>3, <1>4, <1>6, <1>7, <1>8, <1>9 DEF CoreInv, ReportsAreEarned

-----------------------------------------------------------------------------
(* The kinds of steps: every action is one of them.                        *)

\* No session starts, and what the cache loses had run out.
Steady ==
    /\ NoNewSession(link, link')
    /\ \A s \in Slots : cache.entries[s].valid /\ ~cache'.entries[s].valid
                           => cache.entries[s].expires <= now
    /\ now' >= now

\* A session that starts holds nothing yet; none runs on after a restart.
Fresh ==
    /\ Started \/ ~link'.hello_complete
    /\ Started => Kept' = {}

Admits(c) ==
    /\ link.hello_complete /\ link' = link /\ command_time_valid(c)
    /\ AdmitStatus(cache, c, now) = "OK" /\ Len(pending) < PendingCapacity
    /\ cache' = AfterAdmit(cache, c, c.ttl, now)
    /\ pending' = Append(pending,
          [handle |-> [slot |-> AdmitSlot(cache, c, now), generation |-> cache.next],
           cmd |-> c])
    /\ out' \in Outs /\ Reported(out') \subseteq Reported(out)
    /\ UNCHANGED <<cts, mapping, held, beat, now>>

\* Nothing happens to the pending commands.
Quiet ==
    /\ link' \in Link /\ NoNewSession(link, link')
    /\ cts' \in [known : BOOLEAN, blocked : BOOLEAN]
    /\ Dropped(cache, cache', now)
    /\ pending' = pending
    /\ mapping' \in {mapping, NoMapping} \cup
                    [valid : {TRUE}, gen : Generations, updated : {now}]
    /\ out' \in Outs /\ Reported(out') \subseteq Reported(out) \cup CacheReports(cache)
    /\ held' \in {held, NoHeld} \/ (pending # <<>> /\ held' = Head(pending))
    /\ now' \in {now, now + 1} /\ beat' \in {beat, now}

LEMMA ExpiredFacts ==
  ASSUME cache \in Caches, NEW s \in Slots, EntryExpired(cache.entries[s], now)
  PROVE  cache.entries[s].expires <= now
  BY DEF EntryExpired

LEMMA QuietFacts ==
  ASSUME Typed, Quiet
  PROVE  Typed' /\ Concludes({}, "EXPIRED") /\ Steady
<1>1. /\ now \in Nat /\ beat \in Nat /\ beat <= now /\ held \in Waiting \cup {NoHeld}
      /\ pending \in Seq(Waiting) /\ Len(pending) <= PendingCapacity /\ cache \in Caches
      /\ mapping = NoMapping \/ (mapping \in Mappings /\ mapping.updated <= now)
  BY DEF Typed
<1>2. now' \in Nat /\ now' >= now /\ beat' \in Nat /\ beat' <= now'
  BY <1>1 DEF Quiet
<1>3. mapping' = NoMapping \/ (mapping' \in Mappings /\ mapping'.updated <= now')
  <2>1. CASE mapping' \in {mapping, NoMapping}
    <3>1. mapping \in Mappings /\ mapping.updated <= now => mapping.updated <= now'
      BY <1>1, <1>2 DEF Mappings
    <3> QED
      BY <2>1, <3>1, <1>1
  <2>2. CASE mapping' \in [valid : {TRUE}, gen : Generations, updated : {now}]
    BY <2>2, <1>1, <1>2 DEF Mappings
  <2> QED
    BY <2>1, <2>2 DEF Quiet
<1>4. held' \in Waiting \cup {NoHeld}
  <2>1. pending # <<>> => Head(pending) \in Waiting
    BY <1>1
  <2> QED
    BY <1>1, <2>1 DEF Quiet
<1>5. Typed'
  BY <1>1, <1>2, <1>3, <1>4 DEF Typed, Quiet, Dropped
<1>6. Remains(pending, {}, pending')
  BY AllRemain DEF Quiet
<1>7. \A s \in Slots : EntryMoves(s, {}, "EXPIRED")
  BY DEF Quiet, Dropped, EntryMoves
<1>8. Endings({}, "EXPIRED") = {}
  BY DEF Endings
<1>9. Concludes({}, "EXPIRED")
  BY <1>6, <1>7, <1>8 DEF Concludes, Quiet, Dropped, Outcomes
<1>10. Steady
  BY <1>1, <1>2, ExpiredFacts DEF Steady, Quiet, Dropped
<1> QED
  BY <1>5, <1>9, <1>10

\* Most of the state stays as it is.
LEMMA Unchanged ==
  ASSUME Typed
  PROVE  /\ link \in Link /\ NoNewSession(link, link)
         /\ cts \in [known : BOOLEAN, blocked : BOOLEAN]
         /\ cache \in Caches /\ Dropped(cache, cache, now)
         /\ out \in Outs /\ now \in Nat
  BY NothingDropped DEF Typed, NoNewSession

LEMMA HelloAgainQuiet ==
  ASSUME Typed, NEW b \in Boots, HelloAgain(b)
  PROVE  Quiet
<1>1. "LINK_HELLO_ACK" \in PlainTypes
  BY DEF PlainTypes
<1>2. out' \in Outs /\ Reported(out') \subseteq Reported(out)
  BY <1>1, Unchanged, PlainAddsNothing, ClassFacts DEF HelloAgain
<1> QED
  BY <1>2, Unchanged DEF HelloAgain, Quiet, clocks

LEMMA AnsweredWithErrorQuiet ==
  ASSUME Typed, NEW limited, AnsweredWithError(limited)
  PROVE  Quiet
<1>1. out' \in Outs /\ Reported(out') \subseteq Reported(out)
  BY Unchanged, ErrorAddsNothing DEF AnsweredWithError
<1> QED
  BY <1>1, Unchanged DEF AnsweredWithError, Quiet, clocks

LEMMA SimpleMessageQuiet ==
  ASSUME Typed, SimpleMessage
  PROVE  Quiet
  BY Unchanged DEF SimpleMessage, Quiet, clocks

LEMMA HelloAckQuiet ==
  ASSUME Typed, NEW b \in Boots, HelloAck(b)
  PROVE  Quiet
<1> DEFINE acked == note_hello_ack(link, now)
           noted == note_safety_snapshot(acked, LocalRevision, now)
<1>1. "SAFETY_SNAPSHOT" \in PlainTypes
  BY DEF PlainTypes
<1>2. out' \in Outs /\ Reported(out') \subseteq Reported(out)
  BY <1>1, Unchanged, PlainAddsNothing, ClassFacts DEF HelloAck
<1>3. acked \in Link /\ NoNewSession(link, acked)
  BY Unchanged, AckFacts
<1>4. noted \in Link /\ NoNewSession(acked, noted)
  BY <1>3, Unchanged, SnapshotFacts, StmUartAssumption
<1>5. link' \in {acked, noted}
  BY DEF HelloAck
<1> HIDE DEF acked, noted
<1>6. link' \in Link /\ NoNewSession(link, link')
  BY <1>3, <1>4, <1>5 DEF NoNewSession
<1> QED
  BY <1>2, <1>6, Unchanged DEF HelloAck, Quiet, clocks

LEMMA HeartbeatInSessionQuiet ==
  ASSUME Typed, NEW b \in Boots, NEW r \in Revisions, HeartbeatInSession(b, r)
  PROVE  Quiet
<1> DEFINE beaten == note_heartbeat(link, b, r, now)
           noted == note_safety_snapshot(beaten, LocalRevision, now)
<1>1. "SAFETY_SNAPSHOT" \in PlainTypes
  BY DEF PlainTypes
<1>2. out' \in Outs /\ Reported(out') \subseteq Reported(out)
  BY <1>1, Unchanged, PlainAddsNothing, ClassFacts DEF HeartbeatInSession
<1>3. beaten \in Link /\ NoNewSession(link, beaten)
  BY Unchanged, HeartbeatFacts
<1>4. noted \in Link /\ NoNewSession(beaten, noted)
  BY <1>3, Unchanged, SnapshotFacts, StmUartAssumption
<1>5. link' \in {link_tick(beaten, now), link_tick(noted, now)}
  BY DEF HeartbeatInSession
<1> HIDE DEF beaten, noted
<1>6. \A l \in {beaten, noted} : link_tick(l, now) \in Link /\ NoNewSession(l, link_tick(l, now))
  BY <1>3, <1>4, Unchanged, TickFacts
<1>7. link' \in Link /\ NoNewSession(link, link')
  BY <1>3, <1>4, <1>5, <1>6 DEF NoNewSession
<1> QED
  BY <1>2, <1>7, Unchanged DEF HeartbeatInSession, Quiet, clocks

LEMMA TimeSyncQuiet ==
  ASSUME Typed, NEW g \in Generations, NEW t2, TimeSyncRequest(g) \/ TimeSyncCommit(g, t2)
  PROVE  Quiet
<1>1. CASE TimeSyncRequest(g)
  <2>1. "CONTROL_TIME_SYNC" \in PlainTypes
    BY DEF PlainTypes
  <2>2. out' \in Outs /\ Reported(out') \subseteq Reported(out)
    BY <1>1, <2>1, Unchanged, PlainAddsNothing, ClassFacts DEF TimeSyncRequest
  <2> QED
    BY <1>1, <2>2, Unchanged DEF TimeSyncRequest, Quiet
<1>2. CASE TimeSyncCommit(g, t2)
  <2>1. mapping' \in [valid : {TRUE}, gen : Generations, updated : {now}]
    BY <1>2 DEF TimeSyncCommit
  <2> QED
    BY <1>2, <2>1, Unchanged DEF TimeSyncCommit, Quiet
<1> QED
  BY <1>1, <1>2

LEMMA TimeSyncDropsOldQuiet ==
  ASSUME Typed, TimeSyncDropsOld
  PROVE  Quiet
  BY Unchanged DEF TimeSyncDropsOld, Quiet, session

\* A known command is answered with an ACK or with the result in the cache.
LEMMA AnswerAddsNothing ==
  ASSUME Typed, NEW c \in Keys, LookupStatus(cache, c, now) = "DUPLICATE", Answer(c)
  PROVE  out' \in Outs /\ Reported(out') \subseteq Reported(out) \cup CacheReports(cache)
<1> DEFINE s == First(Matches(cache, c, now))
           r == LookupResult(cache, c, now)
<1>1. s \in Slots /\ cache.entries[s].valid
  <2>1. Matches(cache, c, now) # {}
    BY DEF LookupStatus
  <2>2. s \in Matches(cache, c, now)
    BY <2>1, FirstFacts DEF Matches
  <2> QED
    BY <2>2 DEF Matches
<1>2. cache.entries[s] \in Entries /\ r = cache.entries[s].result
  BY <1>1, Unchanged, EntryFacts DEF LookupResult
<1> HIDE DEF s, r
<1>3. r \in Results \cup {NoResult}
  BY <1>2 DEF Entries
<1>4. CASE r = NoResult
  <2>1. out' = Send(out, "P0", Plain("ACK")) /\ "ACK" \in PlainTypes
    BY <1>4 DEF Answer, Reply, r, PlainTypes
  <2> QED
    BY <2>1, Unchanged, PlainAddsNothing, ClassFacts
<1>5. CASE r # NoResult
  <2>1. out' = Send(out, "P0", Result(r.cmd, r.stage))
    BY <1>5 DEF Answer, Reply, r
  <2>2. r.cmd \in Keys /\ r.stage \in Outcomes
    BY <1>3, <1>5 DEF Results
  <2>3. <<r.cmd, r.stage>> \in CacheReports(cache)
    BY <1>1, <1>2, <1>5 DEF CacheReports
  <2> QED
    BY <2>1, <2>2, <2>3, Unchanged, ResultAddsItself
<1> QED
  BY <1>4, <1>5

LEMMA ErrorOrNothing ==
  ASSUME Typed, NEW limited, out' = SendError(out, limited) \/ UNCHANGED out
  PROVE  out' \in Outs /\ Reported(out') \subseteq Reported(out)
  BY Unchanged, ErrorAddsNothing

LEMMA AckAddsNothing ==
  ASSUME Typed, out' = Send(out, "P0", Plain("ACK"))
  PROVE  out' \in Outs /\ Reported(out') \subseteq Reported(out)
<1>1. "ACK" \in PlainTypes
  BY DEF PlainTypes
<1> QED
  BY <1>1, Unchanged, PlainAddsNothing, ClassFacts

LEMMA CommandSteps ==
  ASSUME Typed, NEW c \in Keys, Command(c)
  PROVE  Quiet \/ Admits(c)
<1>0. UNCHANGED <<mapping, cts, beat, held, now>>
  BY DEF Command, clocks
<1> DEFINE Silent == /\ link' = link /\ pending' = pending /\ Dropped(cache, cache', now)
                     /\ out' \in Outs
                     /\ Reported(out') \subseteq Reported(out) \cup CacheReports(cache)
<1>1. Silent => Quiet
  BY <1>0, Unchanged DEF Quiet
<1>2. Dropped(cache, Searched(cache, c, now), now)
  BY Unchanged, SearchedDrops
<1>3. ASSUME NEW limited, CommandOffline(limited) PROVE Silent
  BY <1>3, Unchanged, ErrorOrNothing DEF CommandOffline, ErrorOnly
<1>4. ASSUME NEW frame, NEW permitted, NEW limited,
             CommandUnauthorized(c, frame, permitted, limited)
      PROVE  Silent
  <2>1. cache' \in {cache, Searched(cache, c, now)} /\ link' = link /\ pending' = pending
    BY <1>4 DEF CommandUnauthorized
  <2>2. \/ LookupStatus(cache, c, now) = "DUPLICATE" /\ Answer(c)
        \/ out' = SendError(out, limited)
    BY <1>4 DEF CommandUnauthorized
  <2> QED
    BY <2>1, <2>2, <1>2, Unchanged, AnswerAddsNothing, ErrorOrNothing
<1>5. ASSUME NEW limited, CommandRepeated(c, limited) PROVE Silent
  <2>1. cache' = Searched(cache, c, now) /\ link' = link /\ pending' = pending
    BY <1>5 DEF CommandRepeated
  <2>2. \/ LookupStatus(cache, c, now) = "DUPLICATE" /\ Answer(c)
        \/ out' = SendError(out, limited) \/ UNCHANGED out
    BY <1>5 DEF CommandRepeated
  <2> QED
    BY <2>1, <2>2, <1>2, Unchanged, AnswerAddsNothing, ErrorOrNothing
<1>6. ASSUME NEW limited, CommandKnown(c, limited) PROVE Silent
  <2>1. cache' = Searched(cache, c, now) /\ link' = link /\ pending' = pending
    BY <1>6 DEF CommandKnown
  <2>2. \/ LookupStatus(cache, c, now) = "DUPLICATE" /\ Answer(c)
        \/ out' = SendError(out, limited)
    BY <1>6 DEF CommandKnown
  <2> QED
    BY <2>1, <2>2, <1>2, Unchanged, AnswerAddsNothing, ErrorOrNothing
<1>7. ASSUME CommandBusy(c) PROVE Silent
  BY <1>7, <1>2, AckAddsNothing DEF CommandBusy
<1>8. ASSUME NEW permitted, CommandAuthorized(c, permitted), CommandAdmitted(c)
      PROVE  Admits(c)
  <2>1. link.hello_complete /\ command_time_valid(c)
    BY <1>8 DEF CommandAuthorized, Authorized, AdmissionAllowed, link_command_admission_allowed
  <2>2. out' \in Outs /\ Reported(out') \subseteq Reported(out)
    BY <1>8, AckAddsNothing DEF CommandAdmitted
  <2> QED
    BY <1>0, <1>8, <2>1, <2>2 DEF CommandAdmitted, Admits
<1> HIDE DEF Silent
<1> QED
  BY <1>1, <1>3, <1>4, <1>5, <1>6, <1>7, <1>8 DEF Command

LEMMA SupervisedQuiet ==
  ASSUME Typed, NEW action, NEW id, ControlLease(action, id) \/ ObserverPlan
  PROVE  Quiet
<1>1. UNCHANGED <<link, cache, mapping, cts, pending, beat, held, now>>
  BY DEF ControlLease, ObserverPlan, clocks
<1>2. \/ out' \in {MarkFull(out), Send(out, "P0", Plain("ACK"))}
      \/ \E limited : out' = SendError(out, limited)
  BY DEF ControlLease, ObserverPlan, Supervised
<1>3. out' \in Outs /\ Reported(out') \subseteq Reported(out)
  BY <1>2, Unchanged, AckAddsNothing, ErrorOrNothing, FullMarkAddsNothing
<1> QED
  BY <1>1, <1>3, Unchanged DEF Quiet

LEMMA PendingPeekQuiet ==
  ASSUME Typed, PendingPeek
  PROVE  Quiet
  BY Unchanged DEF PendingPeek, Quiet, session, clocks

LEMMA HeldFacts ==
  ASSUME Typed, held # NoHeld
  PROVE  held \in Waiting /\ held.handle \in Handles /\ held.cmd \in Keys
  BY DEF Typed, Waiting

\* What the executor's handle finds among the pending commands.
LEMMA FoundFacts ==
  ASSUME Typed, NEW h, Found(h) # {}
  PROVE  /\ At(h) \in DOMAIN pending /\ pending[At(h)].handle = h
         /\ CommandAt(h) = pending[At(h)].cmd /\ CommandAt(h) \in Keys
<1>1. At(h) \in Found(h)
  BY DEF At
<1>2. At(h) \in DOMAIN pending /\ pending[At(h)].handle = h
  BY <1>1 DEF Found
<1>3. pending[At(h)] \in Waiting
  BY <1>2 DEF Typed
<1> QED
  BY <1>2, <1>3 DEF CommandAt, Waiting

LEMMA PendingCompleteRefusedQuiet ==
  ASSUME Typed, NEW s \in Stages, PendingCompleteRefused(s)
  PROVE  Quiet
<1>1. UNCHANGED <<link, mapping, cts, pending, beat, now>> /\ held' \in {held, NoHeld}
  BY DEF PendingCompleteRefused, clocks
<1>2. out' \in Outs /\ Reported(out') \subseteq Reported(out)
  BY Unchanged, FullMarkAddsNothing DEF PendingCompleteRefused
<1>3. Dropped(cache, cache', now)
  <2>1. CASE UNCHANGED cache
    BY <2>1, Unchanged
  <2>2. CASE /\ ~Recordable(held.handle, s)
             /\ cache' = AfterRecord(cache, held.handle, Outcome(held.handle, s), now)
    <3>1. held.handle \in Handles
      BY HeldFacts DEF PendingCompleteRefused
    <3> QED
      BY <2>2, <3>1, Unchanged, RefusedRecordDrops DEF Recordable
  <2> QED
    BY <2>1, <2>2 DEF PendingCompleteRefused
<1> QED
  BY <1>1, <1>2, <1>3, Unchanged DEF Quiet

LEMMA TxQuiet ==
  ASSUME Typed, NEW sent \in BOOLEAN, TxBegin \/ TxFinish(sent)
  PROVE  Quiet
<1>1. UNCHANGED <<link, cache, mapping, cts, pending, beat, held, now>>
  BY DEF TxBegin, TxFinish, session, clocks
<1>2. out \in Outs /\ out.tx.queue \in Queues /\ out.tx.class \in ClassNames
  BY Unchanged DEF Outs
<1>3. CASE TxBegin
  <2>1. PICK class \in ClassNames :
          /\ Selected(out.tx, class) /\ out' = [out EXCEPT !.tx = Begun(@, class)]
    BY <1>3 DEF TxBegin
  <2> DEFINE q == out.tx.queue[class]
             queues == [out.tx.queue EXCEPT ![class] = Tail(q)]
  <2>2. q \in Seq(Messages) /\ q # <<>> /\ Len(q) <= QueueCapacity
    BY <1>2, <2>1 DEF Queues, Selected
  <2>3. /\ Head(q) \in Messages /\ Tail(q) \in Seq(Messages) /\ Len(Tail(q)) = Len(q) - 1
        /\ Len(q) \in Nat /\ DOMAIN q = 1 .. Len(q) /\ DOMAIN Tail(q) = 1 .. Len(q) - 1
        /\ \A i \in 1 .. Len(q) - 1 : Tail(q)[i] = q[i + 1]
    BY <2>2
  <2>4. Range(Tail(q)) \subseteq Range(q)
    <3> HIDE DEF q
    <3>1. \A i \in 1 .. Len(q) - 1 : i + 1 \in DOMAIN q
      BY <2>3
    <3> QED
      BY <2>3, <3>1 DEF Range
  <2>5. /\ out'.tx.queue = queues
        /\ out'.tx \in [queue : {queues}, current : {Head(q)}, class : {class}]
        /\ out' \in [tx : {out'.tx}, inhibited : BOOLEAN]
    <3>1. out.tx \in [queue : Queues, current : Messages \cup {NoItem}, class : ClassNames]
      BY <1>2 DEF Outs
    <3>2. /\ Begun(out.tx, class).queue = queues
          /\ Begun(out.tx, class) \in [queue : {queues}, current : {Head(q)}, class : {class}]
      BY <3>1 DEF Begun
    <3>3. out' = [out EXCEPT !.tx = Begun(out.tx, class)]
      BY <2>1
    <3> HIDE DEF q, queues
    <3> QED
      BY <1>2, <3>2, <3>3 DEF Outs
  <2>6. QueueCapacity \in Nat
    BY QueueAssumption
  <2> HIDE DEF q
  <2>7. /\ queues \in Queues
        /\ Range(queues["P0"]) \subseteq Range(out.tx.queue["P0"])
    <3> DEFINE old == out.tx.queue
               rest == Tail(q)
    <3>1. old \in Queues /\ q = old[class] /\ rest \in Seq(Messages)
      BY <1>2, <2>3 DEF q
    <3>2. Len(rest) <= QueueCapacity
      BY <2>2, <2>3, <2>6
    <3>3. queues = [old EXCEPT ![class] = rest]
      OBVIOUS
    <3> HIDE DEF old, rest, queues
    <3>4. old \in [ClassNames -> Seq(Messages)] /\ queues \in [ClassNames -> Seq(Messages)]
      BY <3>1, <3>3 DEF Queues
    <3>5. \A c \in ClassNames : queues[c] = IF c = class THEN rest ELSE old[c]
      BY <3>3, <3>4
    <3>6. \A c \in ClassNames : Len(queues[c]) <= QueueCapacity
      BY <3>1, <3>2, <3>5 DEF Queues
    <3>7. queues \in Queues
      BY <3>4, <3>6 DEF Queues
    <3>8. Range(queues["P0"]) \subseteq Range(old["P0"])
      BY <2>4, <3>1, <3>5, ClassFacts DEF rest
    <3> QED
      BY <3>7, <3>8 DEF old
  <2> HIDE DEF queues
  <2>8. out' \in Outs
    BY <1>2, <2>3, <2>5, <2>7 DEF Outs
  <2>9. Reported(out') \subseteq Reported(out)
    BY <2>5, <2>7 DEF Reported
  <2> QED
    BY <1>1, <2>8, <2>9, Unchanged DEF Quiet
<1>4. CASE TxFinish(sent)
  <2> DEFINE lost == out.inhibited \/ (~sent /\ out.tx.class \in Critical)
  <2>1. out' = [tx |-> [out.tx EXCEPT !.current = NoItem], inhibited |-> lost]
    BY <1>4 DEF TxFinish, Finished
  <2>2. lost \in BOOLEAN
    BY <1>2 DEF Outs
  <2> HIDE DEF lost
  <2>3. out' \in Outs /\ out'.tx.queue = out.tx.queue
    BY <1>2, <2>1, <2>2 DEF Outs
  <2>4. Reported(out') = Reported(out)
    BY <2>3 DEF Reported
  <2> QED
    BY <1>1, <2>3, <2>4, Unchanged DEF Quiet
<1> QED
  BY <1>3, <1>4

LEMMA AdvanceQuiet ==
  ASSUME Typed, Advance
  PROVE  Quiet
  BY Unchanged DEF Advance, Quiet, session, clocks

-----------------------------------------------------------------------------
(* Recoveries and resets.                                                  *)

\* The command cache keeps its handles and loses entries at most.
Thinned ==
    /\ cache' \in Caches /\ cache'.next = cache.next
    /\ \A s \in Slots : cache'.entries[s] \in {cache.entries[s], Free}

LEMMA InvalidateThins ==
  ASSUME Typed, Invalidate
  PROVE  Thinned /\ \A s \in Slots : ~cache'.entries[s].valid
<1>1. cache' = [entries |-> [s \in Slots |-> Free], next |-> cache.next]
  BY DEF Invalidate, cache_reset, EmptyCache
<1>2. cache.next \in 1 .. MaxGeneration
  BY DEF Typed, Caches
<1>3. [s \in Slots |-> Free] \in [Slots -> Entries \cup {Free}]
  OBVIOUS
<1> QED
  BY <1>1, <1>2, <1>3 DEF Thinned, Caches, Free

LEMMA RecoverFacts ==
  ASSUME Typed, Thinned, NEW l \in Link, NEW c \in [known : BOOLEAN, blocked : BOOLEAN],
         NEW acks, Recover(l, c, acks), cts' = c, UNCHANGED <<held, now>>
  PROVE  Typed' /\ Restarts /\ NoNewSession(l, link')
<1>1. link' \in Link /\ NoNewSession(l, link')
  BY ReappliedFacts, Unchanged DEF Recover
<1>2. out' \in Outs /\ Reported(out') = {}
  BY RestartedFacts, Unchanged DEF Recover
<1>3. pending' \in Seq(Waiting) /\ Len(pending') <= PendingCapacity
  BY StmUartAssumption DEF Recover
<1>4. beat' \in Nat /\ beat' <= now' /\ now' \in Nat /\ mapping' = NoMapping
  BY DEF Recover, Typed
<1>5. Typed'
  BY <1>1, <1>2, <1>3, <1>4 DEF Typed, Thinned
<1>6. Restarts
  BY <1>2 DEF Restarts, Recover, Thinned
<1> QED
  BY <1>1, <1>5, <1>6

LEMMA NothingKept ==
  ASSUME Typed, Invalidate, pending' = <<>>, mapping' = NoMapping,
         sync' = NoSync, lease' = NoLease
  PROVE  Kept' = {}
<1>1. \A s \in Slots : ~cache'.entries[s].valid
  BY InvalidateThins
<1>2. planned' = FALSE
  BY DEF Invalidate
<1> QED
  BY <1>1, <1>2 DEF Kept, NoMapping, NoSync, NoLease

LEMMA RecoveryFailsFacts ==
  ASSUME Typed, Thinned, NEW l \in Link, RecoveryFails(l),
         cts' \in [known : BOOLEAN, blocked : BOOLEAN], UNCHANGED <<held, now>>
  PROVE  Typed' /\ HookMayFail /\ Concludes({}, "EXPIRED")
<1>1. Typed'
  BY DEF Typed, Thinned, RecoveryFails
<1>2. Remains(pending, {}, pending')
  BY AllRemain DEF RecoveryFails
<1>3. \A s \in Slots : EntryMoves(s, {}, "EXPIRED")
  BY DEF Thinned, EntryMoves
<1>4. Endings({}, "EXPIRED") = {}
  BY DEF Endings
<1>5. Concludes({}, "EXPIRED")
  BY <1>2, <1>3, <1>4 DEF Concludes, Thinned, RecoveryFails, Outcomes
<1> QED
  BY <1>1, <1>5 DEF RecoveryFails

\* What the recovering actions have in common.
Recovers ==
    \/ Typed' /\ Restarts /\ Fresh
    \/ Typed' /\ HookMayFail /\ Concludes({}, "EXPIRED")

LEMMA HelloNewEpochRecovers ==
  ASSUME Typed, NEW b \in Boots, HelloNewEpoch(b)
  PROVE  Recovers
<1> DEFINE l == note_hello(link, b, now)
<1>1. Thinned /\ cts' = cts /\ cts \in [known : BOOLEAN, blocked : BOOLEAN]
  BY InvalidateThins, Unchanged DEF HelloNewEpoch
<1>2. l \in Link /\ l.peer_boot_id = b
  BY Unchanged, NoteHelloFacts
<1>3. Recover(l, cts, TRUE) \/ RecoveryFails(l)
  BY DEF HelloNewEpoch
<1> HIDE DEF l
<1>4. CASE Recover(l, cts, TRUE)
  <2>1. Typed' /\ Restarts /\ NoNewSession(l, link')
    BY <1>1, <1>2, <1>4, RecoverFacts DEF HelloNewEpoch
  <2>2. Started \/ ~link'.hello_complete
    BY <2>1, <1>2 DEF NoNewSession, HelloNewEpoch, NewEpoch, Started
  <2>3. Kept' = {}
    BY <1>4, NothingKept DEF HelloNewEpoch, Recover
  <2> QED
    BY <2>1, <2>2, <2>3 DEF Recovers, Fresh
<1>5. CASE RecoveryFails(l)
  BY <1>1, <1>2, <1>5, RecoveryFailsFacts DEF HelloNewEpoch, Recovers
<1> QED
  BY <1>3, <1>4, <1>5

\* A session that ends without HELLO: l knows of no session.
LEMMA SessionEndRecovers ==
  ASSUME Typed, Thinned, NEW l \in Link, ~l.hello_complete,
         NEW c \in [known : BOOLEAN, blocked : BOOLEAN], cts' = c,
         Recover(l, c, FALSE) \/ RecoveryFails(l), UNCHANGED <<held, now>>
  PROVE  Recovers
<1>1. CASE Recover(l, c, FALSE)
  <2>1. Typed' /\ Restarts /\ NoNewSession(l, link')
    BY <1>1, RecoverFacts
  <2>2. ~link'.hello_complete /\ ~Started
    BY <2>1 DEF NoNewSession, Started
  <2> QED
    BY <2>1, <2>2 DEF Recovers, Fresh
<1>2. CASE RecoveryFails(l)
  BY <1>2, RecoveryFailsFacts DEF Recovers
<1> QED
  BY <1>1, <1>2

LEMMA HeartbeatEndsSessionRecovers ==
  ASSUME Typed, NEW b \in Boots, NEW r \in Revisions, HeartbeatEndsSession(b, r)
  PROVE  Recovers
<1> DEFINE l == note_heartbeat(link, b, r, now)
<1>1. HeartbeatNeedsHello(link, b) \/ link_session_expired(link, now)
  BY DEF HeartbeatEndsSession, NewEpoch, HeartbeatNeedsHello, HeartbeatTooLate
<1>2. l \in Link /\ ~l.hello_complete
  BY <1>1, Unchanged, HeartbeatFacts
<1>3. Recover(l, cts, FALSE) \/ RecoveryFails(l)
  BY DEF HeartbeatEndsSession
<1>4. Thinned
  BY InvalidateThins DEF HeartbeatEndsSession
<1> HIDE DEF l
<1> QED
  BY <1>2, <1>3, <1>4, Unchanged, SessionEndRecovers DEF HeartbeatEndsSession

LEMMA TickDeadRecovers ==
  ASSUME Typed, TickDead
  PROVE  Recovers
<1> DEFINE l == link_require_hello(link)
<1>1. l \in Link /\ ~l.hello_complete
  BY Unchanged, RequireHelloFacts
<1>2. Recover(l, cts, FALSE) \/ RecoveryFails(l)
  BY DEF TickDead
<1>3. Thinned
  BY InvalidateThins DEF TickDead
<1> HIDE DEF l
<1> QED
  BY <1>1, <1>2, <1>3, Unchanged, SessionEndRecovers DEF TickDead

LEMMA SetCtsBlockedSteps ==
  ASSUME Typed, NEW blocked \in BOOLEAN, SetCtsBlocked(blocked)
  PROVE  Quiet \/ Recovers
<1> DEFINE l == set_cts_blocked(link, blocked, now)
           c == [known |-> TRUE, blocked |-> blocked]
<1>1. /\ l \in Link /\ NoNewSession(link, l)
      /\ CtsOffline(link, now) => ~l.hello_complete
  BY Unchanged, CtsFacts
<1>2. c \in [known : BOOLEAN, blocked : BOOLEAN] /\ cts' = c
  BY DEF SetCtsBlocked
<1>3. Thinned
  BY Unchanged DEF SetCtsBlocked, Thinned
<1>4. UNCHANGED <<cache, held, now>>
  BY DEF SetCtsBlocked
<1>5. CASE CtsOffline(link, now)
  <2>1. Recover(l, c, FALSE) \/ RecoveryFails(l)
    BY <1>5 DEF SetCtsBlocked
  <2> HIDE DEF l, c
  <2> QED
    BY <1>1, <1>2, <1>3, <1>4, <1>5, <2>1, SessionEndRecovers
<1>6. CASE ~CtsOffline(link, now)
  <2>1. link' = l /\ UNCHANGED <<mapping, pending, out, beat>>
    BY <1>6 DEF SetCtsBlocked, clocks
  <2> QED
    BY <1>1, <1>2, <1>4, <2>1, Unchanged DEF Quiet
<1> QED
  BY <1>5, <1>6

LEMMA ResetRecovers ==
  ASSUME Typed, Reset
  PROVE  Recovers
<1>1. Thinned
  BY InvalidateThins DEF Reset
<1>2. link' \in Link /\ ~link'.hello_complete
  BY ResetFacts DEF Reset
<1>3. out' \in Outs /\ Reported(out') = {}
  <2>1. /\ [out EXCEPT !.tx = EmptyTx] \in Outs
        /\ Reported([out EXCEPT !.tx = EmptyTx]) = {}
    BY Unchanged, ClearedOut
  <2>2. "LINK_HELLO" \in PlainTypes
    BY DEF PlainTypes
  <2> QED
    BY <2>1, <2>2, PlainAddsNothing, ClassFacts DEF Reset
<1>4. pending' \in Seq(Waiting) /\ Len(pending') <= PendingCapacity
  BY StmUartAssumption DEF Reset
<1>5. beat' \in Nat /\ beat' <= now' /\ now' \in Nat /\ mapping' = NoMapping
      /\ cts' \in [known : BOOLEAN, blocked : BOOLEAN] /\ held' = held
  BY DEF Reset, Typed
<1>6. Typed'
  BY <1>1, <1>2, <1>3, <1>4, <1>5 DEF Typed, Thinned
<1>7. Restarts
  BY <1>1, <1>3, <1>5 DEF Restarts, Reset, Thinned
<1> QED
  BY <1>2, <1>6, <1>7 DEF Recovers, Fresh, Started

-----------------------------------------------------------------------------
(* Steps that conclude commands.                                           *)

LEMMA PendingCompleteConcludes ==
  ASSUME CoreInv, NEW stage \in Stages, PendingComplete(stage)
  PROVE  Typed' /\ Concludes({At(held.handle)}, stage) /\ Steady
<1> DEFINE h == held.handle
           k == At(h)
           r == Outcome(h, stage)
<1>0. Typed
  BY DEF CoreInv
<1>1. /\ held # NoHeld /\ h \in Handles /\ Found(h) # {}
      /\ ~P0Full(out) /\ Recordable(h, stage)
      /\ cache' = AfterRecord(cache, h, r, now)
      /\ pending' = RemoveAt(pending, k)
      /\ out' = Send(out, "P0", Result(CommandAt(h), stage))
      /\ held' = NoHeld
      /\ UNCHANGED <<link, mapping, cts, beat, now>>
  BY <1>0, HeldFacts DEF PendingComplete, clocks
<1> HIDE DEF h
<1>2. /\ k \in DOMAIN pending /\ pending[k].handle = h
      /\ CommandAt(h) = pending[k].cmd /\ CommandAt(h) \in Keys
  BY <1>0, <1>1, FoundFacts
<1>3. stage \in Outcomes /\ r \in Results /\ r = Recorded1(k, stage)
  BY <1>2 DEF Outcomes, Outcome, Results, Recorded1
<1> HIDE DEF k, r
<1>4. /\ Names(cache, h) /\ cache' \in Caches /\ cache'.next = cache.next
      /\ cache.entries[h.slot] \in Entries
      /\ \A s \in Slots : cache'.entries[s] =
            IF s = h.slot THEN [cache.entries[s] EXCEPT !.result = r] ELSE cache.entries[s]
  BY <1>0, <1>1, <1>3, Unchanged, RecordFacts DEF Recordable, r
<1>5. /\ pending' \in Seq(Waiting) /\ Len(pending') <= PendingCapacity
      /\ Remains(pending, {k}, pending')
  <2>1. pending \in Seq(Waiting) /\ Len(pending) <= PendingCapacity /\ Len(pending) \in Nat
        /\ PendingCapacity \in Nat
    BY <1>0, StmUartAssumption DEF Typed
  <2>2. /\ RemoveAt(pending, k) \in Seq(Waiting) /\ Len(RemoveAt(pending, k)) <= Len(pending)
        /\ Remains(pending, {k}, RemoveAt(pending, k))
    BY <2>1, <1>2, RemoveAtRemains
  <2>3. Len(RemoveAt(pending, k)) \in Nat
    BY <2>2
  <2> QED
    BY <1>1, <2>1, <2>2, <2>3
<1>6. Endings({k}, stage) = {<<CommandAt(h), stage>>}
  BY <1>2 DEF Endings
<1>7. /\ out' \in Outs
      /\ Reported(out') \subseteq Reported(out) \cup Endings({k}, stage)
      /\ Endings({k}, stage) \subseteq Reported(out')
  <2> DEFINE c == CommandAt(h)
             sent == Send(out, "P0", Result(c, stage))
  <2>1. out \in Outs /\ ~P0Full(out) /\ c \in Keys /\ stage \in Outcomes /\ out' = sent
    BY <1>0, <1>1, <1>2, <1>3, Unchanged
  <2>2. Endings({k}, stage) = {<<c, stage>>}
    BY <1>6
  <2> HIDE DEF c
  <2>3. sent \in Outs /\ Reported(sent) \subseteq Reported(out) \cup {<<c, stage>>}
    BY <2>1, ResultAddsItself
  <2>4. <<c, stage>> \in Reported(sent)
    BY <2>1, ResultIsSent
  <2> HIDE DEF sent
  <2> QED
    BY <2>1, <2>2, <2>3, <2>4
<1>8. Typed'
  BY <1>0, <1>1, <1>4, <1>5, <1>7 DEF Typed
<1>9. pending[k].cmd \in executed
  BY <1>1, <1>2 DEF CoreInv, HandlesAreOld, ReportsAreEarned, h
<1>10. \A s \in Slots : EntryMoves(s, {k}, stage)
  BY <1>2, <1>3, <1>4 DEF EntryMoves
<1>11. Concludes({k}, stage)
  BY <1>1, <1>2, <1>3, <1>4, <1>5, <1>7, <1>9, <1>10 DEF Concludes
<1>12. Steady
  <2>1. \A s \in Slots : cache.entries[s].valid => cache'.entries[s].valid
    BY <1>4 DEF Entries
  <2> QED
    BY <2>1, <1>0, <1>1, Unchanged DEF Steady
<1> QED
  BY <1>8, <1>11, <1>12 DEF k, h

LEMMA SweepLengthFacts ==
  ASSUME Typed, NEW c
  PROVE  SweepLength(c) \in 0 .. Len(pending)
<1> DEFINE n == Len(pending)
           Stops == {m \in 0 .. n : m < n => ~Sweepable(pending[m + 1], c)}
<1>1. n \in Nat
  BY DEF Typed
<1> HIDE DEF n
<1>2. n \in Stops /\ Stops \in SUBSET Nat
  BY <1>1
<1>3. PICK m \in Stops : \A x \in Stops : m <= x
  BY <1>2, LeastExists
<1>4. m \in 0 .. n /\ (m < n => ~Sweepable(pending[m + 1], c))
  OBVIOUS
<1>5. ASSUME NEW i \in 1 .. m PROVE Sweepable(pending[i], c)
  <2>1. i - 1 \in 0 .. n /\ ~(m <= i - 1) /\ i - 1 < n /\ (i - 1) + 1 = i
    BY <1>1, <1>4
  <2>2. i - 1 \notin Stops
    BY <1>3, <2>1
  <2> QED
    BY <2>1, <2>2
<1>6. \E x \in 0 .. n : /\ \A i \in 1 .. x : Sweepable(pending[i], c)
                        /\ x < n => ~Sweepable(pending[x + 1], c)
  BY <1>4, <1>5
<1> HIDE DEF Stops
<1> QED
  BY <1>6 DEF SweepLength, n

LEMMA SendAllFacts ==
  ASSUME NEW o \in Outs, NEW items \in Seq(Messages),
         Len(items) <= QueueCapacity - Len(o.tx.queue["P0"])
  PROVE  /\ SendAll(o, items) \in Outs
         /\ Range(SendAll(o, items).tx.queue["P0"]) = Range(o.tx.queue["P0"]) \cup Range(items)
<1> DEFINE q == o.tx.queue["P0"]
           room == QueueCapacity - Len(q)
           fit == Min({Len(items), room})
           queues == [o.tx.queue EXCEPT !["P0"] = q \o items]
           late == o.inhibited \/ fit < Len(items)
<1>1. /\ o.tx.queue \in Queues /\ o.tx.current \in Messages \cup {NoItem}
      /\ o.tx.class \in ClassNames
  BY DEF Outs
<1>2. /\ q \in Seq(Messages) /\ Len(q) \in Nat /\ Len(items) \in Nat /\ QueueCapacity \in Nat
      /\ room \in Int /\ Len(items) <= room
  <2>1. o.tx.queue["P0"] \in Seq(Messages)
    BY <1>1, ClassFacts DEF Queues
  <2>2. Len(q) \in Nat /\ Len(items) \in Nat
    BY <2>1
  <2>3. QueueCapacity \in Nat
    BY QueueAssumption
  <2> HIDE DEF q
  <2>4. room \in Int
    BY <2>2, <2>3
  <2>5. Len(items) <= room
    BY DEF q
  <2> QED
    BY <2>1, <2>2, <2>3, <2>4, <2>5 DEF q
<1>3. SendAll(o, items) =
        [o EXCEPT !.tx.queue["P0"] = q \o SubSeq(items, 1, fit), !.inhibited = late]
  BY DEF SendAll
<1>4. fit = Len(items)
  <2> DEFINE n == Len(items)
  <2>1. n \in Int /\ room \in Int /\ n <= room
    BY <1>2
  <2> HIDE DEF room, n
  <2>2. Min({n, room}) \in {n, room} /\ Min({n, room}) <= n
    BY <2>1, MinOfTwo
  <2>3. Min({n, room}) = n
    BY <2>1, <2>2
  <2> QED
    BY <2>3 DEF n
<1> HIDE DEF fit
<1>5. SubSeq(items, 1, fit) = items
  BY <1>4, SubSeqFull
<1>6. /\ q \o items \in Seq(Messages) /\ Len(q \o items) = Len(q) + Len(items)
      /\ Len(q \o items) <= QueueCapacity
  BY <1>2, ConcatProperties
<1>7. Range(q \o items) = Range(q) \cup Range(items)
  BY <1>2, RangeConcatenation
<1>8. late \in BOOLEAN
  BY DEF Outs
<1> HIDE DEF late
<1>9. SendAll(o, items) = [o EXCEPT !.tx.queue["P0"] = q \o items, !.inhibited = late]
  BY <1>3, <1>5
<1>10. queues \in Queues /\ queues["P0"] = q \o items
  <2> DEFINE joined == q \o items
  <2> HIDE DEF joined
  <2> QED
    BY <1>1, <1>6, ClassFacts DEF Queues, joined
<1>11. /\ SendAll(o, items).tx \in [queue : {queues}, current : {o.tx.current}, class : {o.tx.class}]
       /\ SendAll(o, items) \in [tx : {SendAll(o, items).tx}, inhibited : {late}]
  BY <1>9 DEF Outs
<1> HIDE DEF queues
<1>12. SendAll(o, items) \in Outs
  BY <1>1, <1>8, <1>10, <1>11 DEF Outs
<1> QED
  BY <1>7, <1>10, <1>11, <1>12

LEMMA AfterExpiryFacts ==
  ASSUME Typed, NEW c, Dropped(cache, c, now), NEW k \in 0 .. Len(pending),
         cache' = AfterExpiry(c, SubSeq(pending, 1, k))
  PROVE  /\ cache' \in Caches /\ cache'.next = cache.next
         /\ \A s \in Slots :
               /\ EntryMoves(s, 1 .. k, "EXPIRED")
               /\ cache.entries[s].valid /\ ~cache'.entries[s].valid
                     => cache.entries[s].expires <= now
<1> DEFINE ps == SubSeq(pending, 1, k)
           Of(s) == {i \in DOMAIN ps : ps[i].handle.slot = s /\ Names(c, ps[i].handle)}
           Ended(p) == AfterRecord(c, p.handle, ExpiredResult(p), now).entries[p.handle.slot]
           value(s) == IF Of(s) = {} THEN c.entries[s]
                       ELSE Ended(ps[CHOOSE i \in Of(s) : TRUE])
           ended == [s \in Slots |-> value(s)]
<1>1. /\ pending \in Seq(Waiting) /\ cache \in Caches /\ c \in Caches /\ c.next = cache.next
      /\ DOMAIN pending = 1 .. Len(pending)
  BY DEF Typed, Dropped
<1>2. DOMAIN ps = 1 .. k /\ \A i \in 1 .. k : ps[i] = pending[i] /\ i \in DOMAIN pending
  BY <1>1, FrontIsPrefix
<1>3. cache' = [c EXCEPT !.entries = ended]
  BY DEF AfterExpiry
<1>4. cache' = [entries |-> ended, next |-> c.next]
  <2> HIDE DEF ended
  <2> QED
    BY <1>1, <1>3 DEF Caches
<1>5. ASSUME NEW s \in Slots
      PROVE  \/ ended[s] = c.entries[s]
             \/ ended[s] = Free /\ EntryExpired(c.entries[s], now)
             \/ \E i \in 1 .. k :
                   /\ pending[i].handle.slot = s /\ Names(c, pending[i].handle)
                   /\ ended[s] = [c.entries[s] EXCEPT !.result = Recorded1(i, "EXPIRED")]
                   /\ ended[s] \in Entries
  <2>1. CASE Of(s) = {}
    BY <2>1
  <2>2. CASE Of(s) # {}
    <3> DEFINE i == CHOOSE i \in Of(s) : TRUE
               p == pending[i]
               r == ExpiredResult(p)
    <3>1. i \in Of(s)
      BY <2>2
    <3>2. i \in 1 .. k /\ ps[i] = p /\ p.handle.slot = s /\ Names(c, p.handle)
      BY <3>1, <1>2
    <3>3. ended[s] = AfterRecord(c, p.handle, r, now).entries[s]
      BY <2>2, <3>2
    <3> HIDE DEF i, ended
    <3>4. p \in Waiting
      BY <1>1, <1>2, <3>2
    <3>5. p.handle \in Handles /\ r \in Results /\ r = Recorded1(i, "EXPIRED")
      BY <3>4 DEF Waiting, ExpiredResult, Results, Outcomes, Recorded1
    <3> HIDE DEF p, r
    <3>6. CASE RecordStatus(c, p.handle, r, now) = "OK"
      <4>1. /\ AfterRecord(c, p.handle, r, now) \in Caches
            /\ AfterRecord(c, p.handle, r, now).entries[s] = [c.entries[s] EXCEPT !.result = r]
            /\ AfterRecord(c, p.handle, r, now).entries[s] \in Entries
        BY <1>1, <3>2, <3>5, <3>6, RecordFacts
      <4> QED
        BY <3>2, <3>3, <3>5, <4>1 DEF p
    <3>7. CASE RecordStatus(c, p.handle, r, now) # "OK"
      BY <1>1, <3>3, <3>5, <3>7, RefusedRecordDrops DEF Dropped
    <3> QED
      BY <3>6, <3>7
  <2> QED
    BY <2>1, <2>2
<1> HIDE DEF ended
<1>6. cache.entries \in [Slots -> Entries \cup {Free}] /\ c.entries \in [Slots -> Entries \cup {Free}]
  BY <1>1 DEF Caches
<1>7. ended \in [Slots -> Entries \cup {Free}]
  <2>1. \A s \in Slots : ended[s] \in Entries \cup {Free}
    BY <1>5, <1>6
  <2> HIDE DEF value
  <2>2. \A s \in Slots : value(s) \in Entries \cup {Free}
    BY <2>1 DEF ended
  <2> QED
    BY <2>2 DEF ended
<1>8. cache' \in Caches /\ cache'.next = cache.next
  BY <1>1, <1>4, <1>7 DEF Caches
<1>9. ASSUME NEW s \in Slots
      PROVE  /\ EntryMoves(s, 1 .. k, "EXPIRED")
             /\ cache.entries[s].valid /\ ~cache'.entries[s].valid
                   => cache.entries[s].expires <= now
  <2>1. cache'.entries[s] = ended[s]
    BY <1>4
  <2>2. \/ c.entries[s] = cache.entries[s]
        \/ c.entries[s] = Free /\ EntryExpired(cache.entries[s], now)
    BY DEF Dropped
  <2>3. CASE ended[s] = c.entries[s]
    BY <2>1, <2>2, <2>3 DEF EntryMoves, EntryExpired
  <2>4. CASE ended[s] = Free /\ EntryExpired(c.entries[s], now)
    BY <2>1, <2>2, <2>4 DEF EntryMoves, EntryExpired, Free
  <2>5. ASSUME NEW i \in 1 .. k,
               pending[i].handle.slot = s /\ Names(c, pending[i].handle),
               ended[s] = [c.entries[s] EXCEPT !.result = Recorded1(i, "EXPIRED")],
               ended[s] \in Entries
        PROVE  EntryMoves(s, 1 .. k, "EXPIRED") /\ cache'.entries[s].valid
    <3>1. c.entries[s] = cache.entries[s]
      BY <2>2, <2>5 DEF Names, Free
    <3>2. Names(cache, pending[i].handle)
      BY <2>5, <3>1 DEF Names
    <3>3. cache'.entries[s].valid
      BY <2>1, <2>5 DEF Entries
    <3> QED
      BY <2>1, <2>5, <3>1, <3>2, <3>3 DEF EntryMoves
  <2> QED
    BY <1>5, <2>3, <2>4, <2>5
<1> QED
  BY <1>8, <1>9

LEMMA TickAliveConcludes ==
  ASSUME Typed, TickAlive
  PROVE  \E k \in 0 .. Len(pending) : Typed' /\ Concludes(1 .. k, "EXPIRED") /\ Steady
<1> DEFINE ticked == link_tick(link, now)
           swept == cache_expire(cache, now)
           wanted == SweepLength(swept)
           k == Min({wanted, Room})
           done == SubSeq(pending, 1, k)
           items == [i \in DOMAIN done |-> Result(done[i].cmd, "EXPIRED")]
           answered == SendAll(out, items)
           strained == IF wanted > Room THEN MarkFull(answered) ELSE answered
           beaten == Offered(strained, HeartbeatDue, "STATE", Plain("HEARTBEAT"))
<1>1. /\ link' = ticked
      /\ mapping' \in {mapping, NoMapping}
      /\ cache' = AfterExpiry(swept, done)
      /\ pending' = SubSeq(pending, Len(done) + 1, Len(pending))
      /\ beat' \in {beat, now}
      /\ out' = Offered(beaten, HelloWanted(ticked, beaten), "P0", Plain("LINK_HELLO"))
      /\ UNCHANGED <<cts, held, now>>
  BY DEF TickAlive
<1>2. /\ pending \in Seq(Waiting) /\ Len(pending) \in Nat /\ DOMAIN pending = 1 .. Len(pending)
      /\ Len(pending) <= PendingCapacity /\ PendingCapacity \in Nat
      /\ \A i \in 1 .. Len(pending) : pending[i].cmd \in Keys
  <2>1. pending \in Seq(Waiting) /\ Len(pending) <= PendingCapacity
    BY DEF Typed
  <2>2. Len(pending) \in Nat /\ DOMAIN pending = 1 .. Len(pending)
    BY <2>1
  <2>3. PendingCapacity \in Nat
    BY StmUartAssumption
  <2>4. \A i \in 1 .. Len(pending) : pending[i] \in Waiting
    BY <2>1
  <2>5. \A p \in Waiting : p.cmd \in Keys
    BY DEF Waiting
  <2> QED
    BY <2>1, <2>2, <2>3, <2>4, <2>5
<1>3. Room \in Nat /\ Room = QueueCapacity - Len(out.tx.queue["P0"])
  <2>1. /\ Len(out.tx.queue["P0"]) \in Nat
        /\ Len(out.tx.queue["P0"]) <= QueueCapacity
    BY Unchanged, ClassFacts DEF Outs, Queues
  <2> QED
    BY <2>1, QueueAssumption DEF Room
<1>4. wanted \in 0 .. Len(pending)
  BY SweepLengthFacts
<1> HIDE DEF wanted
<1>5. k \in 0 .. Len(pending) /\ k <= Room
  <2>0. wanted \in Int /\ Room \in Int
    BY <1>2, <1>3, <1>4
  <2>1. Min({wanted, Room}) \in {wanted, Room} /\ Min({wanted, Room}) <= wanted
        /\ Min({wanted, Room}) <= Room
    BY <2>0, MinOfTwo
  <2> QED
    BY <1>2, <1>3, <1>4, <2>1
<1> HIDE DEF k
<1>6. /\ Len(done) = k /\ DOMAIN done = 1 .. k
      /\ \A i \in 1 .. k : done[i] = pending[i]
  BY <1>2, <1>5, FrontIsPrefix
<1>7. Dropped(cache, swept, now)
  BY Unchanged, SweptDrops DEF cache_expire
<1> HIDE DEF swept
<1>8. /\ cache' \in Caches /\ cache'.next = cache.next
      /\ \A s \in Slots : /\ EntryMoves(s, 1 .. k, "EXPIRED")
                          /\ cache.entries[s].valid /\ ~cache'.entries[s].valid
                                => cache.entries[s].expires <= now
  BY <1>1, <1>5, <1>7, AfterExpiryFacts
<1>9. /\ pending' \in Seq(Waiting) /\ Len(pending') <= PendingCapacity
      /\ Remains(pending, 1 .. k, pending')
  <2>1. /\ pending' \in Seq(Waiting) /\ Len(pending') <= Len(pending)
        /\ Remains(pending, 1 .. k, pending')
    BY <1>1, <1>2, <1>5, <1>6, TailRemains
  <2>2. Len(pending') \in Nat
    BY <2>1
  <2> QED
    BY <1>2, <2>1, <2>2
<1> HIDE DEF done
<1>10. "EXPIRED" \in Outcomes
  BY DEF Outcomes
<1>11. /\ items \in Seq(Messages) /\ Len(items) = k /\ DOMAIN items = 1 .. k
       /\ \A i \in 1 .. k : items[i] = Result(pending[i].cmd, "EXPIRED")
  <2>1. \A i \in 1 .. k : items[i] = Result(pending[i].cmd, "EXPIRED") /\ items[i] \in Messages
    BY <1>2, <1>5, <1>6, <1>10, MessageFacts
  <2>2. items \in [1 .. k -> Messages]
    BY <1>6, <2>1
  <2>3. k \in Nat
    BY <1>5
  <2> HIDE DEF items
  <2>4. items \in Seq(Messages) /\ Len(items) = k /\ DOMAIN items = 1 .. k
    BY <2>2, <2>3
  <2> QED
    BY <2>1, <2>4
<1> HIDE DEF items
<1>12. /\ answered \in Outs
       /\ Range(answered.tx.queue["P0"]) = Range(out.tx.queue["P0"]) \cup Range(items)
  BY <1>3, <1>5, <1>11, Unchanged, SendAllFacts
<1> HIDE DEF answered
<1>13. Reported(answered) = Reported(out) \cup Endings(1 .. k, "EXPIRED")
  <2>1. \A i \in 1 .. k : /\ items[i].type = "COMMAND_RESULT"
                          /\ items[i].cmd = pending[i].cmd /\ items[i].stage = "EXPIRED"
    BY <1>11 DEF Result
  <2>2. Range(items) = {items[i] : i \in 1 .. k}
    BY <1>11 DEF Range
  <2>3. {<<m.cmd, m.stage>> : m \in {x \in Range(items) : x.type = "COMMAND_RESULT"}}
           = Endings(1 .. k, "EXPIRED")
    BY <2>1, <2>2 DEF Endings
  <2> QED
    BY <1>12, <2>3 DEF Reported
<1>14. strained \in Outs /\ Reported(strained) = Reported(answered)
  BY <1>12, FullMarkAddsNothing
<1> HIDE DEF strained
<1>15. "HEARTBEAT" \in PlainTypes /\ "LINK_HELLO" \in PlainTypes
  BY DEF PlainTypes
<1>16. beaten \in Outs /\ Reported(beaten) = Reported(strained)
  BY <1>14, <1>15, OfferedReports
<1> HIDE DEF beaten
<1>17. out' \in Outs /\ Reported(out') = Reported(beaten)
  <2> DEFINE wanting == HelloWanted(ticked, beaten)
  <2>1. out' = Offered(beaten, wanting, "P0", Plain("LINK_HELLO"))
    BY <1>1
  <2> HIDE DEF wanting
  <2> QED
    BY <2>1, <1>15, <1>16, OfferedReports
<1>18. ticked \in Link /\ NoNewSession(link, ticked)
  BY Unchanged, TickFacts
<1>19. Typed'
  <2>1. mapping' = NoMapping \/ (mapping' \in Mappings /\ mapping'.updated <= now')
    BY <1>1 DEF Typed
  <2>2. now' \in Nat /\ beat' \in Nat /\ beat' <= now'
    BY <1>1 DEF Typed
  <2> QED
    BY <1>1, <1>8, <1>9, <1>17, <1>18, <2>1, <2>2 DEF Typed
<1>20. Concludes(1 .. k, "EXPIRED")
  <2>1. 1 .. k \subseteq DOMAIN pending
    BY <1>2, <1>5
  <2> QED
    BY <2>1, <1>1, <1>8, <1>9, <1>10, <1>13, <1>14, <1>16, <1>17 DEF Concludes
<1>21. Steady
  BY <1>1, <1>8, <1>18, Unchanged DEF Steady
<1> QED
  BY <1>5, <1>19, <1>20, <1>21

-----------------------------------------------------------------------------
(* Every step of the runtime is of one of these kinds.                     *)

Ordinary == \E gone, stage : Typed' /\ Concludes(gone, stage) /\ Steady

StepKinds ==
    \/ Ordinary
    \/ Recovers
    \/ \E c \in Keys : Admits(c)

LEMMA QuietIsOrdinary ==
  ASSUME Typed, Quiet PROVE Ordinary
  BY QuietFacts DEF Ordinary

LEMMA StutterQuiet ==
  ASSUME Typed, UNCHANGED vars
  PROVE  Quiet
  BY Unchanged DEF vars, Quiet, session, clocks

LEMMA NextKinds ==
  ASSUME CoreInv, NextButHeartbeat \/ \E r \in Revisions : Heartbeat(r)
  PROVE  StepKinds
<1>0. Typed
  BY DEF CoreInv
<1>1. Quiet => Ordinary
  BY <1>0, QuietIsOrdinary
<1>2. CASE \E b \in Boots : HelloNewEpoch(b) \/ HelloAgain(b) \/ HelloAck(b)
  BY <1>0, <1>1, <1>2, HelloNewEpochRecovers, HelloAgainQuiet, HelloAckQuiet DEF StepKinds
<1>3. CASE (\E limited \in Limited : AnsweredWithError(limited)) \/ SimpleMessage \/ TimeSyncDropsOld
  BY <1>0, <1>1, <1>3, AnsweredWithErrorQuiet, SimpleMessageQuiet, TimeSyncDropsOldQuiet
  DEF StepKinds
<1>4. CASE \E g \in Generations : \/ TimeSyncRequest(g)
                                  \/ \E t2 \in 0 .. now : TimeSyncCommit(g, t2)
  BY <1>0, <1>1, <1>4, TimeSyncQuiet DEF StepKinds
<1>5. CASE \E c \in Keys : Command(c)
  BY <1>0, <1>1, <1>5, CommandSteps DEF StepKinds
<1>6. CASE \/ \E a \in {"ACQUIRE", "RENEW", "RELEASE"}, id \in LeaseIds : ControlLease(a, id)
           \/ ObserverPlan \/ PendingPeek
  BY <1>0, <1>1, <1>6, SupervisedQuiet, PendingPeekQuiet DEF StepKinds
<1>7. CASE \E s \in Stages : PendingComplete(s) \/ PendingCompleteRefused(s)
  BY <1>0, <1>1, <1>7, PendingCompleteConcludes, PendingCompleteRefusedQuiet
  DEF StepKinds, Ordinary
<1>8. CASE \E blocked \in BOOLEAN : SetCtsBlocked(blocked)
  BY <1>0, <1>1, <1>8, SetCtsBlockedSteps DEF StepKinds
<1>9. CASE TxBegin \/ \E sent \in BOOLEAN : TxFinish(sent)
  BY <1>0, <1>1, <1>9, TxQuiet DEF StepKinds
<1>10. CASE Reset \/ Tick \/ Advance
  BY <1>0, <1>1, <1>10, ResetRecovers, TickDeadRecovers, TickAliveConcludes, AdvanceQuiet
  DEF StepKinds, Tick, Ordinary
<1>11. CASE \E r \in Revisions : Heartbeat(r)
  BY <1>0, <1>1, <1>11, HeartbeatEndsSessionRecovers, HeartbeatInSessionQuiet
  DEF StepKinds, Heartbeat
<1> QED
  BY <1>2, <1>3, <1>4, <1>5, <1>6, <1>7, <1>8, <1>9, <1>10, <1>11 DEF NextButHeartbeat

LEMMA HNextKinds ==
  ASSUME CoreInv, HNext
  PROVE  StepKinds /\ Record
  BY NextKinds DEF HNext, Recorded

-----------------------------------------------------------------------------
(* Admission.                                                              *)

Admitted1(c) == [handle |-> [slot |-> AdmitSlot(cache, c, now), generation |-> cache.next],
                 cmd |-> c]

LEMMA AdmitsFacts ==
  ASSUME Typed, NEW c \in Keys, Admits(c)
  PROVE  /\ Typed' /\ Admitted1(c) \in Waiting /\ cache.next \in Nat
         /\ Len(pending) \in Nat /\ DOMAIN pending = 1 .. Len(pending)
         /\ DOMAIN pending' = 1 .. Len(pending) + 1
         /\ \A i \in 1 .. Len(pending) : pending'[i] = pending[i]
         /\ pending'[Len(pending) + 1] = Admitted1(c)
         /\ pending' = Append(pending, Admitted1(c))
<1> DEFINE p == Admitted1(c)
<1>1. /\ pending \in Seq(Waiting) /\ Len(pending) \in Nat /\ DOMAIN pending = 1 .. Len(pending)
      /\ PendingCapacity \in Nat /\ cache \in Caches /\ now \in Nat
  BY StmUartAssumption DEF Typed
<1>2. /\ AdmitSlot(cache, c, now) \in Slots /\ cache' \in Caches
  BY <1>1, AdmitFacts DEF Admits
<1>3. cache.next \in Nat
  BY <1>1 DEF Caches
<1>4. p \in Waiting
  BY <1>2, <1>3 DEF Admitted1, Waiting, Handles
<1>5. pending' = Append(pending, p)
  BY DEF Admits, Admitted1
<1> HIDE DEF p
<1>6. /\ pending' \in Seq(Waiting) /\ Len(pending') = Len(pending) + 1
      /\ DOMAIN pending' = 1 .. Len(pending) + 1
      /\ \A i \in 1 .. Len(pending) : pending'[i] = pending[i]
      /\ pending'[Len(pending) + 1] = p
  BY <1>1, <1>4, <1>5
<1>7. Len(pending') <= PendingCapacity
  BY <1>1, <1>6 DEF Admits
<1>8. Typed'
  BY <1>2, <1>6, <1>7 DEF Typed, Admits
<1> QED
  BY <1>1, <1>3, <1>4, <1>5, <1>6, <1>8 DEF p

\* What admission does to the entry in slot s.
LEMMA AdmitsEntries ==
  ASSUME Typed, NEW c \in Keys, Admits(c), NEW s \in Slots
  PROVE  /\ cache'.next = cache.next + 1
         /\ \/ /\ s = AdmitSlot(cache, c, now)
               /\ cache'.entries[s] = NewEntry(cache.next, c, c.ttl, now)
               /\ ~cache.entries[s].valid \/ EntryExpired(cache.entries[s], now)
            \/ /\ s # AdmitSlot(cache, c, now)
               /\ \/ cache'.entries[s] = cache.entries[s]
                  \/ cache'.entries[s] = Free /\ EntryExpired(cache.entries[s], now)
<1>1. cache \in Caches /\ now \in Nat
  BY DEF Typed
<1> QED
  BY <1>1, AdmitFacts DEF Admits

LEMMA AdmitsReports ==
  ASSUME Typed, NEW c \in Keys, Admits(c)
  PROVE  CacheReports(cache') \subseteq CacheReports(cache)
<1> SUFFICES ASSUME NEW s \in Slots, cache'.entries[s].valid,
                    cache'.entries[s].result # NoResult
             PROVE  cache'.entries[s] = cache.entries[s]
  BY DEF CacheReports
<1>1. CASE cache'.entries[s] = NewEntry(cache.next, c, c.ttl, now)
  BY <1>1 DEF NewEntry
<1>2. CASE cache'.entries[s] = Free
  BY <1>2 DEF Free
<1> QED
  BY <1>1, <1>2, AdmitsEntries

LEMMA AdmitsCore ==
  ASSUME CoreInv, NEW c \in Keys, Admits(c), Record
  PROVE  CoreInv'
<1> DEFINE n == Len(pending)
           p == Admitted1(c)
<1>0. Typed
  BY DEF CoreInv
<1>1. /\ Typed' /\ p \in Waiting /\ cache.next \in Nat
      /\ n \in Nat /\ DOMAIN pending = 1 .. n /\ DOMAIN pending' = 1 .. n + 1
      /\ \A i \in 1 .. n : pending'[i] = pending[i]
      /\ pending'[n + 1] = p
  BY <1>0, AdmitsFacts
<1>2. /\ p.handle.generation = cache.next /\ p.cmd = c
      /\ p.handle.slot = AdmitSlot(cache, c, now) /\ p.handle.slot \in Slots
  BY <1>1 DEF Admitted1, Waiting, Handles
<1>3. cache'.next = cache.next + 1
  BY <1>0, <1>2, AdmitsEntries
<1> HIDE DEF n, p
<1>4. held' = held
  BY DEF Admits
<1>5. \A i \in 1 .. n : pending[i] \in Waiting /\ pending[i].handle \in Handles
                        /\ pending[i].handle.generation \in Nat
                        /\ pending[i].handle.generation < cache.next
  <2>1. \A i \in 1 .. n : pending[i] \in Waiting
    BY <1>0, <1>1 DEF Typed
  <2> QED
    BY <1>1, <2>1 DEF CoreInv, HandlesAreOld, Waiting, Handles
<1>6. HandlesAreOld'
  <2>1. ASSUME NEW s \in Slots, cache'.entries[s].valid
        PROVE  cache'.entries[s].generation < cache'.next
    <3>1. CASE cache'.entries[s] = NewEntry(cache.next, c, c.ttl, now)
      BY <1>1, <1>3, <3>1 DEF NewEntry
    <3>2. CASE cache'.entries[s] = cache.entries[s]
      <4>1. cache.entries[s] \in Entries /\ cache.entries[s].generation < cache.next
        BY <1>0, <2>1, <3>2, Unchanged, EntryFacts DEF CoreInv, HandlesAreOld
      <4>2. cache.entries[s].generation \in Nat
        BY <4>1 DEF Entries
      <4> QED
        BY <1>1, <1>3, <3>2, <4>1, <4>2
    <3> QED
      BY <1>0, <2>1, <3>1, <3>2, AdmitsEntries DEF Free
  <2>2. \A i \in DOMAIN pending' : pending'[i].handle.generation < cache'.next
    <3> TAKE i \in DOMAIN pending'
    <3>1. CASE i \in 1 .. n
      BY <3>1, <1>1, <1>3, <1>5
    <3>2. CASE i = n + 1
      BY <3>2, <1>1, <1>2, <1>3
    <3> QED
      BY <3>1, <3>2, <1>1
  <2>3. ASSUME NEW i \in DOMAIN pending', NEW j \in DOMAIN pending',
               pending'[i].handle.generation = pending'[j].handle.generation
        PROVE  i = j
    <3>1. CASE i \in 1 .. n /\ j \in 1 .. n
      BY <3>1, <2>3, <1>1 DEF CoreInv, HandlesAreOld
    <3>2. CASE i = n + 1 /\ j \in 1 .. n
      BY <3>2, <2>3, <1>1, <1>2, <1>5
    <3>3. CASE i \in 1 .. n /\ j = n + 1
      BY <3>3, <2>3, <1>1, <1>2, <1>5
    <3> QED
      BY <3>1, <3>2, <3>3, <1>1
  <2>4. ASSUME held' # NoHeld
        PROVE  /\ held'.handle.generation < cache'.next
               /\ \A i \in DOMAIN pending' :
                     pending'[i].handle = held'.handle => pending'[i].cmd = held'.cmd
    <3>1. /\ held.handle.generation < cache.next
          /\ \A i \in 1 .. n : pending[i].handle = held.handle => pending[i].cmd = held.cmd
      BY <2>4, <1>1, <1>4 DEF CoreInv, HandlesAreOld
    <3>2. held.handle \in Handles
      BY <1>0, <1>4, <2>4, HeldFacts
    <3>3. held.handle.generation \in Nat
      BY <3>2 DEF Handles
    <3>4. held.handle # p.handle
      BY <3>1, <3>3, <1>1, <1>2
    <3>5. held'.handle.generation < cache'.next
      BY <1>1, <1>3, <1>4, <3>1, <3>3
    <3>6. ASSUME NEW i \in DOMAIN pending', pending'[i].handle = held'.handle
          PROVE  pending'[i].cmd = held'.cmd
      <4>1. i \in 1 .. n
        BY <3>4, <3>6, <1>1, <1>4
      <4> QED
        BY <3>1, <3>6, <4>1, <1>1, <1>4
    <3> QED
      BY <3>5, <3>6
  <2> QED
    BY <2>1, <2>2, <2>3, <2>4 DEF HandlesAreOld
<1>7. ASSUME NEW i \in DOMAIN pending', Names(cache', pending'[i].handle)
      PROVE  /\ cache'.entries[pending'[i].handle.slot].key = pending'[i].cmd
             /\ cache'.entries[pending'[i].handle.slot].result = NoResult
  <2> DEFINE s == pending'[i].handle.slot
  <2>1. /\ cache'.entries[s].valid
        /\ cache'.entries[s].generation = pending'[i].handle.generation
    BY <1>7 DEF Names
  <2>2. s \in Slots
    BY <1>1, <1>2, <1>5 DEF Handles
  <2> HIDE DEF s
  <2>3. CASE i = n + 1
    <3>1. s = AdmitSlot(cache, c, now) /\ pending'[i].cmd = c
      BY <2>3, <1>1, <1>2 DEF s
    <3>2. cache'.entries[s] = NewEntry(cache.next, c, c.ttl, now)
      BY <1>0, <2>2, <3>1, AdmitsEntries
    <3> QED
      BY <3>1, <3>2 DEF NewEntry, s
  <2>4. CASE i \in 1 .. n
    <3>1. pending'[i] = pending[i] /\ pending[i].handle.generation < cache.next
          /\ pending[i].handle.generation \in Nat
      BY <2>4, <1>1, <1>5
    <3>2. cache'.entries[s] # NewEntry(cache.next, c, c.ttl, now)
      BY <1>1, <2>1, <3>1 DEF NewEntry
    <3>3. cache'.entries[s] = cache.entries[s]
      BY <1>0, <2>1, <2>2, <3>2, AdmitsEntries DEF Free
    <3>4. Names(cache, pending[i].handle)
      BY <2>1, <3>1, <3>3 DEF Names, s
    <3> QED
      BY <2>4, <1>1, <3>1, <3>3, <3>4 DEF CoreInv, PendingIsOpen, s
  <2> QED
    BY <2>3, <2>4, <1>1
<1>8. PendingIsOpen'
  BY <1>7 DEF PendingIsOpen
<1>9. CacheReports(cache') \subseteq CacheReports(cache)
  BY <1>0, AdmitsReports
<1>10. ReportsAreEarned'
  <2>1. Earned(CacheReports(cache'), executed')
    BY <1>9, RecordHistory DEF CoreInv, ReportsAreEarned, Earned
  <2>2. Earned(Reported(out'), executed')
    BY RecordHistory DEF CoreInv, ReportsAreEarned, Earned, Admits
  <2>3. Earned(told', executed')
    BY <2>2, RecordHistory DEF CoreInv, ReportsAreEarned, Earned
  <2> QED
    BY <1>4, <2>1, <2>2, <2>3, RecordHistory DEF CoreInv, ReportsAreEarned
<1> QED
  BY <1>1, <1>6, <1>8, <1>10 DEF CoreInv

-----------------------------------------------------------------------------
(* Type correctness and the agreement of what is pending, remembered and   *)
(* reported.                                                               *)

LEMMA InitFacts ==
  ASSUME HInit
  PROVE  Typed /\ CacheReports(cache) = {} /\ Reported(out) = {}
         /\ \A s \in Slots : ~cache.entries[s].valid
<1> DEFINE clear == [tx |-> EmptyTx, inhibited |-> FALSE]
           greeting == Send([clear EXCEPT !.tx = EmptyTx], "P0", Plain("LINK_HELLO"))
<1>1. /\ link = link_reset /\ cts = [known |-> FALSE, blocked |-> FALSE]
      /\ cache = EmptyCache(1) /\ pending = <<>> /\ mapping = NoMapping
      /\ out.tx = Published(EmptyTx, "P0", Plain("LINK_HELLO")) /\ out.inhibited = FALSE
      /\ out = [tx |-> out.tx, inhibited |-> out.inhibited]
      /\ beat = 0 /\ now = 0 /\ held = NoHeld
  BY DEF HInit, Init
<1>2. clear \in Outs
  <2>1. EmptyTx.queue \in Queues
    BY ClassFacts, QueueAssumption DEF EmptyTx, Queues
  <2> QED
    BY <2>1, ClassFacts DEF EmptyTx, Outs
<1>3. [clear EXCEPT !.tx = EmptyTx] \in Outs /\ Reported([clear EXCEPT !.tx = EmptyTx]) = {}
  <2> HIDE DEF clear
  <2> QED
    BY <1>2, ClearedOut
<1>4. "LINK_HELLO" \in PlainTypes
  BY DEF PlainTypes
<1>5. greeting \in Outs /\ Reported(greeting) = {}
  <2> DEFINE o == [clear EXCEPT !.tx = EmptyTx]
  <2>1. o \in Outs /\ Reported(o) = {}
    BY <1>3
  <2> HIDE DEF o
  <2>2. Send(o, "P0", Plain("LINK_HELLO")) \in Outs
        /\ Reported(Send(o, "P0", Plain("LINK_HELLO"))) = {}
    BY <2>1, <1>4, PlainAddsNothing, ClassFacts
  <2> QED
    BY <2>2 DEF o
<1>6. greeting.tx = out.tx
  BY <1>1 DEF Send
<1> HIDE DEF greeting
<1>7. out \in Outs /\ Reported(out) = {}
  <2>1. out.tx \in [queue : Queues, current : Messages \cup {NoItem}, class : ClassNames]
    BY <1>5, <1>6 DEF Outs
  <2> QED
    BY <2>1, <1>1, <1>5, <1>6 DEF Outs, Reported
<1>8. cache \in Caches /\ \A s \in Slots : ~cache.entries[s].valid
  <2>1. cache.entries = [s \in Slots |-> Free] /\ cache.next = 1
        /\ cache = [entries |-> cache.entries, next |-> cache.next]
    BY <1>1 DEF EmptyCache
  <2>2. 1 \in 1 .. MaxGeneration
    BY CacheAssumption
  <2> QED
    BY <2>1, <2>2 DEF Caches, Free
<1>9. CacheReports(cache) = {}
  BY <1>8 DEF CacheReports
<1>10. pending \in Seq(Waiting) /\ Len(pending) <= PendingCapacity
  BY <1>1, StmUartAssumption
<1> QED
  BY <1>1, <1>7, <1>8, <1>9, <1>10, ResetFacts DEF Typed

LEMMA InitCore ==
  ASSUME HInit
  PROVE  CoreInv
<1>1. /\ pending = <<>> /\ held = NoHeld /\ told = {} /\ executed = {}
  BY DEF HInit, Init
<1>2. DOMAIN pending = {}
  BY <1>1
<1>3. HandlesAreOld /\ PendingIsOpen
  BY <1>1, <1>2, InitFacts DEF HandlesAreOld, PendingIsOpen
<1>4. ReportsAreEarned
  BY <1>1, InitFacts DEF ReportsAreEarned, Earned
<1> QED
  BY <1>3, <1>4, InitFacts DEF CoreInv

LEMMA StutterCore ==
  ASSUME CoreInv, UNCHANGED allvars
  PROVE  CoreInv'
<1>1. UNCHANGED <<link, cts, cache, pending, mapping, out, held, now, beat, told, executed>>
  BY DEF allvars, vars, history
<1>2. Typed'
  BY <1>1 DEF CoreInv, Typed
<1>3. HandlesAreOld' /\ PendingIsOpen'
  BY <1>1 DEF CoreInv, HandlesAreOld, PendingIsOpen, Names
<1>4. ReportsAreEarned'
  BY <1>1 DEF CoreInv, ReportsAreEarned, Reported, CacheReports, Earned
<1> QED
  BY <1>2, <1>3, <1>4 DEF CoreInv

LEMMA StepCore ==
  ASSUME CoreInv, HNext
  PROVE  CoreInv'
<1>1. Record /\ StepKinds
  BY HNextKinds
<1>2. CASE Ordinary
  BY <1>1, <1>2, ConcludesCore DEF Ordinary
<1>3. CASE Recovers
  BY <1>1, <1>3, ConcludesCore, RestartsCore DEF Recovers
<1>4. CASE \E c \in Keys : Admits(c)
  BY <1>1, <1>4, AdmitsCore
<1> QED
  BY <1>1, <1>2, <1>3, <1>4 DEF StepKinds

(***************************************************************************)
(* The core of the runtime holds whatever is received, reported, timed out *)
(* or reset, and whether or not the reset hook succeeds: state of its type,*)
(* handles that are never given out twice, pending commands whose entries  *)
(* are open, and results that were earned (uart_link.c with the command    *)
(* cache of canview_uart.c).                                               *)
(***************************************************************************)
THEOREM CoreInvariant == HSpec => []CoreInv
<1>1. HInit => CoreInv
  BY InitCore
<1>2. CoreInv /\ [HNext]_allvars => CoreInv'
  BY StepCore, StutterCore
<1> QED
  BY <1>1, <1>2, PTL DEF HSpec

(***************************************************************************)
(* The state of the runtime has its type in every reachable state: the     *)
(* fixed-size rings of uart_link.c never hold more than their capacity,    *)
(* the handle counter stays below its maximum, and no timestamp is ahead   *)
(* of the clock.                                                           *)
(***************************************************************************)
THEOREM TypeCorrectness == HSpec => []TypeOK
<1>1. Typed => TypeOK
  <2> SUFFICES ASSUME Typed PROVE TypeOK
    OBVIOUS
  <2>1. \A i \in DOMAIN pending : pending[i] \in Waiting
    BY DEF Typed
  <2>2. \A i \in DOMAIN pending : pending[i].cmd \in Keys /\ pending[i].handle.slot \in Slots
    BY <2>1 DEF Waiting, Handles
  <2>3. \A c \in ClassNames : Len(out.tx.queue[c]) <= QueueCapacity
    BY DEF Typed, Outs, Queues
  <2>4. cache.next \in 1 .. MaxGeneration
    BY DEF Typed, Caches
  <2>5. mapping.valid => mapping.updated <= now
    BY DEF Typed, NoMapping
  <2> QED
    BY <2>2, <2>3, <2>4, <2>5 DEF Typed, TypeOK
<1> QED
  BY <1>1, CoreInvariant, PTL DEF CoreInv

(***************************************************************************)
(* While the cache entry of a pending command lives, it is that command's  *)
(* own and has no result: admission, completion and expiry change both     *)
(* structures in one step, also when the reset hook times out and leaves   *)
(* commands behind whose entries are gone (handle_command,                 *)
(* canview_stm_uart_pending_complete, begin_session_recovery).             *)
(***************************************************************************)
THEOREM PendingStaysOpen == HSpec => []PendingIsOpen
BY CoreInvariant, PTL DEF CoreInv

(***************************************************************************)
(* Whatever is queued as the result of a command, by the executor or from  *)
(* the cache for a retry, is an expiry or the command was taken by the     *)
(* executor, however late it completes and whatever happened to sessions   *)
(* and slots meanwhile (canview_stm_uart_pending_peek and _complete).      *)
(***************************************************************************)
THEOREM ReportsAreTrue == HSpec => []ReportedWasExecuted
<1>1. CoreInv => ReportedWasExecuted
  BY DEF CoreInv, ReportsAreEarned, Earned, ReportedWasExecuted
<1> QED
  BY <1>1, CoreInvariant, PTL
-----------------------------------------------------------------------------
(* The runtime implements CommandDelivery when its reset hook succeeds.    *)

\* When a command can no longer be admitted, in our time.
Late(c) == c.issued + c.ttl + Offset[c.gen]

\* Its token is refused: it is too late, or the cache knows the token.
Remembered(c) ==
    \/ now >= Late(c)
    \/ \E s \in Slots : /\ cache.entries[s].valid
                        /\ cache.entries[s].key.id = c.id
                        /\ cache.entries[s].expires >= Late(c)

\* Every command of the session is pending or over, and what the runtime can
\* still say of it was said before.
BooksAgree ==
    /\ CommandsOf(pending) \subseteq admitted
    /\ \A i, j \in DOMAIN pending : pending[i].cmd = pending[j].cmd => i = j
    /\ \A t \in told : t[1] \in admitted \ CommandsOf(pending)
    /\ Reported(out) \cup CacheReports(cache) \subseteq told

SessionRemembers == link.hello_complete => \A c \in admitted : Remembered(c)

DeliveryInv == BooksAgree /\ SessionRemembers /\ admitted \subseteq Keys /\ NoFormerInSession

Phase == [c \in Keys |-> IF c \in CommandsOf(pending) THEN "waiting"
                         ELSE IF c \in admitted THEN "over" ELSE "new"]
Told == [c \in Keys |-> {s \in Outcomes : <<c, s>> \in told}]

LEMMA AbstractState == Delivery!vars = <<Phase, Told>>
  BY DEF Delivery!vars, Phase, Told, Outcomes

LEMMA AbstractStep ==
  ASSUME \/ Phase' = Phase /\ Told' = Told
         \/ \E c \in Keys : /\ Phase[c] = "new" /\ Told' = Told
                            /\ Phase' = [Phase EXCEPT ![c] = "waiting"]
         \/ \E cs \in SUBSET Keys, o \in Outcomes :
               /\ cs # {} /\ \A c \in cs : Phase[c] = "waiting"
               /\ Phase' = [c \in Keys |-> IF c \in cs THEN "over" ELSE Phase[c]]
               /\ Told' = [c \in Keys |-> IF c \in cs THEN {o} ELSE Told[c]]
         \/ /\ Phase' = [c \in Keys |-> IF Phase[c] = "waiting" THEN "over" ELSE Phase[c]]
            /\ Told' = Told
         \/ /\ Phase' = [c \in Keys |-> "new"]
            /\ Told' = [c \in Keys |-> {}]
  PROVE  [Delivery!Next]_(Delivery!vars)
  BY DEF Delivery!vars, Delivery!Next, Delivery!Accept, Delivery!Conclude, Delivery!Lose,
         Delivery!NewSession, Phase, Told, Outcomes

LEMMA InitDelivers ==
  ASSUME HInit
  PROVE  DeliveryInv /\ Delivery!Init
<1>1. /\ pending = <<>> /\ admitted = {} /\ told = {} /\ former = {}
      /\ DOMAIN pending = {}
  BY DEF HInit, Init
<1>2. CommandsOf(pending) = {}
  BY <1>1 DEF CommandsOf
<1>3. BooksAgree
  BY <1>1, <1>2, InitFacts DEF BooksAgree
<1>4. DeliveryInv
  BY <1>1, <1>3 DEF DeliveryInv, SessionRemembers, NoFormerInSession
<1>5. Delivery!Init
  BY <1>1, <1>2 DEF Delivery!Init
<1> QED
  BY <1>4, <1>5

LEMMA StutterDelivers ==
  ASSUME DeliveryInv, UNCHANGED allvars
  PROVE  DeliveryInv' /\ Phase' = Phase /\ Told' = Told
<1>1. UNCHANGED <<link, cache, pending, out, now, admitted, told, former>>
  BY DEF allvars, vars, history
<1>2. BooksAgree'
  BY <1>1 DEF DeliveryInv, BooksAgree, CommandsOf, Reported, CacheReports
<1>3. SessionRemembers' /\ NoFormerInSession'
  BY <1>1 DEF DeliveryInv, SessionRemembers, NoFormerInSession, Remembered
<1>4. Phase' = Phase /\ Told' = Told
  BY <1>1 DEF Phase, Told, CommandsOf
<1> QED
  BY <1>1, <1>2, <1>3, <1>4 DEF DeliveryInv

\* Time and the loss of entries that ran out make no command admissible again.
LEMMA SteadyRemembers ==
  ASSUME Typed, Typed', NEW c \in Keys, Remembered(c), now' >= now,
         \A s \in Slots : cache.entries[s].valid =>
            \/ /\ cache'.entries[s].valid
               /\ cache'.entries[s].key = cache.entries[s].key
               /\ cache'.entries[s].expires = cache.entries[s].expires
            \/ cache.entries[s].expires <= now
  PROVE  Remembered(c)'
<1>1. Late(c) \in Int /\ now \in Int /\ now' \in Int
  BY StmUartAssumption DEF Late, Typed
<1> DEFINE L == Late(c)
<1>2. L' = L
  BY DEF Late
<1>3. CASE now >= L
  <2>1. now' >= L
    BY <1>1, <1>3 DEF L
  <2> QED
    BY <2>1, <1>2 DEF Remembered
<1>4. ASSUME NEW s \in Slots, cache.entries[s].valid, cache.entries[s].key.id = c.id,
             cache.entries[s].expires >= L
      PROVE  Remembered(c)'
  <2>1. cache.entries[s].expires \in Int
    BY <1>4, ExpiryTyped
  <2>2. CASE cache.entries[s].expires <= now
    <3>1. now' >= L
      BY <1>1, <1>4, <2>1, <2>2
    <3> QED
      BY <3>1, <1>2 DEF Remembered
  <2>3. CASE /\ cache'.entries[s].valid
             /\ cache'.entries[s].key = cache.entries[s].key
             /\ cache'.entries[s].expires = cache.entries[s].expires
    BY <1>2, <1>4, <2>3 DEF Remembered
  <2> QED
    BY <1>4, <2>2, <2>3
<1> QED
  BY <1>3, <1>4 DEF Remembered

LEMMA NothingNew ==
  ASSUME Record, ~Started, NewlyPending = {}
  PROVE  /\ admitted' = admitted /\ told' = told \cup Reported(out')
         /\ former' = former \cap Kept'
  BY DEF Record

LEMMA ConcludesDelivers ==
  ASSUME CoreInv, DeliveryInv, Typed', NEW gone, NEW stage, Concludes(gone, stage), Steady,
         Record
  PROVE  DeliveryInv' /\ [Delivery!Next]_(Delivery!vars)
<1> DEFINE cs == {pending[i].cmd : i \in gone}
<1>0. Typed /\ cache \in Caches
  BY DEF CoreInv, Typed
<1>1. ~Started
  BY DEF Steady, NoNewSession, Started
<1>2. PICK f \in [DOMAIN pending' -> DOMAIN pending \ gone] :
        /\ \A i, j \in DOMAIN pending' : f[i] = f[j] => i = j
        /\ \A k \in DOMAIN pending \ gone : \E i \in DOMAIN pending' : f[i] = k
        /\ \A i \in DOMAIN pending' : pending'[i] = pending[f[i]]
  BY DEF Concludes, Remains
<1>3. NewlyPending = {}
  BY <1>2 DEF NewlyPending, Range
<1>4. /\ admitted' = admitted /\ told' = told \cup Reported(out')
      /\ former' = former \cap Kept'
  BY <1>1, <1>3, NothingNew
<1>5. /\ CommandsOf(pending) \subseteq admitted
      /\ \A i, j \in DOMAIN pending : pending[i].cmd = pending[j].cmd => i = j
      /\ \A t \in told : t[1] \in admitted \ CommandsOf(pending)
      /\ Reported(out) \subseteq told /\ CacheReports(cache) \subseteq told
  BY DEF DeliveryInv, BooksAgree
<1>6. gone \subseteq DOMAIN pending /\ stage \in Outcomes
  BY DEF Concludes
<1>7. told' = told \cup Endings(gone, stage)
  BY <1>4, <1>5 DEF Concludes
<1>8. CommandsOf(pending') = CommandsOf(pending) \ cs
  <2>1. ASSUME NEW i \in DOMAIN pending'
        PROVE  pending'[i].cmd \in CommandsOf(pending) \ cs
    <3>1. f[i] \in DOMAIN pending \ gone /\ pending'[i] = pending[f[i]]
      BY <1>2
    <3> QED
      BY <3>1, <1>5, <1>6 DEF CommandsOf
  <2>2. ASSUME NEW k \in DOMAIN pending, pending[k].cmd \notin cs
        PROVE  pending[k].cmd \in CommandsOf(pending')
    <3>1. k \in DOMAIN pending \ gone
      BY <2>2
    <3>2. PICK i \in DOMAIN pending' : f[i] = k
      BY <3>1, <1>2
    <3> QED
      BY <3>2, <1>2 DEF CommandsOf
  <2> QED
    BY <2>1, <2>2 DEF CommandsOf
<1>9. cs \subseteq CommandsOf(pending) /\ Endings(gone, stage) = {<<c, stage>> : c \in cs}
  BY <1>6 DEF CommandsOf, Endings
<1> HIDE DEF cs
<1>10. BooksAgree'
  <2>1. CommandsOf(pending') \subseteq admitted'
    BY <1>4, <1>5, <1>8
  <2>2. \A i, j \in DOMAIN pending' : pending'[i].cmd = pending'[j].cmd => i = j
    BY <1>2, <1>5
  <2>3. \A t \in told' : t[1] \in admitted' \ CommandsOf(pending')
    BY <1>4, <1>5, <1>7, <1>8, <1>9
  <2>4. Reported(out') \cup CacheReports(cache') \subseteq told'
    BY <1>0, <1>4, <1>5, <1>7, ConcludesReports
  <2> QED
    BY <2>1, <2>2, <2>3, <2>4 DEF BooksAgree
<1>11. SessionRemembers'
  <2> SUFFICES ASSUME link'.hello_complete, NEW c \in admitted
               PROVE  Remembered(c)'
    BY <1>4 DEF SessionRemembers
  <2>1. c \in Keys /\ Remembered(c)
    BY DEF DeliveryInv, SessionRemembers, Steady, NoNewSession
  <2>2. ASSUME NEW s \in Slots, cache.entries[s].valid, cache'.entries[s].valid
        PROVE  /\ cache'.entries[s].key = cache.entries[s].key
               /\ cache'.entries[s].expires = cache.entries[s].expires
    <3>1. cache.entries[s] \in Entries
      BY <1>0, <2>2, EntryFacts
    <3>2. EntryMoves(s, gone, stage)
      BY DEF Concludes
    <3>3. CASE cache'.entries[s] \in {cache.entries[s], Free}
      BY <2>2, <3>3 DEF Free
    <3>4. ASSUME NEW i \in gone,
                 cache'.entries[s] = [cache.entries[s] EXCEPT !.result = Recorded1(i, stage)]
          PROVE  /\ cache'.entries[s].key = cache.entries[s].key
                 /\ cache'.entries[s].expires = cache.entries[s].expires
      BY <3>1, <3>4 DEF Entries
    <3> QED
      BY <3>2, <3>3, <3>4 DEF EntryMoves
  <2>3. now' >= now
    BY DEF Steady
  <2>4. \A s \in Slots : cache.entries[s].valid =>
            \/ /\ cache'.entries[s].valid
               /\ cache'.entries[s].key = cache.entries[s].key
               /\ cache'.entries[s].expires = cache.entries[s].expires
            \/ cache.entries[s].expires <= now
    <3> TAKE s \in Slots
    <3> HAVE cache.entries[s].valid
    <3>1. CASE cache'.entries[s].valid
      BY <3>1, <2>2
    <3>2. CASE ~cache'.entries[s].valid
      BY <3>2 DEF Steady
    <3> QED
      BY <3>1, <3>2
  <2> QED
    BY <1>0, <2>1, <2>3, <2>4, SteadyRemembers
<1>12. DeliveryInv'
  BY <1>4, <1>10, <1>11 DEF DeliveryInv, NoFormerInSession, Steady, NoNewSession
<1>13. CASE cs = {}
  <2>1. CommandsOf(pending') = CommandsOf(pending) /\ told' = told
    BY <1>7, <1>8, <1>9, <1>13
  <2>2. Phase' = Phase /\ Told' = Told
    BY <1>4, <2>1 DEF Phase, Told
  <2> QED
    BY <1>12, <2>2, AbstractStep
<1>14. CASE cs # {}
  <2>1. cs \in SUBSET Keys
    BY <1>5, <1>9 DEF DeliveryInv
  <2>2. \A c \in cs : Phase[c] = "waiting"
    BY <1>9, <2>1 DEF Phase
  <2>3. Phase' = [c \in Keys |-> IF c \in cs THEN "over" ELSE Phase[c]]
    <3>1. \A c \in Keys : Phase'[c] = IF c \in cs THEN "over" ELSE Phase[c]
      BY <1>4, <1>5, <1>8, <1>9 DEF Phase
    <3> QED
      BY <3>1 DEF Phase
  <2>4. Told' = [c \in Keys |-> IF c \in cs THEN {stage} ELSE Told[c]]
    <3>1. ASSUME NEW c \in Keys
          PROVE  Told'[c] = IF c \in cs THEN {stage} ELSE Told[c]
      <4>1. Told'[c] = {s \in Outcomes : <<c, s>> \in told \cup {<<d, stage>> : d \in cs}}
        BY <1>7, <1>9 DEF Told
      <4>2. c \in cs => \A s : <<c, s>> \notin told
        BY <1>5, <1>9
      <4> QED
        BY <4>1, <4>2, <1>6 DEF Told
    <3> QED
      BY <3>1 DEF Told
  <2> QED
    BY <1>6, <1>12, <1>14, <2>1, <2>2, <2>3, <2>4, AbstractStep
<1> QED
  BY <1>13, <1>14

LEMMA RestartsDelivers ==
  ASSUME CoreInv, DeliveryInv, Typed', Restarts, Fresh, Record
  PROVE  DeliveryInv' /\ [Delivery!Next]_(Delivery!vars)
<1>1. pending' = <<>> /\ DOMAIN pending' = {} /\ Reported(out') = {}
  BY DEF Restarts
<1>2. CommandsOf(pending') = {} /\ NewlyPending = {}
  BY <1>1 DEF CommandsOf, NewlyPending
<1>3. \A s \in Slots : cache'.entries[s].valid => cache'.entries[s] = cache.entries[s]
  BY DEF Restarts, Free
<1>4. CASE Started
  <2>1. admitted' = {} /\ told' = {} /\ former' = {} /\ Kept' = {}
    BY <1>1, <1>2, <1>4 DEF Record, Fresh
  <2>2. \A s \in Slots : ~cache'.entries[s].valid
    BY <2>1 DEF Kept
  <2>3. CacheReports(cache') = {}
    BY <2>2 DEF CacheReports
  <2>4. DeliveryInv'
    BY <1>1, <1>2, <2>1, <2>3
    DEF DeliveryInv, BooksAgree, SessionRemembers, NoFormerInSession
  <2>5. Phase' = [c \in Keys |-> "new"] /\ Told' = [c \in Keys |-> {}]
    BY <1>2, <2>1 DEF Phase, Told
  <2> QED
    BY <2>4, <2>5, AbstractStep
<1>5. CASE ~Started
  <2>1. ~link'.hello_complete
    BY <1>5 DEF Fresh
  <2>2. admitted' = admitted /\ told' = told
    BY <1>1, <1>2, <1>5, NothingNew
  <2>3. CacheReports(cache') \subseteq CacheReports(cache)
    BY <1>3 DEF CacheReports
  <2>4. BooksAgree'
    BY <1>1, <1>2, <2>2, <2>3 DEF DeliveryInv, BooksAgree
  <2>5. DeliveryInv'
    BY <2>1, <2>2, <2>4 DEF DeliveryInv, SessionRemembers, NoFormerInSession
  <2>6. Phase' = [c \in Keys |-> IF Phase[c] = "waiting" THEN "over" ELSE Phase[c]]
    <3>1. CommandsOf(pending) \subseteq admitted
      BY DEF DeliveryInv, BooksAgree
    <3>2. \A c \in Keys : Phase'[c] = IF Phase[c] = "waiting" THEN "over" ELSE Phase[c]
      BY <3>1, <1>2, <2>2 DEF Phase
    <3> QED
      BY <3>2 DEF Phase
  <2>7. Told' = Told
    BY <2>2 DEF Told
  <2> QED
    BY <2>5, <2>6, <2>7, AbstractStep
<1> QED
  BY <1>4, <1>5

\* No command is admitted twice: its entry outlives the time it may be admitted.
LEMMA AdmitsOnce ==
  ASSUME CoreInv, DeliveryInv, NEW c \in Keys, Admits(c)
  PROVE  c \notin admitted
<1>1. Typed /\ now \in Int /\ Late(c) \in Int /\ now < Late(c)
  <2>1. Late(c) \in Int /\ now \in Int
    BY StmUartAssumption DEF Late, CoreInv, Typed
  <2>2. now < Late(c)
    BY DEF Admits, command_time_valid, Deadline, Late
  <2> QED
    BY <2>1, <2>2 DEF CoreInv
<1>2. Matches(cache, c, now) = {}
  BY <1>1, AdmitFacts DEF Admits, Typed
<1>3. SUFFICES ASSUME Remembered(c) PROVE FALSE
  BY DEF DeliveryInv, SessionRemembers, Admits
<1>4. PICK s \in Slots : /\ cache.entries[s].valid /\ cache.entries[s].key.id = c.id
                         /\ cache.entries[s].expires >= Late(c)
  BY <1>1, <1>3 DEF Remembered
<1>5. cache.entries[s].expires \in Int
  BY <1>1, <1>4, ExpiryTyped
<1>6. ~EntryExpired(cache.entries[s], now)
  BY <1>1, <1>4, <1>5 DEF EntryExpired
<1> QED
  BY <1>2, <1>4, <1>6 DEF Matches

LEMMA AdmitsDelivers ==
  ASSUME CoreInv, DeliveryInv, NEW c \in Keys, Admits(c), Record
  PROVE  DeliveryInv' /\ [Delivery!Next]_(Delivery!vars)
<1> DEFINE n == Len(pending)
           p == Admitted1(c)
<1>0. Typed
  BY DEF CoreInv
<1>1. /\ Typed' /\ p.cmd = c
      /\ n \in Nat /\ DOMAIN pending = 1 .. n /\ DOMAIN pending' = 1 .. n + 1
      /\ \A i \in 1 .. n : pending'[i] = pending[i]
      /\ pending'[n + 1] = p
  BY <1>0, AdmitsFacts DEF Admitted1
<1> HIDE DEF n
<1>2. c \notin admitted
  BY AdmitsOnce
<1>3. /\ CommandsOf(pending) \subseteq admitted
      /\ \A i, j \in DOMAIN pending : pending[i].cmd = pending[j].cmd => i = j
      /\ \A t \in told : t[1] \in admitted \ CommandsOf(pending)
      /\ Reported(out) \subseteq told /\ CacheReports(cache) \subseteq told
  BY DEF DeliveryInv, BooksAgree
<1>4. \A i \in 1 .. n : pending[i].cmd # c
  BY <1>1, <1>2, <1>3 DEF CommandsOf
<1> HIDE DEF p
<1>5. CommandsOf(pending') = CommandsOf(pending) \cup {c}
  <2>1. \A i \in 1 .. n + 1 : i \in 1 .. n \/ i = n + 1
    BY <1>1
  <2>2. n + 1 \in 1 .. n + 1 /\ \A i \in 1 .. n : i \in 1 .. n + 1
    BY <1>1
  <2> QED
    BY <1>1, <2>1, <2>2 DEF CommandsOf
<1>6. NewlyPending = {c}
  <2>1. p \notin Range(pending)
    BY <1>1, <1>4 DEF Range
  <2>2. \A i \in 1 .. n : pending'[i] \in Range(pending)
    BY <1>1 DEF Range
  <2>3. \A j \in DOMAIN pending' : pending'[j] \notin Range(pending) <=> j = n + 1
    BY <1>1, <2>1, <2>2
  <2>4. n + 1 \in DOMAIN pending'
    BY <1>1
  <2>5. {j \in DOMAIN pending' : pending'[j] \notin Range(pending)} = {n + 1}
    BY <2>3, <2>4
  <2> QED
    BY <1>1, <2>5 DEF NewlyPending
<1>7. ~Started
  BY DEF Admits, Started
<1>8. /\ admitted' = admitted \cup {c} /\ told' = told /\ former' = former \cap Kept'
      /\ Reported(out') \subseteq Reported(out)
  BY <1>3, <1>6, <1>7 DEF Record, Admits
<1>9. BooksAgree'
  <2>1. CommandsOf(pending') \subseteq admitted'
    BY <1>3, <1>5, <1>8
  <2>2. ASSUME NEW i \in DOMAIN pending', NEW j \in DOMAIN pending',
               pending'[i].cmd = pending'[j].cmd
        PROVE  i = j
    <3>1. (i \in 1 .. n \/ i = n + 1) /\ (j \in 1 .. n \/ j = n + 1)
      BY <1>1
    <3> QED
      BY <1>1, <1>3, <1>4, <2>2, <3>1
  <2>3. \A t \in told' : t[1] \in admitted' \ CommandsOf(pending')
    BY <1>2, <1>3, <1>5, <1>8
  <2>4. CacheReports(cache') \subseteq CacheReports(cache)
    BY <1>0, AdmitsReports
  <2> QED
    BY <1>3, <1>8, <2>1, <2>2, <2>3, <2>4 DEF BooksAgree
<1>10. Remembered(c)'
  <2> DEFINE s == AdmitSlot(cache, c, now)
  <2>1. s \in Slots
    BY <1>0, AdmitFacts DEF Admits, Typed
  <2>2. cache'.entries[s] = NewEntry(cache.next, c, c.ttl, now)
    BY <1>0, <2>1, AdmitsEntries
  <2>3. /\ cache'.entries[s].valid /\ cache'.entries[s].key = c
        /\ cache'.entries[s].expires = now + RetentionMs
    BY <2>2 DEF NewEntry
  <2> HIDE DEF s
  <2>4. now + RetentionMs >= Late(c)
    <3>1. /\ c.issued \in Nat /\ c.ttl \in Nat /\ c.ttl <= RetentionMs /\ RetentionMs \in Nat
          /\ Offset[c.gen] \in Int /\ now \in Nat
      BY <1>0, StmUartAssumption, CacheAssumption DEF Typed
    <3>2. c.issued + Offset[c.gen] <= now
      BY DEF Admits, command_time_valid, IssuedAt
    <3> QED
      BY <3>1, <3>2 DEF Late
  <2>5. Late(c)' = Late(c)
    BY DEF Late
  <2> QED
    BY <2>1, <2>3, <2>4, <2>5 DEF Remembered
<1>11. SessionRemembers'
  <2> SUFFICES ASSUME NEW d \in admitted
               PROVE  Remembered(d)'
    BY <1>8, <1>10 DEF SessionRemembers
  <2>1. d \in Keys /\ Remembered(d)
    BY DEF DeliveryInv, SessionRemembers, Admits
  <2>2. now' = now /\ now \in Nat
    BY <1>0 DEF Admits, Typed
  <2>3. \A s \in Slots : cache.entries[s].valid =>
            \/ /\ cache'.entries[s].valid
               /\ cache'.entries[s].key = cache.entries[s].key
               /\ cache'.entries[s].expires = cache.entries[s].expires
            \/ cache.entries[s].expires <= now
    <3> TAKE s \in Slots
    <3> HAVE cache.entries[s].valid
    <3>1. cache'.entries[s] = cache.entries[s] \/ EntryExpired(cache.entries[s], now)
      BY <1>0, AdmitsEntries
    <3> QED
      BY <3>1 DEF EntryExpired
  <2> QED
    BY <1>0, <1>1, <2>1, <2>2, <2>3, SteadyRemembers
<1>12. DeliveryInv'
  BY <1>8, <1>9, <1>11 DEF DeliveryInv, NoFormerInSession, Admits
<1>13. Phase[c] = "new" /\ Phase' = [Phase EXCEPT ![c] = "waiting"]
  <2>1. Phase[c] = "new"
    BY <1>2, <1>3 DEF Phase
  <2>2. \A d \in Keys : Phase'[d] = IF d = c THEN "waiting" ELSE Phase[d]
    BY <1>5, <1>8 DEF Phase
  <2> QED
    BY <2>1, <2>2 DEF Phase
<1>14. Told' = Told
  BY <1>8 DEF Told
<1> QED
  BY <1>12, <1>13, <1>14, AbstractStep

LEMMA StepDelivers ==
  ASSUME CoreInv, DeliveryInv, HNext, ~HookMayFail
  PROVE  DeliveryInv' /\ [Delivery!Next]_(Delivery!vars)
<1>1. Record /\ StepKinds
  BY HNextKinds
<1>2. CASE Ordinary
  BY <1>1, <1>2, ConcludesDelivers DEF Ordinary
<1>3. CASE Recovers
  BY <1>1, <1>3, RestartsDelivers DEF Recovers
<1>4. CASE \E c \in Keys : Admits(c)
  BY <1>1, <1>4, AdmitsDelivers
<1> QED
  BY <1>1, <1>2, <1>3, <1>4 DEF StepKinds

(***************************************************************************)
(* Unless the reset hook times out, the books of a session agree: a pending*)
(* command was admitted and not reported, and the cache remembers every    *)
(* command admitted in this session for as long as it could pass           *)
(* command_time_valid again (canview_uart_command_cache_admit).            *)
(***************************************************************************)
THEOREM DeliveryInvariant == ~HookMayFail => (HSpec => []DeliveryInv)
<1> SUFFICES ASSUME ~HookMayFail PROVE HSpec => []DeliveryInv
  OBVIOUS
<1>1. HInit => DeliveryInv
  BY InitDelivers
<1>2. CoreInv /\ DeliveryInv /\ [HNext]_allvars => DeliveryInv'
  BY StepDelivers, StutterDelivers
<1> QED
  BY <1>1, <1>2, CoreInvariant, PTL DEF HSpec

(***************************************************************************)
(* Unless the reset hook times out, a session that is up holds no pending  *)
(* command, clock mapping, unfinished sync, lease, plan or cache entry of  *)
(* an earlier one (begin_session_recovery, session_invalidate_state).      *)
(***************************************************************************)
THEOREM SessionsStartEmpty == ~HookMayFail => (HSpec => []NoFormerInSession)
BY DeliveryInvariant, PTL DEF DeliveryInv

(***************************************************************************)
(* Unless the reset hook times out, the runtime implements CommandDelivery:*)
(* it hands over each command of a session at most once and reports at     *)
(* most one outcome of it, although entries run out and the clock of the   *)
(* controller is mapped anew: the cache remembers a token for as long as   *)
(* the command could be admitted.                                          *)
(***************************************************************************)
THEOREM RuntimeImplementsDelivery == ~HookMayFail => (HSpec => DeliversOnce)
<1> SUFFICES ASSUME ~HookMayFail PROVE HSpec => DeliversOnce
  OBVIOUS
<1>1. HInit => Delivery!Init
  BY InitDelivers
<1>2. CoreInv /\ DeliveryInv /\ [HNext]_allvars => [Delivery!Next]_(Delivery!vars)
  BY StepDelivers, StutterDelivers, AbstractStep
<1> QED
  BY <1>1, <1>2, CoreInvariant, DeliveryInvariant, PTL DEF HSpec, DeliversOnce, Delivery!Spec

-----------------------------------------------------------------------------
(* In the run that ends sessions at any point.                             *)

LEMMA SessionsScenario == MCSpec => (scenario = "sessions" => HSpec)
<1>1. MCInit /\ scenario = "sessions" => HInit
  BY DEF MCInit
<1>2. scenario = "sessions" /\ [MCNext]_<<scenario, allvars>>
        => (scenario = "sessions")' /\ [HNext]_allvars
  BY DEF MCNext
<1> QED
  BY <1>1, <1>2, PTL DEF MCSpec, HSpec

LEMMA OtherScenario == MCSpec => (~(scenario = "sessions") => [](~(scenario = "sessions")))
<1>1. ~(scenario = "sessions") /\ [MCNext]_<<scenario, allvars>> => (~(scenario = "sessions"))'
  BY DEF MCNext
<1> QED
  BY <1>1, PTL DEF MCSpec

(***************************************************************************)
(* Sessions that end by silence, a stalled CTS line, a reset or another    *)
(* boot, at any point, leave nothing to the next one (SessionsAreFresh).   *)
(***************************************************************************)
THEOREM TheSessionsAreFresh == ~HookMayFail => (MCSpec => []SessionsAreFresh)
<1> SUFFICES ASSUME ~HookMayFail PROVE MCSpec => []SessionsAreFresh
  OBVIOUS
<1>1. HSpec => []NoFormerInSession
  BY SessionsStartEmpty
<1>2. NoFormerInSession \/ ~(scenario = "sessions") => SessionsAreFresh
  BY DEF SessionsAreFresh
<1> QED
  BY <1>1, <1>2, SessionsScenario, OtherScenario, PTL

(***************************************************************************)
(* The runtime implements CommandDelivery although sessions end at any     *)
(* point of a command's life (ImplementsDelivery).                         *)
(***************************************************************************)
THEOREM DeliveryIsImplemented == ~HookMayFail => (MCSpec => ImplementsDelivery)
<1> SUFFICES ASSUME ~HookMayFail PROVE MCSpec => ImplementsDelivery
  OBVIOUS
<1>1. HInit => Delivery!Init
  BY InitDelivers
<1>2. CoreInv /\ DeliveryInv /\ [HNext]_allvars => [Delivery!Next]_(Delivery!vars)
  BY StepDelivers, StutterDelivers, AbstractStep
<1>3. HSpec => []DeliveryInv
  BY DeliveryInvariant
<1>4. scenario = "sessions" /\ [MCNext]_<<scenario, allvars>>
        => (scenario = "sessions")' /\ [HNext]_allvars
  BY DEF MCNext
<1>5. CoreInv /\ DeliveryInv /\ [MCNext]_<<scenario, allvars>>
        => [scenario = "sessions" => [Delivery!Next]_(Delivery!vars)]_<<scenario, allvars>>
  BY <1>2, <1>4
<1>6. ~(scenario = "sessions") /\ [MCNext]_<<scenario, allvars>>
        => [scenario = "sessions" => [Delivery!Next]_(Delivery!vars)]_<<scenario, allvars>>
  OBVIOUS
<1>7. MCInit => (scenario = "sessions" => Delivery!Init)
  BY <1>1 DEF MCInit
<1>8. MCSpec => [](CoreInv /\ DeliveryInv) \/ [](~(scenario = "sessions"))
  BY <1>3, CoreInvariant, SessionsScenario, OtherScenario, PTL
<1> QED
  BY <1>5, <1>6, <1>7, <1>8, PTL DEF MCSpec, ImplementsDelivery
=============================================================================
