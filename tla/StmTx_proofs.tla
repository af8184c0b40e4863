---------------------------- MODULE StmTx_proofs ----------------------------
(***************************************************************************)
(* Proofs about the transmitter, for queues of any capacity, any messages  *)
(* and any sequence space: it is fail-closed (LossInhibits), of a state    *)
(* message only one value waits (StateCoalesced), and while the receiver   *)
(* counts in our numbers it refuses no P0 message (CriticalIsFresh).       *)
(***************************************************************************)
EXTENDS StmTx, SequenceTheorems, TLAPS

Numbers == Sequences \ {0}

\* The queues are sequences: what QueueAfter returns can be told from what it
\* was given only if that is known.
QueuesTyped ==
    /\ tx \in [queue   : [ClassNames -> Seq(Items)],
               current : Items \cup {NoItem},
               class   : ClassNames]
    /\ \A c \in ClassNames : Len(tx.queue[c]) <= QueueCapacity
    /\ next \in Numbers

\* No two elements of a sequence have the same key.
KeysDiffer(q) == \A i, j \in DOMAIN q : SameKey(q[i], q[j]) => i = j

TxInv == QueuesTyped /\ LossInhibits /\ StateCoalesced

-----------------------------------------------------------------------------
LEMMA ClassFacts ==
  /\ ClassNames = {"P0", "P1", "STATE", "RAW"}
  /\ "P0" \in ClassNames /\ "STATE" \in ClassNames /\ Critical \subseteq ClassNames
<1>1. /\ Classes[1] = "P0" /\ Classes[2] = "P1"
      /\ Classes[3] = "STATE" /\ Classes[4] = "RAW"
  BY DEF Classes
<1>2. 1 .. 4 = {1, 2, 3, 4}
  OBVIOUS
<1>3. ClassNames = {"P0", "P1", "STATE", "RAW"}
  BY <1>1, <1>2 DEF ClassNames
<1> QED
  BY <1>3 DEF Critical

\* The sequence space has room for a HELLO and a few more numbers.
LEMMA WidthFacts ==
  /\ Modulus \in Nat /\ HALF \in Nat /\ Modulus = 2 * HALF /\ HALF >= 3
  /\ Patience \in Nat /\ 1 <= Patience /\ Patience + 2 <= HALF
  /\ Numbers = 1 .. Modulus - 1 /\ 1 \in Numbers /\ 2 \in Numbers
<1>1. Modulus \in Nat /\ HALF \in Nat /\ Modulus = 2 * HALF
  BY WindowAssumption DEF HALF
<1>2. Patience \in Nat /\ 1 <= Patience /\ Patience + 2 <= HALF
  BY <1>1, StmTxAssumption
<1> QED
  BY <1>1, <1>2 DEF Numbers, Sequences

LEMMA ItemTyped ==
  ASSUME NEW key \in Keys \cup {HELLO}, NEW seq \in Numbers
  PROVE  Item(key, seq) \in Items
  BY DEF Item, Items, HELLO, Numbers

\* publish_tx_item, as far as types, length and contents go.
LEMMA QueueAfterFacts ==
  ASSUME NEW t, NEW class \in ClassNames, t.queue[class] \in Seq(Items),
         Len(t.queue[class]) <= QueueCapacity, NEW item \in Items
  PROVE  /\ QueueAfter(t, class, item) \in Seq(Items)
         /\ Len(QueueAfter(t, class, item)) <= QueueCapacity
         /\ Range(QueueAfter(t, class, item)) \subseteq Range(t.queue[class]) \cup {item}
<1> DEFINE q == t.queue[class]
           replaced == [i \in DOMAIN q |-> IF SameKey(q[i], item) THEN item ELSE q[i]]
<1>1. /\ q \in Seq(Items) /\ Len(q) \in Nat /\ DOMAIN q = 1 .. Len(q)
      /\ Len(q) <= QueueCapacity
      /\ Full(t, class) <=> Len(q) >= QueueCapacity
  BY DEF Full
<1>2. \/ QueueAfter(t, class, item) = q
      \/ QueueAfter(t, class, item) = replaced
      \/ ~Full(t, class) /\ QueueAfter(t, class, item) = Append(q, item)
      \/ Full(t, class) /\ QueueAfter(t, class, item) = Append(Tail(q), item)
  BY DEF QueueAfter
<1> HIDE DEF q
<1>3. /\ replaced \in Seq(Items) /\ Len(replaced) = Len(q)
      /\ Range(replaced) \subseteq Range(q) \cup {item}
  <2>1. \A i \in 1 .. Len(q) : replaced[i] \in Items /\ replaced[i] \in {q[i], item}
    BY <1>1
  <2>2. replaced \in [1 .. Len(q) -> Items]
    BY <1>1, <2>1
  <2>3. replaced \in Seq(Items) /\ DOMAIN replaced = 1 .. Len(q)
    BY <1>1, <2>2
  <2>4. Len(replaced) = Len(q)
    BY <2>3, <1>1, LenProperties
  <2> HIDE DEF replaced
  <2> QED
    BY <1>1, <2>1, <2>3, <2>4 DEF Range
<1>4. /\ Append(q, item) \in Seq(Items) /\ Len(Append(q, item)) = Len(q) + 1
      /\ Range(Append(q, item)) \subseteq Range(q) \cup {item}
  <2> DEFINE a == Append(q, item)
  <2>1. /\ a \in Seq(Items) /\ Len(a) = Len(q) + 1 /\ DOMAIN a = 1 .. Len(q) + 1
        /\ \A i \in 1 .. Len(q) : a[i] = q[i]
        /\ a[Len(q) + 1] = item
    BY <1>1
  <2> HIDE DEF a
  <2>2. \A i \in DOMAIN a : a[i] \in Range(q) \cup {item}
    BY <2>1, <1>1 DEF Range
  <2> QED
    BY <2>1, <2>2 DEF Range, a
<1>5. Full(t, class) =>
        /\ Append(Tail(q), item) \in Seq(Items)
        /\ Len(Append(Tail(q), item)) = Len(q)
        /\ Range(Append(Tail(q), item)) \subseteq Range(q) \cup {item}
  <2> SUFFICES ASSUME Full(t, class)
               PROVE  /\ Append(Tail(q), item) \in Seq(Items)
                      /\ Len(Append(Tail(q), item)) = Len(q)
                      /\ Range(Append(Tail(q), item)) \subseteq Range(q) \cup {item}
    OBVIOUS
  <2>1. q # <<>>
    BY <1>1, QueueAssumption
  <2> DEFINE r == Tail(q)
             a == Append(Tail(q), item)
  <2>2. /\ r \in Seq(Items) /\ Len(r) = Len(q) - 1 /\ DOMAIN r = 1 .. Len(q) - 1
        /\ \A i \in 1 .. Len(q) - 1 : r[i] = q[i + 1]
    BY <1>1, <2>1
  <2>3. /\ a \in Seq(Items) /\ Len(a) = Len(q) /\ DOMAIN a = 1 .. Len(q)
        /\ \A i \in 1 .. Len(q) - 1 : a[i] = r[i]
        /\ a[Len(q)] = item
    BY <1>1, <2>1, <2>2
  <2> HIDE DEF a, r
  <2>4. \A i \in DOMAIN a : a[i] \in Range(q) \cup {item}
    <3> TAKE i \in DOMAIN a
    <3>1. CASE i = Len(q)
      BY <3>1, <2>3
    <3>2. CASE i # Len(q)
      <4>1. i \in 1 .. Len(q) - 1 /\ i + 1 \in DOMAIN q
        BY <3>2, <2>3, <1>1
      <4> QED
        BY <4>1, <2>2, <2>3 DEF Range
    <3> QED
      BY <3>1, <3>2
  <2> QED
    BY <2>3, <2>4 DEF Range, a
<1> HIDE DEF replaced
<1>6. QueueCapacity \in Nat
  BY QueueAssumption
<1> DEFINE after == QueueAfter(t, class, item)
<1> HIDE DEF after
<1>7. after \in Seq(Items) /\ Len(after) <= QueueCapacity
  <2>1. CASE after = q
    BY <2>1, <1>1
  <2>2. CASE after = replaced
    BY <2>2, <1>1, <1>3
  <2>3. CASE ~Full(t, class) /\ after = Append(q, item)
    <3>1. Len(q) + 1 <= QueueCapacity
      BY <2>3, <1>1, <1>6
    <3> QED
      BY <2>3, <3>1, <1>4
  <2>4. CASE Full(t, class) /\ after = Append(Tail(q), item)
    BY <2>4, <1>1, <1>5
  <2> QED
    BY <1>2, <2>1, <2>2, <2>3, <2>4 DEF after
<1>8. Range(after) \subseteq Range(q) \cup {item}
  BY <1>2, <1>3, <1>4, <1>5 DEF after
<1> QED
  BY <1>7, <1>8 DEF q, after

\* A message of class P0 or P1 that does not lengthen the queue was refused.
LEMMA CriticalGrows ==
  ASSUME NEW t, NEW class \in Critical, t.queue[class] \in Seq(Items),
         NEW item, QueueAfter(t, class, item) = t.queue[class]
  PROVE  Refused(t, class, item)
<1>1. SUFFICES ASSUME ~Refused(t, class, item) PROVE FALSE
  OBVIOUS
<1>2. class # "RAW" /\ class # "STATE"
  BY DEF Critical
<1>3. ~Full(t, class) /\ ~Coalesces(t, class, item)
  BY <1>1, <1>2 DEF Refused, Coalesces
<1>4. QueueAfter(t, class, item) = Append(t.queue[class], item)
  BY <1>1, <1>3 DEF QueueAfter
<1>5. Len(Append(t.queue[class], item)) = Len(t.queue[class]) + 1
      /\ Len(t.queue[class]) \in Nat
  OBVIOUS
<1> QED
  BY <1>4, <1>5

\* The same key is never queued twice in class STATE.
LEMMA StateStaysCoalesced ==
  ASSUME NEW t, t.queue["STATE"] \in Seq(Items), KeysDiffer(t.queue["STATE"]),
         NEW item \in Items
  PROVE  KeysDiffer(QueueAfter(t, "STATE", item))
<1> DEFINE q == t.queue["STATE"]
           replaced == [i \in DOMAIN q |-> IF SameKey(q[i], item) THEN item ELSE q[i]]
<1>1. CASE Refused(t, "STATE", item)
  BY <1>1 DEF QueueAfter
<1>2. CASE ~Refused(t, "STATE", item) /\ Coalesces(t, "STATE", item)
  <2>1. QueueAfter(t, "STATE", item) = replaced
    BY <1>2 DEF QueueAfter
  <2>2. /\ DOMAIN replaced = DOMAIN q /\ KeysDiffer(q)
        /\ \A i \in DOMAIN q : /\ replaced[i].type = q[i].type
                               /\ replaced[i].corr = q[i].corr
    BY DEF SameKey
  <2> HIDE DEF q, replaced
  <2>3. KeysDiffer(replaced)
    BY <2>2 DEF KeysDiffer, SameKey
  <2> QED
    BY <2>1, <2>3
<1>3. CASE ~Refused(t, "STATE", item) /\ ~Coalesces(t, "STATE", item)
  <2>1. QueueAfter(t, "STATE", item) = Append(q, item)
    BY <1>3 DEF QueueAfter, Refused
  <2>2. \A i \in DOMAIN q : ~SameKey(q[i], item) /\ ~SameKey(item, q[i])
    BY <1>3 DEF Coalesces, SameKey
  <2> DEFINE a == Append(q, item)
  <2>3. /\ DOMAIN a = 1 .. Len(q) + 1 /\ DOMAIN q = 1 .. Len(q) /\ Len(q) \in Nat
        /\ \A i \in 1 .. Len(q) : a[i] = q[i]
        /\ a[Len(q) + 1] = item
    OBVIOUS
  <2> HIDE DEF a
  <2>4. KeysDiffer(q)
    OBVIOUS
  <2> HIDE DEF q
  <2>5. ASSUME NEW i \in DOMAIN a, NEW j \in DOMAIN a, SameKey(a[i], a[j])
        PROVE  i = j
    <3>1. CASE i \in DOMAIN q /\ j \in DOMAIN q
      BY <2>3, <2>4, <2>5, <3>1 DEF KeysDiffer
    <3>2. CASE i \notin DOMAIN q \/ j \notin DOMAIN q
      BY <2>2, <2>3, <2>5, <3>2
    <3> QED
      BY <3>1, <3>2
  <2> QED
    BY <2>1, <2>5 DEF KeysDiffer, a, q
<1> QED
  BY <1>1, <1>2, <1>3

\* A transmitter cleared for a new HELLO holds nothing else.
Cleared(seq) == Published(EmptyTx, "P0", Item(HELLO, seq))

LEMMA ClearedTyped ==
  ASSUME NEW seq \in Numbers
  PROVE  /\ Cleared(seq) \in [queue   : [ClassNames -> Seq(Items)],
                              current : Items \cup {NoItem},
                              class   : ClassNames]
         /\ Cleared(seq).current = NoItem
         /\ Cleared(seq).queue["P0"] = <<Item(HELLO, seq)>>
         /\ \A c \in ClassNames : /\ c # "P0" => Cleared(seq).queue[c] = <<>>
                                  /\ Len(Cleared(seq).queue[c]) <= QueueCapacity
<1> DEFINE item == Item(HELLO, seq)
           queues == [EmptyTx.queue EXCEPT !["P0"] = <<item>>]
<1>1. item \in Items
  BY ItemTyped
<1>2. /\ EmptyTx.queue \in [ClassNames -> Seq(Items)]
      /\ EmptyTx = [queue |-> EmptyTx.queue, current |-> NoItem, class |-> "P0"]
      /\ \A c \in ClassNames : EmptyTx.queue[c] = <<>>
  BY ClassFacts DEF EmptyTx
<1>3. QueueAfter(EmptyTx, "P0", item) = <<item>>
  <2>1. ~Refused(EmptyTx, "P0", item) /\ ~Coalesces(EmptyTx, "P0", item)
        /\ ~Full(EmptyTx, "P0")
    BY <1>2, ClassFacts, QueueAssumption DEF Refused, Coalesces, Full
  <2>2. QueueAfter(EmptyTx, "P0", item) = Append(<<>>, item)
    BY <1>2, <2>1, ClassFacts DEF QueueAfter
  <2> QED
    BY <1>1, <2>2
<1>4. <<item>> \in Seq(Items) /\ Len(<<item>>) = 1
  BY <1>1
<1> HIDE DEF item
<1>5. Cleared(seq) = [queue |-> queues, current |-> NoItem, class |-> "P0"]
  BY <1>2, <1>3 DEF Cleared, Published, item
<1>6. /\ queues \in [ClassNames -> Seq(Items)]
      /\ \A c \in ClassNames : queues[c] = IF c = "P0" THEN <<item>> ELSE <<>>
  BY <1>2, <1>4, ClassFacts
<1> HIDE DEF queues
<1>7. \A c \in ClassNames : Len(queues[c]) <= QueueCapacity
  <2>1. Len(<<>>) <= QueueCapacity /\ Len(<<item>>) <= QueueCapacity
    BY <1>4, QueueAssumption
  <2> QED
    BY <1>6, <2>1
<1> QED
  BY <1>5, <1>6, <1>7, ClassFacts DEF item
-----------------------------------------------------------------------------
LEMMA NextTyped == ASSUME NEW s \in Numbers PROVE NextSequence(s) \in Numbers
  BY WidthFacts DEF NextSequence

LEMMA InitTxInv == Init => TxInv
<1> SUFFICES ASSUME Init PROVE TxInv
  OBVIOUS
<1>1. /\ tx = Cleared(1) /\ next = 2 /\ lost = FALSE
      /\ 1 \in Numbers /\ 2 \in Numbers
  BY WidthFacts DEF Init, Cleared
<1>2. tx.queue["STATE"] = <<>>
  BY <1>1, ClearedTyped, ClassFacts
<1>3. QueuesTyped
  BY <1>1, ClearedTyped DEF QueuesTyped
<1> QED
  BY <1>1, <1>2, <1>3 DEF TxInv, LossInhibits, StateCoalesced

\* A message offered to a queue: the step that can lose one without a transfer.
LEMMA EnqueueInv ==
  ASSUME TxInv, NEW class \in ClassNames, NEW key \in Keys, Enqueue(class, key)
  PROVE  TxInv'
<1> DEFINE item == Item(key, next)
           after == QueueAfter(tx, class, item)
<1>1. /\ item \in Items
      /\ \A c \in ClassNames : tx.queue[c] \in Seq(Items)
  BY ItemTyped DEF TxInv, QueuesTyped
<1>2. after \in Seq(Items) /\ Len(after) <= QueueCapacity
  BY <1>1, QueueAfterFacts DEF TxInv, QueuesTyped
<1>3. /\ tx' = [tx EXCEPT !.queue[class] = after]
      /\ next' = NextSequence(next)
      /\ inhibited' = (inhibited \/ Overflows(tx, class, item))
      /\ lost' = (lost \/ (class \in Critical /\ tx' = tx))
  BY DEF Enqueue, Published
<1> HIDE DEF item
<1> HIDE DEF after
<1>4. /\ tx'.queue[class] = after
      /\ \A c \in ClassNames : c # class => tx'.queue[c] = tx.queue[c]
  BY <1>3 DEF TxInv, QueuesTyped
<1>5. QueuesTyped'
  <2>1. tx' \in [queue   : [ClassNames -> Seq(Items)],
                 current : Items \cup {NoItem}, class : ClassNames]
    BY <1>2, <1>3 DEF TxInv, QueuesTyped
  <2>2. \A c \in ClassNames : Len(tx'.queue[c]) <= QueueCapacity
    BY <1>2, <1>4 DEF TxInv, QueuesTyped
  <2>3. next' \in Numbers
    BY <1>3, NextTyped DEF TxInv, QueuesTyped
  <2> QED
    BY <2>1, <2>2, <2>3 DEF QueuesTyped
<1>6. LossInhibits'
  <2>1. CASE class \in Critical /\ tx' = tx
    <3>1. after = tx.queue[class]
      BY <2>1, <1>4
    <3>2. Refused(tx, class, item)
      BY <2>1, <3>1, <1>1, CriticalGrows DEF after
    <3> QED
      BY <2>1, <3>2, <1>3 DEF Overflows, LossInhibits
  <2>2. CASE ~(class \in Critical /\ tx' = tx)
    BY <2>2, <1>3 DEF TxInv, LossInhibits
  <2> QED
    BY <2>1, <2>2
<1>7. KeysDiffer(tx'.queue["STATE"])
  <2>1. KeysDiffer(tx.queue["STATE"])
    BY DEF TxInv, StateCoalesced, KeysDiffer
  <2>2. CASE class = "STATE"
    BY <2>1, <2>2, <1>1, <1>4, ClassFacts, StateStaysCoalesced DEF after
  <2>3. CASE class # "STATE"
    BY <2>1, <2>3, <1>4, ClassFacts
  <2> QED
    BY <2>2, <2>3
<1> QED
  BY <1>5, <1>6, <1>7 DEF TxInv, StateCoalesced, KeysDiffer

\* The first message of a class goes into transfer.
LEMMA BeginInv ==
  ASSUME TxInv, NEW class \in ClassNames, Begin(class) PROVE TxInv'
<1> DEFINE q == tx.queue[class]
<1>1. /\ q \in Seq(Items) /\ q # <<>>
      /\ tx' = [tx EXCEPT !.current = Head(q), !.class = class, !.queue[class] = Tail(q)]
      /\ UNCHANGED <<next, inhibited, lost>>
  BY DEF Begin, Selected, Begun, TxInv, QueuesTyped
<1>2. /\ Head(q) \in Items /\ Tail(q) \in Seq(Items)
      /\ Len(q) \in Nat /\ DOMAIN q = 1 .. Len(q)
      /\ DOMAIN Tail(q) = 1 .. Len(q) - 1
      /\ \A i \in 1 .. Len(q) - 1 : Tail(q)[i] = q[i + 1]
  BY <1>1
<1>3. /\ tx'.queue[class] = Tail(q)
      /\ \A c \in ClassNames : c # class => tx'.queue[c] = tx.queue[c]
  BY <1>1 DEF TxInv, QueuesTyped
<1>4. QueuesTyped'
  <2>1. tx' \in [queue   : [ClassNames -> Seq(Items)],
                 current : Items \cup {NoItem}, class : ClassNames]
    BY <1>1, <1>2 DEF TxInv, QueuesTyped
  <2>2. Len(Tail(q)) = Len(q) - 1 /\ Len(q) <= QueueCapacity /\ QueueCapacity \in Nat
    BY <1>1, QueueAssumption DEF TxInv, QueuesTyped
  <2>3. Len(Tail(q)) <= QueueCapacity
    BY <1>2, <2>2
  <2> HIDE DEF q
  <2>4. \A c \in ClassNames : Len(tx'.queue[c]) <= QueueCapacity
    BY <1>3, <2>3 DEF TxInv, QueuesTyped
  <2> QED
    BY <1>1, <2>1, <2>4 DEF TxInv, QueuesTyped
<1>5. KeysDiffer(tx'.queue["STATE"])
  <2>1. KeysDiffer(tx.queue["STATE"])
    BY DEF TxInv, StateCoalesced, KeysDiffer
  <2>2. CASE class = "STATE"
    <3>1. KeysDiffer(q)
      BY <2>1, <2>2
    <3> HIDE DEF q
    <3>2. ASSUME NEW i \in 1 .. Len(q) - 1, NEW j \in 1 .. Len(q) - 1,
                 SameKey(Tail(q)[i], Tail(q)[j])
          PROVE  i = j
      <4>1. i + 1 \in DOMAIN q /\ j + 1 \in DOMAIN q
        BY <1>2
      <4>2. SameKey(q[i + 1], q[j + 1])
        BY <3>2, <1>2
      <4>3. i + 1 = j + 1
        BY <3>1, <4>1, <4>2 DEF KeysDiffer
      <4> QED
        BY <4>3
    <3>3. KeysDiffer(Tail(q))
      BY <3>2, <1>2 DEF KeysDiffer
    <3> QED
      BY <2>2, <3>3, <1>3
  <2>3. CASE class # "STATE"
    BY <2>1, <2>3, <1>3, ClassFacts
  <2> QED
    BY <2>2, <2>3
<1>6. LossInhibits'
  BY <1>1 DEF TxInv, LossInhibits
<1> QED
  BY <1>4, <1>5, <1>6 DEF TxInv, StateCoalesced, KeysDiffer

\* A transfer ends: only the item in it changes.
LEMMA FinishInv ==
  ASSUME TxInv, tx' = Finished(tx), UNCHANGED next, lost' => inhibited'
  PROVE  TxInv'
<1>1. tx' = [tx EXCEPT !.current = NoItem]
  BY DEF Finished
<1>2. QueuesTyped' /\ tx'.queue = tx.queue
  BY <1>1 DEF TxInv, QueuesTyped
<1> QED
  BY <1>2 DEF TxInv, LossInhibits, StateCoalesced

\* Everything is dropped for a new HELLO.
LEMMA ClearInv ==
  ASSUME TxInv, NEW seq \in Numbers, tx' = Cleared(seq),
         next' \in Numbers, UNCHANGED <<inhibited, lost>>
  PROVE  TxInv'
<1>1. QueuesTyped'
  BY ClearedTyped DEF QueuesTyped
<1>2. tx'.queue["STATE"] = <<>>
  BY ClearedTyped, ClassFacts
<1> QED
  BY <1>1, <1>2 DEF TxInv, LossInhibits, StateCoalesced

LEMMA NextTxInv == TxInv /\ [Next]_vars => TxInv'
<1> SUFFICES ASSUME TxInv, [Next]_vars PROVE TxInv'
  OBVIOUS
<1>1. ASSUME NEW arrives \in BOOLEAN, FinishSent(arrives) PROVE TxInv'
  <2>1. tx' = Finished(tx) /\ UNCHANGED <<next, inhibited, lost>>
    BY <1>1 DEF FinishSent
  <2> QED
    BY <2>1, FinishInv DEF TxInv, LossInhibits
<1>2. CASE FinishFailed
  <2>1. /\ tx' = Finished(tx) /\ UNCHANGED next
        /\ inhibited' = (inhibited \/ tx.class \in Critical)
        /\ lost' = (lost \/ tx.class \in Critical)
    BY <1>2 DEF FinishFailed
  <2> QED
    BY <2>1, FinishInv DEF TxInv, LossInhibits
<1>3. CASE Recover
  <2>1. /\ tx' = Cleared(next)
        /\ next' = NextSequence(next) /\ UNCHANGED <<inhibited, lost>>
    BY <1>3 DEF Recover, Cleared
  <2>2. next \in Numbers /\ next' \in Numbers
    BY <2>1, NextTyped DEF TxInv, QueuesTyped
  <2> QED
    BY <2>1, <2>2, ClearInv
<1>4. CASE Reset
  <2>1. /\ tx' = Cleared(1)
        /\ next' = 2 /\ UNCHANGED <<inhibited, lost>>
    BY <1>4 DEF Reset, Cleared
  <2> QED
    BY <2>1, ClearInv, WidthFacts
<1>5. CASE UNCHANGED vars
  BY <1>5 DEF vars, TxInv, QueuesTyped, LossInhibits, StateCoalesced
<1>6. CASE LineChanges
  BY <1>6 DEF LineChanges, TxInv, QueuesTyped, LossInhibits, StateCoalesced
<1> QED
  BY <1>1, <1>2, <1>3, <1>4, <1>5, <1>6, EnqueueInv, BeginInv DEF Next

-----------------------------------------------------------------------------
(* Numbers wrap, so they are compared by their age: how many numbers ago   *)
(* one was given away.                                                     *)

Age(seq) == Distance(seq, next)

Recent(seq) == Age(seq) \in 1 .. Patience + 1

\* What waits is recent, and P0 is in the order of its numbers.
QueuesInOrder ==
    /\ \A c \in ClassNames : \A i \in DOMAIN tx.queue[c] : Recent(tx.queue[c][i].seq)
    /\ \A i, j \in DOMAIN tx.queue["P0"] :
          i < j => Age(tx.queue["P0"][i].seq) > Age(tx.queue["P0"][j].seq)

\* P0 had nothing to send, or this, when the transfer began.
TransferIsOlder ==
    tx.current # NoItem =>
        /\ Recent(tx.current.seq)
        /\ \A i \in DOMAIN tx.queue["P0"] : Age(tx.current.seq) > Age(tx.queue["P0"][i].seq)

\* The newest number the receiver knows is one of the present numbering.
Followed == peer.initialized /\ ~renumbered

\* Then all the receiver has seen is older than the P0 messages to come.
PeerIsBehind ==
    Followed =>
        /\ Recent(peer.newest)
        /\ \A i \in DOMAIN tx.queue["P0"] : Age(peer.newest) > Age(tx.queue["P0"][i].seq)
        /\ tx.current # NoItem /\ tx.class = "P0" => Age(peer.newest) > Age(tx.current.seq)

PeerTyped ==
    /\ peer \in Window /\ renumbered \in BOOLEAN /\ blocked \in BOOLEAN
    /\ inhibited \in BOOLEAN /\ lost \in BOOLEAN

FreshInv == PeerTyped /\ QueuesInOrder /\ TransferIsOlder /\ PeerIsBehind

LEMMA DistanceLaw ==
  ASSUME NEW a \in Sequences, NEW b \in Sequences
  PROVE  /\ Distance(a, b) = IF b >= a THEN b - a ELSE b - a + Modulus
         /\ Distance(a, b) \in Sequences
<1>1. /\ Modulus \in Nat /\ Modulus > 0 /\ a \in Int /\ b \in Int
      /\ 0 <= a /\ a < Modulus /\ 0 <= b /\ b < Modulus
  BY WidthFacts DEF Sequences
<1>2. CASE b >= a
  <2>1. (b - a) % Modulus = b - a
    BY <1>1, <1>2
  <2> QED
    BY <1>1, <1>2, <2>1 DEF Distance, Sequences
<1>3. CASE ~(b >= a)
  <2>1. (b - a) % Modulus = b - a + Modulus
    BY <1>1, <1>3
  <2> QED
    BY <1>1, <1>3, <2>1 DEF Distance, Sequences
<1> QED
  BY <1>2, <1>3

\* Giving a number away ages the others alike, by 2 where 0 is left out.
LEMMA AgesGrow ==
  ASSUME NEW n \in Numbers, NEW m, m = NextSequence(n)
  PROVE  \E d \in {1, 2} :
            /\ Distance(n, m) = d
            /\ \A s \in Sequences :
                  Distance(s, n) < Patience => Distance(s, m) = Distance(s, n) + d
<1>1. n \in 1 .. Modulus - 1 /\ m \in 1 .. Modulus - 1 /\ n \in Sequences /\ m \in Sequences
  BY NextTyped, WidthFacts DEF Sequences
<1>2. CASE n = Modulus - 1
  <2>1. m = 1
    BY <1>2 DEF NextSequence
  <2>2. Distance(n, m) = 2
    BY <1>1, <1>2, <2>1, DistanceLaw, WidthFacts
  <2>3. ASSUME NEW s \in Sequences, Distance(s, n) < Patience
        PROVE  Distance(s, m) = Distance(s, n) + 2
    <3>1. s \in 0 .. Modulus - 1
      BY DEF Sequences
    <3>2. /\ Distance(s, n) = IF n >= s THEN n - s ELSE n - s + Modulus
          /\ Distance(s, m) = IF m >= s THEN m - s ELSE m - s + Modulus
      BY <1>1, DistanceLaw
    <3> QED
      BY <1>1, <1>2, <2>1, <2>3, <3>1, <3>2, WidthFacts
  <2> QED
    BY <2>2, <2>3
<1>3. CASE n # Modulus - 1
  <2>1. m = n + 1
    BY <1>3 DEF NextSequence
  <2>2. Distance(n, m) = 1
    BY <1>1, <2>1, DistanceLaw, WidthFacts
  <2>3. ASSUME NEW s \in Sequences, Distance(s, n) < Patience
        PROVE  Distance(s, m) = Distance(s, n) + 1
    <3>1. s \in 0 .. Modulus - 1
      BY DEF Sequences
    <3>2. /\ Distance(s, n) = IF n >= s THEN n - s ELSE n - s + Modulus
          /\ Distance(s, m) = IF m >= s THEN m - s ELSE m - s + Modulus
      BY <1>1, DistanceLaw
    <3> QED
      BY <1>1, <1>3, <2>1, <2>3, <3>1, <3>2, WidthFacts
  <2> QED
    BY <2>2, <2>3
<1> QED
  BY <1>2, <1>3

\* The window passes what is newer than its newest by less than half the space.
LEMMA NewerIsPassed ==
  ASSUME NEW w \in Window, NEW seq \in Sequences, NEW n \in Sequences,
         Distance(seq, n) >= 1,
         w.initialized => /\ Distance(w.newest, n) <= Patience + 1
                          /\ Distance(w.newest, n) > Distance(seq, n)
  PROVE  WindowStatus(w, seq) = "OK"
<1>1. CASE ~w.initialized
  BY <1>1 DEF WindowStatus
<1>2. CASE w.initialized
  <2> DEFINE a == w.newest
             forward == Distance(a, seq)
  <2>1. a \in Sequences
    BY DEF Window
  <2>2. /\ forward = IF seq >= a THEN seq - a ELSE seq - a + Modulus
        /\ Distance(a, n) = IF n >= a THEN n - a ELSE n - a + Modulus
        /\ Distance(seq, n) = IF n >= seq THEN n - seq ELSE n - seq + Modulus
    BY <2>1, DistanceLaw
  <2>3. /\ a \in 0 .. Modulus - 1 /\ seq \in 0 .. Modulus - 1 /\ n \in 0 .. Modulus - 1
    BY <2>1 DEF Sequences
  <2>4. Distance(a, n) <= Patience + 1 /\ Distance(a, n) > Distance(seq, n)
    BY <1>2
  <2> HIDE DEF a, forward
  <2>5. forward \in 1 .. HALF - 1
    BY <2>2, <2>3, <2>4, WidthFacts
  <2>6. forward # 0 /\ ~(forward >= HALF)
    BY <2>5, WidthFacts
  <2> QED
    BY <1>2, <2>5, <2>6 DEF WindowStatus, forward, a
<1> QED
  BY <1>1, <1>2 DEF Window

LEMMA WindowAfterFacts ==
  ASSUME NEW w \in Window, NEW seq \in Sequences
  PROVE  /\ WindowAfter(w, seq) \in Window
         /\ WindowAfter(w, seq).initialized
               => \/ w.initialized /\ WindowAfter(w, seq).newest = w.newest
                  \/ WindowAfter(w, seq).newest = seq
<1> DEFINE forward == Distance(w.newest, seq)
           age == Distance(seq, w.newest)
<1>1. /\ w.initialized \in BOOLEAN /\ w.newest \in Sequences
      /\ w.seen \in SUBSET (0 .. WindowSize - 1) /\ WindowSize \in Nat \ {0}
      /\ w = [initialized |-> w.initialized, newest |-> w.newest, seen |-> w.seen]
  BY WindowAssumption DEF Window
<1>2. forward \in Nat /\ age \in Nat
  BY <1>1, DistanceLaw, WidthFacts DEF Sequences
<1>3. CASE WindowStatus(w, seq) # "OK"
  BY <1>3 DEF WindowAfter
<1>4. CASE WindowStatus(w, seq) = "OK" /\ ~w.initialized
  <2>1. WindowAfter(w, seq) = [initialized |-> TRUE, newest |-> seq, seen |-> {0}]
    BY <1>4 DEF WindowAfter
  <2> QED
    BY <1>1, <2>1 DEF Window
<1>5. CASE WindowStatus(w, seq) = "OK" /\ w.initialized /\ forward < HALF
  <2> DEFINE seen == Shifted(w.seen, forward)
  <2>1. WindowAfter(w, seq) = [w EXCEPT !.newest = seq, !.seen = seen]
    BY <1>5 DEF WindowAfter
  <2>2. seen \in SUBSET (0 .. WindowSize - 1)
    BY <1>1, <1>2 DEF Shifted
  <2> HIDE DEF seen
  <2> QED
    BY <1>1, <2>1, <2>2 DEF Window
<1>6. CASE WindowStatus(w, seq) = "OK" /\ w.initialized /\ ~(forward < HALF)
  <2> DEFINE seen == w.seen \cup {age}
  <2>1. WindowAfter(w, seq) = [w EXCEPT !.seen = seen]
    BY <1>6 DEF WindowAfter
  <2>2. age < WindowSize
    <3>1. forward >= HALF /\ forward # 0 /\ forward \notin 1 .. HALF - 1
      BY <1>2, <1>6, WidthFacts
    <3> QED
      BY <1>1, <1>2, <1>6, <3>1 DEF WindowStatus
  <2>3. seen \in SUBSET (0 .. WindowSize - 1)
    BY <1>1, <1>2, <2>2
  <2> HIDE DEF seen
  <2> QED
    BY <1>1, <1>6, <2>1, <2>3 DEF Window
<1> QED
  BY <1>1, <1>3, <1>4, <1>5, <1>6

LEMMA ItemFacts ==
  ASSUME QueuesTyped
  PROVE  /\ \A c \in ClassNames : \A i \in DOMAIN tx.queue[c] :
               tx.queue[c][i].seq \in Sequences /\ tx.queue[c][i] \in Waiting
         /\ tx.current # NoItem => tx.current.seq \in Sequences /\ tx.current \in Waiting
<1>1. \A item \in Items : item.seq \in Sequences
  BY DEF Items
<1>2. \A c \in ClassNames : tx.queue[c] \in Seq(Items)
  BY DEF QueuesTyped
<1>3. tx.current # NoItem => tx.current \in Items
  BY DEF QueuesTyped
<1>4. \A c \in ClassNames : \A i \in DOMAIN tx.queue[c] : tx.queue[c][i] \in Items
  BY <1>2
<1>5. \A c \in ClassNames : \A i \in DOMAIN tx.queue[c] : tx.queue[c][i] \in Waiting
  BY DEF Waiting, Range
<1>6. tx.current # NoItem => tx.current \in Waiting
  BY DEF Waiting
<1> QED
  BY <1>1, <1>3, <1>4, <1>5, <1>6

LEMMA InitFresh == Init => FreshInv
<1> SUFFICES ASSUME Init PROVE FreshInv
  OBVIOUS
<1>1. /\ tx = Cleared(1) /\ next = 2 /\ peer = window_reset /\ renumbered = FALSE
      /\ blocked \in BOOLEAN /\ inhibited = FALSE /\ lost = FALSE
  BY DEF Init, Cleared
<1>2. /\ tx.current = NoItem /\ tx.queue["P0"] = <<Item(HELLO, 1)>>
      /\ \A c \in ClassNames : c # "P0" => tx.queue[c] = <<>>
  BY <1>1, ClearedTyped, WidthFacts
<1>3. Recent(1)
  <2>1. 1 \in Sequences /\ 2 \in Sequences
    BY WidthFacts DEF Numbers
  <2>2. Distance(1, 2) = 1
    BY <2>1, DistanceLaw
  <2> QED
    BY <1>1, <2>2, WidthFacts DEF Recent, Age
<1>4. QueuesInOrder
  BY <1>2, <1>3 DEF QueuesInOrder, Item
<1>5. peer \in Window /\ ~peer.initialized
  BY <1>1, WidthFacts DEF Window, window_reset, Sequences
<1> QED
  BY <1>1, <1>2, <1>4, <1>5
     DEF FreshInv, PeerTyped, TransferIsOlder, PeerIsBehind, Followed

\* A queue of P0 refuses a message or appends it.
LEMMA CriticalAppends ==
  ASSUME NEW t, NEW class \in ClassNames, class = "P0", NEW item
  PROVE  QueueAfter(t, class, item) \in {t.queue[class], Append(t.queue[class], item)}
<1>1. ~Coalesces(t, class, item)
  BY DEF Coalesces
<1>2. Refused(t, class, item) <=> Full(t, class)
  BY <1>1 DEF Refused
<1> QED
  BY <1>1, <1>2 DEF QueueAfter

LEMMA EnqueueFresh ==
  ASSUME TxInv, FreshInv, NEW class \in ClassNames, NEW key \in Keys, Enqueue(class, key)
  PROVE  FreshInv'
<1> DEFINE item == Item(key, next)
           after == QueueAfter(tx, class, item)
           p == tx.queue["P0"]
           age(s) == Distance(s, next)
           aged(s) == Distance(s, next')
           recent == 1 .. Patience + 1
<1>1. /\ item \in Items /\ item.seq = next /\ next \in Numbers /\ next \in Sequences
      /\ \A c \in ClassNames : tx.queue[c] \in Seq(Items)
  BY ItemTyped DEF TxInv, QueuesTyped, Item, Numbers
<1>2. /\ after \in Seq(Items)
      /\ Range(after) \subseteq Range(tx.queue[class]) \cup {item}
  BY <1>1, QueueAfterFacts DEF TxInv, QueuesTyped
<1>3. /\ tx' = [tx EXCEPT !.queue[class] = after]
      /\ WithinPatience /\ next' = NextSequence(next)
      /\ UNCHANGED <<peer, renumbered, blocked>>
      /\ inhibited' \in BOOLEAN /\ lost' \in BOOLEAN
  BY DEF Enqueue, Published, FreshInv, PeerTyped
<1>4. class = "P0" => after \in {p, Append(p, item)}
  BY CriticalAppends
<1> HIDE DEF item, after
<1>5. /\ tx'.queue[class] = after /\ tx'.current = tx.current /\ tx'.class = tx.class
      /\ \A c \in ClassNames : c # class => tx'.queue[c] = tx.queue[c]
  BY <1>3 DEF TxInv, QueuesTyped
<1>6. PICK d \in {1, 2} : /\ aged(next) = d
                          /\ \A s \in Sequences : age(s) < Patience => aged(s) = age(s) + d
  BY <1>1, <1>3, AgesGrow
<1>7. /\ \A c \in ClassNames : \A i \in DOMAIN tx.queue[c] :
            /\ tx.queue[c][i].seq \in Sequences
            /\ age(tx.queue[c][i].seq) < Patience /\ age(tx.queue[c][i].seq) \in recent
      /\ tx.current # NoItem =>
            /\ tx.current.seq \in Sequences
            /\ age(tx.current.seq) < Patience /\ age(tx.current.seq) \in recent
      /\ Followed =>
            /\ peer.newest \in Sequences
            /\ age(peer.newest) < Patience /\ age(peer.newest) \in recent
  <2>1. QueuesTyped /\ peer \in Window
    BY DEF TxInv, FreshInv, PeerTyped
  <2>2. peer.newest \in Sequences
    BY <2>1 DEF Window
  <2>3. /\ \A x \in Waiting : age(x.seq) < Patience
        /\ Followed => age(peer.newest) < Patience
    BY <1>3 DEF WithinPatience, Followed
  <2>4. /\ \A c \in ClassNames : \A i \in DOMAIN tx.queue[c] : age(tx.queue[c][i].seq) \in recent
        /\ tx.current # NoItem => age(tx.current.seq) \in recent
        /\ Followed => age(peer.newest) \in recent
    BY DEF FreshInv, QueuesInOrder, TransferIsOlder, PeerIsBehind, Recent, Age
  <2> QED
    BY <2>1, <2>2, <2>3, <2>4, ItemFacts
<1>8. d \in recent
  BY WidthFacts
<1>9. \A s \in Sequences : age(s) < Patience /\ age(s) \in recent =>
         aged(s) = age(s) + d /\ aged(s) \in recent /\ aged(s) > d
  <2> TAKE s \in Sequences
  <2> HAVE age(s) < Patience /\ age(s) \in recent
  <2>1. aged(s) = age(s) + d
    BY <1>6
  <2> HIDE DEF age, aged
  <2> QED
    BY <2>1, WidthFacts
<1>10. \A i \in DOMAIN p : /\ aged(p[i].seq) = age(p[i].seq) + d /\ aged(p[i].seq) > d
                           /\ age(p[i].seq) \in recent
  BY <1>7, <1>9, ClassFacts
<1>11. \A i, j \in DOMAIN p : i < j => age(p[i].seq) > age(p[j].seq)
  BY DEF FreshInv, QueuesInOrder, Age
<1>12. \A c \in ClassNames : \A i \in DOMAIN tx'.queue[c] : aged(tx'.queue[c][i].seq) \in recent
  <2>1. \A c \in ClassNames : \A i \in DOMAIN tx.queue[c] : aged(tx.queue[c][i].seq) \in recent
    BY <1>7, <1>9
  <2>2. aged(item.seq) \in recent
    BY <1>1, <1>6, <1>8
  <2>3. \A x \in Range(tx.queue[class]) \cup {item} : aged(x.seq) \in recent
    BY <2>1, <2>2 DEF Range
  <2>4. \A i \in DOMAIN after : aged(after[i].seq) \in recent
    BY <1>2, <2>3 DEF Range
  <2> QED
    BY <1>5, <2>1, <2>4
<1>13. \/ tx'.queue["P0"] = p
       \/ tx'.queue["P0"] = Append(p, item)
  BY <1>4, <1>5, ClassFacts
<1>14. /\ DOMAIN p = 1 .. Len(p) /\ Len(p) \in Nat
       /\ DOMAIN Append(p, item) = 1 .. Len(p) + 1
       /\ \A i \in 1 .. Len(p) : Append(p, item)[i] = p[i]
       /\ Append(p, item)[Len(p) + 1] = item
  BY <1>1, ClassFacts
<1> DEFINE pn == tx'.queue["P0"]
<1>15. \A i \in DOMAIN pn : \/ i \in DOMAIN p /\ pn[i] = p[i]
                            \/ i = Len(p) + 1 /\ pn[i] = item
  <2>1. CASE pn = p
    BY <2>1
  <2>2. CASE pn = Append(p, item)
    <3> HIDE DEF pn, p
    <3> QED
      BY <2>2, <1>14
  <2> QED
    BY <1>13, <2>1, <2>2
<1>16. \A i \in DOMAIN pn : \/ i \in DOMAIN p /\ aged(pn[i].seq) = age(p[i].seq) + d
                            \/ i = Len(p) + 1 /\ aged(pn[i].seq) = d
  BY <1>1, <1>6, <1>10, <1>15
<1>17. \A i, j \in DOMAIN pn : i < j => aged(pn[i].seq) > aged(pn[j].seq)
  <2> TAKE i, j \in DOMAIN pn
  <2> HAVE i < j
  <2>1. \A k \in DOMAIN p : age(p[k].seq) \in Nat /\ age(p[k].seq) >= 1
    BY <1>10, WidthFacts
  <2> HIDE DEF p, pn, age, aged
  <2>2. i \in DOMAIN p /\ aged(pn[i].seq) = age(p[i].seq) + d
    BY <1>14, <1>16
  <2>3. CASE j \in DOMAIN p /\ aged(pn[j].seq) = age(p[j].seq) + d
    BY <2>1, <2>2, <2>3, <1>11
  <2>4. CASE aged(pn[j].seq) = d
    BY <2>1, <2>2, <2>4
  <2> QED
    BY <1>16, <2>3, <2>4
<1>18. QueuesInOrder'
  BY <1>12, <1>17 DEF QueuesInOrder, Recent, Age
\* What is older than all of P0 stays so when P0 grows by the youngest number.
<1>19. ASSUME NEW s \in Sequences, age(s) < Patience, age(s) \in recent,
              \A i \in DOMAIN p : age(s) > age(p[i].seq)
       PROVE  \A i \in DOMAIN pn : aged(s) > aged(pn[i].seq)
  <2>1. aged(s) = age(s) + d /\ aged(s) > d
    BY <1>9, <1>19
  <2>2. \A k \in DOMAIN p : age(p[k].seq) \in Nat
    BY <1>10, WidthFacts
  <2>3. age(s) \in Nat
    BY <1>19, WidthFacts
  <2> TAKE i \in DOMAIN pn
  <2> HIDE DEF p, pn, age, aged
  <2>4. CASE i \in DOMAIN p /\ aged(pn[i].seq) = age(p[i].seq) + d
    BY <2>1, <2>2, <2>3, <2>4, <1>19
  <2>5. CASE aged(pn[i].seq) = d
    BY <2>1, <2>5
  <2> QED
    BY <1>16, <2>4, <2>5
<1>20. TransferIsOlder'
  <2>1. tx.current # NoItem => \A i \in DOMAIN p : age(tx.current.seq) > age(p[i].seq)
    BY DEF FreshInv, TransferIsOlder, Age
  <2>2. tx.current # NoItem => /\ aged(tx.current.seq) \in recent
                               /\ \A i \in DOMAIN pn : aged(tx.current.seq) > aged(pn[i].seq)
    BY <1>7, <1>9, <1>19, <2>1
  <2> QED
    BY <1>5, <2>2 DEF TransferIsOlder, Recent, Age
<1>21. PeerIsBehind'
  <2>1. Followed =>
           /\ \A i \in DOMAIN p : age(peer.newest) > age(p[i].seq)
           /\ tx.current # NoItem /\ tx.class = "P0" => age(peer.newest) > age(tx.current.seq)
    BY DEF FreshInv, PeerIsBehind, Age
  <2>2. Followed => /\ aged(peer.newest) \in recent
                            /\ \A i \in DOMAIN pn : aged(peer.newest) > aged(pn[i].seq)
    BY <1>7, <1>9, <1>19, <2>1
  <2>3. Followed /\ tx.current # NoItem /\ tx.class = "P0"
           => aged(peer.newest) > aged(tx.current.seq)
    <3> SUFFICES ASSUME Followed, tx.current # NoItem, tx.class = "P0"
                 PROVE  aged(peer.newest) > aged(tx.current.seq)
      OBVIOUS
    <3>1. /\ aged(peer.newest) = age(peer.newest) + d
          /\ aged(tx.current.seq) = age(tx.current.seq) + d
          /\ age(peer.newest) \in Nat /\ age(tx.current.seq) \in Nat
      BY <1>7, <1>9, WidthFacts
    <3>2. age(peer.newest) > age(tx.current.seq)
      BY <2>1
    <3> HIDE DEF age, aged
    <3> QED
      BY <3>1, <3>2
  <2> QED
    BY <1>3, <1>5, <2>2, <2>3 DEF PeerIsBehind, Followed, Recent, Age
<1>22. PeerTyped'
  BY <1>3 DEF FreshInv, PeerTyped
<1> QED
  BY <1>18, <1>20, <1>21, <1>22 DEF FreshInv

LEMMA BeginFresh ==
  ASSUME TxInv, FreshInv, NEW class \in ClassNames, Begin(class) PROVE FreshInv'
<1> DEFINE q == tx.queue[class]
           p == tx.queue["P0"]
           pn == tx'.queue["P0"]
<1>1. /\ q \in Seq(Items) /\ q # <<>> /\ tx.current = NoItem
      /\ tx' = [tx EXCEPT !.current = Head(q), !.class = class, !.queue[class] = Tail(q)]
      /\ UNCHANGED <<next, inhibited, peer, renumbered, blocked, lost>>
  BY DEF Begin, Selected, Begun, TxInv, QueuesTyped, Idle
<1>2. /\ Head(q) = q[1] /\ Head(q) \in Items
      /\ Len(q) \in Nat /\ DOMAIN q = 1 .. Len(q) /\ 1 \in DOMAIN q
      /\ DOMAIN Tail(q) = 1 .. Len(q) - 1
      /\ \A i \in 1 .. Len(q) - 1 : Tail(q)[i] = q[i + 1]
  BY <1>1
<1>3. /\ tx'.queue[class] = Tail(q) /\ tx'.current = q[1] /\ tx'.class = class
      /\ \A c \in ClassNames : c # class => tx'.queue[c] = tx.queue[c]
  BY <1>1, <1>2 DEF TxInv, QueuesTyped
\* tx_begin serves another class only when P0 is empty.
<1>4. class # "P0" => p = <<>>
  <2>1. \A i \in 1 .. 4 : \A j \in 1 .. i - 1 :
           Classes[i] = class => tx.queue[Classes[j]] = <<>>
    BY DEF Begin, Selected
  <2>2. /\ Classes[1] = "P0" /\ Classes[2] = "P1" /\ Classes[3] = "STATE"
        /\ Classes[4] = "RAW"
    BY DEF Classes
  <2>3. class # "P0" => \E i \in 2 .. 4 : Classes[i] = class
    BY <2>2, ClassFacts
  <2>4. \A i \in 2 .. 4 : i \in 1 .. 4 /\ 1 \in 1 .. i - 1
    OBVIOUS
  <2> QED
    BY <2>1, <2>2, <2>3, <2>4
<1>5. /\ \A c \in ClassNames : \A i \in DOMAIN tx.queue[c] : Recent(tx.queue[c][i].seq)
      /\ \A i, j \in DOMAIN p : i < j => Age(p[i].seq) > Age(p[j].seq)
      /\ Followed => /\ Recent(peer.newest)
                             /\ \A i \in DOMAIN p : Age(peer.newest) > Age(p[i].seq)
  BY DEF FreshInv, QueuesInOrder, PeerIsBehind
\* P0 loses its first message or nothing.
<1>6. \/ class # "P0" /\ pn = p /\ p = <<>>
      \/ class = "P0" /\ q = p /\ pn = Tail(p)
  BY <1>3, <1>4, ClassFacts
<1> HIDE DEF q
<1>7. \A i \in DOMAIN pn : class = "P0" /\ i + 1 \in DOMAIN p /\ pn[i] = p[i + 1] /\ i \in Nat
                           /\ i >= 1 /\ 1 \in DOMAIN p
  <2>1. CASE class # "P0" /\ pn = p /\ p = <<>>
    BY <2>1
  <2>2. CASE class = "P0" /\ q = p /\ pn = Tail(p)
    <3> HIDE DEF p, pn
    <3>1. DOMAIN pn = 1 .. Len(p) - 1 /\ DOMAIN p = 1 .. Len(p) /\ Len(p) \in Nat
          /\ \A i \in 1 .. Len(p) - 1 : pn[i] = p[i + 1]
          /\ 1 \in DOMAIN p
      BY <2>2, <1>2
    <3> TAKE i \in DOMAIN pn
    <3>2. i \in Nat /\ i >= 1 /\ i + 1 \in 1 .. Len(p)
      BY <3>1
    <3> QED
      BY <2>2, <3>1, <3>2
  <2> QED
    BY <1>6, <2>1, <2>2
<1>8. \A c \in ClassNames : \A i \in DOMAIN tx'.queue[c] : Recent(tx'.queue[c][i].seq)
  <2>1. \A i \in DOMAIN Tail(q) : i + 1 \in DOMAIN q /\ Tail(q)[i] = q[i + 1]
    BY <1>2
  <2>2. \A i \in DOMAIN q : Recent(q[i].seq)
    BY <1>5 DEF q
  <2>3. \A i \in DOMAIN Tail(q) : Recent(Tail(q)[i].seq)
    BY <2>1, <2>2
  <2> QED
    BY <1>3, <1>5, <2>3
<1>9. \A i, j \in DOMAIN pn : i < j => Age(pn[i].seq) > Age(pn[j].seq)
  <2> TAKE i, j \in DOMAIN pn
  <2> HAVE i < j
  <2>1. i + 1 \in DOMAIN p /\ j + 1 \in DOMAIN p /\ i \in Nat /\ j \in Nat
        /\ pn[i] = p[i + 1] /\ pn[j] = p[j + 1]
    BY <1>7
  <2>2. i + 1 < j + 1
    BY <2>1
  <2> QED
    BY <2>1, <2>2, <1>5
<1>10. QueuesInOrder'
  <2>1. next' = next
    BY <1>1
  <2> QED
    BY <1>8, <1>9, <2>1 DEF QueuesInOrder, Recent, Age
<1>11. TransferIsOlder'
  <2>1. Recent(q[1].seq)
    BY <1>2, <1>5 DEF q
  <2>2. \A i \in DOMAIN pn : Age(q[1].seq) > Age(pn[i].seq)
    <3> TAKE i \in DOMAIN pn
    <3>1. /\ class = "P0" /\ i + 1 \in DOMAIN p /\ pn[i] = p[i + 1]
          /\ i \in Nat /\ i >= 1 /\ 1 \in DOMAIN p
      BY <1>7
    <3>2. 1 < i + 1 /\ q = p
      BY <3>1, <1>6
    <3> QED
      BY <3>1, <3>2, <1>5
  <2> QED
    BY <1>1, <1>3, <2>1, <2>2 DEF TransferIsOlder, Recent, Age
<1>12. PeerIsBehind'
  <2>1. Followed /\ class = "P0" => Age(peer.newest) > Age(q[1].seq)
    BY <1>2, <1>5, <1>6
  <2>2. Followed => \A i \in DOMAIN pn : Age(peer.newest) > Age(pn[i].seq)
    BY <1>5, <1>7
  <2> QED
    BY <1>1, <1>3, <1>5, <2>1, <2>2 DEF PeerIsBehind, Followed, Recent, Age
<1> QED
  BY <1>1, <1>10, <1>11, <1>12 DEF FreshInv, PeerTyped

\* The bytes of a message are out: what waits behind it in P0 is younger.
LEMMA SentFresh ==
  ASSUME TxInv, FreshInv, NEW arrives \in BOOLEAN, FinishSent(arrives) PROVE FreshInv'
<1>1. /\ tx' = [tx EXCEPT !.current = NoItem] /\ tx.current # NoItem
      /\ next' = next /\ inhibited' = inhibited /\ lost' = lost
  BY DEF FinishSent, Finished, Idle
<1>2. tx'.queue = tx.queue /\ tx'.current = NoItem
  BY <1>1 DEF TxInv, QueuesTyped
<1>3. tx.current.seq \in Sequences /\ next \in Sequences /\ tx.class \in ClassNames
  BY <1>1, ItemFacts DEF TxInv, QueuesTyped, Numbers
<1>4. QueuesInOrder'
  BY <1>1, <1>2 DEF FreshInv, QueuesInOrder, Recent, Age
<1>5. TransferIsOlder'
  BY <1>2 DEF TransferIsOlder
<1>6. PeerTyped'
  <2>1. peer \in Window /\ WindowAfter(peer, tx.current.seq) \in Window
    BY <1>3, WindowAfterFacts DEF FreshInv, PeerTyped
  <2> QED
    BY <1>1, <2>1 DEF FinishSent, FreshInv, PeerTyped
<1>7. CASE arrives
  <2>1. /\ peer' = WindowAfter(peer, tx.current.seq)
        /\ renumbered' = (renumbered /\ peer'.newest # tx.current.seq)
    BY <1>7 DEF FinishSent
  <2>2. peer'.initialized => \/ peer.initialized /\ peer'.newest = peer.newest
                             \/ peer'.newest = tx.current.seq
    BY <1>3, <2>1, WindowAfterFacts DEF FreshInv, PeerTyped
\* Either the newest number is the one just sent, or it has not changed.
  <2>3. Followed' => \/ Followed /\ peer'.newest = peer.newest
                     \/ peer'.newest = tx.current.seq
    BY <2>1, <2>2 DEF Followed
  <2>4. PeerIsBehind'
    BY <1>1, <1>2, <2>3 DEF FreshInv, PeerIsBehind, TransferIsOlder, Recent, Age
  <2> QED
    BY <1>4, <1>5, <1>6, <2>4 DEF FreshInv
<1>8. CASE ~arrives
  <2>1. peer' = peer /\ renumbered' = renumbered
    BY <1>8 DEF FinishSent
  <2>2. PeerIsBehind'
    BY <1>1, <1>2, <2>1 DEF FreshInv, PeerIsBehind, Followed, Recent, Age
  <2> QED
    BY <1>4, <1>5, <1>6, <2>2 DEF FreshInv
<1> QED
  BY <1>7, <1>8

LEMMA FailedFresh ==
  ASSUME TxInv, FreshInv, FinishFailed PROVE FreshInv'
<1>1. /\ tx' = [tx EXCEPT !.current = NoItem]
      /\ next' = next /\ UNCHANGED <<peer, renumbered, blocked>>
      /\ inhibited' \in BOOLEAN /\ lost' \in BOOLEAN
  BY DEF FinishFailed, Finished, FreshInv, PeerTyped
<1>2. tx'.queue = tx.queue /\ tx'.current = NoItem
  BY <1>1 DEF TxInv, QueuesTyped
<1>3. QueuesInOrder' /\ TransferIsOlder' /\ PeerIsBehind'
  BY <1>1, <1>2
     DEF FreshInv, QueuesInOrder, TransferIsOlder, PeerIsBehind, Followed, Recent, Age
<1> QED
  BY <1>1, <1>3 DEF FreshInv, PeerTyped

\* Everything is dropped for a HELLO with the youngest number.
LEMMA ClearFresh ==
  ASSUME TxInv, FreshInv, NEW seq \in Numbers, tx' = Cleared(seq),
         Distance(seq, next') \in {1, 2}, peer' \in Window,
         Followed' => /\ Distance(peer'.newest, next') \in 1 .. Patience + 1
                      /\ Distance(peer'.newest, next') > Distance(seq, next'),
         renumbered' \in BOOLEAN, UNCHANGED <<inhibited, blocked, lost>>
  PROVE  FreshInv'
<1>1. /\ tx'.current = NoItem /\ tx'.queue["P0"] = <<Item(HELLO, seq)>>
      /\ \A c \in ClassNames : c # "P0" => tx'.queue[c] = <<>>
  BY ClearedTyped
<1>2. Distance(seq, next') \in 1 .. Patience + 1
  BY WidthFacts
<1>3. \A c \in ClassNames : \A i \in DOMAIN tx'.queue[c] : tx'.queue[c][i].seq = seq
  <2>1. \A i \in DOMAIN tx'.queue["P0"] : tx'.queue["P0"][i].seq = seq
    BY <1>1 DEF Item
  <2>2. \A c \in ClassNames : c # "P0" => DOMAIN tx'.queue[c] = {}
    BY <1>1
  <2> QED
    BY <2>1, <2>2
<1>4. \A i, j \in DOMAIN tx'.queue["P0"] : ~(i < j)
  BY <1>1
<1>5. QueuesInOrder'
  BY <1>2, <1>3, <1>4 DEF QueuesInOrder, Recent, Age
<1>6. TransferIsOlder'
  BY <1>1 DEF TransferIsOlder
<1>7. PeerIsBehind'
  BY <1>1, <1>3, ClassFacts DEF PeerIsBehind, Recent, Age
<1> QED
  BY <1>5, <1>6, <1>7 DEF FreshInv, PeerTyped

LEMMA NextFresh == TxInv /\ FreshInv /\ [Next]_vars => FreshInv'
<1> SUFFICES ASSUME TxInv, FreshInv, [Next]_vars PROVE FreshInv'
  OBVIOUS
<1>1. peer \in Window /\ next \in Numbers /\ next \in Sequences /\ window_reset \in Window
      /\ ~window_reset.initialized
  BY WidthFacts DEF FreshInv, PeerTyped, TxInv, QueuesTyped, Numbers, Window, window_reset,
                    Sequences
<1>2. CASE Recover
  <2>1. /\ tx' = Cleared(next) /\ WithinPatience
        /\ next' = NextSequence(next) /\ UNCHANGED <<inhibited, blocked, lost>>
        /\ peer' \in {peer, window_reset}
        /\ renumbered' = (renumbered /\ peer'.initialized)
    BY <1>2 DEF Recover, Cleared
  <2>2. PICK d \in {1, 2} :
           /\ Distance(next, next') = d
           /\ \A s \in Sequences :
                 Distance(s, next) < Patience => Distance(s, next') = Distance(s, next) + d
    BY <1>1, <2>1, AgesGrow
  <2>3. peer.newest \in Sequences
    BY <1>1 DEF Window
  <2>4. Followed => /\ Distance(peer.newest, next) < Patience
                            /\ Distance(peer.newest, next) \in 1 .. Patience + 1
    BY <2>1 DEF WithinPatience, Followed, FreshInv, PeerIsBehind, Recent, Age
  <2>5. Followed => /\ Distance(peer.newest, next') \in 1 .. Patience + 1
                            /\ Distance(peer.newest, next') > d
    <3> SUFFICES ASSUME Followed
                 PROVE  /\ Distance(peer.newest, next') \in 1 .. Patience + 1
                        /\ Distance(peer.newest, next') > d
      OBVIOUS
    <3> DEFINE before == Distance(peer.newest, next)
    <3>1. Distance(peer.newest, next') = before + d
      BY <2>2, <2>3, <2>4
    <3>2. before < Patience /\ before \in 1 .. Patience + 1
      BY <2>4
    <3> HIDE DEF before
    <3>3. before + d \in 1 .. Patience + 1 /\ before + d > d
      BY <3>2, WidthFacts
    <3> QED
      BY <3>1, <3>3
  <2>6. peer' \in Window /\ renumbered' \in BOOLEAN
    BY <1>1, <2>1
  <2>7. Followed' => /\ Distance(peer'.newest, next') \in 1 .. Patience + 1
                             /\ Distance(peer'.newest, next') > Distance(next, next')
    <3>1. CASE peer' = peer
      <4>1. Followed' => Followed
        BY <3>1, <2>1 DEF Followed, FreshInv, PeerTyped
      <4> QED
        BY <3>1, <4>1, <2>2, <2>5
    <3>2. CASE peer' = window_reset
      BY <3>2, <1>1 DEF Followed
    <3> QED
      BY <2>1, <3>1, <3>2
  <2>8. Distance(next, next') \in {1, 2}
    BY <2>2
  <2> QED
    BY <1>1, <2>1, <2>6, <2>7, <2>8, ClearFresh
<1>3. CASE Reset
  <2>1. /\ tx' = Cleared(1) /\ next' = 2
        /\ UNCHANGED <<inhibited, blocked, lost>> /\ peer' \in {peer, window_reset}
        /\ renumbered' = peer'.initialized
    BY <1>3 DEF Reset, Cleared
  <2>2. Distance(1, 2) = 1
    <3>1. 1 \in Sequences /\ 2 \in Sequences
      BY WidthFacts DEF Numbers
    <3> QED
      BY <3>1, DistanceLaw
  <2>3. Distance(1, next') \in {1, 2}
    BY <2>1, <2>2
  <2>4. peer' \in Window /\ renumbered' \in BOOLEAN /\ ~Followed'
    BY <1>1, <2>1 DEF Followed, Window
  <2> QED
    BY <2>1, <2>3, <2>4, WidthFacts, ClearFresh
<1>4. CASE UNCHANGED vars
  BY <1>4 DEF vars, FreshInv, PeerTyped, QueuesInOrder, TransferIsOlder, PeerIsBehind,
              Followed, Recent, Age
<1>5. CASE LineChanges
  BY <1>5 DEF LineChanges, FreshInv, PeerTyped, QueuesInOrder, TransferIsOlder, PeerIsBehind,
              Followed, Recent, Age
<1> QED
  BY <1>2, <1>3, <1>4, <1>5, EnqueueFresh, BeginFresh, SentFresh, FailedFresh DEF Next

-----------------------------------------------------------------------------
\* Once a safety or control message was refused by a full queue or lost in a
\* transfer, the vehicle side is inhibited for good (mark_queue_full,
\* canview_stm_uart_tx_finish), whatever recoveries and resets follow.
THEOREM LossesInhibit == Spec => []LossInhibits
<1>1. TxInv => LossInhibits
  BY DEF TxInv
<1> QED
  BY <1>1, InitTxInv, NextTxInv, PTL DEF Spec

\* Of a state message only the latest value waits, however replacing
\* (publish_tx_item) and sending interleave.
THEOREM StatesCoalesced == Spec => []StateCoalesced
<1>1. TxInv => StateCoalesced
  BY DEF TxInv
<1> QED
  BY <1>1, InitTxInv, NextTxInv, PTL DEF Spec

\* The queues keep their bounds, a number is never 0 or out of the sequence
\* space, and the receiver's window stays as wide as its word, whatever is
\* queued, sent, failed, dropped and reset.
THEOREM TxTypeCorrect == Spec => []TypeOK
<1>1. TxInv /\ FreshInv => TypeOK
  BY DEF TxInv, QueuesTyped, FreshInv, PeerTyped, TypeOK, Numbers
<1>2. Init => TxInv /\ FreshInv
  BY InitTxInv, InitFresh
<1>3. (TxInv /\ FreshInv) /\ [Next]_vars => (TxInv /\ FreshInv)'
  BY NextTxInv, NextFresh
<1> QED
  BY <1>1, <1>2, <1>3, PTL DEF Spec

\* No P0 message is too old for the receiver: although publish_tx_item numbers
\* messages in one order and tx_begin transmits them in another, a HELLO, ACK or
\* COMMAND_RESULT is newer than all the receiver has seen, across the wrap of the
\* numbers, losses and recoveries, as long as the receiver counts in the numbers
\* given out since the last reset.
THEOREM CriticalStaysFresh == Spec => []CriticalIsFresh
<1>1. TxInv /\ FreshInv => CriticalIsFresh
  <2> SUFFICES ASSUME TxInv, FreshInv, ~renumbered, NEW item \in CriticalWaiting
               PROVE  WindowStatus(peer, item.seq) = "OK"
    BY DEF CriticalIsFresh
  <2>1. /\ peer \in Window /\ next \in Sequences
        /\ \A i \in DOMAIN tx.queue["P0"] : tx.queue["P0"][i].seq \in Sequences
        /\ tx.current # NoItem => tx.current.seq \in Sequences
    BY ItemFacts, ClassFacts DEF FreshInv, PeerTyped, TxInv, QueuesTyped, Numbers
  <2>2. \/ \E i \in DOMAIN tx.queue["P0"] : item = tx.queue["P0"][i]
        \/ tx.current # NoItem /\ tx.class = "P0" /\ item = tx.current
    BY DEF CriticalWaiting, Range
  <2>3. /\ item.seq \in Sequences /\ Age(item.seq) \in 1 .. Patience + 1
        /\ peer.initialized => /\ Age(peer.newest) \in 1 .. Patience + 1
                               /\ Age(peer.newest) > Age(item.seq)
    BY <2>1, <2>2, ClassFacts
    DEF FreshInv, QueuesInOrder, TransferIsOlder, PeerIsBehind, Followed, Recent
  <2> QED
    BY <2>1, <2>3, NewerIsPassed, WidthFacts DEF Age
<1>2. Init => TxInv /\ FreshInv
  BY InitTxInv, InitFresh
<1>3. (TxInv /\ FreshInv) /\ [Next]_vars => (TxInv /\ FreshInv)'
  BY NextTxInv, NextFresh
<1> QED
  BY <1>1, <1>2, <1>3, PTL DEF Spec
=============================================================================
