------------------------------ MODULE TxQueue ------------------------------
(***************************************************************************)
(* The transmit queues of firmware/communicator/stm32/module/uart_link.c   *)
(* as operators on a record: four bounded FIFO queues, one per class, and  *)
(* the item handed to the DMA.  An item is any record with the fields type *)
(* and corr (message_type and correlation_id), which is all that           *)
(* publish_tx_item looks at.                                               *)
(***************************************************************************)
EXTENDS Integers, Sequences, Functions

CONSTANT QueueCapacity      \* [8] CANVIEW_STM_UART_TX_QUEUE_CAPACITY

ASSUME QueueAssumption == QueueCapacity \in Nat \ {0}

\* In order of priority; P0 and P1 carry safety and control messages.
Classes == <<"P0", "P1", "STATE", "RAW">>
ClassNames == {Classes[i] : i \in 1 .. 4}
Critical == {"P0", "P1"}

NoItem == [type |-> "none", corr |-> 0]

EmptyTx == [queue   |-> [c \in ClassNames |-> <<>>],
            current |-> NoItem,
            class   |-> "P0"]

\* Mutant: one item more than there is room for.
Full_OffByOne(tx, class) == Len(tx.queue[class]) > QueueCapacity

Full(tx, class) == Len(tx.queue[class]) >= QueueCapacity

SameKey(a, b) == a.type = b.type /\ a.corr = b.corr

\* Mutant: an item is replaced only when there is no room for another.
Coalesces_WhenFull(tx, class, item) ==
    /\ class = "STATE" /\ Full(tx, class)
    /\ \E i \in DOMAIN tx.queue[class] : SameKey(tx.queue[class][i], item)

\* A STATE item replaces the queued one with the same key, in its place.
Coalesces(tx, class, item) ==
    class = "STATE" /\ \E i \in DOMAIN tx.queue[class] :
                           SameKey(tx.queue[class][i], item)

\* publish_tx_item answers RESOURCE_BUSY.
Refused(tx, class, item) ==
    class # "RAW" /\ Full(tx, class) /\ ~Coalesces(tx, class, item)

\* ... and then mark_queue_full latches safety_inhibited.
Overflows(tx, class, item) == class \in Critical /\ Refused(tx, class, item)

\* The queue of this class after the item was offered to it.
QueueAfter(tx, class, item) ==
    LET q == tx.queue[class]
    IN  IF Refused(tx, class, item) THEN q
        ELSE IF Coalesces(tx, class, item)
        THEN [i \in DOMAIN q |-> IF SameKey(q[i], item) THEN item ELSE q[i]]
        ELSE Append(IF Full(tx, class) THEN Tail(q) ELSE q, item)

Published(tx, class, item) ==
    [tx EXCEPT !.queue[class] = QueueAfter(tx, class, item)]

\* enqueue_hello_if_missing looks for a message of this type anywhere.
TxContains(tx, type) ==
    \/ tx.current.type = type
    \/ \E c \in ClassNames : \E i \in DOMAIN tx.queue[c] : tx.queue[c][i].type = type

-----------------------------------------------------------------------------
Idle(tx) == tx.current = NoItem

\* Mutant: any class may be served.
Selected_AnyClass(tx, class) == tx.queue[class] # <<>>

\* Mutant: a queue of one is taken for empty.
Selected_LeavesLast(tx, class) ==
    /\ Len(tx.queue[class]) > 1
    /\ \A i \in 1 .. 4 : \A j \in 1 .. i - 1 :
          Classes[i] = class => tx.queue[Classes[j]] = <<>>

\* tx_begin takes from this class.
Selected(tx, class) ==
    /\ tx.queue[class] # <<>>
    /\ \A i \in 1 .. 4 : \A j \in 1 .. i - 1 :
          Classes[i] = class => tx.queue[Classes[j]] = <<>>

Begun(tx, class) ==
    [tx EXCEPT !.current = Head(tx.queue[class]), !.class = class,
               !.queue[class] = Tail(@)]

Finished(tx) == [tx EXCEPT !.current = NoItem]
=============================================================================
