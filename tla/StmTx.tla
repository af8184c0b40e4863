------------------------------- MODULE StmTx -------------------------------
(***************************************************************************)
(* The transmit side of uart_link.c with its sequence numbers, and the     *)
(* replay window of the receiver at the other end of the wire.  A number   *)
(* is given to a message when it is queued, so the classes overtake each   *)
(* other on the wire: the receiver sees numbers out of order and refuses   *)
(* those its window has left behind.                                       *)
(***************************************************************************)
EXTENDS TxQueue, SequenceWindow

CONSTANTS
    Keys,       \* <<type, correlation id>> of the messages the owner queues
    Patience,   \* bound: numbers given away while an older one is waiting
    Watched     \* bound: the sequence numbers CriticalLeaves follows

ASSUME StmTxAssumption ==
    /\ Patience \in 1 .. HALF - 2
    /\ Watched \subseteq Sequences \ {0}
    /\ \A k \in Keys : k[1] \notin {NoItem.type, "LINK_HELLO"}

VARIABLES
    tx,         \* tx_queues, tx_current, tx_current_class
    next,       \* next_tx_sequence
    inhibited,  \* safety_inhibited
    peer,       \* external: the receiver's replay window
    renumbered, \* history: the newest number the receiver knows is one from
                \* before our last reset
    blocked,    \* external: the CTS line, by which the USART (CTSE) stops
    lost        \* history: a P0 or P1 message was refused or its transfer failed

vars == <<tx, next, inhibited, peer, renumbered, blocked, lost>>

\* Mutant: the counter runs through 0.
NextSequence_Zero(s) == (s + 1) % Modulus

NextSequence(s) == IF s = Modulus - 1 THEN 1 ELSE s + 1

Item(key, seq) == [type |-> key[1], corr |-> key[2], seq |-> seq]

HELLO == <<"LINK_HELLO", 0>>

Items == [type : {k[1] : k \in Keys} \cup {"LINK_HELLO"},
          corr : {k[2] : k \in Keys} \cup {0}, seq : Sequences \ {0}]

\* The messages not yet transmitted; of these, the ones of class P0.
Waiting == (UNION {Range(tx.queue[c]) : c \in ClassNames})
             \cup ({tx.current} \ {NoItem})

CriticalWaiting ==
    Range(tx.queue["P0"]) \cup {i \in {tx.current} \ {NoItem} : tx.class = "P0"}

\* Serial numbers only compare within half their space; in the product that
\* is 2^31 messages, days of traffic.
WithinPatience ==
    /\ \A item \in Waiting : Distance(item.seq, next) < Patience
    /\ peer.initialized /\ ~renumbered => Distance(peer.newest, next) < Patience

-----------------------------------------------------------------------------
Init ==
    /\ tx = Published(EmptyTx, "P0", Item(HELLO, 1))
    /\ next = 2
    /\ inhibited = FALSE
    /\ peer = window_reset
    /\ renumbered = FALSE
    /\ blocked \in BOOLEAN
    /\ lost = FALSE

\* canview_stm_uart_enqueue, and the runtime's own enqueue_* helpers.
Enqueue(class, key) ==
    LET item == Item(key, next)
    IN  /\ WithinPatience
        /\ tx' = Published(tx, class, item)
        /\ next' = NextSequence(next)
        /\ inhibited' = (inhibited \/ Overflows(tx, class, item))
        /\ lost' = (lost \/ (class \in Critical /\ tx' = tx))
        /\ UNCHANGED <<peer, renumbered, blocked>>

Begin(class) ==
    /\ Idle(tx)
    /\ Selected(tx, class)
    /\ tx' = Begun(tx, class)
    /\ UNCHANGED <<next, inhibited, peer, renumbered, blocked, lost>>

\* tx_finish(CANVIEW_OK): the bytes are out, and reach the receiver or not.
\* The line may be blocked again by the time the end is reported.
FinishSent(arrives) ==
    /\ ~Idle(tx)
    /\ tx' = Finished(tx)
    /\ IF arrives
       THEN /\ peer' = WindowAfter(peer, tx.current.seq)
            /\ renumbered' = (renumbered /\ peer'.newest # tx.current.seq)
       ELSE UNCHANGED <<peer, renumbered>>
    /\ UNCHANGED <<next, inhibited, blocked, lost>>

\* Mutant: only a failed P0 transfer inhibits.
FinishFailed_P0Only ==
    /\ ~Idle(tx)
    /\ tx' = Finished(tx)
    /\ inhibited' = (inhibited \/ tx.class = "P0")
    /\ lost' = (lost \/ tx.class \in Critical)
    /\ UNCHANGED <<next, peer, renumbered, blocked>>

\* tx_finish with any other status but RESOURCE_BUSY, which changes nothing.
FinishFailed ==
    /\ ~Idle(tx)
    /\ tx' = Finished(tx)
    /\ inhibited' = (inhibited \/ tx.class \in Critical)
    /\ lost' = (lost \/ tx.class \in Critical)
    /\ UNCHANGED <<next, peer, renumbered, blocked>>

\* begin_session_recovery: everything queued is dropped for a new HELLO; the
\* numbers go on.  The receiver may start over with it or not.
Recover ==
    /\ WithinPatience
    /\ tx' = Published(EmptyTx, "P0", Item(HELLO, next))
    /\ next' = NextSequence(next)
    /\ peer' \in {peer, window_reset}
    /\ renumbered' = (renumbered /\ peer'.initialized)
    /\ UNCHANGED <<inhibited, blocked, lost>>

\* canview_stm_uart_reset numbers from 1 again, under the boot id the peer
\* already knows: after an error of the USART or a DMA channel (uart_dma.c)
\* the peer's session, and its window, may well go on.
Reset ==
    /\ tx' = Published(EmptyTx, "P0", Item(HELLO, 1))
    /\ next' = 2
    /\ peer' \in {peer, window_reset}
    /\ renumbered' = peer'.initialized
    /\ UNCHANGED <<inhibited, blocked, lost>>

\* External: the peer raises or drops CTS.
LineChanges ==
    /\ blocked' = ~blocked
    /\ UNCHANGED <<tx, next, inhibited, peer, renumbered, lost>>

Next ==
    \/ \E c \in ClassNames : \/ \E k \in Keys : Enqueue(c, k)
                             \/ Begin(c)
    \/ \E arrives \in BOOLEAN : FinishSent(arrives)
    \/ FinishFailed
    \/ Recover
    \/ Reset
    \/ LineChanges

Spec == Init /\ [][Next]_vars

\* The worker starts a transfer whenever one is due.  A transfer goes on while
\* the line is clear, keeps its place while it is blocked, and so ends if the
\* line is clear again and again.  Nothing else ends it: the driver has no time
\* limit for a transfer.
FairSpec ==
    /\ Spec
    /\ WF_vars(\E c \in ClassNames : Begin(c))
    /\ SF_vars(/\ ~blocked
               /\ (\E arrives \in BOOLEAN : FinishSent(arrives)) \/ FinishFailed)

-----------------------------------------------------------------------------
TypeOK ==
    /\ \A c \in ClassNames : /\ tx.queue[c] \in Seq(Items)
                             /\ Len(tx.queue[c]) <= QueueCapacity
    /\ tx.current \in Items \cup {NoItem}
    /\ tx.class \in ClassNames
    /\ next \in Sequences \ {0}
    /\ inhibited \in BOOLEAN /\ lost \in BOOLEAN
    /\ peer \in Window
    /\ renumbered \in BOOLEAN /\ blocked \in BOOLEAN

(***************************************************************************)
(* No P0 message (HELLO, ACK, COMMAND_RESULT) is ever too old for the      *)
(* receiver: whichever waits or is in transfer would pass the receiver's   *)
(* replay window now.  Numbers are given away in one order and transmitted *)
(* in another, yet a P0 message is newer than everything transmitted before*)
(* it.  That holds while the receiver counts in the numbers we count in:   *)
(* after a reset that it does not follow there is no such promise until it *)
(* has dropped its window or taken one of the new numbers for its newest.  *)
(* P1, STATE and RAW messages have no promise at all: traffic of a higher  *)
(* class may make them stale.                                              *)
(***************************************************************************)
CriticalIsFresh ==
    ~renumbered =>
        \A item \in CriticalWaiting : WindowStatus(peer, item.seq) = "OK"

(***************************************************************************)
(* The transmitter is fail-closed: once a P0 or P1 message was refused by a*)
(* full queue or lost in a transfer, safety_inhibited is set for good.     *)
(***************************************************************************)
LossInhibits == lost => inhibited

(***************************************************************************)
(* Of a state message only the latest value waits: never two with the same *)
(* type and correlation id, however replacing and sending interleave.      *)
(***************************************************************************)
StateCoalesced ==
    \A i, j \in DOMAIN tx.queue["STATE"] :
        SameKey(tx.queue["STATE"][i], tx.queue["STATE"][j]) => i = j

(***************************************************************************)
(* Every P0 message leaves its queue: sent, failed, or dropped by a        *)
(* recovery or reset.  No traffic of any class can keep it back, and no CTS*)
(* line but one that is blocked for good, which stalls the transfer before *)
(* it (before a peer is known nothing gives that transfer up).             *)
(***************************************************************************)
CriticalLeaves ==
    []<>(~blocked) =>
        \A s \in Watched :
            (\E item \in Range(tx.queue["P0"]) : item.seq = s)
                ~> ~(\E item \in Range(tx.queue["P0"]) : item.seq = s)
=============================================================================
