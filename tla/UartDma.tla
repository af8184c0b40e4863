------------------------------ MODULE UartDma ------------------------------
(***************************************************************************)
(* firmware/communicator/stm32/platform/stm32g474/uart_dma.c: the worker   *)
(* (canview_stm_uart_platform_service, in the steps between which an       *)
(* interrupt can fall), the interrupt handlers, and the two DMA channels.  *)
(* The runtime of uart_link.c appears with the frame it holds for the      *)
(* transmitter and with its session recoveries, which call the reset hook. *)
(***************************************************************************)
EXTENDS Integers

CONSTANTS
    Capacity,   \* [2048] CANVIEW_STM_UART_PLATFORM_RX_CAPACITY
    RxBudget,   \* [512] bytes the worker parses in one service
    MaxBytes,   \* bound: bytes received since the ring was armed
    MaxWraps    \* [UINT32_MAX] largest rx_wrap_count_isr

DmaAssumption ==
    /\ Capacity \in Nat \ {0} /\ RxBudget \in Nat
    /\ MaxBytes \in Nat /\ MaxWraps \in Nat

VARIABLES
    pc,     \* where the worker is
    rx,     \* hardware: the receive channel
    tx,     \* hardware: the transmit channel
    ad,     \* canview_stm_uart_platform_t
    loc,    \* the worker's local variables
    held,   \* external: the frame in tx_current of the runtime, 0 for none
    last    \* external: the last frame the runtime handed over

vars == <<pc, rx, tx, ad, loc, held, last>>

Frames == 1 .. 3                  \* they are told apart, not counted
NextFrame(f) == (f % 3) + 1

\* written counts since the channel was armed; remaining is CNDTR; tc is the
\* transfer-complete flag whose interrupt has not been taken yet.
RingOff   == [armed |-> FALSE, written |-> 0, remaining |-> Capacity, tc |-> FALSE]
RingArmed == [RingOff EXCEPT !.armed = TRUE]

\* on: the channel is enabled and reads the frame; done, err: its flags.
TxQuiet == [on |-> FALSE, frame |-> 0, done |-> 0, err |-> FALSE]

\* Completions carry the frame they are about, which the code does not know.
Counters == [read |-> 0, wraps |-> 0, rxError |-> FALSE, txError |-> FALSE,
             txDone |-> 0, inFlight |-> FALSE, started |-> FALSE]

NoLocals == [rxError |-> FALSE, txError |-> FALSE, txDone |-> 0, tries |-> 0, before |-> 0,
             total |-> 0, valid |-> TRUE, count |-> 0, reset |-> FALSE,
             behind |-> 0, tcPending |-> FALSE]

Init ==
    /\ pc = "idle" /\ rx = RingOff /\ tx = TxQuiet
    /\ ad = Counters /\ loc = NoLocals /\ held = 0 /\ last = 1

-----------------------------------------------------------------------------
(* The hardware and the interrupt handlers.                                 *)

\* The wrap interrupt is taken before the next ring is full: 5 ms at 4 Mbit/s.
DmaReceives ==
    /\ rx.armed /\ rx.written < MaxBytes /\ rx.remaining > 0
    /\ ~(rx.tc /\ rx.remaining = 1)
    /\ rx' = [rx EXCEPT !.written = @ + 1, !.remaining = @ - 1,
                        !.tc = @ \/ rx.remaining = 1]
    /\ UNCHANGED <<pc, tx, ad, loc, held, last>>

\* CNDTR reads 0 for a moment before the circular channel reloads it.
DmaReloads ==
    /\ rx.armed /\ rx.remaining = 0
    /\ rx' = [rx EXCEPT !.remaining = Capacity]
    /\ UNCHANGED <<pc, tx, ad, loc, held, last>>

RxWrapIrq ==
    /\ rx.tc /\ rx.remaining > 0 /\ ad.started
    /\ rx' = [rx EXCEPT !.tc = FALSE]
    /\ ad' = IF ad.wraps = MaxWraps THEN [ad EXCEPT !.rxError = TRUE]
                                    ELSE [ad EXCEPT !.wraps = @ + 1]
    /\ UNCHANGED <<pc, tx, loc, held, last>>

\* A transfer error of the channel, or PE, FE, NE or ORE of the USART.
RxErrorIrq ==
    /\ ad.started /\ ~ad.rxError
    /\ ad' = [ad EXCEPT !.rxError = TRUE]
    /\ UNCHANGED <<pc, rx, tx, loc, held, last>>

DmaTransmitEnds ==
    /\ tx.on
    /\ \/ tx' = [tx EXCEPT !.on = FALSE, !.done = tx.frame]
       \/ tx' = [tx EXCEPT !.on = FALSE, !.err = TRUE]
    /\ UNCHANGED <<pc, rx, ad, loc, held, last>>

TxIrq ==
    /\ ad.started /\ (tx.done # 0 \/ tx.err)
    /\ tx' = [tx EXCEPT !.done = 0, !.err = FALSE]
    /\ ad' = [ad EXCEPT !.txError = @ \/ tx.err,
                        !.txDone = IF tx.done # 0 THEN tx.done ELSE @]
    /\ UNCHANGED <<pc, rx, loc, held, last>>

-----------------------------------------------------------------------------
(* Pieces of the worker: states [tx, ad, held] before and after.            *)

Now == [tx |-> tx, ad |-> ad, held |-> held]

\* abort_tx_dma, when the channel lets itself be disabled.
Aborted(s) == [tx |-> TxQuiet, ad |-> [s.ad EXCEPT !.inFlight = FALSE], held |-> s.held]

\* Mutant: what the old transfer left behind is not forgotten.
runtime_reset_hook_KeepsPending(s) == Aborted(s)

\* Mutant: only the software flags are cleared.
runtime_reset_hook_NoAbort(s) == [s EXCEPT !.ad.txDone = 0, !.ad.txError = FALSE]

runtime_reset_hook(s) ==
    LET a == Aborted(s)
    IN  [tx |-> a.tx, ad |-> [a.ad EXCEPT !.txDone = 0, !.txError = FALSE], held |-> a.held]

\* A session recovery or a reset of the runtime gives its frame up.
RuntimeReset(s) ==
    LET after == runtime_reset_hook(s) IN [tx |-> after.tx, ad |-> after.ad, held |-> 0]

\* abort_tx_dma waits for EN in vain.
AbortTimesOut(s) == s.tx.on

Become(s) == tx' = s.tx /\ ad' = s.ad /\ held' = s.held

\* The runtime, asked to parse a byte or to look at its clock, may recover.
RuntimeMayRecover(s) == {s, RuntimeReset(s)}

Continue(place) == pc' = place /\ UNCHANGED last

\* main() waits for the watchdog after a service that failed.
Fails == pc' = "halted" /\ UNCHANGED last

-----------------------------------------------------------------------------
(* The worker.                                                              *)

Start ==
    /\ pc = "idle" /\ ~ad.started
    /\ pc' = "idle" /\ rx' = RingArmed /\ tx' = TxQuiet /\ loc' = NoLocals
    /\ ad' = [Counters EXCEPT !.started = TRUE]
    /\ held' = 0 /\ UNCHANGED last

\* disable_usart ends the requests of both channels whatever the abort says.
Stop ==
    /\ pc = "idle" /\ ad.started
    /\ rx' = RingOff /\ tx' = TxQuiet /\ ad' = Counters
    /\ UNCHANGED <<pc, loc, held, last>>

take_events ==
    /\ pc = "idle" /\ ad.started
    /\ pc' = "wraps"
    /\ loc' = [NoLocals EXCEPT !.rxError = ad.rxError, !.txError = ad.txError,
                               !.txDone = ad.txDone]
    /\ ad' = [ad EXCEPT !.rxError = FALSE, !.txError = FALSE, !.txDone = 0]
    /\ UNCHANGED <<rx, tx, held, last>>

\* sample_rx_total: the wraps, CNDTR, the wraps again.
SampleWraps ==
    /\ pc = "wraps" /\ loc.tries < 3
    /\ loc' = [loc EXCEPT !.before = ad.wraps, !.tries = @ + 1]
    /\ Continue("cndtr") /\ UNCHANGED <<rx, tx, ad, held>>

SampleCndtr ==
    /\ pc = "cndtr"
    /\ loc' = [loc EXCEPT !.total = loc.before * Capacity + Capacity - rx.remaining,
                          !.behind = rx.written - ad.read, !.tcPending = rx.tc]
    /\ Continue("again") /\ UNCHANGED <<rx, tx, ad, held>>

\* Mutant: a lag is made up for whatever its size.
Corrected_Always(total) == total + Capacity

\* A wrap whose interrupt is still pending is made up for.
Corrected(total) == IF total < ad.read THEN total + Capacity ELSE total

SampleAgain ==
    /\ pc = "again" /\ loc.before = ad.wraps
    /\ loc' = [loc EXCEPT !.total = Corrected(@),
                          !.valid = ad.read - loc.total <= Capacity]
    /\ Continue("recover") /\ UNCHANGED <<rx, tx, ad, held>>

SampleRetry ==
    /\ \/ pc = "again" /\ loc.before # ad.wraps /\ Continue("wraps")
          /\ UNCHANGED loc
       \/ pc = "wraps" /\ loc.tries = 3 /\ Continue("recover")
          /\ loc' = [loc EXCEPT !.valid = FALSE]
    /\ UNCHANGED <<rx, tx, ad, held>>

\* Mutant: a backlog of a whole ring is taken for an overrun, a larger one not.
Overrun_Mod(backlog) == backlog = Capacity + 1

Overrun(backlog) == backlog > Capacity

NeedsRecovery == ~loc.valid \/ loc.total < ad.read \/ loc.rxError
                   \/ Overrun(loc.total - ad.read)

\* reset_rx_dma: interrupts are quiesced, so this is one step.
reset_rx_dma ==
    /\ pc = "recover" /\ NeedsRecovery
    /\ \/ /\ rx' = RingArmed
          /\ loc' = [loc EXCEPT !.reset = TRUE, !.total = 0]
          /\ LET s == RuntimeReset(Now)
             IN  /\ tx' = s.tx /\ held' = s.held
                 /\ ad' = [s.ad EXCEPT !.read = 0, !.wraps = 0, !.rxError = FALSE]
          /\ Continue("tx")
       \/ /\ AbortTimesOut(Now)
          /\ rx' = [rx EXCEPT !.armed = FALSE]
          /\ Fails /\ UNCHANGED <<tx, ad, held, loc>>

NoRecovery ==
    /\ pc = "recover" /\ ~NeedsRecovery
    /\ Continue("tx") /\ UNCHANGED <<rx, tx, ad, held, loc>>

\* The transfer failed: the frame is given up and the runtime reset.
TxFailed ==
    /\ pc = "tx" /\ loc.txError
    /\ \/ Become(RuntimeReset(Now)) /\ Continue("cts")
          /\ loc' = [loc EXCEPT !.reset = TRUE]
       \/ AbortTimesOut(Now) /\ Fails /\ UNCHANGED <<tx, ad, held, loc>>
    /\ UNCHANGED rx

\* A completion is believed while a transfer is under way.
TxCompletes == loc.txDone # 0 /\ ad.inFlight

AfterTx == IF loc.reset THEN "cts" ELSE "consume"

TxFinished ==
    /\ pc = "tx" /\ ~loc.txError /\ TxCompletes
    /\ ad' = [ad EXCEPT !.inFlight = FALSE]
    /\ tx' = [tx EXCEPT !.on = FALSE]
    /\ IF held # 0 THEN held' = 0 /\ Continue(AfterTx) ELSE UNCHANGED held /\ Fails
    /\ UNCHANGED <<rx, loc>>

TxNothing ==
    /\ pc = "tx" /\ ~loc.txError /\ ~TxCompletes
    /\ Continue(AfterTx) /\ UNCHANGED <<rx, tx, ad, held, loc>>

\* consume_rx: one byte at a time, each of which may end the session; a hook
\* that times out is no reason to stop (input_status_nonfatal).
consume_rx ==
    /\ pc = "consume"
    /\ IF loc.count < RxBudget /\ ad.read < loc.total
       THEN \E s \in RuntimeMayRecover(Now) :
               /\ tx' = s.tx /\ held' = s.held /\ ad' = [s.ad EXCEPT !.read = @ + 1]
               /\ loc' = [loc EXCEPT !.count = @ + 1]
               /\ Continue("consume")
       ELSE Continue("cts") /\ UNCHANGED <<tx, ad, held, loc>>
    /\ UNCHANGED rx

\* set_cts_blocked and tick of the runtime.
CtsAndTick ==
    /\ pc = "cts"
    /\ \/ \E s \in RuntimeMayRecover(Now) : Become(s) /\ Continue("start")
       \/ AbortTimesOut(Now) /\ Fails /\ UNCHANGED <<tx, ad, held>>
    /\ UNCHANGED <<rx, loc>>

\* start_tx_dma: tx_begin hands over the frame it still holds, or a new one.
start_tx_dma ==
    /\ pc = "start" /\ ~ad.inFlight
    /\ \E f \in {held} \cup (IF held = 0 THEN {NextFrame(last)} ELSE {}) :
          /\ held' = f
          /\ last' = IF f # 0 THEN f ELSE last
          /\ tx' = IF f # 0 THEN [TxQuiet EXCEPT !.on = TRUE, !.frame = f] ELSE tx
          /\ ad' = [ad EXCEPT !.inFlight = f # 0]
    /\ pc' = "idle" /\ loc' = NoLocals /\ UNCHANGED rx

ServiceDone ==
    /\ pc = "start" /\ ad.inFlight
    /\ Continue("idle") /\ loc' = NoLocals /\ UNCHANGED <<rx, tx, ad, held>>

Service ==
    \/ take_events \/ SampleWraps \/ SampleCndtr \/ SampleAgain \/ SampleRetry
    \/ reset_rx_dma \/ NoRecovery \/ TxFailed \/ TxFinished \/ TxNothing
    \/ consume_rx \/ CtsAndTick \/ start_tx_dma \/ ServiceDone

Interrupts == RxWrapIrq \/ RxErrorIrq \/ TxIrq
Hardware == DmaReceives \/ DmaReloads \/ DmaTransmitEnds

Next == Start \/ Stop \/ Service \/ Interrupts \/ Hardware

Spec == Init /\ [][Next]_vars

-----------------------------------------------------------------------------
Rings == [armed : BOOLEAN, written : 0 .. MaxBytes, remaining : 0 .. Capacity, tc : BOOLEAN]
Transmitters == [on : BOOLEAN, frame : Frames \cup {0}, done : Frames \cup {0}, err : BOOLEAN]
Adapters == [read : 0 .. MaxBytes, wraps : 0 .. MaxWraps, rxError : BOOLEAN, txError : BOOLEAN,
             txDone : Frames \cup {0}, inFlight : BOOLEAN, started : BOOLEAN]
Locals == [rxError : BOOLEAN, txError : BOOLEAN, txDone : Frames \cup {0}, tries : 0 .. 3,
           before : 0 .. MaxWraps, total : Nat, valid : BOOLEAN, count : 0 .. RxBudget,
           reset : BOOLEAN, behind : Int, tcPending : BOOLEAN]

TypeOK ==
    /\ pc \in {"idle", "wraps", "cndtr", "again", "recover", "tx", "consume",
               "cts", "start", "halted"}
    /\ rx \in Rings /\ tx \in Transmitters /\ ad \in Adapters /\ loc \in Locals
    /\ held \in Frames \cup {0} /\ last \in Frames

(* sample_rx_total puts the number of bytes received together from a count  *)
(* kept by an interrupt and a register of a running DMA.  It never exceeds  *)
(* what has been received: a byte is not handed to the parser before it is  *)
(* there.                                                                   *)
SampleSound == pc \in {"recover", "tx", "consume"} /\ loc.valid /\ ~loc.reset
                 => loc.total <= rx.written

(* A worker that finds the ring overrun drops what is in it: bytes are only *)
(* parsed after a sample at which the ring still held them all, unless the  *)
(* wrap interrupt was pending at that very moment, which hides one ring, or *)
(* the wraps can no longer be counted: the next service recovers from that. *)
(* What the channel overwrites between the sample and the read of a byte,   *)
(* which consume_rx takes straight from the ring, is not noticed here.      *)
OverrunDropped ==
    pc = "consume" => \/ loc.behind <= Capacity
                      \/ loc.tcPending
                      \/ ad.wraps = MaxWraps /\ ad.rxError

(* And it drops them for no other reason: the USART or the channel reported *)
(* an error, the ring was overrun at the sample, three samples in a row met *)
(* a wrap interrupt, or the wraps can no longer be counted.  A wrap pending *)
(* or taken around the sample, or CNDTR at 0, is never mistaken for a loss. *)
DroppedForCause ==
    pc = "recover" /\ NeedsRecovery =>
        \/ loc.rxError \/ loc.behind > Capacity
        \/ ~loc.valid /\ loc.tries = 3 /\ loc.before # ad.wraps
        \/ ad.wraps = MaxWraps /\ ad.rxError

(* While the DMA reads tx_serial the runtime keeps that frame: a reset, a   *)
(* recovery in the middle of parsing or a failed transfer never clears or   *)
(* reuses the buffer under the running channel.                             *)
DmaReadsHeldFrame == tx.on => held = tx.frame

(* The completion the runtime is told of is that of the frame it holds, not *)
(* one left behind by a transfer that was aborted before.                   *)
CompletionBelongs == pc = "tx" /\ ~loc.txError /\ TxCompletes
                        => held # 0 /\ loc.txDone = held
=============================================================================
