------------------------------ MODULE MCStm32 ------------------------------
(***************************************************************************)
(* The two interrupt-driven adapters of the communicator, each with its    *)
(* own instance: CAN capture on two channels, and the UART DMA.  They      *)
(* share no state, so a behaviour moves one of them, `part`, and leaves    *)
(* the other at its initial state.                                         *)
(***************************************************************************)
EXTENDS FdcanCapture

CONSTANTS Capacity, RxBudget, MaxBytes, MaxWraps          \* of UartDma

VARIABLES part, pc, rx, tx, ad, loc, held, last

Dma == INSTANCE UartDma

ASSUME DmaInstance == Dma!DmaAssumption

dmaVars == <<pc, rx, tx, ad, loc, held, last>>

MCInit == part \in {"capture", "dma"} /\ Init /\ Dma!Init

MCNext ==
    /\ UNCHANGED part
    /\ \/ part = "capture" /\ Next /\ UNCHANGED dmaVars
       \/ part = "dma" /\ Dma!Next /\ UNCHANGED vars

MCSpec == MCInit /\ [][MCNext]_<<vars, part, dmaVars>>

-----------------------------------------------------------------------------
\* No byte is parsed that is not received yet; a ring found overrun at the
\* sample is dropped, and for no other reason than a loss.
DmaReceives ==
    part = "dma" =>
        Dma!TypeOK /\ Dma!SampleSound /\ Dma!OverrunDropped /\ Dma!DroppedForCause

\* A transfer reads the frame the runtime holds, and its completion is not
\* taken for that of another.
DmaTransmits == part = "dma" => Dma!DmaReadsHeldFrame /\ Dma!CompletionBelongs

\* Frames are delivered once and in order, those lost in a full raw ring are
\* counted, a record carries the true time of its frame, and a channel with a
\* hardware fault shows it.
CaptureSound ==
    part = "capture" =>
        /\ TypeOK /\ OnceInOrder /\ LossesCounted
        /\ TimestampTrue /\ HardwareFaultShown
=============================================================================
