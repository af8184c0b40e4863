---------------------------- MODULE Stm32_proofs ----------------------------
(***************************************************************************)
(* Proofs about the STM32 drivers, for every value of their constants: the *)
(* UART receive ring and the transmitter under their interrupts, UartDma,  *)
(* and the capture of CAN frames from the raw rings to the batch,          *)
(* FdcanCapture, each as part of MCSpec.  Both invariants say at every     *)
(* point of the service or the batch what the interrupts of the meantime   *)
(* can have changed.                                                       *)
(***************************************************************************)
EXTENDS MCStm32, FiniteSetTheorems, SequenceTheorems, WellFoundedInduction, TLAPS

LEMMA DmaConstants ==
  Capacity \in Nat \ {0} /\ RxBudget \in Nat /\ MaxBytes \in Nat /\ MaxWraps \in Nat
BY DmaInstance DEF Dma!DmaAssumption

\* The service before what it took from the interrupts is spent.
Early == {"wraps", "cndtr", "again", "recover"}

\* The bytes received beyond what the wraps and CNDTR say: none, or a ring
\* whose interrupt is pending.
Gap == rx.written - (ad.wraps * Capacity + Capacity - rx.remaining)
Exact == IF rx.tc /\ rx.remaining > 0 THEN Capacity ELSE 0

\* Before the first start and after a stop nothing is left over.
Quiet == ~ad.started => /\ rx = Dma!RingOff /\ tx = Dma!TxQuiet /\ ad = Dma!Counters
                        /\ pc = "idle"

\* Wraps that can no longer be counted leave an error behind.
RingInv ==
    /\ rx.remaining = 0 => rx.tc
    /\ ad.read <= rx.written
    /\ \/ Gap = Exact
       \/ /\ ad.wraps = MaxWraps /\ Gap >= Exact + Capacity
          /\ ad.rxError \/ (loc.rxError /\ pc \in Early) \/ pc = "halted"

Uncounted == ad.wraps = MaxWraps /\ (ad.rxError \/ loc.rxError)

\* What a sample says of the moment at which CNDTR was read.
SampleInv ==
    /\ pc \in {"cndtr", "again"} => loc.before <= ad.wraps
    /\ pc = "again" /\ loc.before = ad.wraps =>
         LET short == loc.behind + ad.read - loc.total
         IN  /\ loc.behind >= 0 /\ loc.behind + ad.read <= rx.written
             /\ \/ short = 0
                \/ short = Capacity /\ loc.tcPending
                \/ short >= Capacity /\ Uncounted
    /\ pc = "recover" /\ loc.valid =>
         /\ loc.total <= rx.written
         /\ loc.behind + ad.read = loc.total \/ loc.tcPending \/ Uncounted
    /\ pc \in Early => ~loc.reset
    /\ pc = "consume" => ~loc.reset
    /\ pc \in {"tx", "consume"} /\ ~loc.reset =>
         /\ loc.valid /\ loc.total <= rx.written
         /\ \/ loc.behind <= Capacity
            \/ loc.tcPending
            \/ ad.wraps = MaxWraps /\ ad.rxError

\* A transfer is in one place: on the channel, or its completion is on the way
\* from the channel to the worker.
TransferInv ==
    /\ tx.on => /\ held = tx.frame /\ tx.frame # 0 /\ ad.inFlight
                /\ tx.done = 0 /\ ad.txDone = 0
    /\ tx.done # 0 => ad.inFlight /\ tx.done = held /\ ad.txDone = 0
    /\ ad.txDone # 0 => ad.inFlight /\ ad.txDone = held
    /\ pc \in Early \cup {"tx"} /\ loc.txDone # 0 /\ ad.inFlight =>
         held = loc.txDone /\ ~tx.on /\ tx.done = 0 /\ ad.txDone = 0

DmaInv == Dma!TypeOK /\ Quiet /\ RingInv /\ SampleInv /\ TransferInv

-----------------------------------------------------------------------------
LEMMA FreshTypes ==
  /\ Dma!RingOff \in Dma!Rings /\ Dma!RingArmed \in Dma!Rings /\ Dma!TxQuiet \in Dma!Transmitters
  /\ Dma!Counters \in Dma!Adapters /\ Dma!NoLocals \in Dma!Locals
  /\ [Dma!Counters EXCEPT !.started = TRUE] \in Dma!Adapters
<1>1. Dma!RingOff \in Dma!Rings
  BY DmaConstants DEF Dma!RingOff, Dma!Rings
<1>2. Dma!TxQuiet \in Dma!Transmitters
  BY DEF Dma!TxQuiet, Dma!Transmitters
<1>3. Dma!Counters \in Dma!Adapters
  BY DmaConstants DEF Dma!Counters, Dma!Adapters
<1>4. Dma!NoLocals \in Dma!Locals
  BY DmaConstants DEF Dma!NoLocals, Dma!Locals
<1>5. Dma!RingArmed \in Dma!Rings
  BY <1>1 DEF Dma!RingArmed, Dma!Rings
<1>6. [Dma!Counters EXCEPT !.started = TRUE] \in Dma!Adapters
  BY <1>3 DEF Dma!Adapters
<1> QED
  BY <1>1, <1>2, <1>3, <1>4, <1>5, <1>6

LEMMA InitDma == Dma!Init => DmaInv
<1> SUFFICES ASSUME Dma!Init PROVE DmaInv
  OBVIOUS
<1>1. Dma!TypeOK
  BY FreshTypes DEF Dma!Init, Dma!TypeOK, Dma!Frames
<1>2. Quiet /\ SampleInv /\ TransferInv
  BY DEF Dma!Init, Quiet, SampleInv, TransferInv, Dma!TxQuiet, Dma!Counters, Dma!NoLocals, Early
<1>3. RingInv
  BY DmaConstants DEF Dma!Init, RingInv, Gap, Exact, Dma!RingOff, Dma!Counters
<1> QED
  BY <1>1, <1>2, <1>3 DEF DmaInv

LEMMA StartDma == DmaInv /\ Dma!Start => DmaInv'
<1> SUFFICES ASSUME DmaInv, Dma!Start PROVE DmaInv'
  OBVIOUS
<1>1. Dma!TypeOK'
  BY FreshTypes DEF DmaInv, Dma!Start, Dma!TypeOK
<1>2. Quiet' /\ SampleInv' /\ TransferInv'
  BY DEF Dma!Start, Quiet, SampleInv, TransferInv, Dma!TxQuiet, Dma!Counters, Dma!NoLocals, Early
<1>3. RingInv'
  BY DmaConstants DEF Dma!Start, RingInv, Gap, Exact, Dma!RingArmed, Dma!RingOff, Dma!Counters
<1> QED
  BY <1>1, <1>2, <1>3 DEF DmaInv

LEMMA StopDma == DmaInv /\ Dma!Stop => DmaInv'
<1> SUFFICES ASSUME DmaInv, Dma!Stop PROVE DmaInv'
  OBVIOUS
<1>1. Dma!TypeOK'
  BY FreshTypes DEF DmaInv, Dma!Stop, Dma!TypeOK
<1>2. Quiet' /\ SampleInv' /\ TransferInv'
  BY DEF Dma!Stop, Quiet, SampleInv, TransferInv, Dma!TxQuiet, Dma!Counters, Dma!NoLocals, Early
<1>3. RingInv'
  BY DmaConstants DEF Dma!Stop, RingInv, Gap, Exact, Dma!RingArmed, Dma!RingOff, Dma!Counters
<1> QED
  BY <1>1, <1>2, <1>3 DEF DmaInv

LEMMA ReceiveDma == DmaInv /\ Dma!DmaReceives => DmaInv'
<1> SUFFICES ASSUME DmaInv, Dma!DmaReceives PROVE DmaInv'
  OBVIOUS
<1> USE DmaConstants DEF Dma!Rings
<1>1. /\ rx' = [rx EXCEPT !.written = @ + 1, !.remaining = @ - 1,
                          !.tc = rx.tc \/ rx.remaining = 1]
      /\ UNCHANGED <<pc, tx, ad, loc, held, last>>
      /\ rx.armed /\ rx.written < MaxBytes /\ rx.remaining > 0
      /\ ~(rx.tc /\ rx.remaining = 1)
  BY DEF Dma!DmaReceives
<1>2. /\ rx'.written = rx.written + 1 /\ rx'.remaining = rx.remaining - 1
      /\ rx'.tc <=> (rx.tc \/ rx.remaining = 1)
  BY <1>1 DEF DmaInv, Dma!TypeOK
<1>3. Dma!TypeOK'
  <2>1. /\ rx.written + 1 \in 0 .. MaxBytes /\ rx.remaining - 1 \in 0 .. Capacity
    BY <1>1 DEF DmaInv, Dma!TypeOK
  <2>2. \E b \in BOOLEAN : rx' = [rx EXCEPT !.written = @ + 1, !.remaining = @ - 1, !.tc = b]
    BY <1>1
  <2>3. rx' \in Dma!Rings
    BY <2>1, <2>2 DEF DmaInv, Dma!TypeOK
  <2> QED
    BY <1>1, <2>3 DEF DmaInv, Dma!TypeOK
<1>4. ad.started
  BY <1>1 DEF DmaInv, Quiet, Dma!RingOff
<1>5. RingInv'
  <2>1. Gap' = Gap /\ Exact' = Exact
    BY <1>1, <1>2 DEF DmaInv, Dma!TypeOK, Dma!Adapters, Gap, Exact
  <2> QED
    BY <1>1, <1>2, <2>1 DEF DmaInv, Dma!TypeOK, Dma!Adapters, RingInv, Early
<1>6. SampleInv'
  BY <1>1, <1>2 DEF DmaInv, Dma!TypeOK, Dma!Adapters, Dma!Locals, SampleInv, Uncounted, Early
<1>7. TransferInv' /\ Quiet'
  BY <1>1, <1>4 DEF DmaInv, TransferInv, Quiet, Early
<1> QED
  BY <1>3, <1>5, <1>6, <1>7 DEF DmaInv

LEMMA ReloadDma == DmaInv /\ Dma!DmaReloads => DmaInv'
<1> SUFFICES ASSUME DmaInv, Dma!DmaReloads PROVE DmaInv'
  OBVIOUS
<1> USE DmaConstants
<1>1. /\ rx' = [rx EXCEPT !.remaining = Capacity] /\ rx.armed /\ rx.remaining = 0
      /\ UNCHANGED <<pc, tx, ad, loc, held, last>>
  BY DEF Dma!DmaReloads
<1>2. Dma!TypeOK'
  BY <1>1 DEF DmaInv, Dma!TypeOK, Dma!Rings
<1>3. /\ rx'.written = rx.written /\ rx'.remaining = Capacity
      /\ rx'.tc = rx.tc /\ rx.tc
  BY <1>1 DEF DmaInv, Dma!TypeOK, Dma!Rings, RingInv
<1>4. ad.started
  BY <1>1 DEF DmaInv, Quiet, Dma!RingOff
<1>5. RingInv'
  <2>1. Gap' = Gap + Capacity /\ Exact' = Exact + Capacity /\ Exact = 0
    BY <1>1, <1>3 DEF DmaInv, Dma!TypeOK, Dma!Rings, Dma!Adapters, Gap, Exact
  <2>2. Gap \in Int
    BY DEF DmaInv, Dma!TypeOK, Dma!Rings, Dma!Adapters, Gap
  <2> QED
    BY <1>1, <1>3, <2>1, <2>2 DEF DmaInv, RingInv, Early
<1>6. SampleInv'
  BY <1>1, <1>3 DEF DmaInv, SampleInv, Uncounted
<1>7. TransferInv' /\ Quiet'
  BY <1>1, <1>4 DEF DmaInv, TransferInv, Quiet
<1> QED
  BY <1>2, <1>5, <1>6, <1>7 DEF DmaInv

LEMMA WrapDma == DmaInv /\ Dma!RxWrapIrq => DmaInv'
<1> SUFFICES ASSUME DmaInv, Dma!RxWrapIrq PROVE DmaInv'
  OBVIOUS
<1> USE DmaConstants
<1>1. /\ rx' = [rx EXCEPT !.tc = FALSE] /\ rx.tc /\ rx.remaining > 0 /\ ad.started
      /\ UNCHANGED <<pc, tx, loc, held, last>>
  BY DEF Dma!RxWrapIrq
<1>2. /\ rx' \in Dma!Rings /\ rx'.written = rx.written /\ rx'.remaining = rx.remaining
      /\ ~rx'.tc
  BY <1>1 DEF DmaInv, Dma!TypeOK, Dma!Rings
<1>3. Exact = Capacity /\ Exact' = 0
  BY <1>1, <1>2 DEF Exact
<1>4. Gap \in Int
  BY DEF DmaInv, Dma!TypeOK, Dma!Rings, Dma!Adapters, Gap
<1>5. CASE ad.wraps = MaxWraps
  <2>1. ad' = [ad EXCEPT !.rxError = TRUE]
    BY <1>5 DEF Dma!RxWrapIrq
  <2>2. /\ ad' \in Dma!Adapters /\ ad'.wraps = ad.wraps /\ ad'.read = ad.read /\ ad'.rxError
        /\ ad'.started /\ ad'.txDone = ad.txDone /\ ad'.inFlight = ad.inFlight
    BY <1>1, <2>1 DEF DmaInv, Dma!TypeOK, Dma!Adapters
  <2>3. Gap' = Gap
    BY <1>2, <2>2 DEF Gap
  <2>4. RingInv'
    BY <1>1, <1>2, <1>3, <1>4, <1>5, <2>2, <2>3 DEF DmaInv, RingInv
  <2>5. SampleInv'
    BY <1>1, <1>2, <1>5, <2>2 DEF DmaInv, SampleInv, Uncounted
  <2> QED
    BY <1>1, <1>2, <2>2, <2>4, <2>5 DEF DmaInv, Dma!TypeOK, TransferInv, Quiet
<1>6. CASE ad.wraps # MaxWraps
  <2>1. ad' = [ad EXCEPT !.wraps = @ + 1]
    BY <1>6 DEF Dma!RxWrapIrq
  <2>2. /\ ad' \in Dma!Adapters /\ ad'.wraps = ad.wraps + 1 /\ ad'.read = ad.read
        /\ ad'.rxError = ad.rxError
        /\ ad'.started /\ ad'.txDone = ad.txDone /\ ad'.inFlight = ad.inFlight
    BY <1>1, <1>6, <2>1 DEF DmaInv, Dma!TypeOK, Dma!Adapters
  <2>3. Gap' = Gap - Capacity
    BY <1>2, <2>2 DEF DmaInv, Dma!TypeOK, Dma!Rings, Dma!Adapters, Gap
  <2>4. RingInv'
    BY <1>1, <1>2, <1>3, <1>4, <1>6, <2>2, <2>3 DEF DmaInv, RingInv
  <2>5. SampleInv'
    BY <1>1, <1>2, <1>6, <2>2 DEF DmaInv, Dma!TypeOK, Dma!Adapters, Dma!Locals, SampleInv, Uncounted
  <2> QED
    BY <1>1, <1>2, <2>2, <2>4, <2>5 DEF DmaInv, Dma!TypeOK, TransferInv, Quiet
<1> QED
  BY <1>5, <1>6

LEMMA ErrorDma == DmaInv /\ Dma!RxErrorIrq => DmaInv'
<1> SUFFICES ASSUME DmaInv, Dma!RxErrorIrq PROVE DmaInv'
  OBVIOUS
<1>1. /\ ad' = [ad EXCEPT !.rxError = TRUE] /\ ad.started
      /\ UNCHANGED <<pc, rx, tx, loc, held, last>>
  BY DEF Dma!RxErrorIrq
<1>2. /\ ad' \in Dma!Adapters /\ ad'.wraps = ad.wraps /\ ad'.read = ad.read /\ ad'.rxError
      /\ ad'.started /\ ad'.txDone = ad.txDone /\ ad'.inFlight = ad.inFlight
  BY <1>1 DEF DmaInv, Dma!TypeOK, Dma!Adapters
<1>3. RingInv'
  BY <1>1, <1>2 DEF DmaInv, RingInv, Gap, Exact
<1>4. SampleInv'
  BY <1>1, <1>2 DEF DmaInv, SampleInv, Uncounted
<1> QED
  BY <1>1, <1>2, <1>3, <1>4 DEF DmaInv, Dma!TypeOK, TransferInv, Quiet

\* Steps of the transmitter leave the receiving side alone.
ReceivingStays ==
    /\ rx' = rx /\ ad'.wraps = ad.wraps /\ ad'.read = ad.read
    /\ ad'.rxError = ad.rxError /\ ad'.started = ad.started

LEMMA ReceivingKept ==
  ASSUME DmaInv, ReceivingStays, pc' = pc, loc' = loc
  PROVE  RingInv' /\ SampleInv'
BY DEF DmaInv, ReceivingStays, RingInv, SampleInv, Gap, Exact, Uncounted

LEMMA TransmitDma == DmaInv /\ Dma!DmaTransmitEnds => DmaInv'
<1> SUFFICES ASSUME DmaInv, Dma!DmaTransmitEnds PROVE DmaInv'
  OBVIOUS
<1>1. /\ tx.on /\ UNCHANGED <<pc, rx, ad, loc, held, last>>
      /\ \/ tx' = [tx EXCEPT !.on = FALSE, !.done = tx.frame]
         \/ tx' = [tx EXCEPT !.on = FALSE, !.err = TRUE]
  BY DEF Dma!DmaTransmitEnds
<1>2. tx' \in Dma!Transmitters /\ ~tx'.on /\ tx'.done \in {tx.done, tx.frame}
  BY <1>1 DEF DmaInv, Dma!TypeOK, Dma!Transmitters
<1>3. RingInv' /\ SampleInv'
  BY <1>1, ReceivingKept DEF ReceivingStays
<1>4. TransferInv'
  BY <1>1, <1>2 DEF DmaInv, TransferInv
<1>5. ad.started
  BY <1>1 DEF DmaInv, Quiet, Dma!TxQuiet
<1> QED
  BY <1>1, <1>2, <1>3, <1>4, <1>5 DEF DmaInv, Dma!TypeOK, Quiet

LEMMA TxIrqDma == DmaInv /\ Dma!TxIrq => DmaInv'
<1> SUFFICES ASSUME DmaInv, Dma!TxIrq PROVE DmaInv'
  OBVIOUS
<1>1. /\ tx' = [tx EXCEPT !.done = 0, !.err = FALSE] /\ ad.started
      /\ ad' = [ad EXCEPT !.txError = @ \/ tx.err,
                          !.txDone = IF tx.done # 0 THEN tx.done ELSE @]
      /\ UNCHANGED <<pc, rx, loc, held, last>>
  BY DEF Dma!TxIrq
<1>2. /\ tx' \in Dma!Transmitters /\ tx'.on = tx.on /\ tx'.done = 0 /\ tx'.frame = tx.frame
  BY <1>1 DEF DmaInv, Dma!TypeOK, Dma!Transmitters
<1>3. /\ ReceivingStays /\ ad'.inFlight = ad.inFlight
      /\ ad'.txDone = IF tx.done # 0 THEN tx.done ELSE ad.txDone
  BY <1>1 DEF DmaInv, Dma!TypeOK, Dma!Adapters, ReceivingStays
<1>4. ad' \in Dma!Adapters
  <2>1. \E b \in BOOLEAN, d \in Dma!Frames \cup {0} :
            ad' = [ad EXCEPT !.txError = b, !.txDone = d]
    BY <1>1 DEF DmaInv, Dma!TypeOK, Dma!Adapters, Dma!Transmitters
  <2> QED
    BY <2>1 DEF DmaInv, Dma!TypeOK, Dma!Adapters
<1>5. RingInv' /\ SampleInv'
  BY <1>1, <1>3, ReceivingKept
<1>6. TransferInv'
  BY <1>1, <1>2, <1>3 DEF DmaInv, TransferInv
<1> QED
  BY <1>1, <1>2, <1>3, <1>4, <1>5, <1>6 DEF DmaInv, Dma!TypeOK, Quiet, ReceivingStays

-----------------------------------------------------------------------------
LEMMA TakeEventsDma == DmaInv /\ Dma!take_events => DmaInv'
<1> SUFFICES ASSUME DmaInv, Dma!take_events PROVE DmaInv'
  OBVIOUS
<1> DEFINE l == [Dma!NoLocals EXCEPT !.rxError = ad.rxError, !.txError = ad.txError,
                                 !.txDone = ad.txDone]
<1>1. /\ pc = "idle" /\ pc' = "wraps" /\ loc' = l /\ ad.started
      /\ ad' = [ad EXCEPT !.rxError = FALSE, !.txError = FALSE, !.txDone = 0]
      /\ UNCHANGED <<rx, tx, held, last>>
  BY DEF Dma!take_events
<1>2. /\ l \in Dma!Locals /\ l.rxError = ad.rxError /\ l.txDone = ad.txDone
      /\ ~l.reset
  <2>1. Dma!NoLocals \in Dma!Locals /\ ~Dma!NoLocals.reset
    BY FreshTypes DEF Dma!NoLocals
  <2> HIDE DEF l
  <2>2. l = [Dma!NoLocals EXCEPT !.rxError = ad.rxError, !.txError = ad.txError,
                             !.txDone = ad.txDone]
    BY DEF l
  <2> QED
    BY <2>1, <2>2 DEF DmaInv, Dma!TypeOK, Dma!Adapters, Dma!Locals
<1> HIDE DEF l
<1>3. /\ ad' \in Dma!Adapters /\ ad'.wraps = ad.wraps /\ ad'.read = ad.read /\ ad'.started
      /\ ad'.txDone = 0 /\ ad'.inFlight = ad.inFlight
  BY <1>1 DEF DmaInv, Dma!TypeOK, Dma!Adapters
<1>4. RingInv'
  BY <1>1, <1>2, <1>3 DEF DmaInv, RingInv, Gap, Exact, Early
<1>5. SampleInv'
  BY <1>1, <1>2 DEF SampleInv, Early
<1>6. TransferInv'
  BY <1>1, <1>2, <1>3 DEF DmaInv, TransferInv, Early
<1> QED
  BY <1>1, <1>2, <1>3, <1>4, <1>5, <1>6 DEF DmaInv, Dma!TypeOK, Quiet

\* A step of the worker that changes its place and its local variables only.
LEMMA LocalStep ==
  ASSUME DmaInv, pc \notin {"idle", "halted"}, UNCHANGED <<rx, tx, ad, held, last>>,
         loc' \in Dma!Locals,
         loc'.rxError = loc.rxError, loc'.txDone = loc.txDone,
         pc' \in Early => pc \in Early,
         pc' \in {"wraps", "cndtr", "again", "recover", "tx", "consume", "cts", "start", "halted"},
         pc \in Early /\ loc.rxError => pc' \in Early,
         pc' \in Early \cup {"tx"} => pc \in Early \cup {"tx"}, SampleInv'
  PROVE  DmaInv'
<1>1. Dma!TypeOK' /\ Quiet'
  BY DEF DmaInv, Dma!TypeOK, Quiet
<1>2. RingInv'
  BY DEF DmaInv, RingInv, Gap, Exact, Early
<1>3. TransferInv'
  BY DEF DmaInv, TransferInv
<1> QED
  BY <1>1, <1>2, <1>3 DEF DmaInv

LEMMA SampleWrapsDma == DmaInv /\ Dma!SampleWraps => DmaInv'
<1> SUFFICES ASSUME DmaInv, Dma!SampleWraps PROVE DmaInv'
  OBVIOUS
<1>1. /\ pc = "wraps" /\ loc.tries < 3 /\ pc' = "cndtr"
      /\ loc' = [loc EXCEPT !.before = ad.wraps, !.tries = @ + 1]
      /\ UNCHANGED <<rx, tx, ad, held, last>>
  BY DEF Dma!SampleWraps, Dma!Continue
<1>2. /\ loc' \in Dma!Locals /\ loc'.before = ad.wraps /\ loc'.rxError = loc.rxError
      /\ loc'.txDone = loc.txDone /\ loc'.reset = loc.reset
  <2>1. loc.tries + 1 \in 0 .. 3 /\ ad.wraps \in 0 .. MaxWraps /\ loc \in Dma!Locals
    BY <1>1 DEF DmaInv, Dma!TypeOK, Dma!Locals, Dma!Adapters
  <2> QED
    BY <1>1, <2>1 DEF Dma!Locals
<1>3. SampleInv'
  BY <1>1, <1>2 DEF DmaInv, Dma!TypeOK, Dma!Adapters, SampleInv, Early
<1> QED
  BY <1>1, <1>2, <1>3, LocalStep DEF Early

LEMMA SampleCndtrDma == DmaInv /\ Dma!SampleCndtr => DmaInv'
<1> SUFFICES ASSUME DmaInv, Dma!SampleCndtr PROVE DmaInv'
  OBVIOUS
<1> USE DmaConstants
<1>1. /\ pc = "cndtr" /\ pc' = "again"
      /\ loc' = [loc EXCEPT !.total = loc.before * Capacity + Capacity - rx.remaining,
                            !.behind = rx.written - ad.read, !.tcPending = rx.tc]
      /\ UNCHANGED <<rx, tx, ad, held, last>>
  BY DEF Dma!SampleCndtr, Dma!Continue
<1> DEFINE total == loc.before * Capacity + Capacity - rx.remaining
<1>2. total \in Nat /\ rx.written - ad.read \in Int /\ rx.tc \in BOOLEAN /\ loc \in Dma!Locals
  <2>1. loc.before * Capacity \in Nat
    BY DEF DmaInv, Dma!TypeOK, Dma!Locals
  <2> QED
    BY <2>1 DEF DmaInv, Dma!TypeOK, Dma!Adapters, Dma!Rings
<1>3. /\ loc' \in Dma!Locals /\ loc'.before = loc.before /\ loc'.rxError = loc.rxError
      /\ loc'.txDone = loc.txDone /\ loc'.reset = loc.reset
      /\ loc'.behind = rx.written - ad.read /\ loc'.tcPending = rx.tc
      /\ loc'.total = loc.before * Capacity + Capacity - rx.remaining
  <2> HIDE DEF total
  <2>1. loc' = [loc EXCEPT !.total = total, !.behind = rx.written - ad.read, !.tcPending = rx.tc]
    BY <1>1 DEF total
  <2>2. /\ loc' \in Dma!Locals /\ loc'.before = loc.before /\ loc'.rxError = loc.rxError
        /\ loc'.txDone = loc.txDone /\ loc'.reset = loc.reset
        /\ loc'.behind = rx.written - ad.read /\ loc'.tcPending = rx.tc
        /\ loc'.total = total
    BY <1>2, <2>1 DEF Dma!Locals
  <2> QED
    BY <2>2 DEF total
<1>4. ASSUME loc.before = ad.wraps
      PROVE  LET short == rx.written - loc'.total
             IN  /\ rx.written >= ad.read
                 /\ \/ short = 0
                    \/ short = Capacity /\ rx.tc
                    \/ short >= Capacity /\ Uncounted
  <2>1. rx.written - loc'.total = Gap
    BY <1>3, <1>4 DEF Gap
  <2>2. Gap \in Int
    BY DEF DmaInv, Dma!TypeOK, Dma!Rings, Dma!Adapters, Gap
  <2> QED
    BY <1>1, <2>1, <2>2 DEF DmaInv, Dma!TypeOK, Dma!Rings, Dma!Adapters, RingInv, Exact, Uncounted
<1>5. SampleInv'
  BY <1>1, <1>3, <1>4 DEF DmaInv, Dma!TypeOK, Dma!Rings, Dma!Adapters, Dma!Locals,
         SampleInv, Early, Uncounted
<1> QED
  BY <1>1, <1>3, <1>5, LocalStep DEF Early

LEMMA SampleAgainDma == DmaInv /\ Dma!SampleAgain => DmaInv'
<1> SUFFICES ASSUME DmaInv, Dma!SampleAgain PROVE DmaInv'
  OBVIOUS
<1> USE DmaConstants
<1>1. /\ pc = "again" /\ pc' = "recover" /\ loc.before = ad.wraps
      /\ loc' = [loc EXCEPT !.total = Dma!Corrected(loc.total),
                            !.valid = ad.read - loc.total <= Capacity]
      /\ UNCHANGED <<rx, tx, ad, held, last>>
  BY DEF Dma!SampleAgain, Dma!Continue
<1>2. Dma!Corrected(loc.total) \in Nat
  BY DEF DmaInv, Dma!TypeOK, Dma!Locals, Dma!Corrected
<1>3. (ad.read - loc.total <= Capacity) \in BOOLEAN
  OBVIOUS
<1>4. /\ loc' \in Dma!Locals /\ loc'.rxError = loc.rxError
      /\ loc'.txDone = loc.txDone /\ loc'.reset = loc.reset
      /\ loc'.behind = loc.behind /\ loc'.tcPending = loc.tcPending
      /\ loc'.total = Dma!Corrected(loc.total)
  <2>1. PICK b \in BOOLEAN : loc' = [loc EXCEPT !.total = Dma!Corrected(loc.total), !.valid = b]
    BY <1>1, <1>3
  <2> QED
    BY <1>2, <2>1 DEF DmaInv, Dma!TypeOK, Dma!Locals
<1>5. /\ Dma!Corrected(loc.total) <= rx.written
      /\ loc.behind + ad.read = Dma!Corrected(loc.total) \/ loc.tcPending \/ Uncounted
  BY <1>1 DEF DmaInv, Dma!TypeOK, Dma!Rings, Dma!Adapters, Dma!Locals, SampleInv, Dma!Corrected
<1>6. SampleInv'
  BY <1>1, <1>4, <1>5 DEF DmaInv, SampleInv, Early, Uncounted
<1> QED
  BY <1>1, <1>4, <1>6, LocalStep DEF Early

LEMMA SampleRetryDma == DmaInv /\ Dma!SampleRetry => DmaInv'
<1> SUFFICES ASSUME DmaInv, Dma!SampleRetry PROVE DmaInv'
  OBVIOUS
<1>1. UNCHANGED <<rx, tx, ad, held, last>>
  BY DEF Dma!SampleRetry, Dma!Continue
<1>2. CASE pc = "again" /\ pc' = "wraps" /\ loc' = loc
  <2>1. SampleInv'
    BY <1>1, <1>2 DEF DmaInv, SampleInv, Early
  <2> QED
    BY <1>1, <1>2, <2>1, LocalStep DEF Early, DmaInv, Dma!TypeOK
<1>3. CASE pc = "wraps" /\ pc' = "recover" /\ loc' = [loc EXCEPT !.valid = FALSE]
  <2>1. /\ loc' \in Dma!Locals /\ loc'.rxError = loc.rxError /\ ~loc'.valid
        /\ loc'.txDone = loc.txDone /\ loc'.reset = loc.reset
    BY <1>3 DEF DmaInv, Dma!TypeOK, Dma!Locals
  <2>2. SampleInv'
    BY <1>1, <1>3, <2>1 DEF DmaInv, SampleInv, Early
  <2> QED
    BY <1>1, <1>3, <2>1, <2>2, LocalStep DEF Early
<1> QED
  BY <1>2, <1>3 DEF Dma!SampleRetry, Dma!Continue

LEMMA NoRecoveryDma == DmaInv /\ Dma!NoRecovery => DmaInv'
<1> SUFFICES ASSUME DmaInv, Dma!NoRecovery PROVE DmaInv'
  OBVIOUS
<1>1. /\ pc = "recover" /\ pc' = "tx" /\ UNCHANGED <<rx, tx, ad, loc, held, last>>
      /\ loc.valid /\ ~loc.rxError /\ ~(loc.total - ad.read > Capacity)
  BY DEF Dma!NoRecovery, Dma!Continue, Dma!NeedsRecovery, Dma!Overrun
<1>2. SampleInv'
  BY <1>1, DmaConstants DEF DmaInv, Dma!TypeOK, Dma!Adapters, Dma!Locals,
         SampleInv, Early, Uncounted
<1> QED
  BY <1>1, <1>2, LocalStep DEF Early, DmaInv, Dma!TypeOK

-----------------------------------------------------------------------------
(* Steps that reach the transmitter.                                        *)

Reset == [ad EXCEPT !.inFlight = FALSE, !.txDone = 0, !.txError = FALSE]

LEMMA ResetIs ==
  ASSUME DmaInv
  PROVE  Dma!RuntimeReset(Dma!Now) = [tx |-> Dma!TxQuiet, ad |-> Reset, held |-> 0]
<1> DEFINE off == [ad EXCEPT !.inFlight = FALSE]
<1>1. Dma!Aborted(Dma!Now) = [tx |-> Dma!TxQuiet, ad |-> off, held |-> held]
  BY DEF Dma!Aborted, Dma!Now
<1>2. [off EXCEPT !.txDone = 0, !.txError = FALSE] = Reset
  BY DEF Reset, DmaInv, Dma!TypeOK, Dma!Adapters
<1> HIDE DEF off
<1>3. Dma!runtime_reset_hook(Dma!Now) = [tx |-> Dma!TxQuiet, ad |-> Reset, held |-> held]
  BY <1>1, <1>2 DEF Dma!runtime_reset_hook
<1> QED
  BY <1>3 DEF Dma!RuntimeReset

\* The reset hook stops the channel and forgets its completions.
LEMMA HookFacts ==
  ASSUME DmaInv
  PROVE  /\ Dma!RuntimeReset(Dma!Now).tx = Dma!TxQuiet /\ Dma!RuntimeReset(Dma!Now).held = 0
         /\ Dma!RuntimeReset(Dma!Now).ad \in Dma!Adapters
         /\ Dma!RuntimeReset(Dma!Now).ad.wraps = ad.wraps
         /\ Dma!RuntimeReset(Dma!Now).ad.read = ad.read
         /\ Dma!RuntimeReset(Dma!Now).ad.rxError = ad.rxError
         /\ Dma!RuntimeReset(Dma!Now).ad.started = ad.started
         /\ Dma!RuntimeReset(Dma!Now).ad.txDone = 0 /\ ~Dma!RuntimeReset(Dma!Now).ad.inFlight
<1>1. Dma!RuntimeReset(Dma!Now) = [tx |-> Dma!TxQuiet, ad |-> Reset, held |-> 0]
  BY ResetIs
<1>2. /\ Reset \in Dma!Adapters /\ Reset.wraps = ad.wraps /\ Reset.read = ad.read
      /\ Reset.rxError = ad.rxError /\ Reset.started = ad.started
      /\ Reset.txDone = 0 /\ ~Reset.inFlight
  BY DEF Reset, DmaInv, Dma!TypeOK, Dma!Adapters
<1> QED
  BY <1>1, <1>2

\* Nothing is under way on the channel.
AtRest == tx' = Dma!TxQuiet /\ ad'.txDone = 0

LEMMA RestFacts ==
  ASSUME AtRest, ~ad'.inFlight
  PROVE  tx' \in Dma!Transmitters /\ TransferInv'
  BY FreshTypes DEF AtRest, Dma!TxQuiet, TransferInv

\* A service that fails leaves everything as it was but the receive channel.
LEMMA FailDma ==
  ASSUME DmaInv, pc # "idle", Dma!Fails, UNCHANGED <<tx, ad, held, loc>>,
         rx' \in {rx, [rx EXCEPT !.armed = FALSE]}
  PROVE  DmaInv'
<1>1. pc' = "halted" /\ last' = last
  BY DEF Dma!Fails
<1>2. /\ rx' \in Dma!Rings /\ rx'.written = rx.written /\ rx'.remaining = rx.remaining
      /\ rx'.tc = rx.tc
  BY DEF DmaInv, Dma!TypeOK, Dma!Rings
<1>3. Dma!TypeOK' /\ Quiet'
  BY <1>1, <1>2 DEF DmaInv, Dma!TypeOK, Quiet
<1>4. RingInv'
  BY <1>1, <1>2 DEF DmaInv, RingInv, Gap, Exact, Early
<1>5. SampleInv' /\ TransferInv'
  BY <1>1 DEF DmaInv, SampleInv, TransferInv, Early
<1> QED
  BY <1>3, <1>4, <1>5 DEF DmaInv

LEMMA ResetRxDma == DmaInv /\ Dma!reset_rx_dma => DmaInv'
<1> SUFFICES ASSUME DmaInv, Dma!reset_rx_dma PROVE DmaInv'
  OBVIOUS
<1> USE DmaConstants
<1>0. pc = "recover" /\ ad.started
  BY DEF Dma!reset_rx_dma, DmaInv, Quiet
<1>1. CASE /\ rx' = Dma!RingArmed
           /\ loc' = [loc EXCEPT !.reset = TRUE, !.total = 0]
           /\ LET s == Dma!RuntimeReset(Dma!Now)
              IN  /\ tx' = s.tx /\ held' = s.held
                  /\ ad' = [s.ad EXCEPT !.read = 0, !.wraps = 0, !.rxError = FALSE]
           /\ Dma!Continue("tx")
  <2>1. /\ tx' = Dma!TxQuiet /\ held' = 0 /\ pc' = "tx" /\ last' = last
        /\ ad' = [Reset EXCEPT !.read = 0, !.wraps = 0, !.rxError = FALSE]
    <3>1. Dma!RuntimeReset(Dma!Now) = [tx |-> Dma!TxQuiet, ad |-> Reset, held |-> 0]
      BY ResetIs
    <3>2. /\ Dma!RuntimeReset(Dma!Now).tx = Dma!TxQuiet /\ Dma!RuntimeReset(Dma!Now).held = 0
          /\ Dma!RuntimeReset(Dma!Now).ad = Reset
      BY <3>1
    <3> QED
      BY <1>1, <3>2 DEF Dma!Continue
  <2>2. Reset \in Dma!Adapters /\ ~Reset.inFlight /\ Reset.txDone = 0 /\ Reset.started
    BY <1>0 DEF Reset, DmaInv, Dma!TypeOK, Dma!Adapters
  <2>3. /\ ad' \in Dma!Adapters /\ ad'.wraps = 0 /\ ad'.read = 0 /\ ad'.txDone = 0
        /\ ~ad'.inFlight /\ ad'.started
    <3>1. 0 \in 0 .. MaxBytes /\ 0 \in 0 .. MaxWraps
      OBVIOUS
    <3> QED
      BY <2>1, <2>2, <3>1 DEF Dma!Adapters
  <2>4. loc' \in Dma!Locals /\ loc'.reset
    BY <1>1 DEF DmaInv, Dma!TypeOK, Dma!Locals
  <2>5. RingInv'
    BY <1>1, <2>3 DEF RingInv, Gap, Exact, Dma!RingArmed, Dma!RingOff
  <2>6. SampleInv'
    BY <2>1, <2>4 DEF SampleInv, Early
  <2>7. TransferInv' /\ tx' \in Dma!Transmitters
    BY <2>1, <2>3, RestFacts DEF AtRest
  <2>8. Dma!TypeOK' /\ Quiet'
    BY <1>1, <2>1, <2>3, <2>4, <2>7, FreshTypes DEF DmaInv, Dma!TypeOK, Quiet
  <2> QED
    BY <2>5, <2>6, <2>7, <2>8 DEF DmaInv
<1>2. CASE /\ rx' = [rx EXCEPT !.armed = FALSE]
           /\ Dma!Fails /\ UNCHANGED <<tx, ad, held, loc>>
  BY <1>0, <1>2, FailDma
<1> QED
  BY <1>1, <1>2 DEF Dma!reset_rx_dma

\* The worker goes on with the receiving side as it was, the transmitter idle.
LEMMA RestStep ==
  ASSUME DmaInv, ReceivingStays, ad.started, pc' \in {"cts", "start"}, pc \in {"tx", "cts"},
         AtRest, ad' \in Dma!Adapters, ~ad'.inFlight, held' \in Dma!Frames \cup {0}, last' = last,
         loc' \in Dma!Locals
  PROVE  DmaInv'
<1>1. RingInv'
  BY DEF DmaInv, RingInv, Gap, Exact, ReceivingStays, Early
<1>2. SampleInv'
  BY DEF SampleInv, Early
<1>3. Dma!TypeOK' /\ TransferInv'
  BY RestFacts DEF DmaInv, Dma!TypeOK, ReceivingStays
<1>4. Quiet'
  BY DEF Quiet, ReceivingStays
<1> QED
  BY <1>1, <1>2, <1>3, <1>4 DEF DmaInv

LEMMA TxFailedDma == DmaInv /\ Dma!TxFailed => DmaInv'
<1> SUFFICES ASSUME DmaInv, Dma!TxFailed PROVE DmaInv'
  OBVIOUS
<1>0. pc = "tx" /\ ad.started /\ rx' = rx
  BY DEF Dma!TxFailed, DmaInv, Quiet
<1>1. CASE /\ Dma!Become(Dma!RuntimeReset(Dma!Now)) /\ Dma!Continue("cts")
           /\ loc' = [loc EXCEPT !.reset = TRUE]
  <2>1. loc' \in Dma!Locals
    BY <1>1 DEF DmaInv, Dma!TypeOK, Dma!Locals
  <2>2. /\ ReceivingStays /\ AtRest /\ ad' \in Dma!Adapters /\ ~ad'.inFlight /\ held' = 0
        /\ pc' = "cts" /\ last' = last
    BY <1>0, <1>1, HookFacts DEF Dma!Become, Dma!Continue, ReceivingStays, AtRest
  <2> QED
    BY <1>0, <2>1, <2>2, RestStep
<1>2. CASE Dma!Fails /\ UNCHANGED <<tx, ad, held, loc>>
  BY <1>0, <1>2, FailDma
<1> QED
  BY <1>1, <1>2 DEF Dma!TxFailed

LEMMA TxFinishedDma == DmaInv /\ Dma!TxFinished => DmaInv'
<1> SUFFICES ASSUME DmaInv, Dma!TxFinished PROVE DmaInv'
  OBVIOUS
<1>1. /\ pc = "tx" /\ ad' = [ad EXCEPT !.inFlight = FALSE] /\ tx' = [tx EXCEPT !.on = FALSE]
      /\ rx' = rx /\ loc' = loc /\ loc.txDone # 0 /\ ad.inFlight
  BY DEF Dma!TxFinished, Dma!TxCompletes
<1>2. /\ held = loc.txDone /\ tx.done = 0 /\ ad.txDone = 0 /\ ad.started
  BY <1>1 DEF DmaInv, TransferInv, Quiet
<1>3. held' = 0 /\ last' = last /\ pc' = Dma!AfterTx
  BY <1>1, <1>2 DEF Dma!TxFinished, Dma!Continue
<1>4. /\ ad' \in Dma!Adapters /\ ReceivingStays /\ ad'.txDone = 0 /\ ~ad'.inFlight
  BY <1>1, <1>2 DEF DmaInv, Dma!TypeOK, Dma!Adapters, ReceivingStays
<1>5. tx' \in Dma!Transmitters /\ ~tx'.on /\ tx'.done = 0
  BY <1>1, <1>2 DEF DmaInv, Dma!TypeOK, Dma!Transmitters
<1>6. Dma!TypeOK' /\ Quiet'
  BY <1>1, <1>2, <1>3, <1>4, <1>5 DEF DmaInv, Dma!TypeOK, Dma!AfterTx, Quiet, ReceivingStays
<1>7. RingInv'
  BY <1>1, <1>3, <1>4 DEF DmaInv, RingInv, Gap, Exact, ReceivingStays, Early, Dma!AfterTx
<1>8. SampleInv'
  BY <1>1, <1>3, <1>4 DEF DmaInv, SampleInv, ReceivingStays, Early, Dma!AfterTx
<1>9. TransferInv'
  BY <1>4, <1>5 DEF TransferInv
<1> QED
  BY <1>6, <1>7, <1>8, <1>9 DEF DmaInv

LEMMA TxNothingDma == DmaInv /\ Dma!TxNothing => DmaInv'
<1> SUFFICES ASSUME DmaInv, Dma!TxNothing PROVE DmaInv'
  OBVIOUS
<1>1. /\ pc = "tx" /\ pc' \in {"cts", "consume"} /\ UNCHANGED <<rx, tx, ad, loc, held, last>>
      /\ pc' = "consume" => ~loc.reset
  BY DEF Dma!TxNothing, Dma!Continue, Dma!AfterTx
<1>2. SampleInv'
  BY <1>1 DEF DmaInv, SampleInv, Early
<1> QED
  BY <1>1, <1>2, LocalStep DEF Early, DmaInv, Dma!TypeOK

\* Each byte handed over is one that has been received.
LEMMA ConsumeDma == DmaInv /\ Dma!consume_rx => DmaInv'
<1> SUFFICES ASSUME DmaInv, Dma!consume_rx PROVE DmaInv'
  OBVIOUS
<1> USE DmaConstants
<1>0. pc = "consume" /\ ad.started /\ rx' = rx /\ ~loc.reset
  BY DEF Dma!consume_rx, DmaInv, Quiet, SampleInv
<1>1. CASE loc.count < RxBudget /\ ad.read < loc.total
  <2>1. PICK s \in Dma!RuntimeMayRecover(Dma!Now) :
               /\ tx' = s.tx /\ held' = s.held /\ ad' = [s.ad EXCEPT !.read = @ + 1]
               /\ loc' = [loc EXCEPT !.count = @ + 1]
               /\ Dma!Continue("consume")
    BY <1>1 DEF Dma!consume_rx
  <2>2. pc' = "consume" /\ last' = last
    BY <2>1 DEF Dma!Continue
  <2>3. /\ loc' \in Dma!Locals /\ loc'.total = loc.total /\ loc'.reset = loc.reset
        /\ loc'.valid = loc.valid /\ loc'.behind = loc.behind
        /\ loc'.tcPending = loc.tcPending
    <3>1. loc.count + 1 \in 0 .. RxBudget
      BY <1>1 DEF DmaInv, Dma!TypeOK, Dma!Locals
    <3> QED
      BY <2>1, <3>1 DEF DmaInv, Dma!TypeOK, Dma!Locals
  <2>4. ad.read + 1 \in 0 .. MaxBytes /\ ad.read + 1 <= rx.written
    BY <1>0, <1>1 DEF DmaInv, Dma!TypeOK, Dma!Rings, Dma!Adapters, Dma!Locals, SampleInv
  <2>5. /\ s.ad \in Dma!Adapters /\ s.ad.wraps = ad.wraps /\ s.ad.read = ad.read
        /\ s.ad.rxError = ad.rxError /\ s.ad.started
        /\ s.tx \in Dma!Transmitters /\ s.held \in Dma!Frames \cup {0}
        /\ \/ s.tx = tx /\ s.held = held /\ s.ad = ad
           \/ s.tx = Dma!TxQuiet /\ s.ad.txDone = 0 /\ ~s.ad.inFlight
    <3>1. CASE s = Dma!Now
      BY <1>0, <3>1 DEF Dma!Now, DmaInv, Dma!TypeOK
    <3>2. CASE s = Dma!RuntimeReset(Dma!Now)
      BY <1>0, <3>2, HookFacts, FreshTypes
    <3> QED
      BY <2>1, <3>1, <3>2 DEF Dma!RuntimeMayRecover
  <2>6. /\ ad' \in Dma!Adapters /\ ad'.wraps = ad.wraps /\ ad'.read = ad.read + 1
        /\ ad'.rxError = ad.rxError /\ ad'.started
        /\ ad'.txDone = s.ad.txDone /\ ad'.inFlight = s.ad.inFlight
    BY <2>1, <2>4, <2>5 DEF Dma!Adapters
  <2>7. Dma!TypeOK' /\ Quiet'
    BY <1>0, <2>1, <2>2, <2>3, <2>5, <2>6 DEF DmaInv, Dma!TypeOK, Quiet
  <2>8. RingInv'
    BY <1>0, <2>2, <2>4, <2>6 DEF DmaInv, RingInv, Gap, Exact, Early
  <2>9. SampleInv'
    BY <1>0, <2>2, <2>3, <2>6 DEF DmaInv, SampleInv, Early
  <2>10. TransferInv'
    BY <1>0, <2>1, <2>2, <2>5, <2>6 DEF DmaInv, TransferInv, Early, Dma!TxQuiet
  <2> QED
    BY <2>7, <2>8, <2>9, <2>10 DEF DmaInv
<1>2. CASE ~(loc.count < RxBudget /\ ad.read < loc.total)
  <2>1. pc' = "cts" /\ UNCHANGED <<rx, tx, ad, held, loc, last>>
    BY <1>0, <1>2 DEF Dma!consume_rx, Dma!Continue
  <2>2. SampleInv'
    BY <2>1 DEF SampleInv, Early
  <2> QED
    BY <1>0, <2>1, <2>2, LocalStep DEF Early, DmaInv, Dma!TypeOK
<1> QED
  BY <1>1, <1>2

LEMMA CtsDma == DmaInv /\ Dma!CtsAndTick => DmaInv'
<1> SUFFICES ASSUME DmaInv, Dma!CtsAndTick PROVE DmaInv'
  OBVIOUS
<1>0. pc = "cts" /\ ad.started /\ rx' = rx /\ loc' = loc
  BY DEF Dma!CtsAndTick, DmaInv, Quiet
<1>1. CASE Dma!Become(Dma!Now) /\ Dma!Continue("start")
  <2>1. pc' = "start" /\ UNCHANGED <<rx, tx, ad, held, loc, last>>
    BY <1>0, <1>1 DEF Dma!Become, Dma!Continue, Dma!Now
  <2>2. SampleInv'
    BY <2>1 DEF SampleInv, Early
  <2> QED
    BY <1>0, <2>1, <2>2, LocalStep DEF Early, DmaInv, Dma!TypeOK
<1>2. CASE Dma!Become(Dma!RuntimeReset(Dma!Now)) /\ Dma!Continue("start")
  <2>1. /\ ReceivingStays /\ AtRest /\ ad' \in Dma!Adapters /\ ~ad'.inFlight /\ held' = 0
        /\ pc' = "start" /\ last' = last
    BY <1>0, <1>2, HookFacts DEF Dma!Become, Dma!Continue, ReceivingStays, AtRest
  <2>2. loc' \in Dma!Locals
    BY <1>0 DEF DmaInv, Dma!TypeOK
  <2> QED
    BY <1>0, <2>1, <2>2, RestStep
<1>3. CASE Dma!Fails /\ UNCHANGED <<tx, ad, held>>
  BY <1>0, <1>3, FailDma
<1> QED
  BY <1>1, <1>2, <1>3 DEF Dma!CtsAndTick, Dma!RuntimeMayRecover

\* A frame is put on the channel when nothing of an earlier one is left.
LEMMA StartTxDma == DmaInv /\ Dma!start_tx_dma => DmaInv'
<1> SUFFICES ASSUME DmaInv, Dma!start_tx_dma PROVE DmaInv'
  OBVIOUS
<1>1. /\ pc = "start" /\ pc' = "idle" /\ ~ad.inFlight /\ loc' = Dma!NoLocals /\ rx' = rx
  BY DEF Dma!start_tx_dma
<1>2. PICK f \in {held} \cup (IF held = 0 THEN {Dma!NextFrame(last)} ELSE {}) :
          /\ held' = f
          /\ last' = IF f # 0 THEN f ELSE last
          /\ tx' = IF f # 0 THEN [Dma!TxQuiet EXCEPT !.on = TRUE, !.frame = f] ELSE tx
          /\ ad' = [ad EXCEPT !.inFlight = f # 0]
  BY DEF Dma!start_tx_dma
<1>3. f \in Dma!Frames \cup {0}
  BY <1>2 DEF DmaInv, Dma!TypeOK, Dma!Frames, Dma!NextFrame
<1>4. /\ ad' \in Dma!Adapters /\ ReceivingStays /\ ad'.txDone = ad.txDone
      /\ ad'.inFlight <=> f # 0
  <2>1. PICK b \in BOOLEAN : ad' = [ad EXCEPT !.inFlight = b] /\ (b <=> f # 0)
    BY <1>2
  <2> QED
    BY <1>1, <2>1 DEF DmaInv, Dma!TypeOK, Dma!Adapters, ReceivingStays
<1>5. ad.txDone = 0 /\ tx.done = 0 /\ ~tx.on /\ ad.started
  BY <1>1 DEF DmaInv, TransferInv, Quiet
<1>6. /\ tx' \in Dma!Transmitters /\ tx'.done = 0
      /\ tx'.on => f # 0 /\ tx'.frame = f
  <2>1. CASE f = 0
    BY <1>2, <1>5, <2>1 DEF DmaInv, Dma!TypeOK
  <2>2. CASE f # 0
    <3>1. Dma!TxQuiet \in Dma!Transmitters /\ Dma!TxQuiet.done = 0
      BY FreshTypes DEF Dma!TxQuiet
    <3> QED
      BY <1>2, <1>3, <2>2, <3>1 DEF Dma!Transmitters
  <2> QED
    BY <2>1, <2>2
<1>7. Dma!TypeOK' /\ Quiet'
  BY <1>1, <1>2, <1>3, <1>4, <1>5, <1>6, FreshTypes DEF DmaInv, Dma!TypeOK, Quiet, ReceivingStays
<1>8. RingInv'
  BY <1>1, <1>4 DEF DmaInv, RingInv, Gap, Exact, ReceivingStays, Early
<1>9. SampleInv' /\ TransferInv'
  BY <1>1, <1>2, <1>4, <1>5, <1>6 DEF SampleInv, TransferInv, Early
<1> QED
  BY <1>7, <1>8, <1>9 DEF DmaInv

LEMMA ServiceDoneDma == DmaInv /\ Dma!ServiceDone => DmaInv'
<1> SUFFICES ASSUME DmaInv, Dma!ServiceDone PROVE DmaInv'
  OBVIOUS
<1>1. /\ pc = "start" /\ pc' = "idle" /\ ad.inFlight /\ loc' = Dma!NoLocals
      /\ UNCHANGED <<rx, tx, ad, held, last>>
  BY DEF Dma!ServiceDone, Dma!Continue
<1>2. Dma!TypeOK' /\ Quiet'
  BY <1>1, FreshTypes DEF DmaInv, Dma!TypeOK, Quiet
<1>3. RingInv'
  BY <1>1 DEF DmaInv, RingInv, Gap, Exact, Early
<1>4. SampleInv' /\ TransferInv'
  BY <1>1 DEF DmaInv, SampleInv, TransferInv, Early
<1> QED
  BY <1>2, <1>3, <1>4 DEF DmaInv

LEMMA NextDma == DmaInv /\ [Dma!Next]_(Dma!vars) => DmaInv'
<1> SUFFICES ASSUME DmaInv, [Dma!Next]_(Dma!vars) PROVE DmaInv'
  OBVIOUS
<1>1. CASE Dma!Start \/ Dma!Stop
  BY <1>1, StartDma, StopDma
<1>2. CASE Dma!Hardware
  BY <1>2, ReceiveDma, ReloadDma, TransmitDma DEF Dma!Hardware
<1>3. CASE Dma!Interrupts
  BY <1>3, WrapDma, ErrorDma, TxIrqDma DEF Dma!Interrupts
<1>4. CASE Dma!Service
  BY <1>4, TakeEventsDma, SampleWrapsDma, SampleCndtrDma, SampleAgainDma, SampleRetryDma,
     ResetRxDma, NoRecoveryDma, TxFailedDma, TxFinishedDma, TxNothingDma, ConsumeDma,
     CtsDma, StartTxDma, ServiceDoneDma DEF Dma!Service
<1>5. CASE UNCHANGED Dma!vars
  BY <1>5 DEF Dma!vars, DmaInv, Dma!TypeOK, Quiet, RingInv, SampleInv, TransferInv, Gap,
         Exact, Uncounted
<1> QED
  BY <1>1, <1>2, <1>3, <1>4, <1>5 DEF Dma!Next

\* What the ring, its interrupts, the transmitter and each point of a service
\* pass keep, in every step of canview_stm_uart_platform_service.
THEOREM DmaInvariant == Dma!Spec => []DmaInv
BY InitDma, NextDma, PTL DEF Dma!Spec

\* A sample that was given up met a wrap each time; a recovery has a cause.
CauseInv ==
    /\ pc = "wraps" /\ loc.tries > 0 => loc.before < ad.wraps
    /\ pc = "recover" /\ Dma!NeedsRecovery =>
         \/ loc.rxError \/ loc.behind > Capacity
         \/ ~loc.valid /\ loc.tries = 3 /\ loc.before < ad.wraps
         \/ ad.wraps = MaxWraps /\ ad.rxError

\* The interrupts of the meantime only add to the wraps and the errors.
LEMMA CauseKept ==
  ASSUME DmaInv, CauseInv, pc' = pc, loc' = loc, ad'.read = ad.read,
         ad'.wraps \in ad.wraps .. MaxWraps, ad.rxError => ad'.rxError
  PROVE  CauseInv'
<1>1. ad.wraps \in 0 .. MaxWraps /\ loc.before \in 0 .. MaxWraps
  BY DEF DmaInv, Dma!TypeOK, Dma!Adapters, Dma!Locals
<1>2. Dma!NeedsRecovery' <=> Dma!NeedsRecovery
  BY DEF Dma!NeedsRecovery, Dma!Overrun
<1> QED
  BY <1>1, <1>2, DmaConstants DEF CauseInv

LEMMA CauseInterrupt ==
  ASSUME DmaInv, CauseInv, Dma!Hardware \/ Dma!Interrupts \/ UNCHANGED Dma!vars
  PROVE  CauseInv'
<1>0. ad.wraps \in ad.wraps .. MaxWraps /\ MaxWraps \in Nat /\ ad.wraps \in Nat
  BY DmaConstants DEF DmaInv, Dma!TypeOK, Dma!Adapters
<1>1. CASE Dma!Hardware \/ UNCHANGED Dma!vars
  <2>1. UNCHANGED <<pc, ad, loc>>
    BY <1>1 DEF Dma!Hardware, Dma!DmaReceives, Dma!DmaReloads, Dma!DmaTransmitEnds, Dma!vars
  <2> QED
    BY <1>0, <2>1, CauseKept
<1>2. CASE Dma!RxWrapIrq
  <2>1. /\ UNCHANGED <<pc, loc>>
        /\ ad' = IF ad.wraps = MaxWraps THEN [ad EXCEPT !.rxError = TRUE]
                                        ELSE [ad EXCEPT !.wraps = @ + 1]
    BY <1>2 DEF Dma!RxWrapIrq
  <2>2. ad \in Dma!Adapters
    BY DEF DmaInv, Dma!TypeOK
  <2>3. CASE ad.wraps = MaxWraps
    <3>1. ad'.read = ad.read /\ ad'.wraps = ad.wraps /\ ad'.rxError
      BY <2>1, <2>2, <2>3 DEF Dma!Adapters
    <3> QED
      BY <1>0, <2>1, <3>1, CauseKept
  <2>4. CASE ad.wraps # MaxWraps
    <3>1. /\ ad'.read = ad.read /\ ad'.wraps = ad.wraps + 1 /\ ad'.rxError = ad.rxError
          /\ ad.wraps \in 0 .. MaxWraps
      BY <2>1, <2>2, <2>4 DEF Dma!Adapters
    <3>2. ad'.wraps \in ad.wraps .. MaxWraps
      BY <1>0, <2>4, <3>1
    <3> QED
      BY <2>1, <3>1, <3>2, CauseKept
  <2> QED
    BY <2>3, <2>4
<1>3. CASE Dma!RxErrorIrq \/ Dma!TxIrq
  <2>1. UNCHANGED <<pc, loc>>
    BY <1>3 DEF Dma!RxErrorIrq, Dma!TxIrq
  <2>2. /\ ad'.read = ad.read /\ ad'.wraps = ad.wraps
        /\ ad.rxError => ad'.rxError
    BY <1>3 DEF Dma!RxErrorIrq, Dma!TxIrq, DmaInv, Dma!TypeOK, Dma!Adapters
  <2>3. ad'.wraps \in ad.wraps .. MaxWraps
    BY <1>0, <2>2
  <2> QED
    BY <2>1, <2>2, <2>3, CauseKept
<1> QED
  BY <1>1, <1>2, <1>3 DEF Dma!Interrupts

\* The sample that is taken: whole, or a ring short with its wrap pending.
LEMMA CauseSampled == ASSUME DmaInv, Dma!SampleAgain PROVE CauseInv'
<1> USE DmaConstants
<1>1. /\ pc = "again" /\ pc' = "recover" /\ loc.before = ad.wraps /\ ad' = ad
      /\ loc' = [loc EXCEPT !.total = Dma!Corrected(loc.total),
                            !.valid = ad.read - loc.total <= Capacity]
  BY DEF Dma!SampleAgain, Dma!Continue
<1>2. /\ loc'.rxError = loc.rxError /\ loc'.behind = loc.behind
      /\ loc'.total = Dma!Corrected(loc.total)
      /\ loc'.valid <=> ad.read - loc.total <= Capacity
  BY <1>1 DEF DmaInv, Dma!TypeOK, Dma!Locals
<1>3. /\ ad.read \in Nat /\ loc.total \in Nat /\ loc.behind \in Int
  BY DEF DmaInv, Dma!TypeOK, Dma!Adapters, Dma!Locals
<1> DEFINE short == loc.behind + ad.read - loc.total
<1>4. /\ loc.behind >= 0
      /\ short = 0 \/ short = Capacity \/ Uncounted
  BY <1>1 DEF DmaInv, SampleInv
<1>5. CASE short = 0 \/ short = Capacity
  <2>1. Dma!NeedsRecovery' => loc.rxError \/ loc.behind > Capacity
    BY <1>1, <1>2, <1>3, <1>4, <1>5 DEF Dma!NeedsRecovery, Dma!Overrun, Dma!Corrected
  <2> QED
    BY <1>1, <1>2, <2>1 DEF CauseInv
<1>6. CASE Uncounted
  BY <1>1, <1>2, <1>6 DEF CauseInv, Uncounted
<1> QED
  BY <1>4, <1>5, <1>6

LEMMA NextCause == ASSUME DmaInv, CauseInv, [Dma!Next]_(Dma!vars) PROVE CauseInv'
<1>1. CASE Dma!Start \/ Dma!Stop
  <2>1. pc' = "idle"
    BY <1>1 DEF Dma!Start, Dma!Stop
  <2> QED
    BY <2>1 DEF CauseInv
<1>2. CASE Dma!Hardware \/ Dma!Interrupts \/ UNCHANGED Dma!vars
  BY <1>2, CauseInterrupt
<1>3. CASE Dma!take_events
  <2>1. pc' = "wraps" /\ loc'.tries = 0
    BY <1>3 DEF Dma!take_events, Dma!NoLocals
  <2> QED
    BY <2>1 DEF CauseInv
<1>4. CASE Dma!SampleAgain
  BY <1>4, CauseSampled
<1>5. CASE Dma!SampleRetry
  <2>1. CASE pc = "again" /\ loc.before # ad.wraps /\ pc' = "wraps" /\ loc' = loc /\ ad' = ad
    <3>1. loc.before <= ad.wraps /\ ad.wraps \in Nat /\ loc.before \in Nat
      BY <2>1, DmaConstants DEF DmaInv, SampleInv, Dma!TypeOK, Dma!Adapters, Dma!Locals
    <3> QED
      BY <2>1, <3>1 DEF CauseInv
  <2>2. CASE pc = "wraps" /\ loc.tries = 3 /\ pc' = "recover" /\ ad' = ad
             /\ loc' = [loc EXCEPT !.valid = FALSE]
    <3>1. ~loc'.valid /\ loc'.tries = 3 /\ loc'.before = loc.before
      BY <2>2 DEF DmaInv, Dma!TypeOK, Dma!Locals
    <3>2. loc.before < ad.wraps
      BY <2>2 DEF CauseInv
    <3> QED
      BY <2>2, <3>1, <3>2 DEF CauseInv
  <2> QED
    BY <1>5, <2>1, <2>2 DEF Dma!SampleRetry, Dma!Continue
<1>6. CASE \/ Dma!SampleWraps \/ Dma!SampleCndtr \/ Dma!reset_rx_dma \/ Dma!NoRecovery
           \/ Dma!TxFailed \/ Dma!TxFinished \/ Dma!TxNothing \/ Dma!consume_rx
           \/ Dma!CtsAndTick \/ Dma!start_tx_dma \/ Dma!ServiceDone
  <2>1. pc' \notin {"wraps", "recover"}
    BY <1>6 DEF Dma!SampleWraps, Dma!SampleCndtr, Dma!reset_rx_dma, Dma!NoRecovery,
       Dma!TxFailed, Dma!TxFinished, Dma!TxNothing, Dma!consume_rx, Dma!CtsAndTick,
       Dma!start_tx_dma, Dma!ServiceDone, Dma!Continue, Dma!Fails, Dma!AfterTx
  <2> QED
    BY <2>1 DEF CauseInv
<1> QED
  BY <1>1, <1>2, <1>3, <1>4, <1>5, <1>6 DEF Dma!Next, Dma!Service

LEMMA CauseInvariant == Dma!Spec => []CauseInv
<1>1. Dma!Init => CauseInv
  BY DEF Dma!Init, CauseInv
<1>2. DmaInv /\ CauseInv /\ [Dma!Next]_(Dma!vars) => CauseInv'
  BY NextCause
<1> QED
  BY <1>1, <1>2, DmaInvariant, PTL DEF Dma!Spec

\* The two adapters share nothing: a behaviour of both is one of each.
LEMMA DmaOfBoth == MCSpec => Dma!Spec
<1>1. MCInit => Dma!Init
  BY DEF MCInit
<1>2. [MCNext]_<<vars, part, dmaVars>> => [Dma!Next]_(Dma!vars)
  BY DEF MCNext, dmaVars, Dma!vars
<1> QED
  BY <1>1, <1>2, PTL DEF MCSpec, Dma!Spec

\* sample_rx_total and consume_rx: whatever the order of bytes, wraps, errors
\* and the statements of the worker, a byte is parsed after it has arrived; a
\* ring that was overrun when CNDTR was read is dropped, but for a wrap pending
\* at that moment; and nothing is dropped unless something was lost or could no
\* longer be counted.  Bytes overwritten after the sample are not excluded.
THEOREM NothingUnreceivedIsParsed == MCSpec => []DmaReceives
<1>1. DmaInv /\ CauseInv => DmaReceives
  <2> SUFFICES ASSUME DmaInv, CauseInv PROVE DmaReceives
    OBVIOUS
  <2>1. Dma!DroppedForCause
    <3>1. ad.wraps \in Nat /\ loc.before \in Nat
      BY DmaConstants DEF DmaInv, Dma!TypeOK, Dma!Adapters, Dma!Locals
    <3> QED
      BY <3>1 DEF CauseInv, Dma!DroppedForCause
  <2> QED
    BY <2>1 DEF DmaInv, SampleInv, DmaReceives, Dma!SampleSound, Dma!OverrunDropped
<1> QED
  BY <1>1, DmaInvariant, CauseInvariant, DmaOfBoth, PTL

\* start_tx_dma, abort_tx_dma and the reset hook: the channel reads the frame
\* the runtime holds, and no completion is credited to another frame.
THEOREM TransfersBelong == MCSpec => []DmaTransmits
<1>1. DmaInv => DmaTransmits
  BY DEF DmaInv, TransferInv, DmaTransmits, Dma!DmaReadsHeldFrame, Dma!CompletionBelongs,
         Dma!TxCompletes
<1> QED
  BY <1>1, DmaInvariant, DmaOfBoth, PTL

-----------------------------------------------------------------------------
(* The CAN capture.                                                         *)

\* What waits in the two rings of a channel: in the order in which it came, all
\* later than what was delivered last, and nothing else is unaccounted for.
Ordered(ring, raw, h) ==
    /\ h.taken = h.gone + Len(ring) + Len(raw)
    /\ \A i, j \in 1 .. Len(ring) : i < j => ring[i].n < ring[j].n
    /\ \A i, j \in 1 .. Len(raw) : i < j => raw[i].n < raw[j].n
    /\ \A i \in 1 .. Len(ring), j \in 1 .. Len(raw) : ring[i].n < raw[j].n
    /\ \A i \in 1 .. Len(ring) : h.last < ring[i].n /\ ring[i].n <= h.taken
    /\ \A j \in 1 .. Len(raw) : h.last < raw[j].n /\ raw[j].n <= h.taken
    /\ h.last <= h.taken

\* The channel's clock is that of its last frame.
Timed(ch, h) ==
    ~h.doubt => /\ \A i \in 1 .. Len(ch.ring) : ch.ring[i].t = ch.ring[i].born
                /\ ch.known => /\ ch.last = h.born /\ ch.source = h.born % Wrap
                               /\ ch.epoch = Epoch(h.born)

\* What the counters show, and what was lost; what is not reported yet is lost.
Counted(p, ch, h) ==
    /\ MaxCount \notin {ch.dropped, p.drops} => h.owed <= ch.dropped + (p.drops - p.reported)
    /\ p.drops - p.reported <= h.lost
    /\ ~h.refused => ch.dropped + (p.drops - p.reported) <= h.lost

\* One channel: what its interrupt, its record rings and its history say.
ChannelSound(p, ch, h) ==
    /\ p \in Platforms /\ ch \in Captures /\ h \in Histories
    /\ Len(p.raw) <= RawCapacity /\ Len(ch.ring) <= RingCapacity /\ p.reported <= p.drops
    /\ ch.sticky # {} => ch.state = "fault"
    /\ Ordered(ch.ring, p.raw, h) /\ Timed(ch, h) /\ Counted(p, ch, h)

ChannelsSound ==
    /\ plat \in [Channels -> Platforms] /\ chan \in [Channels -> Captures]
    /\ past \in [Channels -> Histories]
    /\ \A c \in Channels : ChannelSound(plat[c], chan[c], past[c])

\* The anchor's epoch is one, though perhaps not that of its time.
AnchorInv == cap.epoch % Wrap = 0 /\ cap.epoch <= cap.extended

AnchorSound == cap \in Anchors /\ Cardinality(cap.inventory) <= InventoryCapacity /\ AnchorInv

\* What a batch has selected is still in the rings.
BatchInv ==
    /\ bat \in Batches
    /\ ~Building => bat = NoBatch
    /\ \A c \in Channels :
         /\ bat.offset[c] <= Len(chan[c].ring)
         /\ \/ bat.last[c] = 0
            \/ \E k \in 1 .. bat.offset[c] : bat.last[c] = chan[c].ring[k].n

\* The drops that are reported have happened.
ReportInv == svc.at = "report" => /\ plat[svc.c].reported <= svc.drops
                                  /\ svc.drops <= plat[svc.c].drops

WorkerSound == /\ now \in 0..MaxNow /\ svc \in Services
               /\ svc.at \in {"report", "frames", "status"} => svc.c \in Channels
               /\ ReportInv

CaptureInv == ChannelsSound /\ AnchorSound /\ BatchInv /\ WorkerSound

-----------------------------------------------------------------------------
(* Multiples of Wrap.                                                       *)

LEMMA Epochs ==
  ASSUME NEW x \in Nat
  PROVE  /\ x % Wrap \in Nat /\ x % Wrap < Wrap
         /\ Epoch(x) \in Nat /\ Epoch(x) + (x % Wrap) = x
         /\ \E q \in Nat : Epoch(x) = q * Wrap
<1>1. Wrap \in Nat /\ Wrap > 0
  BY CaptureAssumption
<1>2. /\ x % Wrap \in Nat /\ x % Wrap < Wrap
      /\ x \div Wrap \in Nat /\ x = Wrap * (x \div Wrap) + (x % Wrap)
  BY <1>1, Z3
<1>3. Epoch(x) = (x \div Wrap) * Wrap
  BY <1>1, <1>2 DEF Epoch
<1>4. Epoch(x) \in Nat
  BY <1>1, <1>2, <1>3
<1>5. \E q \in Nat : Epoch(x) = q * Wrap
  BY <1>2, <1>3
<1>6. Epoch(x) + (x % Wrap) = x
  BY <1>2 DEF Epoch
<1> QED
  BY <1>2, <1>4, <1>5, <1>6

LEMMA EpochsApart ==
  ASSUME NEW p \in Nat, NEW q \in Nat, p < q
  PROVE  p * Wrap + Wrap <= q * Wrap
<1>1. Wrap \in Nat /\ Wrap > 0
  BY CaptureAssumption
<1>2. PICK d \in Nat : q = p + 1 + d
  <2>1. q - p - 1 \in Nat
    OBVIOUS
  <2> QED
    BY <2>1
<1>3. q * Wrap = p * Wrap + Wrap + d * Wrap
  BY <1>1, <1>2
<1>4. d * Wrap \in Nat /\ p * Wrap \in Nat
  BY <1>1
<1> QED
  BY <1>1, <1>3, <1>4

\* Two multiples of Wrap less than two ranges apart.
Multiple(e) == \E q \in Nat : e = q * Wrap

LEMMA NearEpochs ==
  ASSUME NEW d \in Nat, NEW e \in Nat, Multiple(d), Multiple(e),
         d - e < 2 * Wrap, e - d < 2 * Wrap
  PROVE  d = e \/ d = e + Wrap \/ e = d + Wrap
<1>0. Wrap \in Nat /\ Wrap > 0
  BY CaptureAssumption
<1>1. PICK p \in Nat, q \in Nat : d = p * Wrap /\ e = q * Wrap
  BY DEF Multiple
<1>2. ASSUME NEW a \in Nat, NEW b \in Nat, a < b, b * Wrap - a * Wrap < 2 * Wrap
      PROVE  b * Wrap = a * Wrap + Wrap
  <2>1. b <= a + 1
    <3>1. SUFFICES ASSUME a + 1 < b PROVE FALSE
      BY <1>2
    <3>2. (a + 1) * Wrap + Wrap <= b * Wrap
      BY <3>1, EpochsApart
    <3>3. (a + 1) * Wrap = a * Wrap + Wrap /\ a * Wrap \in Nat /\ b * Wrap \in Nat
      BY <1>0
    <3> QED
      BY <1>0, <1>2, <3>2, <3>3
  <2>2. b = a + 1
    BY <1>2, <2>1
  <2> QED
    BY <1>0, <2>2
<1>3. p = q \/ p < q \/ q < p
  OBVIOUS
<1> QED
  BY <1>0, <1>1, <1>2, <1>3

\* An epoch is a multiple and has itself for epoch.
LEMMA EpochOfMultiple ==
  ASSUME NEW e \in Nat, e % Wrap = 0
  PROVE  Multiple(e)
<1>1. Epoch(e) = e
  BY DEF Epoch
<1> QED
  BY <1>1, Epochs DEF Multiple

LEMMA EpochIsMultiple ==
  ASSUME NEW x \in Nat
  PROVE  Multiple(Epoch(x)) /\ Epoch(x) \in Nat /\ Epoch(x) % Wrap = 0
<1>1. Multiple(Epoch(x)) /\ Epoch(x) \in Nat
  BY Epochs DEF Multiple
<1>2. PICK q \in Nat : Epoch(x) = q * Wrap
  BY <1>1 DEF Multiple
<1>3. (q * Wrap) % Wrap = 0
  BY CaptureAssumption, Z3
<1> QED
  BY <1>1, <1>2, <1>3

\* Two times of the same epoch and the same source time are the same.
LEMMA SameTime ==
  ASSUME NEW a \in Nat, NEW b \in Nat, Epoch(a) = Epoch(b), a % Wrap = b % Wrap
  PROVE  a = b
BY Epochs

\* A time is found again from an epoch and the rest below Wrap.
LEMMA EpochOfSum ==
  ASSUME NEW e \in Nat, Multiple(e), NEW r \in Nat, r < Wrap
  PROVE  Epoch(e + r) = e /\ (e + r) % Wrap = r
<1>0. Wrap \in Nat /\ Wrap > 0
  BY CaptureAssumption
<1>1. e + r \in Nat
  OBVIOUS
<1> DEFINE f == Epoch(e + r)  s == (e + r) % Wrap
<1>2. f \in Nat /\ Multiple(f) /\ s \in Nat /\ s < Wrap /\ f + s = e + r
  BY <1>1, Epochs DEF Multiple
<1> HIDE DEF f, s
<1>3. e - f < 2 * Wrap /\ f - e < 2 * Wrap
  BY <1>0, <1>2
<1>4. e = f \/ e = f + Wrap \/ f = e + Wrap
  BY <1>2, <1>3, NearEpochs
<1>5. f = e /\ s = r
  BY <1>0, <1>2, <1>4
<1> QED
  BY <1>5 DEF f, s

\* The channel's own clock: the extended time of a frame less than half a range
\* from the last one is its true time, or it is refused.
LEMMA ExtendedIsTrue ==
  ASSUME NEW ch \in Captures, NEW b \in Nat, NEW born \in Nat,
         ch.known, ch.last = b, ch.source = b % Wrap, ch.epoch = Epoch(b),
         ~Apart(born, b), Extended(ch, born % Wrap).ok,
         Extended(ch, born % Wrap).t >= ch.last
  PROVE  LET time == Extended(ch, born % Wrap)
         IN  time.t = born /\ time.source = born % Wrap /\ time.epoch = Epoch(born)
<1>0. Wrap \in Nat /\ Wrap > 0 /\ Half \in Nat /\ 2 * Half <= Wrap
  <2>1. Wrap \in Nat /\ Wrap > 0
    BY CaptureAssumption
  <2>2. Wrap \div 2 \in Nat /\ 2 * (Wrap \div 2) <= Wrap
    BY <2>1, Z3
  <2> QED
    BY <2>1, <2>2 DEF Half
<1> DEFINE s == born % Wrap  e == Epoch(born)  r == b % Wrap  d == Epoch(b)
<1>1. /\ s \in Nat /\ s < Wrap /\ e \in Nat /\ Multiple(e) /\ e + s = born
      /\ r \in Nat /\ r < Wrap /\ d \in Nat /\ Multiple(d) /\ d + r = b
  BY Epochs DEF Multiple
<1> HIDE DEF s, e, r, d
<1>2. born - b < Half /\ b - born < Half
  BY <1>0 DEF Apart
<1>3. d = e \/ d = e + Wrap \/ e = d + Wrap
  <2>1. d - e < 2 * Wrap /\ e - d < 2 * Wrap
    BY <1>0, <1>1, <1>2
  <2> QED
    BY <1>1, <2>1, NearEpochs
<1> DEFINE lower == s < r
           distance == IF lower THEN r - s ELSE s - r
           wrapped == distance > Half - 1
           epoch == IF wrapped THEN d + Wrap ELSE d
<1>4. Extended(ch, s) = IF distance = Half \/ (wrapped /\ ~lower) THEN Refused
        ELSE [ok |-> TRUE, t |-> epoch + s, epoch |-> epoch,
              source |-> IF ~lower \/ wrapped THEN s ELSE r]
  BY DEF Extended, r, d
<1>5. Extended(ch, s).ok /\ Extended(ch, s).t >= b
  BY DEF s
<1> HIDE DEF lower, distance, wrapped, epoch
<1>6. ~(distance = Half \/ (wrapped /\ ~lower))
  BY <1>4, <1>5 DEF Refused
<1>7. /\ Extended(ch, s).t = epoch + s /\ Extended(ch, s).epoch = epoch
      /\ Extended(ch, s).source = IF ~lower \/ wrapped THEN s ELSE r
  BY <1>4, <1>6
<1>8. epoch + s >= b
  BY <1>5, <1>7
<1>9. epoch = e /\ (~lower \/ wrapped)
  BY <1>0, <1>1, <1>2, <1>3, <1>6, <1>8 DEF lower, distance, wrapped, epoch
<1> QED
  BY <1>1, <1>7, <1>9 DEF s, e

\* The anchor: the first frame of a channel less than half a range from the
\* newest time, whose epoch is at most a range and a half old.
LEMMA NearAnchorIsTrue ==
  ASSUME cap \in Anchors, AnchorInv, NEW born \in Nat,
         ~Apart(born, cap.extended), cap.extended - cap.epoch < Wrap + Half,
         NearAnchor(born % Wrap).ok
  PROVE  LET time == NearAnchor(born % Wrap)
         IN  time.t = born /\ time.source = born % Wrap /\ time.epoch = Epoch(born)
<1>0. Wrap \in Nat /\ Wrap > 0 /\ Half \in Nat /\ 2 * Half <= Wrap
  <2>1. Wrap \in Nat /\ Wrap > 0
    BY CaptureAssumption
  <2>2. Wrap \div 2 \in Nat /\ 2 * (Wrap \div 2) <= Wrap
    BY <2>1, Z3
  <2> QED
    BY <2>1, <2>2 DEF Half
<1> DEFINE s == born % Wrap  e == Epoch(born)  d == cap.epoch  x == cap.extended
<1>1. /\ s \in Nat /\ s < Wrap /\ e \in Nat /\ Multiple(e) /\ e + s = born
      /\ d \in Nat /\ Multiple(d) /\ x \in Nat /\ d <= x /\ x - d < Wrap + Half
  BY Epochs, EpochOfMultiple DEF Multiple, Anchors, AnchorInv
<1> HIDE DEF s, e
<1>2. born - x < Half /\ x - born < Half
  <2>1. ~Apart(born, x)
    BY DEF x
  <2> HIDE DEF x
  <2> QED
    BY <1>0, <1>1, <2>1 DEF Apart
<1>3. d = e \/ d = e + Wrap \/ e = d + Wrap
  <2>1. d - e < 2 * Wrap /\ e - d < 2 * Wrap
    BY <1>0, <1>1, <1>2
  <2> QED
    BY <1>1, <2>1, NearEpochs
<1> DEFINE candidate == d + s
           ahead == candidate > x
           distance == IF ahead THEN candidate - x ELSE x - candidate
           t == IF distance <= Half - 1 THEN candidate
                ELSE IF ahead THEN candidate - Wrap ELSE candidate + Wrap
           no == distance = Half \/ (distance > Half - 1 /\ ahead /\ candidate < Wrap)
<1>4. NearAnchor(s) = IF no THEN Refused
                      ELSE [ok |-> TRUE, t |-> t, source |-> s, epoch |-> Epoch(t)]
  BY DEF NearAnchor
<1>5. NearAnchor(s).ok
  BY DEF s
<1> HIDE DEF d, x, t, no
<1>6. ~no
  BY <1>4, <1>5 DEF Refused
<1>7. /\ NearAnchor(s).t = t /\ NearAnchor(s).epoch = Epoch(t)
      /\ NearAnchor(s).source = s
  BY <1>4, <1>6
<1>8. t = born
  BY <1>0, <1>1, <1>2, <1>3, <1>6 DEF t, no
<1> QED
  BY <1>7, <1>8 DEF s

-----------------------------------------------------------------------------
(* What the rings of a channel hold.                                        *)

LEMMA NumbersAreNat ==
  ASSUME NEW ring \in Seq(Records), NEW raw \in Seq(RawFrames)
  PROVE  /\ Len(ring) \in Nat /\ Len(raw) \in Nat
         /\ \A i \in 1 .. Len(ring) : ring[i].n \in Nat
         /\ \A i \in 1 .. Len(raw) : raw[i].n \in Nat
<1>1. /\ Len(ring) \in Nat /\ Len(raw) \in Nat
      /\ \A i \in 1 .. Len(ring) : ring[i] \in Records
      /\ \A i \in 1 .. Len(raw) : raw[i] \in RawFrames
  OBVIOUS
<1>2. (\A r \in Records : r.n \in Nat) /\ (\A f \in RawFrames : f.n \in Nat)
  BY DEF Records, RawFrames
<1> QED
  BY <1>1, <1>2

\* The elements of a longer and of a shorter ring.
LEMMA Appended ==
  ASSUME NEW S, NEW s \in Seq(S), NEW e \in S
  PROVE  /\ Append(s, e) \in Seq(S) /\ Len(Append(s, e)) = Len(s) + 1
         /\ \A j \in 1 .. Len(Append(s, e)) :
              \/ j \in 1 .. Len(s) /\ Append(s, e)[j] = s[j]
              \/ j = Len(s) + 1 /\ Append(s, e)[j] = e
<1>1. Append(s, e) \in Seq(S) /\ Len(Append(s, e)) = Len(s) + 1
  OBVIOUS
<1>2. \A j \in 1 .. Len(s) : Append(s, e)[j] = s[j]
  OBVIOUS
<1>3. Append(s, e)[Len(s) + 1] = e
  OBVIOUS
<1>4. Len(s) \in Nat /\ \A j \in 1 .. Len(s) + 1 : j \in 1 .. Len(s) \/ j = Len(s) + 1
  OBVIOUS
<1> QED
  BY <1>1, <1>2, <1>3, <1>4

LEMMA Shortened ==
  ASSUME NEW S, NEW s \in Seq(S), s # <<>>
  PROVE  /\ Tail(s) \in Seq(S) /\ Len(Tail(s)) = Len(s) - 1 /\ Head(s) = s[1]
         /\ Head(s) \in S /\ 1 \in 1 .. Len(s)
         /\ \A j \in 1 .. Len(Tail(s)) : j + 1 \in 2 .. Len(s) /\ Tail(s)[j] = s[j + 1]
OBVIOUS

LEMMA ArrivesOrdered ==
  ASSUME NEW ring \in Seq(Records), NEW raw \in Seq(RawFrames), NEW f \in RawFrames,
         NEW h \in Histories, NEW k \in Histories, Ordered(ring, raw, h),
         f.n = h.taken + 1, k.taken = h.taken + 1, k.gone = h.gone, k.last = h.last
  PROVE  Ordered(ring, Append(raw, f), k)
<1> DEFINE new == Append(raw, f)
<1>1. /\ Len(new) = Len(raw) + 1
      /\ \A j \in 1 .. Len(new) :
           \/ j \in 1 .. Len(raw) /\ new[j] = raw[j]
           \/ j = Len(raw) + 1 /\ new[j] = f
  BY Appended
<1> HIDE DEF new
<1>2. /\ Len(ring) \in Nat /\ Len(raw) \in Nat
      /\ \A i \in 1 .. Len(ring) : ring[i].n \in Nat
      /\ \A i \in 1 .. Len(raw) : raw[i].n \in Nat
  BY NumbersAreNat
<1>3. /\ h.taken \in Nat /\ h.gone \in Nat /\ h.last \in Nat
  BY DEF Histories
<1>4. k.taken = k.gone + Len(ring) + Len(new)
  BY <1>1, <1>2, <1>3 DEF Ordered
<1>5. ASSUME NEW j \in 1 .. Len(new)
      PROVE  k.last < new[j].n /\ new[j].n <= k.taken
  <2>1. CASE j \in 1 .. Len(raw) /\ new[j] = raw[j]
    BY <1>2, <1>3, <2>1 DEF Ordered
  <2>2. CASE j = Len(raw) + 1 /\ new[j] = f
    BY <1>3, <2>2 DEF Ordered
  <2> QED
    BY <1>1, <2>1, <2>2
<1>6. ASSUME NEW i \in 1 .. Len(new), NEW j \in 1 .. Len(new), i < j
      PROVE  new[i].n < new[j].n
  <2>1. i \in 1 .. Len(raw) /\ new[i] = raw[i]
    BY <1>1, <1>2, <1>6
  <2>2. raw[i].n <= h.taken /\ raw[i].n \in Nat
    BY <1>2, <2>1 DEF Ordered
  <2>3. CASE j \in 1 .. Len(raw) /\ new[j] = raw[j]
    BY <1>6, <2>1, <2>3 DEF Ordered
  <2>4. CASE j = Len(raw) + 1 /\ new[j] = f
    BY <1>3, <2>1, <2>2, <2>4
  <2> QED
    BY <1>1, <2>3, <2>4
<1>7. ASSUME NEW i \in 1 .. Len(ring), NEW j \in 1 .. Len(new)
      PROVE  ring[i].n < new[j].n
  <2>1. ring[i].n <= h.taken /\ ring[i].n \in Nat
    BY <1>2 DEF Ordered
  <2>2. CASE j \in 1 .. Len(raw) /\ new[j] = raw[j]
    BY <2>2 DEF Ordered
  <2>3. CASE j = Len(raw) + 1 /\ new[j] = f
    BY <1>3, <2>1, <2>3
  <2> QED
    BY <1>1, <2>2, <2>3
<1>8. ASSUME NEW i \in 1 .. Len(ring)
      PROVE  k.last < ring[i].n /\ ring[i].n <= k.taken
  <2>1. h.last < ring[i].n /\ ring[i].n <= h.taken /\ ring[i].n \in Nat
    BY <1>2 DEF Ordered
  <2> QED
    BY <1>3, <2>1
<1>9. Ordered(ring, new, k)
  BY <1>3, <1>4, <1>5, <1>6, <1>7, <1>8 DEF Ordered
<1> QED
  BY <1>9 DEF new

LEMMA LostOrdered ==
  ASSUME NEW ring \in Seq(Records), NEW raw \in Seq(RawFrames),
         NEW h \in Histories, NEW k \in Histories, Ordered(ring, raw, h),
         k.taken = h.taken + 1, k.gone = h.gone + 1, k.last = h.last
  PROVE  Ordered(ring, raw, k)
<1>1. /\ Len(ring) \in Nat /\ Len(raw) \in Nat
      /\ \A i \in 1 .. Len(ring) : ring[i].n \in Nat
      /\ \A i \in 1 .. Len(raw) : raw[i].n \in Nat
  BY NumbersAreNat
<1>2. h.taken \in Nat /\ h.gone \in Nat /\ h.last \in Nat
  BY DEF Histories
<1>3. k.taken = k.gone + Len(ring) + Len(raw)
  BY <1>1, <1>2 DEF Ordered
<1>4. \A i \in 1 .. Len(ring) : k.last < ring[i].n /\ ring[i].n <= k.taken
  BY <1>1, <1>2 DEF Ordered
<1>5. \A j \in 1 .. Len(raw) : k.last < raw[j].n /\ raw[j].n <= k.taken
  BY <1>1, <1>2 DEF Ordered
<1> QED
  BY <1>2, <1>3, <1>4, <1>5 DEF Ordered

\* The head of the raw ring becomes a record, or is given up.
LEMMA HeadOrdered ==
  ASSUME NEW ring \in Seq(Records), NEW raw \in Seq(RawFrames), raw # <<>>,
         NEW h \in Histories, NEW k \in Histories, Ordered(ring, raw, h),
         k.taken = h.taken, k.last = h.last
  PROVE  /\ Head(raw) \in RawFrames /\ Tail(raw) \in Seq(RawFrames)
         /\ Len(Tail(raw)) = Len(raw) - 1
         /\ k.gone = h.gone + 1 => Ordered(ring, Tail(raw), k)
         /\ \A r \in Records : r.n = Head(raw).n /\ k.gone = h.gone =>
               Ordered(Append(ring, r), Tail(raw), k)
<1> DEFINE rest == Tail(raw)
<1>1. /\ rest \in Seq(RawFrames) /\ Len(rest) = Len(raw) - 1 /\ Head(raw) = raw[1]
      /\ Head(raw) \in RawFrames /\ 1 \in 1 .. Len(raw)
      /\ \A j \in 1 .. Len(rest) : j + 1 \in 2 .. Len(raw) /\ rest[j] = raw[j + 1]
  BY Shortened
<1> HIDE DEF rest
<1>2. /\ Len(ring) \in Nat /\ Len(raw) \in Nat
      /\ \A i \in 1 .. Len(ring) : ring[i].n \in Nat
      /\ \A i \in 1 .. Len(raw) : raw[i].n \in Nat
  BY NumbersAreNat
<1>3. /\ h.taken \in Nat /\ h.gone \in Nat /\ h.last \in Nat
  BY DEF Histories
<1>6. /\ \A i, j \in 1 .. Len(rest) : i < j => rest[i].n < rest[j].n
      /\ \A i \in 1 .. Len(ring), j \in 1 .. Len(rest) : ring[i].n < rest[j].n
      /\ \A j \in 1 .. Len(rest) : k.last < rest[j].n /\ rest[j].n <= k.taken
      /\ \A i \in 1 .. Len(ring) : k.last < ring[i].n /\ ring[i].n <= k.taken
      /\ k.last <= k.taken
  <2>0. \A j \in 1 .. Len(rest) : j + 1 \in 1 .. Len(raw)
    BY <1>1, <1>2
  <2>1. ASSUME NEW i \in 1 .. Len(rest), NEW j \in 1 .. Len(rest), i < j
        PROVE  rest[i].n < rest[j].n
    <3>1. i + 1 < j + 1 /\ i + 1 \in 1 .. Len(raw) /\ j + 1 \in 1 .. Len(raw)
      BY <2>0, <2>1
    <3> QED
      BY <1>1, <3>1 DEF Ordered
  <2>2. \A i \in 1 .. Len(ring), j \in 1 .. Len(rest) : ring[i].n < rest[j].n
    BY <1>1, <2>0 DEF Ordered
  <2>3. \A j \in 1 .. Len(rest) : k.last < rest[j].n /\ rest[j].n <= k.taken
    BY <1>1, <2>0 DEF Ordered
  <2> QED
    BY <2>1, <2>2, <2>3 DEF Ordered
<1>4. ASSUME k.gone = h.gone + 1
      PROVE  Ordered(ring, rest, k)
  <2>1. k.taken = k.gone + Len(ring) + Len(rest)
    BY <1>1, <1>2, <1>3, <1>4 DEF Ordered
  <2> QED
    BY <1>6, <2>1 DEF Ordered
<1>5. ASSUME NEW r \in Records, r.n = Head(raw).n, k.gone = h.gone
      PROVE  Ordered(Append(ring, r), rest, k)
  <2> DEFINE new == Append(ring, r)
  <2>1. /\ Len(new) = Len(ring) + 1
        /\ \A j \in 1 .. Len(new) :
             \/ j \in 1 .. Len(ring) /\ new[j] = ring[j]
             \/ j = Len(ring) + 1 /\ new[j] = r
    BY Appended
  <2> HIDE DEF new
  <2>2. \A i \in 1 .. Len(ring) : ring[i].n < r.n
    BY <1>1, <1>5 DEF Ordered
  <2>3. ASSUME NEW i \in 1 .. Len(new), NEW j \in 1 .. Len(new), i < j
        PROVE  new[i].n < new[j].n
    <3>1. i \in 1 .. Len(ring) /\ new[i] = ring[i]
      BY <1>2, <2>1, <2>3
    <3> QED
      BY <2>1, <2>2, <2>3, <3>1 DEF Ordered
  <2>4. ASSUME NEW i \in 1 .. Len(new), NEW j \in 1 .. Len(rest)
        PROVE  new[i].n < rest[j].n
    <3>0. j \in Nat /\ j >= 1 /\ j + 1 \in 2 .. Len(raw) /\ rest[j] = raw[j + 1]
      BY <1>1
    <3>1. j + 1 \in 1 .. Len(raw) /\ 1 < j + 1 /\ rest[j] = raw[j + 1]
      BY <3>0
    <3>2. r.n < rest[j].n
      BY <1>1, <1>5, <3>1 DEF Ordered
    <3>3. CASE i \in 1 .. Len(ring) /\ new[i] = ring[i]
      BY <1>6, <3>3
    <3>4. CASE new[i] = r
      BY <3>2, <3>4
    <3>5. (i \in 1 .. Len(ring) /\ new[i] = ring[i]) \/ new[i] = r
      BY <2>1
    <3> QED
      BY <3>3, <3>4, <3>5
  <2>5. k.taken = k.gone + Len(new) + Len(rest)
    <3>1. h.taken = h.gone + Len(ring) + Len(raw)
      BY DEF Ordered
    <3>2. Len(rest) = Len(raw) - 1 /\ Len(new) = Len(ring) + 1
      BY <1>1, <2>1
    <3>3. k.gone = h.gone /\ k.taken = h.taken
      BY <1>5
    <3>4. h.gone \in Nat /\ Len(ring) \in Nat /\ Len(raw) \in Nat
      BY <1>2, <1>3
    <3>5. h.gone + Len(ring) + Len(raw) = h.gone + (Len(ring) + 1) + (Len(raw) - 1)
      BY <3>4, SMTT(30)
    <3>6. k.taken = h.gone + (Len(ring) + 1) + (Len(raw) - 1)
      BY <3>1, <3>3, <3>5, Zenon
    <3> QED
      BY <3>2, <3>3, <3>6, Zenon
  <2>6. k.last < r.n /\ r.n <= k.taken
    BY <1>1, <1>5 DEF Ordered
  <2>8. \A i \in 1 .. Len(new) : k.last < new[i].n /\ new[i].n <= k.taken
    BY <1>6, <2>1, <2>6
  <2>9. Ordered(new, rest, k)
    BY <1>6, <2>3, <2>4, <2>5, <2>8 DEF Ordered
  <2> QED
    BY <2>9 DEF new
<1> QED
  BY <1>1, <1>4, <1>5 DEF rest

\* A reset empties one of the two rings.
LEMMA EmptiedOrdered ==
  ASSUME NEW ring \in Seq(Records), NEW raw \in Seq(RawFrames),
         NEW h \in Histories, NEW k \in Histories, Ordered(ring, raw, h),
         k.taken = h.taken, k.last = h.last
  PROVE  /\ k.gone = h.gone + Len(ring) => Ordered(<<>>, raw, k)
         /\ k.gone = h.gone + Len(raw) => Ordered(ring, <<>>, k)
<1>1. /\ Len(ring) \in Nat /\ Len(raw) \in Nat
      /\ \A i \in 1 .. Len(ring) : ring[i].n \in Nat
      /\ \A i \in 1 .. Len(raw) : raw[i].n \in Nat
  BY NumbersAreNat
<1>2. h.taken \in Nat /\ h.gone \in Nat /\ h.last \in Nat
  BY DEF Histories
<1>3. Len(<<>>) = 0 /\ 1 .. 0 = {}
  OBVIOUS
<1>4. ASSUME k.gone = h.gone + Len(ring)
      PROVE  Ordered(<<>>, raw, k)
  <2>1. k.taken = k.gone + Len(<<>>) + Len(raw)
    BY <1>1, <1>2, <1>3, <1>4 DEF Ordered
  <2> QED
    BY <1>3, <2>1 DEF Ordered
<1>5. ASSUME k.gone = h.gone + Len(raw)
      PROVE  Ordered(ring, <<>>, k)
  <2>1. k.taken = k.gone + Len(ring) + Len(<<>>)
    BY <1>1, <1>2, <1>3, <1>5 DEF Ordered
  <2> QED
    BY <1>3, <2>1 DEF Ordered
<1> QED
  BY <1>4, <1>5

\* A batch takes off the first records of a ring, the last of those that it
\* keeps among them.
LEMMA CommittedOrdered ==
  ASSUME NEW ring \in Seq(Records), NEW raw \in Seq(RawFrames), NEW off \in Nat,
         off <= Len(ring), NEW h \in Histories, NEW k \in Histories, Ordered(ring, raw, h),
         k.taken = h.taken, k.gone = h.gone + off,
         k.last = h.last \/ \E i \in 1 .. off : k.last = ring[i].n
  PROVE  /\ SubSeq(ring, off + 1, Len(ring)) \in Seq(Records)
         /\ Len(SubSeq(ring, off + 1, Len(ring))) = Len(ring) - off
         /\ \A i \in 1 .. Len(ring) - off : SubSeq(ring, off + 1, Len(ring))[i] = ring[off + i]
         /\ Ordered(SubSeq(ring, off + 1, Len(ring)), raw, k)
<1> DEFINE new == SubSeq(ring, off + 1, Len(ring))
<1>1. Len(new) = Len(ring) - off
  OBVIOUS
<1>2. \A i \in 1 .. Len(ring) - off : new[i] = ring[off + i]
  OBVIOUS
<1>3. new \in Seq(Records)
  OBVIOUS
<1> HIDE DEF new
<1>4. /\ Len(ring) \in Nat /\ Len(raw) \in Nat
      /\ \A i \in 1 .. Len(ring) : ring[i].n \in Nat
      /\ \A i \in 1 .. Len(raw) : raw[i].n \in Nat
  BY NumbersAreNat
<1>5. /\ h.taken \in Nat /\ h.gone \in Nat /\ h.last \in Nat /\ k.last \in Nat
  BY DEF Histories
<1>6. \A i \in 1 .. Len(new) : new[i] = ring[off + i] /\ off + i \in 1 .. Len(ring)
  BY <1>1, <1>2, <1>4
<1>7. \A i \in 1 .. Len(new) : k.last < new[i].n /\ new[i].n <= k.taken
  <2>1. CASE k.last = h.last
    BY <1>4, <1>6, <2>1 DEF Ordered
  <2>2. CASE \E i \in 1 .. off : k.last = ring[i].n
    <3>1. PICK i \in 1 .. off : k.last = ring[i].n
      BY <2>2
    <3>2. i \in 1 .. Len(ring) /\ \A j \in 1 .. Len(new) : i < off + j
      BY <1>1, <1>4
    <3> QED
      BY <1>4, <1>6, <3>1, <3>2 DEF Ordered
  <2> QED
    BY <2>1, <2>2
<1>8. ASSUME NEW i \in 1 .. Len(new), NEW j \in 1 .. Len(new), i < j
      PROVE  new[i].n < new[j].n
  <2>1. off + i < off + j /\ off + i \in 1 .. Len(ring) /\ off + j \in 1 .. Len(ring)
    BY <1>1, <1>4, <1>6, <1>8
  <2> QED
    BY <1>6, <2>1 DEF Ordered
<1>9. \A j \in 1 .. Len(raw) : k.last < raw[j].n /\ raw[j].n <= k.taken
  <2>1. off <= Len(ring) => \A i \in 1 .. off : i \in 1 .. Len(ring)
    BY <1>4
  <2> QED
    BY <1>4, <1>5, <2>1 DEF Ordered
<1>10. k.last <= k.taken
  <2>1. off <= Len(ring) => \A i \in 1 .. off : i \in 1 .. Len(ring)
    BY <1>4
  <2> QED
    BY <1>4, <1>5, <2>1 DEF Ordered
<1>11. k.taken = k.gone + Len(new) + Len(raw)
  BY <1>1, <1>4, <1>5 DEF Ordered
<1>12. \A i \in 1 .. Len(new), j \in 1 .. Len(raw) : new[i].n < raw[j].n
  BY <1>4, <1>6 DEF Ordered
<1>13. Ordered(new, raw, k)
  BY <1>6, <1>7, <1>8, <1>9, <1>10, <1>11, <1>12 DEF Ordered
<1> QED
  BY <1>1, <1>2, <1>3, <1>13 DEF new

-----------------------------------------------------------------------------
(* The steps: one channel moves, or all of them do.                         *)

LEMMA CaptureConstants ==
  /\ Wrap \in Nat /\ Wrap > 0 /\ RawCapacity \in Nat /\ RingCapacity \in Nat
  /\ InventoryCapacity \in Nat /\ MaxCount \in Nat /\ MaxNow \in Nat /\ StartNow \in Nat
  /\ StartNow <= MaxNow /\ HwFaults \subseteq Flags /\ Statuses \subseteq BusStates
  /\ Channels \subseteq Nat \ {0} /\ IsFiniteSet(Channels)
BY CaptureAssumption DEF Flags, BusStates

LEMMA SaturatedIsCount ==
  ASSUME NEW n \in Nat
  PROVE  /\ Saturated(n) \in 0 .. MaxCount /\ (\A m \in 0 .. MaxCount : m <= n => m <= Saturated(n))
         /\ Saturated(n) <= n /\ Saturated(n) \in {n, MaxCount}
BY CaptureConstants DEF Saturated

\* The counters, as numbers.
LEMMA CountersAreNat ==
  ASSUME NEW p \in Platforms, NEW ch \in Captures, NEW h \in Histories
  PROVE  /\ p.drops \in 0 .. MaxCount /\ p.drops \in Nat /\ p.reported \in Nat
         /\ ch.dropped \in 0 .. MaxCount /\ ch.dropped \in Nat
         /\ h.owed \in Nat /\ h.lost \in Nat /\ h.refused \in BOOLEAN
<1>1. p.drops \in 0 .. MaxCount /\ p.reported \in Nat
  BY DEF Platforms
<1>2. ch.dropped \in 0 .. MaxCount
  BY DEF Captures
<1>3. h.owed \in Nat /\ h.lost \in Nat /\ h.refused \in BOOLEAN
  BY DEF Histories
<1> QED
  BY <1>1, <1>2, <1>3, CaptureConstants

LEMMA OneChannel ==
  ASSUME ChannelsSound, NEW c \in Channels, NEW p, NEW ch, NEW h, ChannelSound(p, ch, h),
         plat' = [plat EXCEPT ![c] = p], chan' = [chan EXCEPT ![c] = ch],
         past' = [past EXCEPT ![c] = h]
  PROVE  ChannelsSound'
<1>1. p \in Platforms /\ ch \in Captures /\ h \in Histories
  BY DEF ChannelSound
<1>2. /\ plat' \in [Channels -> Platforms] /\ chan' \in [Channels -> Captures]
      /\ past' \in [Channels -> Histories]
  BY <1>1 DEF ChannelsSound
<1>3. ASSUME NEW d \in Channels
      PROVE  ChannelSound(plat'[d], chan'[d], past'[d])
  <2>1. CASE d = c
    <3>1. plat'[d] = p /\ chan'[d] = ch /\ past'[d] = h
      BY <2>1 DEF ChannelsSound
    <3> QED
      BY <3>1
  <2>2. CASE d # c
    <3>1. plat'[d] = plat[d] /\ chan'[d] = chan[d] /\ past'[d] = past[d]
      BY <2>2 DEF ChannelsSound
    <3> QED
      BY <3>1 DEF ChannelsSound
  <2> QED
    BY <2>1, <2>2
<1>4. (\A d \in Channels : ChannelSound(plat[d], chan[d], past[d]))'
  BY <1>3
<1> QED
  BY <1>2, <1>4 DEF ChannelsSound

LEMMA SameChannel ==
  ASSUME ChannelsSound, NEW c \in Channels
  PROVE  /\ plat = [plat EXCEPT ![c] = plat[c]] /\ chan = [chan EXCEPT ![c] = chan[c]]
         /\ past = [past EXCEPT ![c] = past[c]]
BY DEF ChannelsSound

LEMMA AChannel ==
  ASSUME ChannelsSound, NEW c \in Channels
  PROVE  /\ ChannelSound(plat[c], chan[c], past[c])
         /\ plat[c] \in Platforms /\ chan[c] \in Captures /\ past[c] \in Histories
BY DEF ChannelsSound

\* An empty channel, and a fresh history.
LEMMA EmptySound ==
  /\ ResetPlat \in Platforms /\ ResetChannel \in Captures /\ NoPast \in Histories
  /\ ChannelSound(ResetPlat, ResetChannel, NoPast)
<1>1. 0 \in 0 .. MaxCount
  BY CaptureConstants
<1>2. ResetPlat \in Platforms
  BY <1>1 DEF ResetPlat, Platforms, Flags
<1>3. ResetChannel \in Captures
  BY <1>1 DEF ResetChannel, Captures, BusStates, Flags
<1>4. NoPast \in Histories
  BY DEF NoPast, Histories
<1>5. /\ Len(ResetPlat.raw) = 0 /\ Len(ResetChannel.ring) = 0
      /\ ResetPlat.reported = 0 /\ ResetPlat.drops = 0 /\ ResetChannel.sticky = {}
      /\ ResetPlat.raw = <<>> /\ ResetChannel.ring = <<>> /\ ~ResetChannel.known
      /\ NoPast.taken = 0 /\ NoPast.gone = 0 /\ NoPast.last = 0
      /\ ResetChannel.dropped = 0 /\ NoPast.owed = 0 /\ NoPast.lost = 0
  BY DEF ResetPlat, ResetChannel, NoPast
<1>6. 1 .. 0 = {}
  OBVIOUS
<1>7. Ordered(ResetChannel.ring, ResetPlat.raw, NoPast)
  BY <1>5, <1>6 DEF Ordered
<1>8. Timed(ResetChannel, NoPast)
  BY <1>5, <1>6 DEF Timed
<1>9. Counted(ResetPlat, ResetChannel, NoPast)
  BY <1>5 DEF Counted
<1> QED
  BY <1>2, <1>3, <1>4, <1>5, <1>7, <1>8, <1>9, CaptureConstants DEF ChannelSound

LEMMA InitCapture == Init => CaptureInv
<1> SUFFICES ASSUME Init PROVE CaptureInv
  OBVIOUS
<1>1. ChannelsSound
  BY EmptySound DEF Init, ChannelsSound
<1>2. cap \in Anchors /\ cap.inventory = {} /\ cap.epoch = 0 /\ cap.extended = 0
  BY DEF Init, NoCapture, Anchors
<1>3. AnchorSound
  <2>1. 0 % Wrap = 0
    BY CaptureConstants, Z3
  <2> QED
    BY <1>2, <2>1, CaptureConstants, FS_EmptySet DEF AnchorSound, AnchorInv
<1>4. bat = NoBatch /\ bat \in Batches
  BY DEF Init, NoBatch, Batches
<1>5. \A c \in Channels : bat.offset[c] = 0 /\ bat.last[c] = 0 /\ chan[c].ring = <<>>
  BY DEF Init, NoBatch, ResetChannel
<1>6. BatchInv
  BY <1>4, <1>5 DEF BatchInv
<1>7. svc \in Services /\ svc.at = "idle"
  BY DEF Init, Idle, Services
<1>8. WorkerSound
  BY <1>7, CaptureConstants DEF WorkerSound, ReportInv, Init
<1> QED
  BY <1>1, <1>3, <1>6, <1>8 DEF CaptureInv

\* Interrupts leave the records alone, and the counter of drops only grows.
LEMMA Interrupted ==
  ASSUME CaptureInv, NEW c \in Channels, NEW p, UNCHANGED <<now, svc, bat, chan, cap>>,
         ChannelsSound', plat' = [plat EXCEPT ![c] = p], p.reported = plat[c].reported,
         plat[c].drops <= p.drops, p.drops \in Nat
  PROVE  CaptureInv'
<1>1. AnchorSound'
  BY DEF CaptureInv, AnchorSound, AnchorInv
<1>2. BatchInv'
  BY DEF CaptureInv, BatchInv, Building
<1>3. ReportInv'
  <2> SUFFICES ASSUME svc.at = "report"
               PROVE  /\ plat'[svc.c].reported <= svc.drops
                      /\ svc.drops <= plat'[svc.c].drops
    BY DEF ReportInv
  <2>1. svc.c \in Channels /\ svc.drops \in Nat
    BY DEF CaptureInv, WorkerSound, Services
  <2>2. plat[svc.c].reported <= svc.drops /\ svc.drops <= plat[svc.c].drops
    BY DEF CaptureInv, WorkerSound, ReportInv
  <2>3. plat[svc.c].drops \in Nat
    <3>1. plat[svc.c] \in Platforms
      BY <2>1, AChannel DEF CaptureInv
    <3>2. \A r \in Platforms : r.drops \in 0 .. MaxCount
      BY DEF Platforms
    <3> QED
      BY <3>1, <3>2, CaptureConstants
  <2>4. CASE svc.c = c
    <3>1. plat'[svc.c] = p
      BY <2>4 DEF CaptureInv, ChannelsSound
    <3> QED
      BY <2>1, <2>2, <2>3, <2>4, <3>1
  <2>5. CASE svc.c # c
    <3>1. plat'[svc.c] = plat[svc.c]
      BY <2>1, <2>5 DEF CaptureInv, ChannelsSound
    <3> QED
      BY <2>2, <3>1
  <2> QED
    BY <2>4, <2>5
<1>4. WorkerSound'
  BY <1>3 DEF CaptureInv, WorkerSound
<1> QED
  BY <1>1, <1>2, <1>4 DEF CaptureInv

LEMMA StepStatusIrq ==
  ASSUME CaptureInv, NEW c \in Channels, StatusIrq(c)
  PROVE  CaptureInv'
<1> DEFINE q == plat[c]
           p == [q EXCEPT !.pending = TRUE]
           g == past[c]
           h == [g EXCEPT !.events = @ + 1]
<1>1. /\ ChannelSound(q, chan[c], g) /\ q \in Platforms /\ chan[c] \in Captures /\ g \in Histories
  BY AChannel DEF CaptureInv
<1>2. plat' = [plat EXCEPT ![c] = p] /\ past' = [past EXCEPT ![c] = h] /\ chan' = chan
  BY DEF StatusIrq
<1>3. p \in Platforms /\ p.raw = q.raw /\ p.drops = q.drops /\ p.reported = q.reported
  BY <1>1 DEF Platforms
<1>4. /\ h \in Histories /\ h.taken = g.taken /\ h.gone = g.gone /\ h.last = g.last
      /\ h.doubt = g.doubt /\ h.born = g.born
      /\ h.lost = g.lost /\ h.owed = g.owed /\ h.refused = g.refused
  BY <1>1 DEF Histories
<1> HIDE DEF p, h, q, g
<1>5. ChannelSound(p, chan[c], h)
  BY <1>1, <1>3, <1>4 DEF ChannelSound, Ordered, Timed, Counted
<1>6. ChannelsSound'
  BY <1>2, <1>5, OneChannel, SameChannel DEF CaptureInv
<1>7. q.drops \in Nat
  BY <1>1, CaptureConstants DEF Platforms
<1>8. plat[c].drops <= p.drops /\ p.drops \in Nat /\ p.reported = plat[c].reported
  BY <1>3, <1>7 DEF q
<1>9. UNCHANGED <<now, svc, bat, chan, cap>>
  BY DEF StatusIrq
<1> QED
  BY <1>2, <1>6, <1>8, <1>9, Interrupted

LEMMA StepFdcanIrq ==
  ASSUME CaptureInv, NEW c \in Channels, FdcanIrq(c)
  PROVE  CaptureInv'
<1> DEFINE q == plat[c]
           g == past[c]
           full == Len(q.raw) >= RawCapacity
           n == g.taken + 1
<1>1. /\ ChannelSound(q, chan[c], g) /\ q \in Platforms /\ chan[c] \in Captures /\ g \in Histories
  BY AChannel DEF CaptureInv
<1>2. PICK bad \in BOOLEAN, event \in {{}} \cup {{e} : e \in HwFaults} :
        LET odd == bad \/ event # {}
        IN  /\ plat' = [plat EXCEPT ![c] =
                  [q EXCEPT !.raw = IF full THEN @ ELSE
                              Append(@, [born |-> now, n |-> n, bad |-> bad]),
                            !.drops = IF full THEN Saturated(@ + 1) ELSE @,
                            !.loss = @ \cup event \cup IF full THEN {"raw_overflow"} ELSE {},
                            !.pending = TRUE]]
            /\ past' = [past EXCEPT ![c] =
                  [g EXCEPT !.taken = n, !.events = IF odd THEN @ + 1 ELSE @,
                            !.gone = IF full THEN @ + 1 ELSE @,
                            !.lost = IF full THEN @ + 1 ELSE @,
                            !.owed = IF full THEN @ + 1 ELSE @]]
  BY DEF FdcanIrq
<1> DEFINE f == [born |-> now, n |-> n, bad |-> bad]
           raw == IF full THEN q.raw ELSE Append(q.raw, f)
           drops == IF full THEN Saturated(q.drops + 1) ELSE q.drops
           loss == q.loss \cup event \cup IF full THEN {"raw_overflow"} ELSE {}
           events == IF bad \/ event # {} THEN g.events + 1 ELSE g.events
           gone == IF full THEN g.gone + 1 ELSE g.gone
           lost == IF full THEN g.lost + 1 ELSE g.lost
           owed == IF full THEN g.owed + 1 ELSE g.owed
           p == [q EXCEPT !.raw = raw, !.drops = drops, !.loss = loss, !.pending = TRUE]
           h == [g EXCEPT !.taken = n, !.events = events, !.gone = gone, !.lost = lost,
                          !.owed = owed]
<1>3. /\ plat' = [plat EXCEPT ![c] = p] /\ past' = [past EXCEPT ![c] = h]
      /\ chan' = chan /\ UNCHANGED <<now, svc, bat, chan, cap>>
  <2>1. plat' = [plat EXCEPT ![c] = p]
    BY <1>2, Zenon
  <2>2. past' = [past EXCEPT ![c] = h]
    BY <1>2
  <2>3. chan' = chan /\ UNCHANGED <<now, svc, bat, chan, cap>>
    BY DEF FdcanIrq
  <2> QED
    BY <2>1, <2>2, <2>3
<1>4. /\ q.raw \in Seq(RawFrames) /\ q.drops \in 0 .. MaxCount /\ q.drops \in Nat
      /\ q.reported \in Nat /\ q.loss \subseteq Flags /\ Len(q.raw) \in Nat
      /\ Len(q.raw) <= RawCapacity /\ q.reported <= q.drops
  BY <1>1, CaptureConstants DEF Platforms, ChannelSound
<1>5. g.taken \in Nat /\ g.gone \in Nat /\ g.events \in Nat /\ g.lost \in Nat /\ g.owed \in Nat
  BY <1>1 DEF Histories
<1>6. now \in Nat
  BY DEF CaptureInv, WorkerSound
<1>7. f \in RawFrames /\ f.n = g.taken + 1
  BY <1>5, <1>6 DEF RawFrames
<1>8. event \subseteq Flags
  BY CaptureConstants
<1>9. Append(q.raw, f) \in Seq(RawFrames) /\ Len(Append(q.raw, f)) = Len(q.raw) + 1
  <2> HIDE DEF f, q
  <2> QED
    BY <1>4, <1>7, Appended
<1>10. /\ Saturated(q.drops + 1) \in 0 .. MaxCount /\ q.drops <= Saturated(q.drops + 1)
       /\ Saturated(q.drops + 1) <= q.drops + 1
       /\ Saturated(q.drops + 1) \in {q.drops + 1, MaxCount}
  <2>1. q.drops + 1 \in Nat /\ q.drops <= q.drops + 1
    BY <1>4
  <2> QED
    BY <1>4, <2>1, SaturatedIsCount
<1> HIDE DEF f, q
<1>13. /\ raw \in Seq(RawFrames) /\ drops \in 0 .. MaxCount /\ loss \subseteq Flags
       /\ Len(raw) <= RawCapacity /\ q.drops <= drops
       /\ events \in Nat /\ gone \in Nat /\ n \in Nat /\ lost \in Nat /\ owed \in Nat
  <2>1. raw \in Seq(RawFrames) /\ Len(raw) <= RawCapacity
    BY <1>4, <1>9, CaptureConstants
  <2>2. drops \in 0 .. MaxCount /\ q.drops <= drops
    BY <1>4, <1>10
  <2>3. loss \subseteq Flags
    BY <1>4, <1>8 DEF Flags
  <2>4. events \in Nat /\ gone \in Nat /\ n \in Nat /\ lost \in Nat /\ owed \in Nat
    <3>1. /\ g.taken + 1 \in Nat /\ g.gone + 1 \in Nat /\ g.events + 1 \in Nat
          /\ g.lost + 1 \in Nat /\ g.owed + 1 \in Nat
      BY <1>5
    <3> QED
      BY <1>5, <3>1
  <2> QED
    BY <2>1, <2>2, <2>3, <2>4
<1>14. /\ full => /\ drops <= q.drops + 1 /\ drops \in {q.drops + 1, MaxCount}
                   /\ lost = g.lost + 1 /\ owed = g.owed + 1
       /\ ~full => drops = q.drops /\ lost = g.lost /\ owed = g.owed
  BY <1>10
<1> HIDE DEF raw, drops, loss, events, gone, n, lost, owed
<1>11. /\ h \in Histories /\ h.taken = n /\ h.gone = gone
       /\ h.last = g.last /\ h.doubt = g.doubt /\ h.born = g.born
       /\ h.lost = lost /\ h.owed = owed /\ h.refused = g.refused
  BY <1>1, <1>13 DEF Histories
<1>12. /\ p \in Platforms /\ p.raw = raw /\ p.drops = drops /\ p.reported = q.reported
  BY <1>1, <1>13 DEF Platforms
<1> HIDE DEF p, h
<1>15. chan[c].ring \in Seq(Records)
  BY <1>1 DEF Captures
<1>16. Ordered(chan[c].ring, q.raw, g)
  BY <1>1 DEF ChannelSound
<1>17. Ordered(chan[c].ring, p.raw, h)
  <2>1. CASE full
    BY <1>1, <1>4, <1>11, <1>12, <1>15, <1>16, <2>1, LostOrdered DEF raw, gone, n
  <2>2. CASE ~full
    BY <1>1, <1>4, <1>7, <1>11, <1>12, <1>15, <1>16, <2>2, ArrivesOrdered DEF raw, gone, n
  <2> QED
    BY <2>1, <2>2
<1>18. p.drops \in Nat /\ p.reported <= p.drops
  BY <1>4, <1>12, <1>13, CaptureConstants
<1>19. ChannelSound(p, chan[c], h)
  <2>1. Timed(chan[c], h)
    BY <1>1, <1>11 DEF ChannelSound, Timed
  <2>2. Counted(p, chan[c], h)
    <3>1. Counted(q, chan[c], g) /\ chan[c].dropped \in 0 .. MaxCount /\ MaxCount \in Nat
      BY <1>1, CountersAreNat, CaptureConstants DEF ChannelSound
    <3>2. drops \in 0 .. MaxCount
      BY <1>13
    <3>3. CASE full
      <4>1. /\ p.drops <= q.drops + 1 /\ p.drops \in {q.drops + 1, MaxCount}
            /\ p.reported = q.reported /\ h.lost = g.lost + 1 /\ h.owed = g.owed + 1
            /\ h.refused = g.refused
        BY <1>11, <1>12, <1>14, <3>3
      <4>2. /\ p.drops \in Nat /\ p.drops <= MaxCount /\ q.drops \in Nat /\ q.reported \in Nat
            /\ chan[c].dropped \in Nat /\ g.lost \in Nat /\ g.owed \in Nat
        BY <1>4, <1>5, <1>12, <3>1, <3>2
      <4>3. MaxCount \notin {chan[c].dropped, p.drops}
              => h.owed <= chan[c].dropped + (p.drops - p.reported)
        <5>1. CASE MaxCount \notin {chan[c].dropped, p.drops}
          <6>1. p.drops = q.drops + 1 /\ MaxCount \notin {chan[c].dropped, q.drops}
            BY <3>1, <4>1, <4>2, <5>1
          <6>2. g.owed <= chan[c].dropped + (q.drops - q.reported)
            BY <3>1, <6>1 DEF Counted
          <6> QED
            BY <4>1, <4>2, <6>1, <6>2
        <5> QED
          BY <5>1
      <4>4. p.drops - p.reported <= h.lost
        <5>1. q.drops - q.reported <= g.lost
          BY <3>1 DEF Counted
        <5> QED
          BY <4>1, <4>2, <5>1
      <4>5. ~h.refused => chan[c].dropped + (p.drops - p.reported) <= h.lost
        <5>1. ~g.refused => chan[c].dropped + (q.drops - q.reported) <= g.lost
          BY <3>1 DEF Counted
        <5> QED
          BY <4>1, <4>2, <5>1
      <4> QED
        BY <4>3, <4>4, <4>5 DEF Counted
    <3>4. CASE ~full
      BY <1>11, <1>12, <1>14, <3>1, <3>4 DEF Counted
    <3> QED
      BY <3>3, <3>4
  <2> QED
    BY <1>1, <1>11, <1>12, <1>13, <1>17, <1>18, <2>1, <2>2 DEF ChannelSound
<1>20. ChannelsSound'
  BY <1>3, <1>19, OneChannel, SameChannel DEF CaptureInv
<1>21. p.reported = plat[c].reported /\ plat[c].drops <= p.drops
  BY <1>12, <1>13 DEF q
<1> QED
  BY <1>3, <1>18, <1>20, <1>21, Interrupted

LEMMA LeastExists ==
  ASSUME NEW T \in SUBSET Nat, T # {}
  PROVE  \E x \in T : \A y \in T : x <= y
<1>1. PICK x \in T : \A y \in T : <<y, x>> \notin OpToRel(<, Nat)
  BY NatLessThanWellFounded, WFMin
<1>2. \A y \in T : ~(y < x)
  BY <1>1 DEF OpToRel
<1> QED
  BY <1>2

\* The next channel's turn, if there is one.
LEMMA NextTurn ==
  ASSUME ChannelsSound, NEW k \in Nat
  PROVE  \/ TurnAfter(k) = Idle
         \/ \E d \in Channels : TurnAfter(k) = Turn(d)
<1>1. CASE Later(k) = {}
  BY <1>1 DEF TurnAfter
<1>2. CASE Later(k) # {}
  <2>1. Later(k) \subseteq Nat /\ Later(k) \subseteq Channels
    BY CaptureConstants DEF Later
  <2>2. \E z \in Later(k) : \A y \in Later(k) : z <= y
    BY <1>2, <2>1, LeastExists
  <2>4. Min(Later(k)) \in Later(k)
    BY <2>2, Zenon DEF Min
  <2> QED
    BY <1>2, <2>1, <2>4 DEF TurnAfter
<1> QED
  BY <1>1, <1>2

LEMMA TurnTyped ==
  ASSUME ChannelsSound, NEW d \in Channels
  PROVE  /\ Turn(d) \in Services /\ Turn(d).at = "report" /\ Turn(d).c = d
         /\ Turn(d).drops = plat[d].drops /\ plat[d].reported <= plat[d].drops
         /\ Idle \in Services /\ Idle.at = "idle"
<1>1. plat[d] \in Platforms /\ ChannelSound(plat[d], chan[d], past[d])
  BY AChannel
<1>2. plat[d].drops \in Nat
  <2>1. \A r \in Platforms : r.drops \in 0 .. MaxCount
    BY DEF Platforms
  <2> QED
    BY <1>1, <2>1, CaptureConstants
<1>3. plat[d].reported <= plat[d].drops
  BY <1>1 DEF ChannelSound
<1>4. d \in Nat /\ RawCapacity \in Nat
  BY CaptureConstants
<1> QED
  BY <1>2, <1>3, <1>4 DEF Turn, Idle, Services

\* A step of the worker outside a batch.
LEMMA Worked ==
  ASSUME CaptureInv, UNCHANGED <<now, bat>>, ~Building, ~Building', ChannelsSound', AnchorSound',
         svc' \in Services, svc'.at \in {"report", "frames", "status"} => svc'.c \in Channels,
         ReportInv'
  PROVE  CaptureInv'
<1>1. bat = NoBatch /\ bat' = NoBatch
  BY DEF CaptureInv, BatchInv
<1>2. BatchInv'
  <2>1. \A c \in Channels : bat'.offset[c] = 0 /\ bat'.last[c] = 0
    BY <1>1 DEF NoBatch
  <2>2. \A c \in Channels : Len(chan'[c].ring) \in Nat
    <3>1. \A r \in Captures : Len(r.ring) \in Nat
      BY DEF Captures
    <3> QED
      BY <3>1 DEF ChannelsSound
  <2>3. bat' \in Batches
    BY <1>1 DEF CaptureInv, BatchInv
  <2> QED
    BY <1>1, <2>1, <2>2, <2>3 DEF BatchInv
<1>3. WorkerSound'
  BY DEF CaptureInv, WorkerSound
<1> QED
  BY <1>2, <1>3 DEF CaptureInv

\* The worker leaves the counter of drops of the next channel alone.
LEMMA TurnReported ==
  ASSUME ChannelsSound, ChannelsSound', NEW k \in Nat, svc' = TurnAfter(k),
         \A d \in Channels : plat'[d].drops = plat[d].drops /\ plat'[d].reported = plat[d].reported
  PROVE  /\ svc' \in Services /\ ~Building' /\ ReportInv'
         /\ svc'.at \in {"report", "frames", "status"} => svc'.c \in Channels
<1>1. CASE TurnAfter(k) = Idle
  BY <1>1 DEF Idle, Services, Building, ReportInv
<1>2. CASE \E d \in Channels : TurnAfter(k) = Turn(d)
  <2>1. PICK d \in Channels : TurnAfter(k) = Turn(d)
    BY <1>2
  <2>2. plat[d].drops \in Nat
    <3>1. \A r \in Platforms : r.drops \in 0 .. MaxCount
      BY DEF Platforms
    <3> QED
      BY <3>1, AChannel, CaptureConstants
  <2>3. /\ svc' \in Services /\ svc'.at = "report" /\ svc'.c = d /\ svc'.drops = plat[d].drops
        /\ plat[d].reported <= plat[d].drops
    BY <2>1, TurnTyped
  <2>4. ReportInv'
    BY <2>2, <2>3 DEF ReportInv
  <2> QED
    BY <2>3, <2>4 DEF Building
<1> QED
  BY <1>1, <1>2, NextTurn

LEMMA StepServiceBegins == CaptureInv /\ ServiceBegins => CaptureInv'
<1> SUFFICES ASSUME CaptureInv, ServiceBegins PROVE CaptureInv'
  OBVIOUS
<1>1. svc.at = "idle" /\ svc' = TurnAfter(0) /\ UNCHANGED <<now, plat, bat, chan, cap, past>>
  BY DEF ServiceBegins
<1>2. ChannelsSound'
  BY <1>1 DEF CaptureInv, ChannelsSound
<1>3. AnchorSound'
  BY <1>1 DEF CaptureInv, AnchorSound, AnchorInv
<1>4. /\ svc' \in Services /\ ~Building' /\ ReportInv'
      /\ svc'.at \in {"report", "frames", "status"} => svc'.c \in Channels
  BY <1>1, <1>2, TurnReported DEF CaptureInv
<1> QED
  BY <1>1, <1>2, <1>3, <1>4, Worked DEF Building

LEMMA StepReportDrops == CaptureInv /\ ReportDrops => CaptureInv'
<1> SUFFICES ASSUME CaptureInv, ReportDrops PROVE CaptureInv'
  OBVIOUS
<1> DEFINE c == svc.c
           q == plat[c]
           ch == chan[c]
           delta == svc.drops - q.reported
           p == [q EXCEPT !.reported = svc.drops]
           k == [ch EXCEPT !.dropped = Saturated(@ + delta)]
<1>1. /\ svc.at = "report" /\ c \in Channels /\ svc.drops \in Nat /\ svc \in Services
      /\ q.reported <= svc.drops /\ svc.drops <= q.drops
  BY DEF ReportDrops, CaptureInv, WorkerSound, ReportInv, Services
<1>2. /\ chan' = [chan EXCEPT ![c] = k] /\ plat' = [plat EXCEPT ![c] = p]
      /\ svc' = [svc EXCEPT !.at = "frames", !.drops = 0]
      /\ UNCHANGED <<now, bat, cap, past>>
  BY DEF ReportDrops, Told
<1>3. /\ ChannelSound(q, ch, past[c]) /\ q \in Platforms /\ ch \in Captures
      /\ past[c] \in Histories
  BY <1>1, AChannel DEF CaptureInv
<1>4. ch.dropped \in Nat /\ q.reported \in Nat
  BY <1>3, CaptureConstants DEF Captures, Platforms
<1> DEFINE sum == ch.dropped + delta
<1>5. /\ Saturated(sum) \in 0 .. MaxCount /\ Saturated(sum) <= sum
      /\ Saturated(sum) \in {sum, MaxCount} /\ sum \in Nat
  <2>1. ch.dropped + delta \in Nat
    BY <1>1, <1>4
  <2> QED
    BY <2>1, SaturatedIsCount
<1>6. k \in Captures /\ k.ring = ch.ring /\ k.sticky = ch.sticky /\ k.state = ch.state
      /\ k.known = ch.known /\ k.last = ch.last /\ k.source = ch.source /\ k.epoch = ch.epoch
      /\ k.dropped = Saturated(sum)
  BY <1>3, <1>5 DEF Captures
<1>7. p \in Platforms /\ p.raw = q.raw /\ p.drops = q.drops /\ p.reported = svc.drops
  BY <1>1, <1>3 DEF Platforms
<1> HIDE DEF p, k, q, ch
<1>12. Counted(p, k, past[c])
  <2>1. /\ Counted(q, ch, past[c]) /\ q.drops \in Nat /\ ch.dropped \in 0 .. MaxCount
        /\ past[c].owed \in Nat /\ past[c].lost \in Nat /\ MaxCount \in Nat
    BY <1>3, CountersAreNat, CaptureConstants DEF ChannelSound
  <2> DEFINE dropped == k.dropped
  <2>2. /\ dropped \in 0 .. MaxCount /\ dropped <= sum /\ dropped \in {sum, MaxCount}
        /\ sum = ch.dropped + (svc.drops - q.reported)
    BY <1>5, <1>6
  <2> HIDE DEF dropped, sum, delta
  <2>3. MaxCount # dropped => dropped = sum /\ ch.dropped # MaxCount
    BY <1>1, <1>4, <2>1, <2>2
  <2>4. /\ MaxCount \notin {dropped, p.drops} => past[c].owed <= dropped + (p.drops - p.reported)
        /\ p.drops - p.reported <= past[c].lost
        /\ ~past[c].refused => dropped + (p.drops - p.reported) <= past[c].lost
    BY <1>1, <1>4, <1>7, <2>1, <2>2, <2>3 DEF Counted
  <2> QED
    BY <2>4 DEF Counted, dropped
<1>8. ChannelSound(p, k, past[c])
  BY <1>1, <1>3, <1>6, <1>7, <1>12 DEF ChannelSound, Timed
<1>9. ChannelsSound'
  BY <1>1, <1>2, <1>8, OneChannel, SameChannel DEF CaptureInv
<1>10. AnchorSound'
  BY <1>2 DEF CaptureInv, AnchorSound, AnchorInv
<1>11. svc' \in Services /\ svc'.at = "frames" /\ svc'.c = c
  BY <1>1, <1>2 DEF Services
<1> QED
  BY <1>1, <1>2, <1>9, <1>10, <1>11, Worked DEF Building, ReportInv

-----------------------------------------------------------------------------
(* canview_stm_fdcan_capture_ingest.                                        *)

\* The time of a frame is a time, whatever the clock says.
LEMMA TimeTyped ==
  ASSUME CaptureInv, NEW c \in Channels, NEW born \in Nat, TimeOf(c, born % Wrap).ok
  PROVE  LET time == TimeOf(c, born % Wrap)
         IN  time.t \in Nat /\ time.source \in Nat /\ time.epoch \in Nat
<1> DEFINE s == born % Wrap  ch == chan[c]
<1>0. Wrap \in Nat /\ Wrap > 0 /\ Half \in Nat /\ 2 * Half <= Wrap
  <2>1. Wrap \in Nat /\ Wrap > 0
    BY CaptureConstants
  <2>2. Wrap \div 2 \in Nat /\ 2 * (Wrap \div 2) <= Wrap
    BY <2>1, Z3
  <2> QED
    BY <2>1, <2>2 DEF Half
<1>1. s \in Nat /\ s < Wrap
  BY Epochs
<1>2. ch.epoch \in Nat /\ ch.source \in Nat /\ cap.epoch \in Nat /\ cap.extended \in Nat
  BY AChannel DEF CaptureInv, AnchorSound, Captures, Anchors
<1>3. TimeOf(c, s).ok
  BY DEF s
<1> HIDE DEF s
<1>4. CASE ~ch.known /\ cap.known
  <2> DEFINE candidate == cap.epoch + s
             ahead == candidate > cap.extended
             distance == IF ahead THEN candidate - cap.extended ELSE cap.extended - candidate
             t == IF distance <= Half - 1 THEN candidate
                  ELSE IF ahead THEN candidate - Wrap ELSE candidate + Wrap
             no == distance = Half \/ (distance > Half - 1 /\ ahead /\ candidate < Wrap)
  <2>1. TimeOf(c, s) = IF no THEN Refused
                       ELSE [ok |-> TRUE, t |-> t, source |-> s, epoch |-> Epoch(t)]
    BY <1>4 DEF TimeOf, NearAnchor
  <2> HIDE DEF t, no
  <2>2. ~no /\ TimeOf(c, s).t = t /\ TimeOf(c, s).source = s /\ TimeOf(c, s).epoch = Epoch(t)
    BY <1>3, <2>1 DEF Refused
  <2>3. t \in Nat
    BY <1>0, <1>1, <1>2, <2>2 DEF t, no
  <2> QED
    BY <1>1, <2>2, <2>3, Epochs DEF s
<1>5. CASE ~(~ch.known /\ cap.known)
  <2>1. TimeOf(c, s) = Extended(ch, s)
    BY <1>5 DEF TimeOf
  <2>2. CASE ~ch.known
    BY <1>1, <2>1, <2>2 DEF Extended, s
  <2>3. CASE ch.known
    <3> DEFINE lower == s < ch.source
               distance == IF lower THEN ch.source - s ELSE s - ch.source
               wrapped == distance > Half - 1
               epoch == IF wrapped THEN ch.epoch + Wrap ELSE ch.epoch
               source == IF ~lower \/ wrapped THEN s ELSE ch.source
               no == distance = Half \/ (wrapped /\ ~lower)
    <3>1. TimeOf(c, s) = IF no THEN Refused
                         ELSE [ok |-> TRUE, t |-> epoch + s, epoch |-> epoch, source |-> source]
      BY <2>1, <2>3 DEF Extended
    <3>2. epoch \in Nat /\ source \in Nat
      BY <1>0, <1>1, <1>2
    <3> HIDE DEF epoch, source, no
    <3>3. ~no /\ TimeOf(c, s).t = epoch + s /\ TimeOf(c, s).source = source
          /\ TimeOf(c, s).epoch = epoch
      BY <1>3, <3>1 DEF Refused
    <3> QED
      BY <1>1, <3>2, <3>3 DEF s
  <2> QED
    BY <2>2, <2>3
<1> QED
  BY <1>4, <1>5

\* The time of a frame that is not in doubt is the true one.
LEMMA TimeIsTrue ==
  ASSUME CaptureInv, NEW c \in Channels, NEW born \in Nat, Dated(c, TimeOf(c, born % Wrap)),
         ~past[c].doubt, ~InDoubt(c, born)
  PROVE  LET time == TimeOf(c, born % Wrap)
         IN  time.t = born /\ time.source = born % Wrap /\ time.epoch = Epoch(born)
<1> DEFINE ch == chan[c]  h == past[c]  s == born % Wrap
<1>1. ChannelSound(plat[c], ch, h) /\ ch \in Captures /\ h \in Histories /\ h.born \in Nat
  BY AChannel DEF CaptureInv, Histories
<1>2. TimeOf(c, s).ok /\ (ch.known => TimeOf(c, s).t >= ch.last)
  BY DEF Dated
<1>3. CASE ch.known
  <2>1. TimeOf(c, s) = Extended(ch, s)
    BY <1>3 DEF TimeOf
  <2>2. ch.last = h.born /\ ch.source = h.born % Wrap /\ ch.epoch = Epoch(h.born)
    BY <1>1, <1>3 DEF ChannelSound, Timed
  <2>3. ~Apart(born, h.born)
    BY <1>3 DEF InDoubt
  <2> HIDE DEF ch, h
  <2> QED
    BY <1>1, <1>2, <1>3, <2>1, <2>2, <2>3, ExtendedIsTrue
<1>4. CASE ~ch.known /\ cap.known
  <2>1. TimeOf(c, s) = NearAnchor(s)
    BY <1>4 DEF TimeOf
  <2>2. ~Apart(born, cap.extended) /\ ~(cap.extended - cap.epoch >= Wrap + Half)
    BY <1>4 DEF InDoubt
  <2>3. cap \in Anchors /\ AnchorInv
    BY DEF CaptureInv, AnchorSound
  <2>4. cap.extended - cap.epoch < Wrap + Half
    <3>1. cap.extended \in Nat /\ cap.epoch \in Nat /\ Wrap \in Nat /\ Half \in Nat
      <4>1. Wrap \div 2 \in Nat
        BY CaptureConstants, Z3
      <4> QED
        BY <2>3, <4>1, CaptureConstants DEF Anchors, Half
    <3> QED
      BY <2>2, <3>1
  <2> QED
    BY <1>2, <2>1, <2>2, <2>3, <2>4, NearAnchorIsTrue
<1>5. CASE ~ch.known /\ ~cap.known
  <2>1. TimeOf(c, s) = [ok |-> TRUE, t |-> s, source |-> s, epoch |-> 0]
    BY <1>5 DEF TimeOf, Extended
  <2>2. born < Wrap
    BY <1>5, CaptureConstants DEF InDoubt
  <2>3. 0 * Wrap = 0
    BY CaptureConstants
  <2>4. Multiple(0)
    BY <2>3 DEF Multiple
  <2>5. Epoch(born) = 0 /\ born % Wrap = born
    <3>1. 0 + born = born
      OBVIOUS
    <3> QED
      BY <2>2, <2>4, <3>1, EpochOfSum
  <2> QED
    BY <2>1, <2>5
<1> QED
  BY <1>3, <1>4, <1>5

LEMMA NewestSound ==
  ASSUME AnchorSound, NEW t \in Nat, cap' = Newest(t)
  PROVE  AnchorSound'
<1>1. Epoch(t) \in Nat /\ Epoch(t) % Wrap = 0 /\ Epoch(t) <= t
  <2>1. Epoch(t) \in Nat /\ t % Wrap \in Nat /\ Epoch(t) + (t % Wrap) = t
    BY Epochs
  <2> QED
    BY <2>1, EpochIsMultiple
<1>2. cap \in Anchors
  BY DEF AnchorSound
<1>3. CASE ~cap.known \/ t > cap.extended
  <2>1. cap' = [cap EXCEPT !.known = TRUE, !.extended = t, !.epoch = Epoch(t)]
    BY <1>3 DEF Newest
  <2>2. /\ cap' \in Anchors /\ cap'.extended = t /\ cap'.epoch = Epoch(t)
        /\ cap'.inventory = cap.inventory
    BY <1>1, <1>2, <2>1 DEF Anchors
  <2> QED
    BY <1>1, <2>2 DEF AnchorSound, AnchorInv
<1>4. CASE ~(~cap.known \/ t > cap.extended)
  <2>1. cap' = cap
    BY <1>4 DEF Newest
  <2> QED
    BY <2>1 DEF AnchorSound, AnchorInv
<1> QED
  BY <1>3, <1>4

\* A refused frame is dropped or kept, an accepted one becomes a record.
LEMMA IngestSound ==
  ASSUME CaptureInv, NEW c \in Channels, plat[c].raw # <<>>, Ingest(c, Head(plat[c].raw))
  PROVE  LET f == Head(plat[c].raw)
             rest == [plat[c] EXCEPT !.raw = Tail(@)]
         IN  /\ AnchorSound'
             /\ Retryable(c, f) => ChannelsSound' \/ plat' # plat
             /\ ~Retryable(c, f) /\ plat' = [plat EXCEPT ![c] = rest] => ChannelsSound'
<1> DEFINE q == plat[c]
           raw == q.raw
           f == Head(raw)
           rest == [q EXCEPT !.raw = Tail(@)]
           ch == chan[c]
           ring == ch.ring
           h == past[c]
           time == TimeOf(c, f.born % Wrap)
           doubt == h.doubt \/ (Valid(f) /\ InDoubt(c, f.born))
<1>1. /\ ChannelSound(q, ch, h) /\ q \in Platforms /\ ch \in Captures /\ h \in Histories
      /\ ChannelsSound /\ AnchorSound
  BY AChannel DEF CaptureInv
<1>2. /\ raw \in Seq(RawFrames) /\ raw # <<>> /\ ring \in Seq(Records)
      /\ Ordered(ring, raw, h) /\ Timed(ch, h) /\ Len(ring) <= RingCapacity
      /\ Len(raw) <= RawCapacity /\ q.reported <= q.drops
      /\ ch.sticky # {} => ch.state = "fault"
  BY <1>1 DEF Platforms, Captures, ChannelSound
<1>3. f \in RawFrames /\ f.born \in Nat /\ f.n \in Nat /\ Len(ring) \in Nat
  <2>1. f \in RawFrames
    BY <1>2, Shortened
  <2> QED
    BY <1>2, <2>1 DEF RawFrames
<1>4. doubt \in BOOLEAN
  <2>1. h.doubt \in BOOLEAN
    BY <1>1 DEF Histories
  <2> QED
    BY <2>1
<1>5. h.gone + 1 \in Nat
  BY <1>1 DEF Histories
<1>6. /\ rest \in Platforms /\ rest.raw = Tail(raw) /\ rest.drops = q.drops
      /\ rest.reported = q.reported
  <2>1. Tail(raw) \in Seq(RawFrames)
    BY <1>2, Shortened
  <2> QED
    BY <1>1, <2>1 DEF Platforms
<1>7. Len(rest.raw) <= RawCapacity
  BY <1>2, <1>6, Shortened, CaptureConstants
<1> DEFINE full == Valid(f) /\ Len(ring) >= RingCapacity
           faulty == ~Valid(f) \/ ~Dated(c, time)
           busy == [ch EXCEPT !.dropped = Saturated(@ + 1)]
           turned == [h EXCEPT !.refused = TRUE]
           broken == [ch EXCEPT !.state = "fault"]
           lost == [h EXCEPT !.gone = @ + 1, !.doubt = doubt]
           r == [t |-> time.t, born |-> f.born, n |-> f.n]
           taken == [ch EXCEPT !.ring = Append(@, r), !.known = TRUE, !.last = time.t,
                               !.source = time.source, !.epoch = time.epoch, !.seen = TRUE,
                               !.state = OnData(@)]
           kept == [h EXCEPT !.born = f.born, !.doubt = doubt]
<1>8. /\ full => /\ chan' = [chan EXCEPT ![c] = busy] /\ UNCHANGED cap
                 /\ past' = [past EXCEPT ![c] = turned]
      /\ ~full /\ faulty => /\ chan' = [chan EXCEPT ![c] = broken] /\ UNCHANGED cap
                            /\ past' = [past EXCEPT ![c] = lost]
      /\ ~full /\ ~faulty => /\ chan' = [chan EXCEPT ![c] = taken] /\ cap' = Newest(time.t)
                             /\ past' = [past EXCEPT ![c] = kept]
  BY DEF Ingest
<1>9. Retryable(c, f) <=> full
  BY DEF Retryable
<1>10. CASE full
  <2>1. chan' = [chan EXCEPT ![c] = busy] /\ cap' = cap /\ past' = [past EXCEPT ![c] = turned]
    BY <1>8, <1>10
  <2>2. AnchorSound'
    BY <1>1, <2>1 DEF AnchorSound, AnchorInv
  <2>3. Saturated(ch.dropped + 1) \in 0 .. MaxCount /\ Saturated(ch.dropped + 1) >= ch.dropped
    <3>1. ch.dropped + 1 \in Nat /\ ch.dropped \in 0 .. MaxCount /\ ch.dropped <= ch.dropped + 1
      BY <1>1, CountersAreNat
    <3> QED
      BY <3>1, SaturatedIsCount
  <2>4. /\ busy \in Captures /\ busy.ring = ring /\ busy.sticky = ch.sticky
        /\ busy.state = ch.state /\ busy.known = ch.known /\ busy.last = ch.last
        /\ busy.source = ch.source /\ busy.epoch = ch.epoch
        /\ busy.dropped = Saturated(ch.dropped + 1)
    BY <1>1, <2>3 DEF Captures
  <2>5. /\ turned \in Histories /\ turned.taken = h.taken /\ turned.gone = h.gone
        /\ turned.last = h.last /\ turned.born = h.born /\ turned.doubt = h.doubt
        /\ turned.lost = h.lost /\ turned.owed = h.owed /\ turned.refused = TRUE
    BY <1>1 DEF Histories
  <2> HIDE DEF busy, turned
  <2>6. Counted(q, busy, turned)
    <3>1. /\ Counted(q, ch, h) /\ ch.dropped \in 0 .. MaxCount /\ MaxCount \in Nat
          /\ q.drops \in Nat /\ q.reported \in Nat /\ h.owed \in Nat
      BY <1>1, CountersAreNat, CaptureConstants DEF ChannelSound
    <3> DEFINE dropped == busy.dropped
    <3>2. dropped \in 0 .. MaxCount /\ dropped >= ch.dropped
      BY <2>3, <2>4
    <3> HIDE DEF dropped
    <3>3. MaxCount # dropped => MaxCount # ch.dropped
      BY <3>1, <3>2
    <3>4. MaxCount \notin {dropped, q.drops} => h.owed <= dropped + (q.drops - q.reported)
      BY <3>1, <3>2, <3>3 DEF Counted
    <3> QED
      BY <2>5, <3>1, <3>4 DEF Counted, dropped
  <2>7. Timed(busy, turned)
    BY <1>2, <2>4, <2>5 DEF Timed
  <2>8. Ordered(busy.ring, raw, turned)
    BY <1>2, <2>4, <2>5 DEF Ordered
  <2>9. ChannelSound(q, busy, turned)
    BY <1>1, <1>2, <2>4, <2>5, <2>6, <2>7, <2>8 DEF ChannelSound
  <2>10. ASSUME plat' = plat PROVE ChannelsSound'
    <3>1. plat' = [plat EXCEPT ![c] = q]
      BY <1>1, <2>10, SameChannel
    <3> HIDE DEF q, h
    <3> QED
      BY <1>1, <2>1, <2>9, <3>1, OneChannel
  <2> QED
    BY <1>9, <1>10, <2>2, <2>10
<1>11. CASE ~full /\ faulty
  <2>1. /\ chan' = [chan EXCEPT ![c] = broken] /\ past' = [past EXCEPT ![c] = lost]
        /\ cap' = cap
    BY <1>8, <1>11
  <2>2. AnchorSound'
    BY <1>1, <2>1 DEF AnchorSound, AnchorInv
  <2>3. /\ broken \in Captures /\ broken.ring = ring /\ broken.state = "fault"
        /\ broken.known = ch.known /\ broken.last = ch.last
        /\ broken.source = ch.source /\ broken.epoch = ch.epoch /\ broken.dropped = ch.dropped
    BY <1>1 DEF Captures, BusStates
  <2> HIDE DEF doubt
  <2>4. /\ lost \in Histories /\ lost.taken = h.taken /\ lost.last = h.last
        /\ lost.gone = h.gone + 1 /\ lost.born = h.born /\ lost.doubt = doubt
        /\ lost.lost = h.lost /\ lost.owed = h.owed /\ lost.refused = h.refused
    BY <1>1, <1>4, <1>5 DEF Histories
  <2> HIDE DEF broken, lost
  <2>5. Ordered(broken.ring, rest.raw, lost)
    BY <1>1, <1>2, <1>6, <2>3, <2>4, HeadOrdered
  <2>6. Timed(broken, lost)
    <3>1. ~lost.doubt => ~h.doubt
      BY <2>4 DEF doubt
    <3> QED
      BY <1>2, <2>3, <2>4, <3>1 DEF Timed
  <2>9. Counted(rest, broken, lost)
    BY <1>1, <1>6, <2>3, <2>4 DEF ChannelSound, Counted
  <2>7. ChannelSound(rest, broken, lost)
    BY <1>2, <1>6, <1>7, <2>3, <2>4, <2>5, <2>6, <2>9 DEF ChannelSound
  <2>8. plat' = [plat EXCEPT ![c] = rest] => ChannelsSound'
    BY <1>1, <2>1, <2>7, OneChannel
  <2> QED
    BY <1>9, <1>11, <2>2, <2>8
<1>12. CASE ~full /\ ~faulty
  <2>1. /\ chan' = [chan EXCEPT ![c] = taken] /\ past' = [past EXCEPT ![c] = kept]
        /\ cap' = Newest(time.t)
    BY <1>8, <1>12
  <2>2. Valid(f) /\ Dated(c, time) /\ time.ok /\ Len(ring) + 1 <= RingCapacity
    BY <1>3, <1>12, CaptureConstants DEF Dated
  <2>3. time.t \in Nat /\ time.source \in Nat /\ time.epoch \in Nat
    BY <1>3, <2>2, TimeTyped
  <2>4. ~doubt => /\ time.t = f.born /\ time.source = f.born % Wrap
                  /\ time.epoch = Epoch(f.born) /\ ~h.doubt
    BY <1>3, <2>2, TimeIsTrue
  <2> HIDE DEF time, doubt
  <2>5. AnchorSound'
    BY <1>1, <2>1, <2>3, NewestSound
  <2>6. r \in Records /\ r.n = f.n /\ r.t = time.t /\ r.born = f.born
    BY <1>3, <2>3 DEF Records
  <2> HIDE DEF r, f
  <2>7. /\ Append(ring, r) \in Seq(Records) /\ Len(Append(ring, r)) = Len(ring) + 1
        /\ \A j \in 1 .. Len(Append(ring, r)) :
             \/ j \in 1 .. Len(ring) /\ Append(ring, r)[j] = ring[j]
             \/ j = Len(ring) + 1 /\ Append(ring, r)[j] = r
    BY <1>2, <2>6, Appended
  <2>8. OnData(ch.state) \in BusStates /\ (ch.state = "fault" => OnData(ch.state) = "fault")
    BY <1>1 DEF OnData, BusStates, Captures
  <2> DEFINE more == Append(ring, r)  state == OnData(ch.state)
  <2>9. taken = [ch EXCEPT !.ring = more, !.known = TRUE, !.last = time.t,
                           !.source = time.source, !.epoch = time.epoch, !.seen = TRUE,
                           !.state = state]
    OBVIOUS
  <2> HIDE DEF more, state, taken
  <2>10. /\ taken \in Captures /\ taken.ring = more /\ taken.sticky = ch.sticky
         /\ taken.state = state /\ taken.known = TRUE /\ taken.last = time.t
         /\ taken.source = time.source /\ taken.epoch = time.epoch /\ taken.dropped = ch.dropped
    <3>1. more \in Seq(Records) /\ state \in BusStates
      BY <2>7, <2>8 DEF more, state
    <3> QED
      BY <1>1, <2>3, <2>9, <3>1 DEF Captures
  <2>11. /\ kept \in Histories /\ kept.taken = h.taken /\ kept.last = h.last
         /\ kept.gone = h.gone /\ kept.born = f.born /\ kept.doubt = doubt
         /\ kept.lost = h.lost /\ kept.owed = h.owed /\ kept.refused = h.refused
    BY <1>1, <1>3, <1>4 DEF Histories
  <2> HIDE DEF kept, rest
  <2>12. Ordered(taken.ring, rest.raw, kept)
    BY <1>1, <1>2, <1>6, <2>6, <2>10, <2>11, HeadOrdered DEF more, f
  <2>13. Timed(taken, kept)
    <3> SUFFICES ASSUME ~kept.doubt
                 PROVE  /\ \A i \in 1 .. Len(more) : more[i].t = more[i].born
                        /\ taken.last = kept.born /\ taken.source = kept.born % Wrap
                        /\ taken.epoch = Epoch(kept.born)
      BY <2>10 DEF Timed
    <3>1. /\ time.t = f.born /\ time.source = f.born % Wrap
          /\ time.epoch = Epoch(f.born) /\ ~h.doubt
      BY <2>4, <2>11
    <3>2. \A i \in 1 .. Len(ring) : ring[i].t = ring[i].born
      BY <1>2, <3>1 DEF Timed
    <3>3. \A i \in 1 .. Len(more) : more[i].t = more[i].born
      BY <2>6, <2>7, <3>1, <3>2 DEF more
    <3> QED
      BY <2>10, <2>11, <3>1, <3>3
  <2>14. ChannelSound(rest, taken, kept)
    <3>1. Len(taken.ring) <= RingCapacity
      BY <2>2, <2>7, <2>10 DEF more
    <3>2. taken.sticky # {} => taken.state = "fault"
      BY <1>2, <2>8, <2>10 DEF state
    <3>3. Counted(rest, taken, kept)
      BY <1>1, <1>6, <2>10, <2>11 DEF ChannelSound, Counted
    <3> QED
      BY <1>2, <1>6, <1>7, <2>10, <2>11, <2>12, <2>13, <3>1, <3>2, <3>3 DEF ChannelSound
  <2>15. plat' = [plat EXCEPT ![c] = rest] => ChannelsSound'
    BY <1>1, <2>1, <2>14, OneChannel
  <2> QED
    BY <1>9, <1>12, <2>5, <2>15 DEF rest, f
<1> QED
  BY <1>10, <1>11, <1>12

LEMMA StepServiceFrame == CaptureInv /\ ServiceFrame => CaptureInv'
<1> SUFFICES ASSUME CaptureInv, ServiceFrame PROVE CaptureInv'
  OBVIOUS
<1> DEFINE c == svc.c  q == plat[c]  f == Head(q.raw)
<1>1. svc.at = "frames" /\ c \in Channels /\ svc \in Services /\ UNCHANGED <<now, bat>>
  BY DEF ServiceFrame, CaptureInv, WorkerSound
<1>2. ChannelsSound /\ AnchorSound
  BY DEF CaptureInv
<1>3. CASE svc.left = 0 \/ q.raw = <<>>
  <2>1. svc' = [svc EXCEPT !.at = "status"] /\ UNCHANGED <<plat, chan, cap, past>>
    BY <1>3 DEF ServiceFrame
  <2>2. svc' \in Services /\ svc'.at = "status" /\ svc'.c = c
    BY <1>1, <2>1 DEF Services
  <2>3. ChannelsSound' /\ AnchorSound'
    BY <1>2, <2>1 DEF ChannelsSound, AnchorSound, AnchorInv
  <2> QED
    BY <1>1, <2>2, <2>3, Worked DEF Building, ReportInv
<1>4. CASE ~(svc.left = 0 \/ q.raw = <<>>)
  <2>1. /\ Ingest(c, f)
        /\ Retryable(c, f) => svc' = [svc EXCEPT !.at = "status"] /\ UNCHANGED plat
        /\ ~Retryable(c, f) => /\ plat' = [plat EXCEPT ![c] = [q EXCEPT !.raw = Tail(@)]]
                               /\ svc' = [svc EXCEPT !.left = @ - 1]
    BY <1>4 DEF ServiceFrame
  <2>2. ChannelsSound' /\ AnchorSound'
    BY <1>1, <1>4, <2>1, IngestSound
  <2>3. svc' \in Services /\ svc'.at \in {"frames", "status"} /\ svc'.c = c
    <3>1. svc.left - 1 \in Nat
      BY <1>1, <1>4 DEF Services
    <3>2. CASE Retryable(c, f)
      BY <1>1, <2>1, <3>2 DEF Services
    <3>3. CASE ~Retryable(c, f)
      BY <1>1, <2>1, <3>1, <3>3 DEF Services
    <3> QED
      BY <3>2, <3>3
  <2> QED
    BY <1>1, <2>2, <2>3, Worked DEF Building, ReportInv
<1> QED
  BY <1>3, <1>4

\* A hardware fault stays, and nothing but it hides another state.
LEMMA StatusSound ==
  ASSUME CaptureInv, NEW c \in Channels, NEW state \in BusStates, NEW hard \in SUBSET Flags,
         hard # {} => state = "fault", SetStatus(c, state, hard)
  PROVE  /\ AnchorSound'
         /\ \E k : /\ chan' = [chan EXCEPT ![c] = k]
                   /\ ChannelSound(plat[c], k, past[c])
<1> DEFINE ch == chan[c]
           q == plat[c]
           h == past[c]
           stale == now < ch.statusAt \/ (ch.known /\ now < ch.last)
           sticky == ch.sticky \cup hard
           old == IF hard \subseteq ch.sticky THEN ch.state ELSE "fault"
           new == IF sticky # {} THEN "fault" ELSE state
           late == [ch EXCEPT !.sticky = sticky, !.state = old]
           fresh == [ch EXCEPT !.sticky = sticky, !.statusAt = now, !.state = new]
<1>1. /\ ChannelSound(q, ch, h) /\ ch \in Captures /\ AnchorSound /\ now \in Nat
  BY AChannel DEF CaptureInv, WorkerSound
<1>2. /\ stale => /\ chan' = [chan EXCEPT ![c] = late] /\ UNCHANGED cap
      /\ ~stale => /\ chan' = [chan EXCEPT ![c] = fresh] /\ cap' = Newest(now)
  BY DEF SetStatus
<1>3. sticky \subseteq Flags /\ old \in BusStates /\ new \in BusStates
  BY <1>1 DEF Captures, BusStates
<1>4. (sticky # {} => old = "fault") /\ (sticky # {} => new = "fault")
  BY <1>1 DEF ChannelSound
<1> HIDE DEF stale, sticky, old, new, q, h
<1>5. ASSUME NEW k \in {late, fresh}
      PROVE  ChannelSound(q, k, h)
  <2>1. /\ k \in Captures /\ k.ring = ch.ring /\ k.sticky = sticky /\ k.known = ch.known
        /\ k.last = ch.last /\ k.source = ch.source /\ k.epoch = ch.epoch
        /\ k.state \in {old, new} /\ k.dropped = ch.dropped
    <3>1. CASE k = late
      BY <1>1, <1>3, <3>1 DEF Captures
    <3>2. CASE k = fresh
      BY <1>1, <1>3, <3>2 DEF Captures
    <3> QED
      BY <3>1, <3>2
  <2>2. Timed(k, h) /\ Counted(q, k, h)
    BY <1>1, <2>1 DEF Timed, Counted, ChannelSound
  <2> QED
    BY <1>1, <1>4, <2>1, <2>2 DEF ChannelSound
<1>6. AnchorSound'
  <2>1. CASE stale
    BY <1>1, <1>2, <2>1 DEF AnchorSound, AnchorInv
  <2>2. CASE ~stale
    BY <1>1, <1>2, <2>2, NewestSound
  <2> QED
    BY <2>1, <2>2
<1>7. \E k \in {late, fresh} : chan' = [chan EXCEPT ![c] = k]
  BY <1>2
<1> QED
  BY <1>5, <1>6, <1>7 DEF q, h

LEMMA StepServiceStatus == CaptureInv /\ ServiceStatus => CaptureInv'
<1> SUFFICES ASSUME CaptureInv, ServiceStatus PROVE CaptureInv'
  OBVIOUS
<1> DEFINE c == svc.c
           q == plat[c]
           session == q.session \cup q.loss
           p == [q EXCEPT !.session = session, !.pending = FALSE, !.loss = {}]
<1>1. svc.at = "status" /\ c \in Channels /\ svc \in Services /\ c \in Nat
  BY CaptureConstants DEF ServiceStatus, CaptureInv, WorkerSound
<1>2. /\ plat' = [plat EXCEPT ![c] = p] /\ svc' = TurnAfter(c) /\ UNCHANGED <<now, bat, past>>
      /\ \/ \E s \in Statuses : SetStatus(c, IF session # {} THEN "fault" ELSE s, session)
         \/ UNCHANGED <<chan, cap>>
  BY DEF ServiceStatus
<1>3. /\ ChannelSound(q, chan[c], past[c]) /\ q \in Platforms /\ ChannelsSound /\ AnchorSound
  BY <1>1, AChannel DEF CaptureInv
<1>4. session \subseteq Flags
  BY <1>3 DEF Platforms
<1> HIDE DEF session, q
<1>5. /\ p \in Platforms /\ p.raw = q.raw /\ p.drops = q.drops /\ p.reported = q.reported
  BY <1>3, <1>4 DEF Platforms
<1> HIDE DEF p
<1>6. AnchorSound' /\ \E k : /\ chan' = [chan EXCEPT ![c] = k]
                             /\ ChannelSound(q, k, past[c])
  <2>1. CASE \E s \in Statuses : SetStatus(c, IF session # {} THEN "fault" ELSE s, session)
    <3>1. PICK s \in Statuses : SetStatus(c, IF session # {} THEN "fault" ELSE s, session)
      BY <2>1
    <3>2. (IF session # {} THEN "fault" ELSE s) \in BusStates
      BY CaptureConstants DEF BusStates
    <3> QED
      BY <1>1, <1>4, <3>1, <3>2, StatusSound DEF q
  <2>2. CASE UNCHANGED <<chan, cap>>
    <3>1. AnchorSound'
      BY <1>3, <2>2 DEF AnchorSound, AnchorInv
    <3>2. chan' = [chan EXCEPT ![c] = chan[c]]
      BY <1>1, <1>3, <2>2, SameChannel
    <3> QED
      BY <1>3, <3>1, <3>2
  <2> QED
    BY <1>2, <2>1, <2>2
<1>7. PICK k : chan' = [chan EXCEPT ![c] = k] /\ ChannelSound(q, k, past[c])
  BY <1>6
<1>8. ChannelSound(p, k, past[c])
  BY <1>3, <1>5, <1>7 DEF ChannelSound, Counted
<1>9. ChannelsSound'
  <2>1. past' = [past EXCEPT ![c] = past[c]]
    BY <1>1, <1>2, <1>3, SameChannel
  <2> QED
    BY <1>1, <1>2, <1>3, <1>7, <1>8, <2>1, OneChannel
<1>10. \A d \in Channels : plat'[d].drops = plat[d].drops /\ plat'[d].reported = plat[d].reported
  <2> TAKE d \in Channels
  <2>1. CASE d = c
    <3>1. plat'[d] = p
      BY <1>2, <1>3, <2>1 DEF ChannelsSound
    <3> QED
      BY <1>5, <2>1, <3>1 DEF q
  <2>2. CASE d # c
    <3>1. plat'[d] = plat[d]
      BY <1>2, <1>3, <2>2 DEF ChannelsSound
    <3> QED
      BY <3>1
  <2> QED
    BY <2>1, <2>2
<1>11. /\ svc' \in Services /\ ~Building' /\ ReportInv'
       /\ svc'.at \in {"report", "frames", "status"} => svc'.c \in Channels
  BY <1>1, <1>2, <1>3, <1>9, <1>10, TurnReported
<1> QED
  BY <1>1, <1>2, <1>6, <1>9, <1>11, Worked DEF Building

-----------------------------------------------------------------------------
(* The batch, and the steps of all channels.                                *)

LEMMA AllChannels ==
  ASSUME plat' = [c \in Channels |-> plat'[c]], chan' = [c \in Channels |-> chan'[c]],
         past' = [c \in Channels |-> past'[c]],
         \A c \in Channels : ChannelSound(plat'[c], chan'[c], past'[c])
  PROVE  ChannelsSound'
<1>1. \A c \in Channels : plat'[c] \in Platforms /\ chan'[c] \in Captures /\ past'[c] \in Histories
  BY DEF ChannelSound
<1>2. plat' \in [Channels -> Platforms]
  BY <1>1
<1>3. chan' \in [Channels -> Captures]
  BY <1>1
<1>4. past' \in [Channels -> Histories]
  BY <1>1
<1>5. (\A c \in Channels : ChannelSound(plat[c], chan[c], past[c]))'
  OBVIOUS
<1> QED
  BY <1>2, <1>3, <1>4, <1>5 DEF ChannelsSound

LEMMA NothingSelected ==
  ASSUME ChannelsSound', bat' = NoBatch
  PROVE  BatchInv'
<1>1. bat' \in Batches
  BY DEF NoBatch, Batches
<1>2. \A c \in Channels : bat'.offset[c] = 0 /\ bat'.last[c] = 0
  BY DEF NoBatch
<1>3. \A c \in Channels : Len(chan'[c].ring) \in Nat
  <2>1. \A r \in Captures : Len(r.ring) \in Nat
    BY DEF Captures
  <2> QED
    BY <2>1 DEF ChannelsSound
<1> QED
  BY <1>1, <1>2, <1>3 DEF BatchInv

LEMMA StepBatchBegins == CaptureInv /\ BatchBegins => CaptureInv'
<1> SUFFICES ASSUME CaptureInv, BatchBegins PROVE CaptureInv'
  OBVIOUS
<1>1. /\ svc.at = "idle" /\ svc' = [svc EXCEPT !.at = "batch"]
      /\ UNCHANGED <<now, plat, bat, chan, cap, past>>
  BY DEF BatchBegins
<1>2. svc \in Services /\ bat = NoBatch /\ now \in 0 .. MaxNow
  BY <1>1 DEF CaptureInv, WorkerSound, BatchInv, Building
<1>3. svc' \in Services /\ svc'.at = "batch"
  BY <1>1, <1>2 DEF Services
<1>4. ChannelsSound' /\ AnchorSound'
  BY <1>1 DEF CaptureInv, ChannelsSound, AnchorSound, AnchorInv
<1>5. BatchInv'
  BY <1>1, <1>2, <1>4, NothingSelected
<1>6. WorkerSound'
  BY <1>1, <1>2, <1>3 DEF WorkerSound, ReportInv
<1> QED
  BY <1>4, <1>5, <1>6 DEF CaptureInv

LEMMA StepBatchAborts == CaptureInv /\ BatchAborts => CaptureInv'
<1> SUFFICES ASSUME CaptureInv, BatchAborts PROVE CaptureInv'
  OBVIOUS
<1>1. svc' = Idle /\ bat' = NoBatch /\ UNCHANGED <<now, plat, chan, cap, past>>
  BY DEF BatchAborts
<1>2. svc' \in Services /\ svc'.at = "idle"
  BY <1>1 DEF Services, Idle
<1>3. ChannelsSound' /\ AnchorSound'
  BY <1>1 DEF CaptureInv, ChannelsSound, AnchorSound, AnchorInv
<1>4. BatchInv'
  BY <1>1, <1>3, NothingSelected
<1>5. WorkerSound'
  BY <1>1, <1>2 DEF CaptureInv, WorkerSound, ReportInv
<1> QED
  BY <1>3, <1>4, <1>5 DEF CaptureInv

\* What is selected, with and without the record.
LEMMA SelectedOne ==
  ASSUME CaptureInv, Building, NEW c \in Channels, IsOldest(c),
         UNCHANGED <<now, plat, svc, chan, cap, past>>, bat' \in Batches,
         bat'.offset = [bat.offset EXCEPT ![c] = @ + 1],
         \/ bat'.last = bat.last
         \/ bat'.last = [bat.last EXCEPT ![c] = Pending(c).n]
  PROVE  CaptureInv'
<1>1. ChannelsSound' /\ AnchorSound' /\ WorkerSound' /\ Building'
  BY DEF CaptureInv, ChannelsSound, AnchorSound, AnchorInv, WorkerSound, ReportInv, Building
<1>2. bat \in Batches /\ BatchInv
  BY DEF CaptureInv, BatchInv
<1>3. bat.offset \in [Channels -> Nat] /\ bat.last \in [Channels -> Nat]
  BY <1>2 DEF Batches
<1>4. ASSUME NEW d \in Channels
      PROVE  /\ bat'.offset[d] <= Len(chan[d].ring)
             /\ \/ bat'.last[d] = 0
                \/ \E k \in 1 .. bat'.offset[d] : bat'.last[d] = chan[d].ring[k].n
  <2>1. /\ bat.offset[d] <= Len(chan[d].ring) /\ bat.offset[d] \in Nat
        /\ \/ bat.last[d] = 0
           \/ \E k \in 1 .. bat.offset[d] : bat.last[d] = chan[d].ring[k].n
    BY <1>2, <1>3 DEF BatchInv
  <2>2. Len(chan[d].ring) \in Nat
    <3>1. chan[d] \in Captures
      BY AChannel DEF CaptureInv
    <3> QED
      BY <3>1 DEF Captures
  <2>3. CASE d # c
    <3>1. bat'.offset[d] = bat.offset[d] /\ bat'.last[d] = bat.last[d]
      BY <1>3, <2>3
    <3> QED
      BY <2>1, <3>1
  <2>4. CASE d = c
    <3>1. bat'.offset[d] = bat.offset[d] + 1 /\ bat.offset[d] < Len(chan[d].ring)
      BY <1>3, <2>4 DEF IsOldest, Available
    <3>2. bat'.last[d] = bat.last[d] \/ bat'.last[d] = chan[d].ring[bat.offset[d] + 1].n
      BY <1>3, <2>4 DEF Pending
    <3>3. bat'.offset[d] <= Len(chan[d].ring)
      BY <2>1, <2>2, <3>1
    <3>4. bat.offset[d] + 1 \in 1 .. bat'.offset[d]
      BY <2>1, <3>1
    <3>5. \A k \in 1 .. bat.offset[d] : k \in 1 .. bat'.offset[d]
      BY <2>1, <3>1
    <3>6. \/ bat'.last[d] = 0
          \/ \E k \in 1 .. bat'.offset[d] : bat'.last[d] = chan[d].ring[k].n
      <4>1. CASE bat'.last[d] = bat.last[d]
        BY <2>1, <3>5, <4>1
      <4>2. CASE bat'.last[d] = chan[d].ring[bat.offset[d] + 1].n
        BY <3>4, <4>2
      <4> QED
        BY <3>2, <4>1, <4>2
    <3> QED
      BY <3>3, <3>6
  <2> QED
    BY <2>3, <2>4
<1>5. BatchInv'
  BY <1>1, <1>4 DEF BatchInv
<1> QED
  BY <1>1, <1>5 DEF CaptureInv

LEMMA SelectedTyped ==
  ASSUME CaptureInv, NEW c \in Channels, IsOldest(c)
  PROVE  /\ Selected(c) \in Batches /\ Selected(c).offset = [bat.offset EXCEPT ![c] = @ + 1]
         /\ Selected(c).last = bat.last /\ Selected(c).set = bat.set
         /\ Selected(c).base = bat.base
<1> DEFINE offset == [bat.offset EXCEPT ![c] = @ + 1]  items == bat.items + 1
<1>1. bat \in Batches
  BY DEF CaptureInv, BatchInv
<1>2. offset \in [Channels -> Nat] /\ items \in Nat
  BY <1>1 DEF Batches
<1>3. Selected(c) = [bat EXCEPT !.items = items, !.offset = offset]
  BY DEF Selected
<1> HIDE DEF offset, items
<1>4. /\ Selected(c) \in Batches /\ Selected(c).offset = offset
      /\ Selected(c).last = bat.last /\ Selected(c).set = bat.set
      /\ Selected(c).base = bat.base
  BY <1>1, <1>2, <1>3 DEF Batches
<1> QED
  BY <1>4 DEF offset

LEMMA StepBatchFilters ==
  ASSUME CaptureInv, NEW c \in Channels, BatchFilters(c)
  PROVE  CaptureInv'
<1>1. /\ Building /\ IsOldest(c) /\ bat' = Selected(c)
      /\ UNCHANGED <<now, plat, svc, chan, cap, past>>
  BY DEF BatchFilters
<1> QED
  BY <1>1, SelectedTyped, SelectedOne

LEMMA StepBatchTakes ==
  ASSUME CaptureInv, NEW c \in Channels, BatchTakes(c)
  PROVE  CaptureInv'
<1> DEFINE lasts == [bat.last EXCEPT ![c] = Pending(c).n]
           base == IF bat.set THEN bat.base ELSE Pending(c).t
           s == Selected(c)
<1>1. /\ Building /\ IsOldest(c) /\ UNCHANGED <<now, plat, svc, chan, cap, past>>
      /\ bat' = [s EXCEPT !.last = lasts, !.set = TRUE,
                          !.base = IF bat.set THEN @ ELSE Pending(c).t]
  BY DEF BatchTakes
<1>2. /\ s \in Batches /\ s.offset = [bat.offset EXCEPT ![c] = @ + 1] /\ s.base = bat.base
      /\ bat \in Batches
  BY <1>1, SelectedTyped DEF CaptureInv, BatchInv
<1>3. Pending(c).n \in Nat /\ Pending(c).t \in Nat
  <2>1. chan[c] \in Captures /\ bat.offset[c] \in Nat /\ bat.offset[c] < Len(chan[c].ring)
    BY <1>1, <1>2, AChannel DEF CaptureInv, Batches, IsOldest, Available
  <2>2. chan[c].ring \in Seq(Records) /\ bat.offset[c] + 1 \in 1 .. Len(chan[c].ring)
    BY <2>1 DEF Captures
  <2>3. Pending(c) \in Records
    BY <2>2 DEF Pending
  <2> QED
    BY <2>3 DEF Records
<1>4. lasts \in [Channels -> Nat] /\ base \in Nat
  BY <1>2, <1>3 DEF Batches
<1>5. bat' = [s EXCEPT !.last = lasts, !.set = TRUE, !.base = base]
  BY <1>1, <1>2 DEF Batches
<1> HIDE DEF s, lasts, base
<1>6. bat' \in Batches /\ bat'.offset = s.offset /\ bat'.last = lasts
  BY <1>2, <1>4, <1>5 DEF Batches
<1> QED
  BY <1>1, <1>2, <1>6, SelectedOne DEF lasts

LEMMA Joined ==
  ASSUME NEW A, NEW B, IsFiniteSet(A), IsFiniteSet(B), A \cap B = {}, NEW n \in Nat,
         Cardinality(B) <= n - Cardinality(A)
  PROVE  Cardinality(A \cup B) <= n
<1> DEFINE a == Cardinality(A)  b == Cardinality(B)  u == Cardinality(A \cup B)
<1>1. a \in Nat /\ b \in Nat
  BY FS_CardinalityType
<1>2. u = a + b - 0
  BY FS_Union, FS_EmptySet
<1> HIDE DEF a, b, u
<1>3. b <= n - a
  BY DEF a, b
<1>4. u <= n
  BY <1>1, <1>2, <1>3
<1> QED
  BY <1>4 DEF u

\* The inventory never outgrows its table.
LEMMA InventoryBounded ==
  ASSUME AnchorSound, NEW ids \in SUBSET Channels, NEW entries \in WithInventory(ids)
  PROVE  entries \subseteq Channels /\ Cardinality(entries) <= InventoryCapacity
<1> DEFINE inv == cap.inventory  new == ids \ inv  free == InventoryCapacity - Cardinality(inv)
<1>1. inv \subseteq Channels /\ Cardinality(inv) <= InventoryCapacity
  BY DEF AnchorSound, Anchors
<1>2. ASSUME NEW more \in SUBSET new, Cardinality(more) <= free
      PROVE  inv \cup more \subseteq Channels /\ Cardinality(inv \cup more) <= InventoryCapacity
  <2>1. IsFiniteSet(inv) /\ IsFiniteSet(more)
    BY <1>1, CaptureConstants, FS_Subset
  <2>2. inv \cap more = {}
    OBVIOUS
  <2>3. Cardinality(inv \cup more) <= InventoryCapacity
    BY <1>1, <1>2, <2>1, <2>2, Joined, CaptureConstants
  <2> QED
    BY <1>1, <2>3
<1>3. CASE Cardinality(new) <= free
  <2>1. entries = inv \cup new
    BY <1>3 DEF WithInventory
  <2> QED
    BY <1>2, <1>3, <2>1
<1>4. CASE ~(Cardinality(new) <= free)
  <2>1. PICK some \in SUBSET new : Cardinality(some) = free /\ entries = inv \cup some
    BY <1>4 DEF WithInventory
  <2>2. free \in Int
    <3>1. IsFiniteSet(inv)
      BY <1>1, CaptureConstants, FS_Subset
    <3> QED
      BY <3>1, FS_CardinalityType, CaptureConstants
  <2> QED
    BY <1>2, <2>1, <2>2
<1> QED
  BY <1>3, <1>4

LEMMA StepBatchEnds == CaptureInv /\ BatchEnds => CaptureInv'
<1> SUFFICES ASSUME CaptureInv, BatchEnds PROVE CaptureInv'
  OBVIOUS
<1>1. /\ chan' = [c \in Channels |->
           [chan[c] EXCEPT !.ring = SubSeq(@, bat.offset[c] + 1, Len(@))]]
      /\ past' = [c \in Channels |->
           [past[c] EXCEPT !.gone = @ + bat.offset[c],
                           !.last = IF bat.last[c] = 0 THEN @ ELSE bat.last[c]]]
      /\ svc' = Idle /\ bat' = NoBatch /\ UNCHANGED <<now, plat>>
  BY DEF BatchEnds
<1>2. PICK entries \in WithInventory({c \in Channels : bat.offset[c] > 0}) :
        cap' = [cap EXCEPT !.inventory = entries]
  BY DEF BatchEnds
<1>3. AnchorSound'
  <2>1. entries \subseteq Channels /\ Cardinality(entries) <= InventoryCapacity
    BY InventoryBounded DEF CaptureInv
  <2>2. /\ cap' \in Anchors /\ cap'.inventory = entries /\ cap'.epoch = cap.epoch
        /\ cap'.extended = cap.extended
    BY <1>2, <2>1 DEF CaptureInv, AnchorSound, Anchors
  <2> QED
    BY <2>1, <2>2 DEF CaptureInv, AnchorSound, AnchorInv
<1>4. ASSUME NEW c \in Channels
      PROVE  ChannelSound(plat'[c], chan'[c], past'[c])
  <2> DEFINE q == plat[c]  ch == chan[c]  h == past[c]  off == bat.offset[c]
             rest == SubSeq(ch.ring, off + 1, Len(ch.ring))
             gone == h.gone + off
             final == IF bat.last[c] = 0 THEN h.last ELSE bat.last[c]
             k == [ch EXCEPT !.ring = rest]
             g == [h EXCEPT !.gone = gone, !.last = final]
  <2>1. plat'[c] = q /\ chan'[c] = k /\ past'[c] = g
    BY <1>1
  <2>2. /\ ChannelSound(q, ch, h) /\ q \in Platforms /\ ch \in Captures /\ h \in Histories
    BY AChannel DEF CaptureInv
  <2>3. /\ ch.ring \in Seq(Records) /\ q.raw \in Seq(RawFrames) /\ Ordered(ch.ring, q.raw, h)
        /\ Timed(ch, h) /\ Len(ch.ring) <= RingCapacity
    BY <2>2 DEF Captures, Platforms, ChannelSound
  <2>4. /\ off \in Nat /\ off <= Len(ch.ring) /\ bat.last[c] \in Nat
        /\ bat.last[c] = 0 \/ \E i \in 1 .. off : bat.last[c] = ch.ring[i].n
    BY DEF CaptureInv, BatchInv, Batches
  <2>5. gone \in Nat /\ final \in Nat
    BY <2>2, <2>4, SMTT(30) DEF Histories
  <2>6. final = h.last \/ \E i \in 1 .. off : final = ch.ring[i].n
    BY <2>4
  <2> HIDE DEF gone, final, off, h, q
  <2>7. /\ g \in Histories /\ g.taken = h.taken /\ g.gone = gone /\ g.last = final
        /\ g.doubt = h.doubt /\ g.born = h.born
        /\ g.lost = h.lost /\ g.owed = h.owed /\ g.refused = h.refused
    BY <2>2, <2>5 DEF Histories
  <2> HIDE DEF g
  <2>8. /\ rest \in Seq(Records) /\ Len(rest) = Len(ch.ring) - off
        /\ \A i \in 1 .. Len(ch.ring) - off : rest[i] = ch.ring[off + i]
        /\ Ordered(rest, q.raw, g)
    <3> HIDE DEF ch
    <3>1. g.gone = h.gone + off
      BY <2>7 DEF gone
    <3>2. g.last = h.last \/ \E i \in 1 .. off : g.last = ch.ring[i].n
      BY <2>6, <2>7
    <3> QED
      BY <2>2, <2>3, <2>4, <2>7, <3>1, <3>2, CommittedOrdered
  <2> HIDE DEF rest
  <2>9. /\ k \in Captures /\ k.ring = rest /\ k.sticky = ch.sticky
        /\ k.state = ch.state /\ k.known = ch.known /\ k.last = ch.last
        /\ k.source = ch.source /\ k.epoch = ch.epoch /\ k.dropped = ch.dropped
    BY <2>2, <2>8 DEF Captures
  <2> HIDE DEF k, ch
  <2>10. Len(ch.ring) \in Nat
    BY <2>3
  <2>11. Timed(k, g)
    <3>1. \A i \in 1 .. Len(rest) : i \in 1 .. Len(ch.ring) - off /\ off + i \in 1 .. Len(ch.ring)
      BY <2>4, <2>8, <2>10
    <3> QED
      BY <2>3, <2>7, <2>8, <2>9, <3>1 DEF Timed
  <2>12. Len(k.ring) <= RingCapacity
    BY <2>3, <2>4, <2>8, <2>9, <2>10, CaptureConstants
  <2>14. Counted(q, k, g)
    BY <2>2, <2>7, <2>9 DEF ChannelSound, Counted
  <2>13. ChannelSound(q, k, g)
    BY <2>2, <2>7, <2>8, <2>9, <2>11, <2>12, <2>14 DEF ChannelSound
  <2> QED
    BY <2>1, <2>13
<1>5. ChannelsSound'
  <2>1. plat' = [c \in Channels |-> plat'[c]]
    BY <1>1 DEF CaptureInv, ChannelsSound
  <2>2. chan' = [c \in Channels |-> chan'[c]] /\ past' = [c \in Channels |-> past'[c]]
    BY <1>1
  <2> QED
    BY <1>4, <2>1, <2>2, AllChannels
<1>6. BatchInv'
  BY <1>1, <1>5, NothingSelected
<1>7. WorkerSound'
  <2>1. svc' \in Services /\ svc'.at = "idle"
    BY <1>1 DEF Services, Idle
  <2> QED
    BY <1>1, <2>1 DEF CaptureInv, WorkerSound, ReportInv
<1> QED
  BY <1>3, <1>5, <1>6, <1>7 DEF CaptureInv

LEMMA StepTimePasses == CaptureInv /\ TimePasses => CaptureInv'
<1> SUFFICES ASSUME CaptureInv, TimePasses PROVE CaptureInv'
  OBVIOUS
<1>1. /\ now < MaxNow /\ now' = now + 1 /\ UNCHANGED <<plat, svc, bat, chan, cap, past>>
  BY DEF TimePasses
<1>2. now' \in 0 .. MaxNow
  BY <1>1, CaptureConstants DEF CaptureInv, WorkerSound
<1>3. ChannelsSound' /\ AnchorSound' /\ BatchInv'
  BY <1>1 DEF CaptureInv, ChannelsSound, AnchorSound, AnchorInv, BatchInv, Building
<1>4. WorkerSound'
  BY <1>1, <1>2 DEF CaptureInv, WorkerSound, ReportInv
<1> QED
  BY <1>3, <1>4 DEF CaptureInv

LEMMA StepObserve == CaptureInv /\ canview_stm_fdcan_capture_observe => CaptureInv'
<1> SUFFICES ASSUME CaptureInv, canview_stm_fdcan_capture_observe PROVE CaptureInv'
  OBVIOUS
<1>1. svc.at = "idle" /\ UNCHANGED <<now, plat, svc, bat, past>>
  BY DEF canview_stm_fdcan_capture_observe
<1>2. /\ ChannelsSound /\ AnchorSound /\ svc \in Services /\ now \in Nat
  BY DEF CaptureInv, WorkerSound
<1>3. cap \in Anchors
  BY <1>2 DEF AnchorSound
<1>4. /\ AnchorSound'
      /\ chan' = [c \in Channels |-> chan'[c]]
      /\ \A c \in Channels : \E state \in BusStates :
           /\ chan'[c] = [chan[c] EXCEPT !.state = state]
           /\ chan[c].state = "fault" => state = "fault"
  <2>1. CASE cap.known /\ now < cap.extended
    <3>1. chan' = [c \in Channels |-> [chan[c] EXCEPT !.state = "fault"]] /\ UNCHANGED cap
      BY <2>1 DEF canview_stm_fdcan_capture_observe
    <3>2. AnchorSound'
      BY <1>2, <3>1 DEF AnchorSound, AnchorInv
    <3> QED
      BY <3>1, <3>2 DEF BusStates
  <2>2. CASE ~(cap.known /\ now < cap.extended)
    <3> DEFINE extended == IF cap.known THEN now ELSE cap.extended
    <3>1. /\ cap' = [cap EXCEPT !.extended = extended]
          /\ chan' = [c \in Channels |-> [chan[c] EXCEPT !.state = Observed(chan[c])]]
      BY <2>2 DEF canview_stm_fdcan_capture_observe
    <3>2. extended \in Nat /\ cap.extended <= extended /\ cap.extended \in Nat
          /\ cap.epoch \in Nat
      BY <1>2, <1>3, <2>2 DEF Anchors
    <3> HIDE DEF extended
    <3>3. /\ cap' \in Anchors /\ cap'.inventory = cap.inventory /\ cap'.epoch = cap.epoch
          /\ cap'.extended = extended
      BY <1>3, <3>1, <3>2 DEF Anchors
    <3>4. AnchorSound'
      BY <1>2, <3>2, <3>3 DEF AnchorSound, AnchorInv
    <3>5. \A c \in Channels : /\ Observed(chan[c]) \in BusStates
                              /\ chan[c].state = "fault" => Observed(chan[c]) = "fault"
      <4>1. \A c \in Channels : chan[c].state \in BusStates
        BY <1>2, AChannel DEF Captures
      <4> QED
        BY <4>1 DEF Observed, BusStates
    <3> QED
      BY <3>1, <3>4, <3>5
  <2> QED
    BY <2>1, <2>2
<1>5. ASSUME NEW c \in Channels
      PROVE  ChannelSound(plat'[c], chan'[c], past'[c])
  <2> DEFINE ch == chan[c]
  <2>1. PICK state \in BusStates : /\ chan'[c] = [ch EXCEPT !.state = state]
                                   /\ ch.state = "fault" => state = "fault"
    BY <1>4
  <2> DEFINE k == [ch EXCEPT !.state = state]
  <2>2. ChannelSound(plat[c], ch, past[c]) /\ ch \in Captures
    BY <1>2, AChannel
  <2> HIDE DEF ch
  <2>3. /\ k \in Captures /\ k.ring = ch.ring /\ k.sticky = ch.sticky
        /\ k.state = state /\ k.known = ch.known /\ k.last = ch.last
        /\ k.source = ch.source /\ k.epoch = ch.epoch /\ k.dropped = ch.dropped
    BY <2>2 DEF Captures
  <2> HIDE DEF k
  <2>4. ChannelSound(plat[c], k, past[c])
    <3>1. Timed(k, past[c]) /\ Counted(plat[c], k, past[c])
      BY <2>2, <2>3 DEF ChannelSound, Timed, Counted
    <3> QED
      BY <2>1, <2>2, <2>3, <3>1 DEF ChannelSound
  <2>5. chan'[c] = k
    BY <2>1 DEF k
  <2> QED
    BY <1>1, <2>4, <2>5
<1>6. ChannelsSound'
  <2>1. plat' = [c \in Channels |-> plat'[c]] /\ past' = [c \in Channels |-> past'[c]]
    BY <1>1, <1>2 DEF ChannelsSound
  <2> QED
    BY <1>4, <1>5, <2>1, AllChannels
<1>7. ~Building /\ ~Building' /\ ReportInv' /\ svc' \in Services
  BY <1>1, <1>2 DEF Building, ReportInv
<1> QED
  BY <1>1, <1>4, <1>6, <1>7, Worked

\* A reset of one of the rings of a channel, and of its counters.
LEMMA ResetSound ==
  ASSUME NEW p, NEW ch, NEW h, ChannelSound(p, ch, h), NEW g \in Histories,
         g.taken = h.taken, g.last = h.last, g.born = h.born, g.doubt = h.doubt,
         g.owed = 0, g.lost = h.lost
  PROVE  /\ g.gone = h.gone + Len(ch.ring) => ChannelSound(p, ResetChannel, g)
         /\ g.gone = h.gone + Len(p.raw) /\ g.refused = h.refused => ChannelSound(ResetPlat, ch, g)
<1>1. /\ p.raw \in Seq(RawFrames) /\ ch.ring \in Seq(Records) /\ h \in Histories
      /\ Ordered(ch.ring, p.raw, h)
  BY DEF ChannelSound, Platforms, Captures
<1>2. /\ ResetPlat.raw = <<>> /\ ResetChannel.ring = <<>> /\ ~ResetChannel.known
      /\ ResetChannel.sticky = {} /\ ResetPlat.reported = 0 /\ ResetPlat.drops = 0
      /\ ResetChannel.dropped = 0 /\ Len(<<>>) = 0 /\ 1 .. 0 = {}
  BY DEF ResetPlat, ResetChannel
<1>5. /\ p.drops \in Nat /\ p.reported \in Nat /\ ch.dropped \in Nat /\ h.lost \in Nat
      /\ p.reported <= p.drops /\ Counted(p, ch, h)
  BY CountersAreNat DEF ChannelSound
<1>3. ASSUME g.gone = h.gone + Len(ch.ring)
      PROVE  ChannelSound(p, ResetChannel, g)
  <2>1. Ordered(ResetChannel.ring, p.raw, g)
    BY <1>1, <1>2, <1>3, EmptiedOrdered
  <2>2. Timed(ResetChannel, g)
    BY <1>2 DEF Timed
  <2>3. Counted(p, ResetChannel, g)
    BY <1>2, <1>5 DEF Counted
  <2> QED
    BY <1>2, <2>1, <2>2, <2>3, EmptySound, CaptureConstants DEF ChannelSound
<1>4. ASSUME g.gone = h.gone + Len(p.raw), g.refused = h.refused
      PROVE  ChannelSound(ResetPlat, ch, g)
  <2>1. Ordered(ch.ring, ResetPlat.raw, g)
    BY <1>1, <1>2, <1>4, EmptiedOrdered
  <2>2. Timed(ch, g)
    BY DEF Timed, ChannelSound
  <2>3. Counted(ResetPlat, ch, g)
    BY <1>2, <1>4, <1>5 DEF Counted
  <2> QED
    BY <1>2, <2>1, <2>2, <2>3, EmptySound, CaptureConstants DEF ChannelSound
<1> QED
  BY <1>3, <1>4

LEMMA NoAnchor == cap' = NoCapture => AnchorSound'
<1> SUFFICES ASSUME cap' = NoCapture PROVE AnchorSound'
  OBVIOUS
<1>1. cap' \in Anchors /\ cap'.inventory = {} /\ cap'.epoch = 0 /\ cap'.extended = 0
  BY DEF NoCapture, Anchors
<1>2. 0 % Wrap = 0
  BY CaptureConstants, Z3
<1> QED
  BY <1>1, <1>2, CaptureConstants, FS_EmptySet DEF AnchorSound, AnchorInv

LEMMA StepReset == CaptureInv /\ canview_stm_fdcan_capture_reset => CaptureInv'
<1> SUFFICES ASSUME CaptureInv, canview_stm_fdcan_capture_reset PROVE CaptureInv'
  OBVIOUS
<1>1. /\ svc.at = "idle" /\ chan' = [c \in Channels |-> ResetChannel] /\ cap' = NoCapture
      /\ past' = [c \in Channels |->
           [past[c] EXCEPT !.gone = @ + Len(chan[c].ring), !.events = @ + 1,
                           !.owed = 0, !.refused = FALSE]]
      /\ UNCHANGED <<now, plat, svc, bat>>
  BY DEF canview_stm_fdcan_capture_reset
<1>2. ChannelsSound /\ svc \in Services
  BY DEF CaptureInv, WorkerSound
<1>3. ASSUME NEW c \in Channels
      PROVE  ChannelSound(plat'[c], chan'[c], past'[c])
  <2> DEFINE h == past[c]
             gone == h.gone + Len(chan[c].ring)
             g == [h EXCEPT !.gone = gone, !.events = @ + 1, !.owed = 0, !.refused = FALSE]
  <2>1. plat'[c] = plat[c] /\ chan'[c] = ResetChannel /\ past'[c] = g
    BY <1>1
  <2>2. ChannelSound(plat[c], chan[c], h) /\ h \in Histories /\ chan[c] \in Captures
    BY <1>2, AChannel
  <2>3. gone \in Nat /\ h.events + 1 \in Nat
    <3>1. Len(chan[c].ring) \in Nat
      BY <2>2 DEF Captures
    <3>2. h.gone \in Nat /\ h.events \in Nat
      BY <2>2 DEF Histories
    <3> QED
      BY <3>1, <3>2
  <2> HIDE DEF h, gone
  <2>4. /\ g \in Histories /\ g.gone = gone /\ g.taken = h.taken /\ g.last = h.last
        /\ g.born = h.born /\ g.doubt = h.doubt /\ g.owed = 0 /\ g.lost = h.lost
    BY <2>2, <2>3 DEF Histories
  <2> HIDE DEF g
  <2> QED
    BY <2>1, <2>2, <2>4, ResetSound DEF gone
<1>4. ChannelsSound'
  <2>1. plat' = [c \in Channels |-> plat'[c]]
    BY <1>1, <1>2 DEF ChannelsSound
  <2>2. chan' = [c \in Channels |-> chan'[c]] /\ past' = [c \in Channels |-> past'[c]]
    BY <1>1
  <2> QED
    BY <1>3, <2>1, <2>2, AllChannels
<1>5. ~Building /\ ~Building' /\ ReportInv' /\ svc' \in Services
  BY <1>1, <1>2 DEF Building, ReportInv
<1> QED
  BY <1>1, <1>4, <1>5, NoAnchor, Worked

LEMMA StepPlatformRestart == CaptureInv /\ PlatformRestart => CaptureInv'
<1> SUFFICES ASSUME CaptureInv, PlatformRestart PROVE CaptureInv'
  OBVIOUS
<1>1. /\ svc.at = "idle" /\ plat' = [c \in Channels |-> ResetPlat]
      /\ past' = [c \in Channels |->
           [past[c] EXCEPT !.gone = @ + Len(plat[c].raw), !.events = @ + 1, !.owed = 0]]
      /\ UNCHANGED <<now, svc, bat, chan, cap>>
  BY DEF PlatformRestart
<1>2. ChannelsSound /\ svc \in Services
  BY DEF CaptureInv, WorkerSound
<1>3. ASSUME NEW c \in Channels
      PROVE  ChannelSound(plat'[c], chan'[c], past'[c])
  <2> DEFINE h == past[c]
             gone == h.gone + Len(plat[c].raw)
             g == [h EXCEPT !.gone = gone, !.events = @ + 1, !.owed = 0]
  <2>1. plat'[c] = ResetPlat /\ chan'[c] = chan[c] /\ past'[c] = g
    BY <1>1
  <2>2. ChannelSound(plat[c], chan[c], h) /\ h \in Histories /\ plat[c] \in Platforms
    BY <1>2, AChannel
  <2>3. gone \in Nat /\ h.events + 1 \in Nat
    BY <2>2, SMTT(30) DEF Histories, Platforms
  <2> HIDE DEF h, gone
  <2>4. /\ g \in Histories /\ g.gone = gone /\ g.taken = h.taken /\ g.last = h.last
        /\ g.born = h.born /\ g.doubt = h.doubt /\ g.owed = 0 /\ g.lost = h.lost
        /\ g.refused = h.refused
    BY <2>2, <2>3 DEF Histories
  <2> HIDE DEF g
  <2> QED
    BY <2>1, <2>2, <2>4, ResetSound DEF gone
<1>4. ChannelsSound'
  <2>1. chan' = [c \in Channels |-> chan'[c]]
    BY <1>1, <1>2 DEF ChannelsSound
  <2>2. plat' = [c \in Channels |-> plat'[c]] /\ past' = [c \in Channels |-> past'[c]]
    BY <1>1
  <2> QED
    BY <1>3, <2>1, <2>2, AllChannels
<1>5. ~Building /\ ~Building' /\ ReportInv' /\ svc' \in Services
  BY <1>1, <1>2 DEF Building, ReportInv
<1>6. AnchorSound'
  BY <1>1 DEF CaptureInv, AnchorSound, AnchorInv
<1> QED
  BY <1>1, <1>4, <1>5, <1>6, Worked

LEMMA CaptureStep == CaptureInv /\ [Next]_vars => CaptureInv'
<1> SUFFICES ASSUME CaptureInv, [Next]_vars PROVE CaptureInv'
  OBVIOUS
<1>1. CASE UNCHANGED vars
  <2>1. UNCHANGED <<now, plat, svc, bat, chan, cap, past>>
    BY <1>1 DEF vars
  <2>2. ChannelsSound' /\ AnchorSound'
    BY <2>1 DEF CaptureInv, ChannelsSound, AnchorSound, AnchorInv
  <2>3. BatchInv' /\ WorkerSound'
    BY <2>1 DEF CaptureInv, BatchInv, Building, WorkerSound, ReportInv
  <2> QED
    BY <2>2, <2>3 DEF CaptureInv
<1>2. CASE \E c \in Channels : FdcanIrq(c) \/ StatusIrq(c) \/ BatchFilters(c) \/ BatchTakes(c)
  BY <1>2, StepFdcanIrq, StepStatusIrq, StepBatchFilters, StepBatchTakes
<1>3. CASE TimePasses \/ ServiceBegins \/ ReportDrops \/ ServiceFrame \/ ServiceStatus
  BY <1>3, StepTimePasses, StepServiceBegins, StepReportDrops, StepServiceFrame,
     StepServiceStatus
<1>4. CASE BatchBegins \/ BatchAborts \/ BatchEnds
  BY <1>4, StepBatchBegins, StepBatchAborts, StepBatchEnds
<1>5. CASE \/ canview_stm_fdcan_capture_observe \/ canview_stm_fdcan_capture_reset
           \/ PlatformRestart
  BY <1>5, StepObserve, StepReset, StepPlatformRestart
<1> QED
  BY <1>1, <1>2, <1>3, <1>4, <1>5 DEF Next

LEMMA SameLength ==
  ASSUME NEW x \in Nat, NEW y \in Nat, 1 .. x = 1 .. y
  PROVE  x = y
<1>1. x \in 1 .. x \/ x = 0
  OBVIOUS
<1>2. y \in 1 .. y \/ y = 0
  OBVIOUS
<1>3. x \in 1 .. y \/ x = 0
  BY <1>1
<1>4. y \in 1 .. x \/ y = 0
  BY <1>2
<1>5. (x = 0 => y = 0) /\ (y = 0 => x = 0)
  BY <1>3, <1>4
<1> QED
  BY <1>3, <1>4, <1>5

\* What waits, as one sequence.
LEMMA OrderedIsOnce ==
  ASSUME NEW ring \in Seq(Records), NEW raw \in Seq(RawFrames), NEW h \in Histories,
         Ordered(ring, raw, h)
  PROVE  LET waiting == [i \in DOMAIN ring |-> ring[i].n] \o [i \in DOMAIN raw |-> raw[i].n]
         IN  /\ h.taken = h.gone + Len(waiting)
             /\ \A i \in DOMAIN waiting :
                  waiting[i] > IF i = 1 THEN h.last ELSE waiting[i - 1]
<1> DEFINE a == [i \in DOMAIN ring |-> ring[i].n]
           b == [i \in DOMAIN raw |-> raw[i].n]
           w == a \o b
           m == Len(ring)
           n == Len(raw)
<1>1. /\ m \in Nat /\ n \in Nat
      /\ \A i \in 1 .. m : ring[i].n \in Nat
      /\ \A i \in 1 .. n : raw[i].n \in Nat
  BY NumbersAreNat
<1>2. DOMAIN ring = 1 .. m /\ DOMAIN raw = 1 .. n
  OBVIOUS
<1>3. a \in [1 .. m -> Nat] /\ b \in [1 .. n -> Nat]
  BY <1>1, <1>2
<1>4. /\ \A i \in 1 .. m : a[i] = ring[i].n
      /\ \A i \in 1 .. n : b[i] = raw[i].n
  BY <1>2
<1> HIDE DEF a, b, m, n
<1>5. /\ a \in Seq(Nat) /\ b \in Seq(Nat) /\ Len(a) = m /\ Len(b) = n
  <2>1. a \in Seq(Nat) /\ b \in Seq(Nat)
    BY <1>1, <1>3, SeqDef
  <2>2. DOMAIN a = 1 .. Len(a) /\ DOMAIN b = 1 .. Len(b) /\ Len(a) \in Nat /\ Len(b) \in Nat
    BY <2>1, LenProperties
  <2>3. 1 .. Len(a) = 1 .. m /\ 1 .. Len(b) = 1 .. n
    BY <1>3, <2>2
  <2> QED
    BY <1>1, <2>1, <2>2, <2>3, SameLength
<1>6. /\ Len(w) = m + n /\ DOMAIN w = 1 .. m + n
      /\ \A i \in 1 .. m + n : w[i] = IF i <= m THEN a[i] ELSE b[i - m]
  <2>1. /\ w \in Seq(Nat) /\ Len(w) = m + n
        /\ \A i \in 1 .. m + n : w[i] = IF i <= m THEN a[i] ELSE b[i - m]
    BY <1>5, ConcatProperties
  <2> QED
    BY <2>1, LenProperties
<1> HIDE DEF w
<1>7. /\ h.taken \in Nat /\ h.gone \in Nat /\ h.last \in Nat /\ h.taken = h.gone + m + n
  BY DEF Histories, Ordered, m, n
<1>8. h.taken = h.gone + Len(w)
  BY <1>1, <1>6, <1>7
<1>9. ASSUME NEW i \in 1 .. m + n
      PROVE  w[i] > IF i = 1 THEN h.last ELSE w[i - 1]
  <2>1. /\ \A x, y \in 1 .. m : x < y => ring[x].n < ring[y].n
        /\ \A x, y \in 1 .. n : x < y => raw[x].n < raw[y].n
        /\ \A x \in 1 .. m, y \in 1 .. n : ring[x].n < raw[y].n
        /\ \A x \in 1 .. m : h.last < ring[x].n
        /\ \A y \in 1 .. n : h.last < raw[y].n
    BY DEF Ordered, m, n
  <2>2. \/ i \in 1 .. m /\ w[i] = ring[i].n
        \/ i - m \in 1 .. n /\ ~(i <= m) /\ w[i] = raw[i - m].n
    <3>1. CASE i <= m
      <4>1. i \in 1 .. m
        BY <1>1, <3>1
      <4>2. w[i] = a[i]
        BY <1>6, <3>1
      <4> QED
        BY <1>4, <4>1, <4>2
    <3>2. CASE ~(i <= m)
      <4>1. i - m \in 1 .. n
        BY <1>1, <3>2
      <4>2. w[i] = b[i - m]
        BY <1>6, <3>2
      <4> QED
        BY <1>4, <3>2, <4>1, <4>2
    <3> QED
      BY <3>1, <3>2
  <2>3. CASE i = 1
    BY <1>1, <1>7, <2>1, <2>2, <2>3
  <2>4. CASE i # 1
    <3>1. i - 1 \in 1 .. m + n
      BY <1>1, <2>4
    <3>2. \/ i - 1 \in 1 .. m /\ w[i - 1] = ring[i - 1].n
          \/ (i - 1) - m \in 1 .. n /\ ~(i - 1 <= m) /\ w[i - 1] = raw[(i - 1) - m].n
      BY <1>1, <1>4, <1>6, <3>1
    <3>3. CASE i \in 1 .. m /\ w[i] = ring[i].n
      <4>1. i - 1 \in 1 .. m /\ i - 1 < i /\ i - 1 <= m
        BY <1>1, <2>4, <3>3
      <4>2. w[i - 1] = ring[i - 1].n
        BY <3>2, <4>1
      <4>3. ring[i - 1].n < ring[i].n /\ ring[i - 1].n \in Nat /\ ring[i].n \in Nat
        BY <1>1, <2>1, <3>3, <4>1
      <4> QED
        BY <2>4, <3>3, <4>2, <4>3
    <3>4. CASE i - m \in 1 .. n /\ ~(i <= m) /\ w[i] = raw[i - m].n
      <4>1. CASE i - 1 \in 1 .. m /\ w[i - 1] = ring[i - 1].n
        BY <1>1, <2>1, <2>4, <3>4, <4>1
      <4>2. CASE /\ (i - 1) - m \in 1 .. n /\ ~(i - 1 <= m)
                 /\ w[i - 1] = raw[(i - 1) - m].n
        <5>1. (i - 1) - m < i - m
          BY <1>1
        <5>2. raw[(i - 1) - m].n < raw[i - m].n
          BY <2>1, <3>4, <4>2, <5>1
        <5>3. raw[(i - 1) - m].n \in Nat /\ raw[i - m].n \in Nat
          BY <1>1, <3>4, <4>2
        <5> QED
          BY <2>4, <3>4, <4>2, <5>2, <5>3
      <4> QED
        BY <3>2, <4>1, <4>2
    <3> QED
      BY <2>2, <3>3, <3>4
  <2> QED
    BY <2>3, <2>4
<1> QED
  BY <1>6, <1>8, <1>9 DEF w, a, b

LEMMA CaptureInvSound ==
  CaptureInv => TypeOK /\ OnceInOrder /\ LossesCounted /\ TimestampTrue /\ HardwareFaultShown
<1> SUFFICES ASSUME CaptureInv
             PROVE  TypeOK /\ OnceInOrder /\ LossesCounted /\ TimestampTrue /\ HardwareFaultShown
  OBVIOUS
<1>1. \A c \in Channels : ChannelSound(plat[c], chan[c], past[c])
  BY DEF CaptureInv, ChannelsSound
<1>2. TypeOK
  <2>1. \A c \in Channels : /\ Len(plat[c].raw) <= RawCapacity
                            /\ Len(chan[c].ring) <= RingCapacity
                            /\ plat[c].reported <= plat[c].drops
    BY <1>1 DEF ChannelSound
  <2> QED
    BY <2>1 DEF CaptureInv, ChannelsSound, AnchorSound, BatchInv, WorkerSound, TypeOK
<1>3. OnceInOrder
  <2> SUFFICES ASSUME NEW c \in Channels
               PROVE  LET waiting == [i \in DOMAIN chan[c].ring |-> chan[c].ring[i].n]
                                     \o [i \in DOMAIN plat[c].raw |-> plat[c].raw[i].n]
                      IN  /\ past[c].taken = past[c].gone + Len(waiting)
                          /\ \A i \in DOMAIN waiting :
                               waiting[i] > IF i = 1 THEN past[c].last ELSE waiting[i - 1]
    BY DEF OnceInOrder
  <2>1. /\ chan[c].ring \in Seq(Records) /\ plat[c].raw \in Seq(RawFrames)
        /\ past[c] \in Histories /\ Ordered(chan[c].ring, plat[c].raw, past[c])
    BY <1>1 DEF ChannelSound, Captures, Platforms
  <2> QED
    BY <2>1, OrderedIsOnce
<1>4. TimestampTrue
  <2>1. \A c \in Channels : chan[c].ring \in Seq(Records)
    BY <1>1 DEF ChannelSound, Captures
  <2>2. \A c \in Channels : DOMAIN chan[c].ring = 1 .. Len(chan[c].ring)
    BY <2>1
  <2> QED
    BY <1>1, <2>2 DEF ChannelSound, Timed, TimestampTrue
<1>5. HardwareFaultShown
  BY <1>1 DEF ChannelSound, HardwareFaultShown
<1>6. LossesCounted
  BY <1>1 DEF ChannelSound, Counted, LossesCounted
<1> QED
  BY <1>2, <1>3, <1>4, <1>5, <1>6

\* What the interrupt, the worker and the capture module keep, in every step.
THEOREM CaptureInvariant == Spec => []CaptureInv
BY InitCapture, CaptureStep, PTL DEF Spec

LEMMA CaptureOfBoth == MCSpec => Spec
<1>1. MCInit => Init
  BY DEF MCInit
<1>2. [MCNext]_<<vars, part, dmaVars>> => [Next]_vars
  BY DEF MCNext, vars
<1> QED
  BY <1>1, <1>2, PTL DEF MCSpec, Spec

\* canview_stm_fdcan_platform_service and canview_stm_fdcan_capture_ingest:
\* frames are delivered once and in order; the drop counter shows every frame
\* lost in a full raw ring since the last reset and restart, unless a counter is
\* at its limit; a record carries the true time unless the source clock cannot
\* tell it; and a hardware fault, once reported, shows until a reset.
THEOREM RecordsAreTrue == MCSpec => []CaptureSound
<1>1. CaptureInv => CaptureSound
  BY CaptureInvSound DEF CaptureSound
<1> QED
  BY <1>1, CaptureInvariant, CaptureOfBoth, PTL
=============================================================================
