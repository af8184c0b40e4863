--------------------------- MODULE FdcanCapture ---------------------------
(***************************************************************************)
(* The receive-only CAN path of the STM32: the FDCAN interrupt copies FIFO *)
(* elements into a raw ring (platform/stm32g474/fdcan_capture.c), the      *)
(* worker's service call decodes them and hands them to the capture module *)
(* (module/fdcan_capture.c), which extends the 32-bit microsecond time     *)
(* stamp, queues the records and builds batches.  docs/fdcan-capture.md    *)
(* connects the sinks: frame_sink is capture_ingest, drop_sink is          *)
(* capture_record_drops, status_sink is capture_set_status.                *)
(*                                                                         *)
(* Time counts units of the source clock, which wraps at Wrap (2^32).  A   *)
(* frame is its true birth time; serial numbers are history.  The workers  *)
(* are cooperative: only the interrupt interleaves with a service call.    *)
(***************************************************************************)
EXTENDS Integers, FiniteSets, FiniteSetsExt, Functions, Sequences

CONSTANTS Channels,          \* enabled channels, numbered
          Wrap,              \* CANVIEW_STM_FDCAN_TIMESTAMP_WRAP_INCREMENT
          RawCapacity, RingCapacity, InventoryCapacity, MaxRecords,
          MaxBatchDelta,     \* UINT16_MAX
          NoDataTimeout,
          MaxCount,          \* UINT32_MAX, where counters saturate
          HwFaults,          \* hardware faults that may be seen
          Statuses,          \* bus states the registers show
          StartNow, MaxNow, MaxEvents  \* bounds of the instance

ASSUME CaptureAssumption ==
    /\ Channels \subseteq Nat \ {0} /\ IsFiniteSet(Channels)
    /\ Wrap \in Nat \ {0} /\ RawCapacity \in Nat /\ RingCapacity \in Nat
    /\ InventoryCapacity \in Nat /\ MaxRecords \in Nat /\ MaxBatchDelta \in Nat
    /\ NoDataTimeout \in Nat /\ MaxCount \in Nat
    /\ HwFaults \subseteq {"fifo_loss", "message_ram"}
    /\ Statuses \subseteq {"no_data", "active", "passive", "off", "fault"}
    /\ StartNow \in Nat /\ MaxNow \in Nat /\ StartNow <= MaxNow

VARIABLES now,    \* true time
          plat,   \* canview_stm_fdcan_platform_t, per channel
          svc,    \* the worker: in canview_stm_fdcan_platform_service, or building
          bat,    \* canview_stm_fdcan_capture_build_batch: what it has selected
          chan,   \* canview_stm_fdcan_channel_t, per channel
          cap,    \* the capture's time anchor and inventory
          past    \* history: what happened to the frames of each channel

vars == <<now, plat, svc, bat, chan, cap, past>>

Half == Wrap \div 2                 \* MAX_DELTA is Half - 1
Saturated(n) == IF n > MaxCount THEN MaxCount ELSE n
Epoch(t) == t - (t % Wrap)
BusStates == {"no_data", "active", "passive", "off", "fault"}
Flags == {"fifo_loss", "message_ram", "raw_overflow"}

ResetPlat == [raw |-> <<>>, drops |-> 0, reported |-> 0, pending |-> FALSE,
              loss |-> {}, session |-> {}]
ResetChannel == [ring |-> <<>>, dropped |-> 0, state |-> "no_data",
                 sticky |-> {}, statusAt |-> 0, known |-> FALSE, last |-> 0,
                 source |-> 0, epoch |-> 0, seen |-> FALSE]
Idle == [at |-> "idle", c |-> 0, drops |-> 0, left |-> 0]
NoCapture == [known |-> FALSE, extended |-> 0, epoch |-> 0, inventory |-> {}]
\* offset: how many records are selected; last: the last one kept, 0 for none.
NoBatch == [items |-> 0, offset |-> [c \in Channels |-> 0],
            last |-> [c \in Channels |-> 0], set |-> FALSE, base |-> 0]
\* gone: no longer in a ring.  lost: found the raw ring full, and owed those of
\* them since the last reset or restart; refused: the capture ring refused one.
NoPast == [born |-> 0, taken |-> 0, gone |-> 0, last |-> 0, events |-> 0, doubt |-> FALSE,
           lost |-> 0, owed |-> 0, refused |-> FALSE]

Init == /\ now = StartNow
        /\ plat = [c \in Channels |-> ResetPlat]
        /\ svc = Idle /\ bat = NoBatch
        /\ chan = [c \in Channels |-> ResetChannel]
        /\ cap = NoCapture
        /\ past = [c \in Channels |-> NoPast]

\* Frames, bad frames, faults, status changes and resets share one bound.
Budget(k) == k + FoldFunction(+, 0, [c \in Channels |-> past[c].taken + past[c].events])
             <= MaxEvents

\* A service call is short.
TimePasses == /\ now < MaxNow /\ svc.at = "idle" /\ now' = now + 1
              /\ UNCHANGED <<plat, svc, bat, chan, cap, past>>

-----------------------------------------------------------------------------
\* handle_interrupt and drain_fifo: one element; the FIFO may have lost some
\* before it, and the message RAM may have failed.
FdcanIrq(c) ==
    /\ Budget(1)
    /\ \E bad \in BOOLEAN, event \in {{}} \cup {{e} : e \in HwFaults} :
         LET p == plat[c]
             h == past[c]
             full == Len(p.raw) >= RawCapacity
             n == h.taken + 1
             odd == bad \/ event # {}
         IN  /\ odd => Budget(2)
             /\ plat' = [plat EXCEPT ![c] =
                  [p EXCEPT !.raw = IF full THEN @ ELSE
                              Append(@, [born |-> now, n |-> n, bad |-> bad]),
                            !.drops = IF full THEN Saturated(@ + 1) ELSE @,
                            !.loss = @ \cup event \cup IF full THEN {"raw_overflow"} ELSE {},
                            !.pending = TRUE]]
             /\ past' = [past EXCEPT ![c] =
                  [h EXCEPT !.taken = n, !.events = IF odd THEN @ + 1 ELSE @,
                            !.gone = IF full THEN @ + 1 ELSE @,
                            !.lost = IF full THEN @ + 1 ELSE @,
                            !.owed = IF full THEN @ + 1 ELSE @]]
    /\ UNCHANGED <<now, svc, bat, chan, cap>>

\* A change of the error state of the bus without a frame.
StatusIrq(c) == /\ ~plat[c].pending /\ Budget(1)
                /\ plat' = [plat EXCEPT ![c] = [plat[c] EXCEPT !.pending = TRUE]]
                /\ past' = [past EXCEPT ![c] = [past[c] EXCEPT !.events = @ + 1]]
                /\ UNCHANGED <<now, svc, bat, chan, cap>>

-----------------------------------------------------------------------------
\* extend_timestamp: the time of a frame of a channel that has had one, or
\* of the first frame of all; NONE is a refusal.
Refused == [ok |-> FALSE, t |-> 0, source |-> 0, epoch |-> 0]
Extended(ch, s) ==
    LET lower == s < ch.source
        distance == IF lower THEN ch.source - s ELSE s - ch.source
        wrapped == distance > Half - 1
        epoch == IF wrapped THEN ch.epoch + Wrap ELSE ch.epoch
    IN  IF ~ch.known THEN [ok |-> TRUE, t |-> s, source |-> s, epoch |-> 0]
        ELSE IF distance = Half \/ (wrapped /\ ~lower) THEN Refused
        ELSE [ok |-> TRUE, t |-> epoch + s, epoch |-> epoch,
              source |-> IF ~lower \/ wrapped THEN s ELSE ch.source]

\* Mutant: the epoch of the anchor is taken as it is.
NearAnchor_Epoch(s) == [ok |-> TRUE, t |-> cap.epoch + s, source |-> s, epoch |-> cap.epoch]

\* timestamp_near_anchor: the first frame of a channel takes the epoch that
\* brings it nearest to the newest time known to the capture.
NearAnchor(s) ==
    LET candidate == cap.epoch + s
        ahead == candidate > cap.extended
        distance == IF ahead THEN candidate - cap.extended ELSE cap.extended - candidate
        t == IF distance <= Half - 1 THEN candidate
             ELSE IF ahead THEN candidate - Wrap ELSE candidate + Wrap
    IN  IF distance = Half \/ (distance > Half - 1 /\ ahead /\ candidate < Wrap) THEN Refused
        ELSE [ok |-> TRUE, t |-> t, source |-> s, epoch |-> Epoch(t)]

\* validate_input_frame: a frame with a DLC above 8 is malformed.
Valid(frame) == ~frame.bad

\* A frame is in doubt when the source clock cannot tell its time: half a
\* range or more from the time it is compared with, or observe has moved that
\* time, but not its epoch, by a range and a half.
Apart(a, b) == (IF a > b THEN a - b ELSE b - a) >= Half
InDoubt(c, born) ==
    \/ chan[c].known /\ Apart(born, past[c].born)
    \/ /\ ~chan[c].known /\ cap.known
       /\ Apart(born, cap.extended) \/ cap.extended - cap.epoch >= Wrap + Half
    \/ ~chan[c].known /\ ~cap.known /\ born >= Wrap

\* Mutant: data make any channel active.
OnData_Always(state) == "active"

\* Data end NO_DATA, and no error state.
OnData(state) == IF state \in {"no_data", "active"} THEN "active" ELSE state

\* The time of a frame, as canview_stm_fdcan_capture_ingest finds it.
TimeOf(c, s) == IF ~chan[c].known /\ cap.known THEN NearAnchor(s) ELSE Extended(chan[c], s)
Dated(c, time) == time.ok /\ (chan[c].known => time.t >= chan[c].last)

Newest(t) == IF ~cap.known \/ t > cap.extended
             THEN [cap EXCEPT !.known = TRUE, !.extended = t, !.epoch = Epoch(t)]
             ELSE cap

\* canview_stm_fdcan_capture_ingest, in the order of its checks.
Ingest(c, frame) ==
    LET ch == chan[c]
        h == past[c]
        time == TimeOf(c, frame.born % Wrap)
        doubt == h.doubt \/ (Valid(frame) /\ InDoubt(c, frame.born))
    IN  IF Valid(frame) /\ Len(ch.ring) >= RingCapacity
        THEN /\ chan' = [chan EXCEPT ![c] = [ch EXCEPT !.dropped = Saturated(@ + 1)]]
             /\ past' = [past EXCEPT ![c] = [h EXCEPT !.refused = TRUE]]
             /\ UNCHANGED cap
        ELSE IF ~Valid(frame) \/ ~Dated(c, time)
        THEN /\ chan' = [chan EXCEPT ![c] = [ch EXCEPT !.state = "fault"]]
             /\ past' = [past EXCEPT ![c] = [h EXCEPT !.gone = @ + 1, !.doubt = doubt]]
             /\ UNCHANGED cap
        ELSE /\ chan' = [chan EXCEPT ![c] =
                  [ch EXCEPT !.ring = Append(@, [t |-> time.t, born |-> frame.born, n |-> frame.n]),
                             !.known = TRUE, !.last = time.t, !.source = time.source,
                             !.epoch = time.epoch, !.seen = TRUE,
                             !.state = OnData(@)]]
             /\ cap' = Newest(time.t)
             /\ past' = [past EXCEPT ![c] = [h EXCEPT !.born = frame.born, !.doubt = doubt]]

\* Mutant: the element is consumed after any failure of the sink.
Retryable_Never(c, frame) == FALSE

\* service_raw_elements keeps the element while the sink is busy.
Retryable(c, frame) == Valid(frame) /\ Len(chan[c].ring) >= RingCapacity

-----------------------------------------------------------------------------
\* canview_stm_fdcan_platform_service, channel by channel.
\* The turn of a channel begins with service_raw_drops sampling the counter.
Turn(c) == [at |-> "report", c |-> c, drops |-> plat[c].drops, left |-> RawCapacity]
Later(c) == {d \in Channels : d > c}
TurnAfter(c) == IF Later(c) = {} THEN Idle ELSE Turn(Min(Later(c)))

ServiceBegins == /\ svc.at = "idle" /\ svc' = TurnAfter(0)
                 /\ UNCHANGED <<now, plat, bat, chan, cap, past>>

\* Mutant: what was lost since the counter was sampled is taken as reported.
Told_Now == plat[svc.c].drops

\* The value that counts as reported.
Told == svc.drops

ReportDrops ==
    /\ svc.at = "report"
    /\ LET delta == svc.drops - plat[svc.c].reported
       IN  chan' = [chan EXCEPT ![svc.c] = [chan[svc.c] EXCEPT !.dropped = Saturated(@ + delta)]]
    /\ plat' = [plat EXCEPT ![svc.c] = [plat[svc.c] EXCEPT !.reported = Told]]
    /\ svc' = [svc EXCEPT !.at = "frames", !.drops = 0]
    /\ UNCHANGED <<now, bat, cap, past>>

ServiceFrame ==
    /\ svc.at = "frames"
    /\ IF svc.left = 0 \/ plat[svc.c].raw = <<>>
       THEN svc' = [svc EXCEPT !.at = "status"] /\ UNCHANGED <<plat, chan, cap, past>>
       ELSE LET frame == Head(plat[svc.c].raw)
            IN  /\ Ingest(svc.c, frame)
                /\ IF Retryable(svc.c, frame)
                   THEN svc' = [svc EXCEPT !.at = "status"] /\ UNCHANGED plat
                   ELSE /\ plat' = [plat EXCEPT ![svc.c] = [plat[svc.c] EXCEPT !.raw = Tail(@)]]
                        /\ svc' = [svc EXCEPT !.left = @ - 1]
    /\ UNCHANGED <<now, bat>>

\* canview_stm_fdcan_capture_set_status, at time now.
SetStatus(c, state, hard) ==
    LET ch == chan[c]
        stale == now < ch.statusAt \/ (ch.known /\ now < ch.last)
        sticky == ch.sticky \cup hard
    IN  IF stale
        THEN /\ chan' = [chan EXCEPT ![c] = [ch EXCEPT !.sticky = sticky,
                           !.state = IF hard \subseteq ch.sticky THEN @ ELSE "fault"]]
             /\ UNCHANGED cap
        ELSE /\ chan' = [chan EXCEPT ![c] = [ch EXCEPT !.sticky = sticky, !.statusAt = now,
                           !.state = IF sticky # {} THEN "fault" ELSE state]]
             /\ cap' = Newest(now)

\* The end of the channel's turn: the flags are taken in a critical section,
\* faults are kept for the session, and the state is given to the sink.
ServiceStatus ==
    LET p == plat[svc.c]
        session == p.session \cup p.loss
    IN  /\ svc.at = "status"
        /\ plat' = [plat EXCEPT ![svc.c] =
                      [p EXCEPT !.session = session, !.pending = FALSE, !.loss = {}]]
        /\ IF p.pending
           THEN \E s \in Statuses :
                  SetStatus(svc.c, IF session # {} THEN "fault" ELSE s, session)
           ELSE UNCHANGED <<chan, cap>>
        /\ svc' = TurnAfter(svc.c)
        /\ UNCHANGED <<now, bat, past>>

-----------------------------------------------------------------------------
\* canview_stm_fdcan_capture_build_batch, one record at a time: interrupts
\* fall between them.  The rings are read when the batch is complete.
Building == svc.at = "batch"
Pending(c) == chan[c].ring[bat.offset[c] + 1]
Available == {c \in Channels : bat.offset[c] < Len(chan[c].ring)}

\* The oldest record of all rings, a tie to the lower channel.
IsOldest(c) == /\ c \in Available
               /\ \A d \in Available \ {c} :
                    \/ Pending(c).t < Pending(d).t
                    \/ Pending(c).t = Pending(d).t /\ c < d

Unordered(c) == bat.set /\ Pending(c).t < bat.base
TooLate(c) == bat.set /\ Pending(c).t - bat.base > MaxBatchDelta

BatchBegins == /\ svc.at = "idle" /\ svc' = [svc EXCEPT !.at = "batch"]
               /\ UNCHANGED <<now, plat, bat, chan, cap, past>>

Selected(c) == [bat EXCEPT !.items = @ + 1, !.offset = [bat.offset EXCEPT ![c] = @ + 1]]

\* The filter rejects the record, or it is put in the batch.
BatchFilters(c) ==
    /\ Building /\ bat.items < MaxRecords /\ IsOldest(c)
    /\ bat' = Selected(c)
    /\ UNCHANGED <<now, plat, svc, chan, cap, past>>

BatchTakes(c) ==
    /\ Building /\ bat.items < MaxRecords /\ IsOldest(c)
    /\ ~Unordered(c) /\ ~TooLate(c)
    /\ bat' = [Selected(c) EXCEPT !.last = [bat.last EXCEPT ![c] = Pending(c).n], !.set = TRUE,
                                  !.base = IF bat.set THEN @ ELSE Pending(c).t]
    /\ UNCHANGED <<now, plat, svc, chan, cap, past>>

\* MALFORMED: nothing has been read.
BatchAborts ==
    /\ Building /\ bat.items < MaxRecords
    /\ \E c \in Channels : IsOldest(c) /\ Unordered(c)
    /\ svc' = Idle /\ bat' = NoBatch
    /\ UNCHANGED <<now, plat, chan, cap, past>>

\* Mutant: no limit.
WithInventory_NoLimit(ids) == {cap.inventory \cup ids}

\* inventory_update: a new identifier takes a free entry, if there is one.
WithInventory(ids) ==
    LET free == InventoryCapacity - Cardinality(cap.inventory)
        new == ids \ cap.inventory
    IN  IF Cardinality(new) <= free THEN {cap.inventory \cup new}
        ELSE {cap.inventory \cup some : some \in {s \in SUBSET new : Cardinality(s) = free}}

BatchEnds ==
    /\ Building
    /\ \/ bat.items = MaxRecords \/ Available = {}
       \/ \E c \in Channels : IsOldest(c) /\ ~Unordered(c) /\ TooLate(c)
    /\ chan' = [c \in Channels |->
         [chan[c] EXCEPT !.ring = SubSeq(@, bat.offset[c] + 1, Len(@))]]
    /\ \E entries \in WithInventory({c \in Channels : bat.offset[c] > 0}) :
         cap' = [cap EXCEPT !.inventory = entries]
    /\ past' = [c \in Channels |->
         [past[c] EXCEPT !.gone = @ + bat.offset[c],
                         !.last = IF bat.last[c] = 0 THEN @ ELSE bat.last[c]]]
    /\ svc' = Idle /\ bat' = NoBatch
    /\ UNCHANGED <<now, plat>>

\* canview_stm_fdcan_capture_observe.
Observed(ch) ==
    IF ch.state \notin {"no_data", "active"} THEN ch.state
    ELSE IF ch.seen /\ now < ch.last THEN "fault"
    ELSE IF ~ch.seen \/ now - ch.last >= NoDataTimeout THEN "no_data" ELSE "active"

canview_stm_fdcan_capture_observe ==
    /\ svc.at = "idle"
    /\ IF cap.known /\ now < cap.extended
       THEN /\ chan' = [c \in Channels |-> [chan[c] EXCEPT !.state = "fault"]]
            /\ UNCHANGED cap
       ELSE /\ cap' = [cap EXCEPT !.extended = IF cap.known THEN now ELSE @]
            /\ chan' = [c \in Channels |-> [chan[c] EXCEPT !.state = Observed(chan[c])]]
    /\ UNCHANGED <<now, plat, svc, bat, past>>

\* canview_stm_fdcan_capture_reset: a new capture session.
canview_stm_fdcan_capture_reset ==
    /\ svc.at = "idle" /\ Budget(1)
    /\ chan' = [c \in Channels |-> ResetChannel]
    /\ cap' = NoCapture
    /\ past' = [c \in Channels |->
         [past[c] EXCEPT !.gone = @ + Len(chan[c].ring), !.events = @ + 1,
                         !.owed = 0, !.refused = FALSE]]
    /\ UNCHANGED <<now, plat, svc, bat>>

\* canview_stm_fdcan_platform_stop and _start: the rings are emptied, but not
\* those of the capture.
PlatformRestart ==
    /\ svc.at = "idle" /\ Budget(1)
    /\ plat' = [c \in Channels |-> ResetPlat]
    /\ past' = [c \in Channels |->
         [past[c] EXCEPT !.gone = @ + Len(plat[c].raw), !.events = @ + 1, !.owed = 0]]
    /\ UNCHANGED <<now, svc, bat, chan, cap>>

Next == \/ TimePasses
        \/ \E c \in Channels : FdcanIrq(c)
        \/ \E c \in Channels : StatusIrq(c)
        \/ ServiceBegins \/ ReportDrops \/ ServiceFrame \/ ServiceStatus
        \/ BatchBegins \/ BatchAborts \/ BatchEnds
        \/ \E c \in Channels : BatchFilters(c) \/ BatchTakes(c)
        \/ canview_stm_fdcan_capture_observe
        \/ canview_stm_fdcan_capture_reset
        \/ PlatformRestart
        \/ now = MaxNow /\ UNCHANGED vars

Spec == Init /\ [][Next]_vars

-----------------------------------------------------------------------------
RawFrames == [born : Nat, n : Nat, bad : BOOLEAN]
Records == [t : Nat, born : Nat, n : Nat]
Platforms == [raw : Seq(RawFrames), drops : 0..MaxCount, reported : Nat, pending : BOOLEAN,
              loss : SUBSET Flags, session : SUBSET Flags]
Captures == [ring : Seq(Records), dropped : 0..MaxCount, state : BusStates, sticky : SUBSET Flags,
             statusAt : Nat, known : BOOLEAN, last : Nat, source : Nat, epoch : Nat,
             seen : BOOLEAN]
Histories == [born : Nat, taken : Nat, gone : Nat, last : Nat, events : Nat, doubt : BOOLEAN,
              lost : Nat, owed : Nat, refused : BOOLEAN]
Services == [at : {"idle", "report", "frames", "status", "batch"}, c : Nat, drops : Nat,
             left : Nat]
Anchors == [known : BOOLEAN, extended : Nat, epoch : Nat, inventory : SUBSET Channels]
Batches == [items : Nat, offset : [Channels -> Nat], last : [Channels -> Nat],
            set : BOOLEAN, base : Nat]

TypeOK ==
    /\ now \in 0..MaxNow
    /\ plat \in [Channels -> Platforms] /\ chan \in [Channels -> Captures]
    /\ past \in [Channels -> Histories] /\ bat \in Batches
    /\ svc \in Services
    /\ svc.at \in {"report", "frames", "status"} => svc.c \in Channels
    /\ cap \in Anchors
    /\ \A c \in Channels :
         /\ Len(plat[c].raw) <= RawCapacity /\ Len(chan[c].ring) <= RingCapacity
         /\ plat[c].reported <= plat[c].drops
    /\ Cardinality(cap.inventory) <= InventoryCapacity

\* Every frame the interrupt took waits in one of the two rings, or it is gone:
\* delivered, filtered, refused as malformed or undatable, found no room in the
\* raw ring, or discarded by a reset.  What is delivered is delivered once and in
\* order: full rings, retries of a busy sink and aborted batches duplicate,
\* reorder and misplace nothing.
OnceInOrder ==
    \A c \in Channels :
        LET waiting == [i \in DOMAIN chan[c].ring |-> chan[c].ring[i].n]
                       \o [i \in DOMAIN plat[c].raw |-> plat[c].raw[i].n]
        IN  /\ past[c].taken = past[c].gone + Len(waiting)
            /\ \A i \in DOMAIN waiting :
                 waiting[i] > IF i = 1 THEN past[c].last ELSE waiting[i - 1]

\* No frame is lost in a full raw ring without being counted: the drop counter of
\* the channel and what the platform has yet to report show every loss since the
\* last reset and restart, whatever falls between the sampling of a counter and
\* its report, unless a counter is at its limit.  As long as the capture ring
\* refused nothing, no more is counted than was lost; a refused frame is offered
\* again and counted each time, which the code does and this does not exclude.
LossesCounted ==
    \A c \in Channels :
        LET counted == chan[c].dropped + (plat[c].drops - plat[c].reported)
        IN  /\ MaxCount \notin {chan[c].dropped, plat[c].drops} => past[c].owed <= counted
            /\ ~past[c].refused => counted <= past[c].lost

\* The extended time of a queued record is the true time of its frame, over
\* wraps of the source clock, late service and frames of other channels seen
\* first, unless the channel was silent for half a range.
TimestampTrue ==
    \A c \in Channels : ~past[c].doubt =>
        \A i \in DOMAIN chan[c].ring : chan[c].ring[i].t = chan[c].ring[i].born

\* A hardware fault, once reported, keeps the channel at FAULT until a reset,
\* whatever frames, observations and stale or late statuses follow.
HardwareFaultShown ==
    \A c \in Channels : chan[c].sticky # {} => chan[c].state = "fault"
=============================================================================
