---------------------------- MODULE StmUartSpec ----------------------------
(***************************************************************************)
(* The runtime of module StmUart with a history of what really happened,   *)
(* the promises it keeps, and those of its documentation it does not.      *)
(***************************************************************************)
EXTENDS StmUart

VARIABLES
    admitted,   \* commands admitted in this session (since its HELLO)
    told,       \* <<command, stage>> of the results queued in this session
    executed,   \* commands the executor ever took
    former,     \* kinds of state that survived from an earlier session
    revision    \* what the last heartbeat of this session reported

history == <<admitted, told, executed, former, revision>>
allvars == <<vars, history>>

HInit ==
    /\ Init
    /\ admitted = {} /\ told = {} /\ executed = {} /\ former = {}
    /\ revision = NoRevision

\* A HELLO has started a session.
Started ==
    /\ link'.hello_complete
    /\ ~link.hello_complete \/ link'.peer_boot_id # link.peer_boot_id

\* The session state that is in use.
Kept ==
    {k \in {"pending", "mapping", "sync", "lease", "cache", "plan"} :
        \/ k = "pending" /\ pending # <<>>
        \/ k = "mapping" /\ mapping.valid
        \/ k = "sync"    /\ sync.valid
        \/ k = "lease"   /\ lease.valid
        \/ k = "plan"    /\ planned
        \/ k = "cache"   /\ \E s \in Slots : cache.entries[s].valid}

CommandsOf(ps) == {ps[i].cmd : i \in DOMAIN ps}
NewlyPending == {pending'[i].cmd : i \in {j \in DOMAIN pending' : pending'[j] \notin Range(pending)}}

Reported(o) ==
    {<<m.cmd, m.stage>> : m \in {x \in Range(o.tx.queue["P0"]) : x.type = "COMMAND_RESULT"}}

Record ==
    /\ admitted' = (IF Started THEN {} ELSE admitted) \cup NewlyPending
    /\ told' = (IF Started THEN {} ELSE told) \cup Reported(out')
    /\ executed' = executed \cup (IF held' \in {held, NoHeld} THEN {} ELSE {held'.cmd})
    /\ former' = IF Started THEN Kept' ELSE former \cap Kept'

Recorded ==
    /\ Record
    /\ revision' = IF Started THEN NoRevision ELSE revision

HNext ==
    \/ NextButHeartbeat /\ Recorded
    \/ \E r \in Revisions : Heartbeat(r) /\ Record /\ revision' = r

HSpec == HInit /\ [][HNext]_allvars

\* The worker ticks and serves the transmitter in every pass, and a transfer
\* takes less time than the worker takes between two passes.
FairHSpec ==
    /\ HSpec
    /\ WF_allvars(Tick /\ Recorded)
    /\ WF_allvars(TxBegin /\ Recorded)
    /\ SF_allvars((\E sent \in BOOLEAN : TxFinish(sent)) /\ Recorded)

-----------------------------------------------------------------------------
TypeOK ==
    /\ link \in Link
    /\ \A i \in DOMAIN pending : pending[i].cmd \in Keys /\ pending[i].handle.slot \in Slots
    /\ Len(pending) <= PendingCapacity
    /\ \A c \in ClassNames : Len(out.tx.queue[c]) <= QueueCapacity
    /\ cache.next \in 1 .. MaxGeneration
    /\ mapping.valid => mapping.updated <= now
    /\ beat <= now

(***************************************************************************)
(* A session that is up holds nothing of an earlier one: no pending        *)
(* command, clock mapping, half-done sync, lease or cached result, however *)
(* the last session ended and whatever was under way when HELLO arrived.   *)
(***************************************************************************)
NoFormerInSession == link.hello_complete => former = {}

(***************************************************************************)
(* The runtime implements CommandDelivery: within a session every command  *)
(* is handed over at most once and reported with at most one outcome,      *)
(* although frames repeat, results are sent again, cache entries run out   *)
(* and the controller's clock is mapped anew.                              *)
(***************************************************************************)
Delivery == INSTANCE CommandDelivery WITH
    Commands <- Keys,
    Outcomes <- Stages \cup {"EXPIRED"},
    phase    <- [c \in Keys |-> IF c \in CommandsOf(pending) THEN "waiting"
                                ELSE IF c \in admitted THEN "over" ELSE "new"],
    outcome  <- [c \in Keys |-> {s \in Stages \cup {"EXPIRED"} : <<c, s>> \in told}]

DeliversOnce == Delivery!Spec

(***************************************************************************)
(* A command is reported as done only if the executor really took it: the  *)
(* executor may come back with a handle long after its command is gone.    *)
(***************************************************************************)
ReportedWasExecuted ==
    \A t \in told : t[2] # "EXPIRED" => t[1] \in executed

(***************************************************************************)
(* Pending list and cache agree: while the entry of a pending command      *)
(* lives it is that command's own and holds no result, so a retry is told  *)
(* "duplicate" and never gets an old answer.                               *)
(***************************************************************************)
PendingIsOpen ==
    \A i \in DOMAIN pending :
        LET p == pending[i]
        IN  Names(cache, p.handle)
              => /\ cache.entries[p.handle.slot].key = p.cmd
                 /\ cache.entries[p.handle.slot].result = NoResult

(***************************************************************************)
(* Without a session the runtime offers one again and again, unless the    *)
(* handle counter is used up: HELLO is (or soon will be) on its way.       *)
(***************************************************************************)
HelloRepeats ==
    ~link.hello_complete
        ~> (link.hello_complete \/ TxContains(out.tx, "LINK_HELLO") \/ ~CanReset(cache))

-----------------------------------------------------------------------------
(***************************************************************************)
(* communicator-uart.md, conditions of vehicle TX: the vehicle state and   *)
(* the safety revision agree.  Here: no command is admitted while the last *)
(* heartbeat of the peer reports another revision.                         *)
(***************************************************************************)
AdmitsMatchingRevision == AdmissionAllowed => revision = LocalRevision

(***************************************************************************)
(* communicator-uart.md: results are kept for at least 60 seconds and the  *)
(* same token with the same payload is not executed again.                 *)
(***************************************************************************)
NeverReplayed == [][NewlyPending \cap executed = {}]_allvars
=============================================================================
