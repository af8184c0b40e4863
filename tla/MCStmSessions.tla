--------------------------- MODULE MCStmSessions ---------------------------
(***************************************************************************)
(* The runtime in two scenarios: "sessions", the constants of the .cfg, in *)
(* which sessions end by silence, a stalled CTS line, a reset or HELLO of  *)
(* another boot with something under way; "failures", with failed          *)
(* transfers and a reset hook that times out and leaves commands behind.   *)
(* Two commands are in conflict in both.  TypeOK and ReportedWasExecuted   *)
(* say the same of both.                                                   *)
(***************************************************************************)
EXTENDS MCStmUart

VARIABLE scenario

Failing == INSTANCE StmUartSpec WITH
    HookMayFail <- TRUE, CaptureOnly <- TRUE, MaxTime <- 1, QueueCapacity <- 2,
    HeartbeatOnlineMs <- 2, HeartbeatOfflineMs <- 3, SnapshotMaxAgeMs <- 2,
    Inputs <- {"HELLO", "HELLO_ACK", "HEARTBEAT", "TIME_SYNC", "COMMAND", "TX",
               "TX_ERROR"}

MCInit ==
    \/ scenario = "sessions" /\ HInit
    \/ scenario = "failures" /\ Failing!HInit

MCNext ==
    /\ UNCHANGED scenario
    /\ \/ scenario = "sessions" /\ HNext
       \/ scenario = "failures" /\ Failing!HNext

MCSpec == MCInit /\ [][MCNext]_<<scenario, allvars>>

-----------------------------------------------------------------------------
\* A session that is up holds nothing of an earlier one, see NoFormerInSession,
\* as long as the hook does not time out.
SessionsAreFresh == scenario = "sessions" => NoFormerInSession

\* The runtime implements CommandDelivery, see DeliversOnce, although sessions
\* end at any point of a command's life.
ImplementsDelivery ==
    /\ scenario = "sessions" => Delivery!Init
    /\ [][scenario = "sessions" => [Delivery!Next]_(Delivery!vars)]_<<scenario, allvars>>
=============================================================================
