--------------------------- MODULE MCStmCommands ---------------------------
(***************************************************************************)
(* The runtime in two scenarios: "order", the constants of the .cfg, in    *)
(* which two commands run out in another order than they came; "remap", in *)
(* which the controller's clock is mapped anew, and elsewhere, while one   *)
(* of these commands is pending or its result is cached.  PendingIsOpen    *)
(* and DeliversOnce say the same of both.                                  *)
(***************************************************************************)
EXTENDS MCStmUart

VARIABLE scenario

Remap == INSTANCE StmUartSpec WITH
    Keys <- ShortLived, CacheCapacity <- 1, PendingCapacity <- 1,
    QueueCapacity <- 6, Generations <- {1, 2}, Offset <- <<0, 2>>,
    Inputs <- {"HELLO", "HELLO_ACK", "HEARTBEAT", "TIME_SYNC", "COMMAND", "REMAP"}

MCInit ==
    \/ scenario = "order" /\ HInit
    \/ scenario = "remap" /\ Remap!HInit

MCNext ==
    /\ UNCHANGED scenario
    /\ \/ scenario = "order" /\ HNext
       \/ scenario = "remap" /\ Remap!HNext

MCSpec == MCInit /\ [][MCNext]_<<scenario, allvars>>
=============================================================================
