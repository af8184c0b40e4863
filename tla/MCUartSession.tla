--------------------------- MODULE MCUartSession ---------------------------
(* UartSession on a small clock: the thresholds keep their order            *)
(* (CTS stop < ONLINE = snapshot age < OFFLINE), each one tick apart.       *)
EXTENDS UartSession

CONSTANTS b1, b2

MCBoots == {b1, b2}
MCRevisions == {1, 2}
MCNoRevision == 0
=============================================================================
