------------------------------ MODULE MCStmTx ------------------------------
(* StmTx with two message keys of one type each.                            *)
EXTENDS StmTx

MCKeys == {<<"HEARTBEAT", 0>>, <<"STATUS", 1>>}
=============================================================================
