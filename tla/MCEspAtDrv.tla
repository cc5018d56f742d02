----------------------------- MODULE MCEspAtDrv -----------------------------
(* Small instances of EspAtDrv for TLC. *)
EXTENDS EspAtDrv

TwoLinks == {0, 1}

AT1Polling == [at1 |-> TRUE, polling |-> TRUE]
AT2Polling == [at1 |-> FALSE, polling |-> TRUE]
AT2FlowControl == [at1 |-> FALSE, polling |-> FALSE]

AllBuilds == {AT1Polling, AT2Polling, AT2FlowControl}
OnlyAT2 == {AT2Polling}

TcpAndUdp == {"TCP", "UDP"}
TcpOnly == {"TCP"}

(* The operations that change linkInfo in more than the way an ERROR does;   *)
(* abort is close with one more wait.                                       *)
LinkOps == {"newClientLinkId", "connect", "close", "availData", "recvData", "reset"}
=============================================================================
