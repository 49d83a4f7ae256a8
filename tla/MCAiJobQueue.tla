---------------------------- MODULE MCAiJobQueue ----------------------------
(* AiJobQueue with processes that all report the same worker id            *)
(* (hostname:pid collides across containers), so that only the fencing     *)
(* token tells their executions apart.                                     *)
EXTENDS AiJobQueueProperties

CONSTANT sharedWorker

MCSharedWorkerId == [p \in Processes |-> sharedWorker]
=============================================================================
