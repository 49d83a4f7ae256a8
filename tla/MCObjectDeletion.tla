-------------------------- MODULE MCObjectDeletion --------------------------
(* ObjectDeletionOutbox with processes that all report the same            *)
(* hostname:pid, the worst case for the conditional updates, and one       *)
(* report that an export replaced after the deletion had read its key.     *)
EXTENDS ObjectDeletionProperties

CONSTANTS sharedWorker, document, staleReport

MCSharedWorkerId == [w \in Workers |-> sharedWorker]
MCOwned == {document}
=============================================================================
