---------------------- MODULE ObjectDeletionProperties ----------------------
(***************************************************************************)
(* What the object-deletion outbox must guarantee, stated over             *)
(* ObjectDeletionOutbox.                                                   *)
(***************************************************************************)
EXTENDS ObjectDeletionOutbox

\* completeDeletion: a row says COMPLETED only when its object is gone, although
\* the row may have changed hands between the removal and the update, and the
\* name the update is conditioned on may be a successor's.
CompletedMeansGone ==
  \A o \in Objects : row[o].status = "COMPLETED" => o \notin storage

\* "never deletes when the deleted analysis ownership/key check fails"
\* (gap-analysis-object-deletion.test.ts): an object leaves the bucket only if
\* it is owned and the deletion of its analysis was committed.
OnlyDeletedObjectsVanish ==
  \A o \in Objects \ storage : o \in Owned /\ row[o].status # "ABSENT"

\* failDeletion compares the attempts of its own claim, not of the row: an
\* owned object is handed to an operator only after maxAttempts claims of it,
\* however late a failure is recorded.
NoEarlyEscalation ==
  \A o \in Owned : row[o].status = "ESCALATED" => row[o].attempts >= MaxAttempts

\* What these three rest on: how far a turn got says what has happened to its
\* object, and no turn holds a claim number the row has not reached.
TurnIsOnCourse ==
  \A w \in Workers :
    worker[w].pc # "idle" =>
      LET o == worker[w].object
      IN  /\ row[o].status # "ABSENT" /\ worker[w].attempt <= row[o].attempts
          /\ worker[w].pc = "refuse" => o \notin Owned
          /\ worker[w].pc \in {"remove", "complete"} => o \in Owned
          /\ worker[w].pc = "complete" => o \notin storage

\* The inductive invariant.
OutboxInvariant ==
  /\ OutboxTypeOK /\ TurnIsOnCourse
  /\ CompletedMeansGone /\ OnlyDeletedObjectsVanish /\ NoEarlyEscalation

\* The outbox implements the promise made to whoever deletes an analysis
\* (ObjectDeletionService), its liveness included: every request is settled.
RequestOf(status) ==
  CASE status = "ABSENT"    -> "none"
    [] status = "COMPLETED" -> "done"
    [] status = "ESCALATED" -> "escalated"
    [] OTHER                -> "open"

requestBar == [o \in Objects |-> RequestOf(row[o].status)]

Deletion == INSTANCE ObjectDeletionService
              WITH request <- requestBar, stored <- storage

ImplementsDeletion == Deletion!DeletionSpec
=============================================================================
