------------------------ MODULE ObjectDeletionOutbox ------------------------
(***************************************************************************)
(* The outbox of stored objects of deleted Gap Analyses                    *)
(* (gap-analysis-object-deletion.ts).  A deletion writes one row per       *)
(* object in the transaction that soft-deletes the analysis; job runners   *)
(* and an operator script claim rows, check that the object belongs to the *)
(* deleted analysis, remove it from the bucket and close the row.  A row   *)
(* whose worker died is returned by whichever runner polls next.           *)
(*                                                                         *)
(* runAfter and the ten minutes of LOCK_STALE_MS are not clocks here: a    *)
(* row that waits may be claimed at any later time, and a claim becomes    *)
(* stale when nobody works on it any more, or when a worker stalls (a      *)
(* fault, bounded by MaxFaults).                                           *)
(***************************************************************************)
EXTENDS Integers, FiniteSets

CONSTANTS
  Objects,      \* objects referenced by analyses, one outbox row each
  Owned,        \* those their deleted analysis still names, under its prefix
  Workers,      \* processes that run the batch
  WorkerId,     \* WorkerId[w]: the hostname:pid name a process reports
  NoWorker,
  MaxAttempts,  \* the row's maxAttempts
  MaxRequests,  \* bound: deletion requests in flight for one analysis
  FaultKinds,   \* the faults injected: some of crash, stall, database, storage
  MaxFaults     \* bound: how many of them

ASSUME OutboxAssumption ==
  /\ Owned \subseteq Objects
  /\ MaxAttempts \in Nat \ {0}
  /\ MaxFaults \in Nat /\ MaxRequests \in Nat
  /\ WorkerId \in [Workers -> {WorkerId[w] : w \in Workers}]
  /\ NoWorker \notin {WorkerId[w] : w \in Workers}

VARIABLES
  row,       \* the outbox rows
  readers,   \* deletion requests that found the analysis live
  storage,   \* objects in the bucket
  worker,    \* the row each process is working on, and where
  faults     \* history: faults injected so far

outboxVars == <<row, readers, storage, worker, faults>>

Due       == {"PENDING", "RETRYING"}
Final     == {"COMPLETED", "ESCALATED"}
RowStatus == {"ABSENT", "PROCESSING"} \cup Due \cup Final

Names  == {WorkerId[w] : w \in Workers}
RowRec == [status : RowStatus, attempts : Nat, lockedBy : Names \cup {NoWorker}]

Absent == [status |-> "ABSENT", attempts |-> 0, lockedBy |-> NoWorker]

\* Control states of one turn of processGapAnalysisObjectDeletionBatch.
Steps   == {"validate", "refuse", "remove", "complete", "fail"}
Idle    == [pc |-> "idle"]
Working == [pc : Steps, object : Objects, attempt : Nat]

OutboxTypeOK ==
  /\ row \in [Objects -> RowRec]
  /\ readers \in [Objects -> Nat]
  /\ storage \subseteq Objects
  /\ worker \in [Workers -> {Idle} \cup Working]
  /\ faults \in 0 .. MaxFaults

OutboxInit ==
  /\ row = [o \in Objects |-> Absent]
  /\ readers = [o \in Objects |-> 0]
  /\ storage = Objects
  /\ worker = [w \in Workers |-> Idle]
  /\ faults = 0

Fault(kind) ==
  kind \in FaultKinds /\ faults < MaxFaults /\ faults' = faults + 1

Goto(w, pc) == worker' = [worker EXCEPT ![w].pc = pc]
Rest(w)     == worker' = [worker EXCEPT ![w] = Idle]
Closed(r, status) == [r EXCEPT !.status = status, !.lockedBy = NoWorker]

-----------------------------------------------------------------------------
(* Deletion of the analysis.                                               *)

\* deleteGapAnalysis looks the analysis up and refuses a deleted one.
ReadForDeletion(o) ==
  /\ row[o].status = "ABSENT" /\ readers[o] < MaxRequests
  /\ readers' = [readers EXCEPT ![o] = @ + 1]
  /\ UNCHANGED <<row, storage, worker, faults>>

\* The upsert and the soft deletion commit together; a request that comes
\* second finds the row and leaves it as it is.  What is queued is the key the
\* request read; an export that is still running may store another report and
\* put its key in the analysis, and the queued one is then not Owned.
CommitDeletion(o) ==
  /\ readers[o] > 0
  /\ readers' = [readers EXCEPT ![o] = @ - 1]
  /\ row' = IF row[o].status = "ABSENT"
              THEN [row EXCEPT ![o].status = "PENDING"] ELSE row
  /\ UNCHANGED <<storage, worker, faults>>

-----------------------------------------------------------------------------
(* One turn of the batch.                                                  *)

Locked(w, o) == [row EXCEPT ![o].status = "PROCESSING",
                            ![o].lockedBy = WorkerId[w],
                            ![o].attempts = @ + 1]

ClaimNextDeletion(w, o) ==
  /\ worker[w].pc = "idle" /\ row[o].status \in Due
  /\ row' = Locked(w, o)
  /\ worker' = [worker EXCEPT ![w] = [pc |-> "validate", object |-> o,
                                      attempt |-> row[o].attempts + 1]]
  /\ UNCHANGED <<readers, storage, faults>>

\* The statement commits and its reply is lost: nobody works on the row.
ClaimReplyLost(w, o) ==
  /\ worker[w].pc = "idle" /\ row[o].status \in Due
  /\ Fault("database")
  /\ row' = Locked(w, o)
  /\ UNCHANGED <<readers, storage, worker>>

\* Mutant: the key is taken from the row without comparing it.
ValidateNothing(w) ==
  /\ worker[w].pc = "validate"
  /\ Goto(w, "remove")
  /\ UNCHANGED <<row, readers, storage, faults>>

\* The row exists only with its deleted analysis, so the look-up finds it;
\* what can fail is the comparison of the key with the one the analysis names
\* and with the analysis' own prefix.
Validate(w) ==
  /\ worker[w].pc = "validate"
  /\ Goto(w, IF worker[w].object \in Owned THEN "remove" ELSE "refuse")
  /\ UNCHANGED <<row, readers, storage, faults>>

\* The common condition of the three closing updates: the row is PROCESSING
\* under this process' name.
HoldsLock(w) ==
  /\ row[worker[w].object].status = "PROCESSING"
  /\ row[worker[w].object].lockedBy = WorkerId[w]

\* Mutant: the row is updated by its id alone.
CloseAnyRow(w, status) ==
  row' = [row EXCEPT ![worker[w].object] = Closed(@, status)]

CloseRow(w, status) ==
  row' = IF HoldsLock(w)
           THEN [row EXCEPT ![worker[w].object] = Closed(@, status)] ELSE row

Refuse(w) ==
  /\ worker[w].pc = "refuse"
  /\ CloseRow(w, "ESCALATED") /\ Rest(w)
  /\ UNCHANGED <<readers, storage, faults>>

RemoveObject(w) ==
  /\ worker[w].pc = "remove"
  /\ storage' = storage \ {worker[w].object} /\ Goto(w, "complete")
  /\ UNCHANGED <<row, readers, faults>>

CompleteDeletion(w) ==
  /\ worker[w].pc = "complete"
  /\ CloseRow(w, "COMPLETED") /\ Rest(w)
  /\ UNCHANGED <<readers, storage, faults>>

\* Mutant: the last permitted attempt is not made.
FailDeletionEarly(w) ==
  /\ worker[w].pc = "fail"
  /\ CloseRow(w, IF worker[w].attempt + 1 >= MaxAttempts THEN "ESCALATED"
                                                         ELSE "RETRYING")
  /\ Rest(w)
  /\ UNCHANGED <<readers, storage, faults>>

\* The catch block: another try, or, when the attempts of this claim are used
\* up, an escalation.
FailDeletion(w) ==
  /\ worker[w].pc = "fail"
  /\ CloseRow(w, IF worker[w].attempt >= MaxAttempts THEN "ESCALATED"
                                                     ELSE "RETRYING")
  /\ Rest(w)
  /\ UNCHANGED <<readers, storage, faults>>

\* Mutant: the error is logged and not rethrown.
StorageErrorSwallowed(w) ==
  /\ worker[w].pc = "remove" /\ Fault("storage")
  /\ storage' \in {storage, storage \ {worker[w].object}}
  /\ Goto(w, "complete")
  /\ UNCHANGED <<row, readers>>

\* The bucket reports an error, having removed the object or not.
StorageFails(w) ==
  /\ worker[w].pc = "remove" /\ Fault("storage")
  /\ storage' \in {storage, storage \ {worker[w].object}}
  /\ Goto(w, "fail")
  /\ UNCHANGED <<row, readers>>

\* PostgreSQL reports an error for a statement that took effect or did not.
\* Inside the try block that leads to the catch block; in the catch block it
\* ends the batch.
DatabaseFails(w) ==
  /\ worker[w].pc \in {"validate", "refuse", "complete", "fail"}
  /\ Fault("database")
  /\ \/ row' = row
     \/ worker[w].pc = "refuse" /\ CloseRow(w, "ESCALATED")
     \/ worker[w].pc = "complete" /\ CloseRow(w, "COMPLETED")
  /\ IF worker[w].pc = "fail" THEN Rest(w) ELSE Goto(w, "fail")
  /\ UNCHANGED <<readers, storage>>

Crash(w) ==
  /\ worker[w].pc # "idle" /\ Fault("crash")
  /\ Rest(w)
  /\ UNCHANGED <<row, readers, storage>>

-----------------------------------------------------------------------------
(* recoverStaleGapAnalysisObjectDeletionClaims.  maxAttempts is not looked *)
(* at.                                                                     *)

Requeued(o) == [row EXCEPT ![o] = Closed(@, "RETRYING")]

WorkedOn(o) ==
  \E w \in Workers : worker[w].pc # "idle" /\ worker[w].object = o

RecoverAbandonedClaim(o) ==
  /\ row[o].status = "PROCESSING" /\ ~WorkedOn(o)
  /\ row' = Requeued(o)
  /\ UNCHANGED <<readers, storage, worker, faults>>

\* The worker is alive but took more than LOCK_STALE_MS.
RecoverStalledClaim(o) ==
  /\ row[o].status = "PROCESSING" /\ WorkedOn(o) /\ Fault("stall")
  /\ row' = Requeued(o)
  /\ UNCHANGED <<readers, storage, worker>>

-----------------------------------------------------------------------------
WorkStep(w) ==
  Validate(w) \/ Refuse(w) \/ RemoveObject(w) \/ CompleteDeletion(w) \/ FailDeletion(w)

OutboxNext ==
  \/ \E o \in Objects :
       \/ ReadForDeletion(o) \/ CommitDeletion(o)
       \/ RecoverAbandonedClaim(o) \/ RecoverStalledClaim(o)
  \/ \E w \in Workers :
       \/ WorkStep(w) \/ StorageFails(w) \/ DatabaseFails(w) \/ Crash(w)
       \/ \E o \in Objects : ClaimNextDeletion(w, o) \/ ClaimReplyLost(w, o)

OutboxSpec == OutboxInit /\ [][OutboxNext]_outboxVars

\* Runners poll: a turn that was begun goes on, abandoned claims are returned,
\* and a row that is due again and again is claimed (rows are taken in the
\* order of their creation, and each is retried finitely often).
LiveOutboxSpec ==
  /\ OutboxSpec
  /\ \A w \in Workers : WF_outboxVars(WorkStep(w))
  /\ \A o \in Objects :
       /\ WF_outboxVars(RecoverAbandonedClaim(o))
       /\ SF_outboxVars(\E w \in Workers : ClaimNextDeletion(w, o))
=============================================================================
