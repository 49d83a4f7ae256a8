---------------------------- MODULE GapAnalysis ----------------------------
(***************************************************************************)
(* The life of a Gap Analysis: the request handler that submits it         *)
(* (gap-analysis.router.ts, runGapAnalysis), the durable job that executes *)
(* it (AiJobQueue with executeGapAnalysisPipeline as its handler), the     *)
(* request that deletes it, the sweep that recovers abandoned ones, and    *)
(* the quota its submission reserves (GapAnalysisUsage).                   *)
(*                                                                         *)
(* All submissions belong to one organization.  A submission, the analysis *)
(* it may create and that analysis's job share one identifier; the         *)
(* reservation key of the ledger is the execution identity.                *)
(***************************************************************************)
EXTENDS Integers, FiniteSets

CONSTANTS
  Submissions,  \* requests to run an analysis
  Deletions,    \* requests to delete one
  Identities,   \* execution identities: document, frameworks, depth, ...
  UserOf,       \* UserOf[s]: the member who submits
  None,         \* no identity, no analysis
  Limit,        \* Limit[scope]: the plan's quota, the trial's cap
  Scope, Units,                       \* of an identity, see GapAnalysisUsage
  Processes, WorkerId, NoProcess,     \* see AiJobQueue
  MaxAttempts,
  FaultKinds,   \* some of crash, heartbeat, database, storage, redis
  MaxFaults     \* bound: how many of them

\* Requests and processes are different actors; the rest is what the modules
\* instantiated below assume of their constants.
ASSUME GapAssumption ==
  /\ Limit \in [{"REDIS", "TRIAL"} -> Nat]
  /\ Submissions \cap Processes = {}
  /\ None \notin Submissions \cup Identities
  /\ IsFiniteSet(Submissions) /\ IsFiniteSet(Identities)
  /\ Scope \in [Identities -> {"REDIS", "TRIAL", "UNLIMITED"}]
  /\ Units \in [Identities -> Nat \ {0}]
  /\ MaxAttempts \in Nat \ {0} /\ MaxFaults \in Nat
  /\ NoProcess \notin Processes
  /\ \A p \in Processes : WorkerId[p] # NoProcess

VARIABLES
  analysis,    \* the GapAnalysis table
  objects,     \* analyses whose source document is in object storage
  outbox,      \* analyses whose source document is queued for deletion
  holder,      \* holder[k]: the analysis a ledger row belongs to
  submission,  \* each submitting request: its control state, what it asks for
  deletion,    \* control state of each deleting request
  stage,       \* where the execution of each process is
  recovery,    \* the candidate each process's recovery sweep is looking at
  job, runner, claimant, expiries,             \* of AiJobQueue
  ledger, counter, marker, comp, refunds,      \* of GapAnalysisUsage
  stray,       \* history: units given back by a statement that its request
               \* repeats, as no reply told it of the first
  faults

Queue == INSTANCE AiJobQueue WITH Jobs <- Submissions
Usage == INSTANCE GapAnalysisUsage WITH
  Keys <- Identities, NoKey <- None,
  Callers <- Submissions \cup Processes, Operators <- {}

queueOnly == <<job, runner, claimant, expiries>>
usageOnly == <<ledger, counter, marker, comp, refunds, stray>>
records   == <<analysis, objects, outbox, holder>>
requests  == <<submission, deletion>>
execution == <<stage, recovery>>
vars == <<records, requests, execution, queueOnly, usageOnly, faults>>

Active   == {"UPLOADING", "QUEUED", "EXTRACTING", "ANALYZING", "COMPLETING"}
Reusable == {"UPLOADING", "QUEUED", "RUNNING", "RETRYING", "ANALYZING",
             "COMPLETING", "COMPLETED"}
Concluded == {"COMPLETED", "FAILED", "CANCELLED"}

NoRecovery == [of |-> None, next |-> "none", was |-> "none"]
Candidate == [of : Submissions, next : {"CANCELLED", "FAILED"}, was : Active]

SubmissionStep == {"new", "check", "charge", "overLimit", "create", "conflict",
  "rollback", "upload", "persist", "enqueue", "publish", "cleanup",
  "markFailed", "compensate", "compensating", "rollbackFailed",
  "done", "reused", "failed"}

Stages == {"none", "authorize", "download", "extract", "analyze", "complete",
  "finalize", "recordRetryable", "recordFatal", "refund", "refunding", "done"}

GapTypeOK ==
  /\ analysis \in [Submissions -> [status  : {"ABSENT"} \cup Active \cup Concluded,
                                   deleted : BOOLEAN,
                                   doc     : BOOLEAN,
                                   aged    : BOOLEAN]]
  /\ objects \subseteq Submissions /\ outbox \subseteq Submissions
  /\ holder \in [Identities -> Submissions \cup {None}]
  /\ submission \in [Submissions -> [pc : SubmissionStep, key : Identities \cup {None}]]
  /\ deletion \in [Deletions ->
       [pc : {"new", "revoke", "cancelJobs", "publish", "done"},
        of : Submissions \cup {None}, doc : BOOLEAN]]
  /\ stage \in [Processes -> Stages]
  /\ recovery \in [Processes -> {NoRecovery} \cup Candidate]
  /\ stray \in [{"REDIS", "TRIAL"} -> Nat]
  /\ Queue!QueueTypeOK /\ Usage!UsageTypeOK

Init ==
  /\ analysis = [s \in Submissions |-> [status |-> "ABSENT", deleted |-> FALSE,
                                        doc |-> FALSE, aged |-> FALSE]]
  /\ objects = {} /\ outbox = {}
  /\ holder = [k \in Identities |-> None]
  /\ submission = [s \in Submissions |-> [pc |-> "new", key |-> None]]
  /\ deletion = [d \in Deletions |-> [pc |-> "new", of |-> None,
                                      doc |-> FALSE]]
  /\ stage = [p \in Processes |-> "none"]
  /\ recovery = [p \in Processes |-> NoRecovery]
  /\ stray = [x \in {"REDIS", "TRIAL"} |-> 0]
  /\ Queue!QueueInit /\ Usage!UsageInit

\* The execution identity of a submission, once it asked for one.
Key(s) == submission[s].key

Live(s) == analysis[s].status \in Active /\ ~analysis[s].deleted
Exists(s) == analysis[s].status # "ABSENT"

\* The row is found by the queries that reuse an execution.
FoundReusable(k, t) ==
  /\ Key(t) = k
  /\ analysis[t].status \in Reusable /\ ~analysis[t].deleted

\* Every update of a row refreshes updatedAt.
SetStatus(s, status) ==
  analysis' = [analysis EXCEPT ![s].status = status, ![s].aged = FALSE]

Fault(kind) ==
  kind \in FaultKinds /\ faults < MaxFaults /\ faults' = faults + 1

-----------------------------------------------------------------------------
(* Submitting: gap-analysis.router.ts and complianceModule.runGapAnalysis. *)

At(s, pc) == submission[s].pc = pc
Proceed(s, pc) == submission' = [submission EXCEPT ![s].pc = pc]

\* rollbackUsage: DECR for a paid plan, the trial decrement for a trial.
GivenBack(s) ==
  IF Scope[Key(s)] = "TRIAL" THEN Usage!Refunded(Key(s))
                             ELSE Usage!Uncharged(Key(s))

Exceeds(s, count) ==
  Scope[Key(s)] # "UNLIMITED" /\ count[Scope[Key(s)]] > Limit[Scope[Key(s)]]

\* An identical execution that can be reused is returned as it is.
Dedupe(s) ==
  /\ At(s, "new")
  /\ \E k \in Identities :
       submission' = [submission EXCEPT ![s] =
         [key |-> k, pc |-> IF \E t \in Submissions : FoundReusable(k, t)
                            THEN "reused" ELSE "check"]]
  /\ UNCHANGED <<records, deletion, execution, queueOnly, usageOnly, faults>>

\* resolveUsageLimit: a read for paid plans, a conditional update for trials.
ResolveUsage(s) ==
  /\ At(s, "check")
  /\ IF Exceeds(s, Usage!Charged(Key(s)))
     THEN Proceed(s, "failed") /\ UNCHANGED counter
     ELSE CASE Scope[Key(s)] = "REDIS" -> Proceed(s, "charge") /\ UNCHANGED counter
            [] OTHER -> Proceed(s, "create") /\ counter' = Usage!Charged(Key(s))
  /\ UNCHANGED <<records, deletion, execution, queueOnly, ledger, marker, comp,
                 refunds, stray, faults>>

CounterStep(s, from, count, to) ==
  /\ At(s, from)
  /\ counter' = count
  /\ Proceed(s, to)
  /\ UNCHANGED <<records, deletion, execution, queueOnly, ledger, marker, comp,
                 refunds, stray, faults>>

\* Mutant: the result of the increment is not compared with the limit.
ReserveUnchecked(s) ==
  CounterStep(s, "charge", Usage!Charged(Key(s)), "create")

\* doIncrement: INCR first, and undo it when the result is over the limit.
ReserveUnits(s) ==
  CounterStep(s, "charge", Usage!Charged(Key(s)),
              IF Exceeds(s, Usage!Charged(Key(s))) THEN "overLimit" ELSE "create")

UndoOverLimit(s) == CounterStep(s, "overLimit", GivenBack(s), "failed")

\* Mutant: no unique key refuses a second execution.
RefusedNever(s) == FALSE

\* One transaction writes the analysis and its ledger row.  Either unique key
\* may refuse it: the partial index on live executions, or reservationKey.
Refused(s) ==
  \/ \E t \in Submissions : FoundReusable(Key(s), t)
  \/ ledger[Key(s)] # "ABSENT"

Inserted(s) ==
  /\ ~Refused(s)
  /\ SetStatus(s, "UPLOADING")
  /\ Usage!SetState(Key(s), "RESERVED")
  /\ holder' = [holder EXCEPT ![Key(s)] = s]

CreateRecord(s) ==
  /\ At(s, "create")
  /\ \/ Inserted(s) /\ Proceed(s, "upload")
     \/ /\ Refused(s) /\ Proceed(s, "conflict")
        /\ UNCHANGED <<analysis, holder, ledger>>
  /\ UNCHANGED <<objects, outbox, deletion, execution, queueOnly, counter,
                 marker, comp, refunds, stray, faults>>

\* After P2002 the live execution is looked up again; without one the error is
\* thrown on.
ResolveConflict(s) ==
  /\ At(s, "conflict")
  /\ Proceed(s, IF \E t \in Submissions : FoundReusable(Key(s), t) THEN "rollback"
                                                            ELSE "compensate")
  /\ UNCHANGED <<records, deletion, execution, queueOnly, usageOnly, faults>>

RollbackReused(s) == CounterStep(s, "rollback", GivenBack(s), "reused")

Upload(s) ==
  /\ At(s, "upload")
  /\ objects' = objects \cup {s}
  /\ Proceed(s, "persist")
  /\ UNCHANGED <<analysis, outbox, holder, deletion, execution, queueOnly,
                 usageOnly, faults>>

\* The condition of the two updates that follow.
StillUploading(s) == analysis[s].status = "UPLOADING" /\ ~analysis[s].deleted

SetReference(s) ==
  analysis' = [analysis EXCEPT ![s].doc = TRUE, ![s].aged = FALSE]

PersistReference(s) ==
  /\ At(s, "persist")
  /\ IF StillUploading(s)
     THEN SetReference(s) /\ Proceed(s, "enqueue")
     ELSE Proceed(s, "cleanup") /\ UNCHANGED analysis
  /\ UNCHANGED <<objects, outbox, holder, deletion, execution, queueOnly,
                 usageOnly, faults>>

EnqueueJob(s) ==
  /\ At(s, "enqueue")
  /\ job' = Queue!Upserted(s)
  /\ Proceed(s, "publish")
  /\ UNCHANGED <<records, deletion, execution, runner, claimant, expiries,
                 usageOnly, faults>>

\* A fast worker may have moved the analysis on, or a deletion cancelled it:
\* then this update affects nothing, which is no error.
Publish(s) ==
  /\ At(s, "publish")
  /\ IF StillUploading(s) THEN SetStatus(s, "QUEUED") ELSE UNCHANGED analysis
  /\ Proceed(s, "done")
  /\ UNCHANGED <<objects, outbox, holder, deletion, execution, queueOnly,
                 usageOnly, faults>>

\* The catch block of runGapAnalysis.
Cleanup(s) ==
  /\ At(s, "cleanup")
  /\ objects' = objects \ {s}
  /\ Proceed(s, "markFailed")
  /\ UNCHANGED <<analysis, outbox, holder, deletion, execution, queueOnly,
                 usageOnly, faults>>

MarkSubmissionFailed(s) ==
  /\ At(s, "markFailed")
  /\ IF Live(s) THEN SetStatus(s, "FAILED") ELSE UNCHANGED analysis
  /\ Proceed(s, "compensate")
  /\ UNCHANGED <<objects, outbox, holder, deletion, execution, queueOnly,
                 usageOnly, faults>>

\* The catch block of the router.  usageReserved is false for unlimited plans.
\* The ledger row is looked up by reservation key and user: it may be the row
\* of another analysis with the same identity.
Compensate(s) ==
  LET h == holder[Key(s)]
  IN  /\ At(s, "compensate")
      /\ CASE Scope[Key(s)] = "UNLIMITED" ->
                Proceed(s, "failed") /\ UNCHANGED <<usageOnly, faults>>
           [] Scope[Key(s)] # "UNLIMITED" /\ h # None /\ UserOf[h] = UserOf[s] ->
                /\ Proceed(s, "compensating")
                /\ Usage!BeginCompensation(s, Key(s)) /\ UNCHANGED stray
           [] OTHER ->
                Proceed(s, "rollbackFailed") /\ UNCHANGED <<usageOnly, faults>>
      /\ UNCHANGED <<records, deletion, execution, queueOnly>>

\* Mutant: the counter is rolled back on top of a compensation that worked.
FinishAndRollBack(s) ==
  /\ At(s, "compensating")
  /\ Usage!EndCompensation(s)
  /\ Proceed(s, IF comp[s].pc = "true" THEN "rollbackFailed" ELSE "failed")
  /\ UNCHANGED <<records, deletion, execution, queueOnly, stray>>

FinishCompensation(s) ==
  /\ At(s, "compensating")
  /\ Usage!EndCompensation(s)
  /\ Proceed(s, IF comp[s].pc = "false" THEN "rollbackFailed" ELSE "failed")
  /\ UNCHANGED <<records, deletion, execution, queueOnly, stray>>

RollbackFailed(s) == CounterStep(s, "rollbackFailed", GivenBack(s), "failed")

\* The compensation a caller (request or runner) is in takes a step.
Compensating(c) ==
  /\ Usage!CompensationStep(c)
  /\ UNCHANGED <<records, requests, execution, queueOnly, stray>>

-----------------------------------------------------------------------------
(* Deleting: complianceModule.deleteGapAnalysis.                           *)

DeletionAt(d, pc) == deletion[d].pc = pc
DeletionProceeds(d, pc) == deletion' = [deletion EXCEPT ![d].pc = pc]

\* The references to clean up are the ones read here, before anything is
\* cancelled.
ReadForDeletion(d) ==
  /\ DeletionAt(d, "new")
  /\ \E s \in Submissions :
       /\ Exists(s) /\ ~analysis[s].deleted
       /\ deletion' = [deletion EXCEPT ![d] =
                         [pc |-> "revoke", of |-> s, doc |-> analysis[s].doc]]
  /\ UNCHANGED <<records, submission, execution, queueOnly, usageOnly, faults>>

\* Unconditional: a result that is already COMPLETED is revoked as well.
RevokeAnalysis(d) ==
  /\ DeletionAt(d, "revoke")
  /\ SetStatus(deletion[d].of, "CANCELLED")
  /\ DeletionProceeds(d, "cancelJobs")
  /\ UNCHANGED <<objects, outbox, holder, submission, execution, queueOnly,
                 usageOnly, faults>>

CancelJobs(d) ==
  LET s == deletion[d].of
  IN  /\ DeletionAt(d, "cancelJobs")
      /\ IF job[s].status \in Queue!Waiting \cup {"RUNNING"}
         THEN Queue!CancelByOwner(s)
         ELSE UNCHANGED <<queueOnly, faults>>
      /\ DeletionProceeds(d, "publish")
      /\ UNCHANGED <<records, submission, execution, usageOnly>>

\* The clean-up intent and the soft deletion are one transaction.
PublishDeletion(d) ==
  LET s == deletion[d].of
  IN  /\ DeletionAt(d, "publish")
      /\ outbox' = IF deletion[d].doc THEN outbox \cup {s} ELSE outbox
      /\ analysis' = [analysis EXCEPT ![s].deleted = TRUE, ![s].aged = FALSE]
      /\ DeletionProceeds(d, "done")
      /\ UNCHANGED <<objects, holder, submission, execution, queueOnly,
                     usageOnly, faults>>

-----------------------------------------------------------------------------
(* Executing: the GAP_ANALYSIS_PIPELINE handler inside a runner.           *)

Doing(p) == runner[p].job
Running(p, at) == runner[p].pc = "running" /\ stage[p] = at
Enter(p, at) == stage' = [stage EXCEPT ![p] = at]

\* The handler ends: by a GapAnalysisCancelledError, an AiJobLeaseLostError.
EndsCancelled(p) == Queue!HandlerCancelled(p) /\ Enter(p, "none")
EndsLeaseLost(p) == Queue!ProgressFenced(p) /\ Enter(p, "none")
ContinuesAt(p, at) == Enter(p, at) /\ UNCHANGED <<queueOnly, faults>>

\* assertGapAnalysisStillActive.  Its two reads are concurrent; whatever order
\* they take, the verdict is one that reading both at once gives.
Revoked(p) ==
  \/ analysis[Doing(p)].deleted \/ analysis[Doing(p)].status \in Concluded
  \/ job[Doing(p)].status = "CANCELLED"

OnlyExecution == <<records, requests, recovery, usageOnly>>

Claim(p) ==
  /\ recovery[p] = NoRecovery
  /\ Queue!ClaimNextJob(p)
  /\ Enter(p, "authorize")
  /\ UNCHANGED OnlyExecution

Authorize(p) ==
  /\ Running(p, "authorize")
  /\ IF analysis[Doing(p)].deleted THEN EndsCancelled(p)
                                   ELSE ContinuesAt(p, "download")
  /\ UNCHANGED OnlyExecution

\* A missing object is an ordinary, retryable error.
Download(p) ==
  /\ Running(p, "download")
  /\ CASE Revoked(p) -> EndsCancelled(p)
       [] ~Revoked(p) /\ ~Queue!LeaseHeld(p) -> EndsLeaseLost(p)
       [] OTHER -> ContinuesAt(p, IF Doing(p) \in objects THEN "extract"
                                                         ELSE "recordRetryable")
  /\ UNCHANGED OnlyExecution

\* The cancellation monitor, and every check at a boundary of the pipeline.
ObserveRevocation(p) ==
  /\ runner[p].pc = "running"
  /\ stage[p] \in {"download", "extract", "analyze", "complete", "finalize"}
  /\ \/ Revoked(p) /\ EndsCancelled(p)
     \/ ~Revoked(p) /\ ~Queue!LeaseHeld(p) /\ EndsLeaseLost(p)
  /\ UNCHANGED OnlyExecution

\* Mutant: the status is written without looking at the one that is there.
StatusUnconditional(p, status) ==
  /\ Queue!LeaseHeld(p)
  /\ SetStatus(Doing(p), status)
  /\ job' = [job EXCEPT ![Doing(p)].stale = FALSE]

\* Mutant: the transaction does not renew the lease, and so not check it.
StatusUnfenced(p, status) ==
  /\ Live(Doing(p))
  /\ SetStatus(Doing(p), status)
  /\ UNCHANGED job

\* updateAnalysisStatus with an execution: one transaction moves an active
\* analysis on and renews the lease, or throws.
StatusTransaction(p, status) ==
  /\ Live(Doing(p)) /\ Queue!LeaseHeld(p)
  /\ SetStatus(Doing(p), status)
  /\ job' = [job EXCEPT ![Doing(p)].stale = FALSE]

StatusRefused(p) ==
  /\ \/ ~Live(Doing(p)) /\ EndsCancelled(p)
     \/ Live(Doing(p)) /\ ~Queue!LeaseHeld(p) /\ EndsLeaseLost(p)
  /\ UNCHANGED analysis

Advance(p, at, status, next) ==
  /\ Running(p, at)
  /\ \/ /\ StatusTransaction(p, status)
        /\ Enter(p, next)
        /\ UNCHANGED <<runner, claimant, expiries, faults>>
     \/ StatusRefused(p)
  /\ UNCHANGED <<objects, outbox, holder, requests, recovery, usageOnly>>

Extract(p)  == Advance(p, "extract", "EXTRACTING", "analyze")
Analyze(p)  == Advance(p, "analyze", "ANALYZING", "complete")
Complete(p) == Advance(p, "complete", "COMPLETING", "finalize")

\* Mutant: the end of the job is left to the runner's next statement.
FinalWithoutJob(p) ==
  LET s == Doing(p)
  IN  /\ Live(s) /\ Queue!LeaseHeld(p)
      /\ SetStatus(s, "COMPLETED")
      /\ ledger' = IF holder[Key(s)] = s THEN Usage!Settled(Key(s)) ELSE ledger
      /\ UNCHANGED job

\* finalizeGapAnalysisAttempt: result, quota and job in one transaction, which
\* a lost lease rolls back.
FinalTransaction(p) ==
  LET s == Doing(p)
  IN  /\ Live(s) /\ Queue!LeaseHeld(p)
      /\ SetStatus(s, "COMPLETED")
      /\ ledger' = IF holder[Key(s)] = s THEN Usage!Settled(Key(s)) ELSE ledger
      /\ job' = [job EXCEPT ![s] = Queue!Unlocked(@, "COMPLETED")]

Finalize(p) ==
  /\ Running(p, "finalize")
  /\ \/ /\ FinalTransaction(p)
        /\ Queue!Goto(p, "completing")
        /\ Enter(p, "none")
        /\ UNCHANGED <<claimant, expiries, faults>>
     \/ StatusRefused(p) /\ UNCHANGED ledger
  /\ UNCHANGED <<objects, outbox, holder, requests, recovery, counter, marker,
                 comp, refunds, stray>>

\* Any other error of a provider, the storage or the deadline.
PipelineFails(p) ==
  /\ runner[p].pc = "running"
  /\ stage[p] \in {"download", "extract", "analyze", "complete", "finalize"}
  /\ \E to \in {"recordRetryable", "recordFatal"} : ContinuesAt(p, to)
  /\ UNCHANGED OnlyExecution

\* The catch block of the pipeline records FAILED and throws the error on,
\* unless recording it throws.
RecordFailure(p) ==
  \E retryable \in BOOLEAN :
    /\ Running(p, IF retryable THEN "recordRetryable" ELSE "recordFatal")
    /\ \/ /\ StatusTransaction(p, "FAILED")
          /\ runner' = [runner EXCEPT ![p].pc = "failing",
                                      ![p].retryable = retryable]
          /\ Enter(p, "none")
          /\ UNCHANGED <<claimant, expiries, faults>>
       \/ StatusRefused(p)
    /\ UNCHANGED <<objects, outbox, holder, requests, recovery, usageOnly>>

-----------------------------------------------------------------------------
(* After the handler: what execute() does around the fenced transition.    *)

\* The statements of the runner that leave the analysis alone.
RunnerStep(p) ==
  /\ \/ Queue!MarkCompleted(p) \/ Queue!VerifyCompletion(p)
     \/ Queue!MarkCancelled(p) \/ Queue!MarkFailed(p)
     \/ recovery[p] = NoRecovery
        /\ (Queue!RequeueStaleLocks(p) \/ Queue!NothingToClaim(p))
  /\ UNCHANGED <<records, requests, execution, usageOnly>>

Settling(p, verdicts, at) ==
  /\ runner[p].pc = "settling"
  /\ runner[p].verdict \in verdicts
  /\ stage[p] = at

\* Mutant: only a cancelled job gives its quota back.
AfterFailureDone(p) == "done"

AfterFailure(p) == IF runner[p].verdict = "DEAD_LETTERED" THEN "refund" ELSE "done"

\* Mutant: the entity copies the job's status.
EntityStatusCopied(verdict) == verdict

EntityStatus(verdict) == IF verdict = "RETRYING" THEN "QUEUED" ELSE "FAILED"

\* The entity follows the job, unless it already left the active statuses.
UpdateEntity(p) ==
  /\ Settling(p, {"RETRYING", "DEAD_LETTERED"}, "none")
  /\ IF Live(Doing(p))
     THEN SetStatus(Doing(p), EntityStatus(runner[p].verdict))
     ELSE UNCHANGED analysis
  /\ Enter(p, AfterFailure(p))
  /\ UNCHANGED <<objects, outbox, holder, requests, recovery, queueOnly,
                 usageOnly, faults>>

\* Mutant: a failed attempt that will be retried gives the quota back as well.
RefundDueOnRetry(p) ==
  Settling(p, {"CANCELLED", "RETRYING"}, "none")
    \/ Settling(p, {"DEAD_LETTERED"}, "refund")

RefundDue(p) ==
  Settling(p, {"CANCELLED"}, "none") \/ Settling(p, {"DEAD_LETTERED"}, "refund")

\* A cancelled or dead-lettered job gives its quota back, by analysis id.
BeginRefund(p) ==
  /\ RefundDue(p)
  /\ IF holder[Key(Doing(p))] = Doing(p)
     THEN /\ Usage!BeginCompensation(p, Key(Doing(p))) /\ UNCHANGED stray
          /\ Enter(p, "refunding")
     ELSE ContinuesAt(p, "done") /\ UNCHANGED usageOnly
  /\ UNCHANGED <<records, requests, recovery, queueOnly>>

\* A failed compensation is logged.
EndRefund(p) ==
  /\ stage[p] = "refunding"
  /\ Usage!EndCompensation(p)
  /\ Enter(p, "done")
  /\ UNCHANGED <<records, requests, recovery, queueOnly, stray>>

FinishTick(p) ==
  /\ \/ Settling(p, {"COMPLETED"}, "none")
     \/ Settling(p, {"CANCELLED", "RETRYING", "DEAD_LETTERED"}, "done")
  /\ Queue!FinishTick(p)
  /\ Enter(p, "none")
  /\ UNCHANGED OnlyExecution

-----------------------------------------------------------------------------
(* Recovering: recoverAbandonedGapAnalyses, between the requeue and the    *)
(* claim of a tick.  `aged' stands for updatedAt being older than the      *)
(* depth's deadline plus the grace.                                        *)

\* Mutant: an analysis whose job was never enqueued is not looked at.
AbandonedWithJob(s) ==
  /\ Live(s) /\ analysis[s].aged
  /\ job[s].status \in {"CANCELLED", "DEAD_LETTERED"}

Abandoned(s) ==
  /\ Live(s) /\ analysis[s].aged
  /\ job[s].status \notin Queue!Waiting \cup {"RUNNING", "COMPLETED"}

ReadForRecovery(p) ==
  /\ runner[p].pc = "polling" /\ recovery[p] = NoRecovery
  /\ \E s \in Submissions :
       /\ Abandoned(s)
       /\ recovery' = [recovery EXCEPT ![p] =
            [of   |-> s,
             was  |-> analysis[s].status,
             next |-> IF job[s].status = "CANCELLED" THEN "CANCELLED" ELSE "FAILED"]]
  /\ UNCHANGED <<records, requests, stage, queueOnly, usageOnly, faults>>

\* The update requires the status that was read and an unchanged updatedAt.
Recover(p) ==
  LET r == recovery[p]
  IN  /\ r # NoRecovery
      /\ IF Live(r.of) /\ analysis[r.of].status = r.was /\ analysis[r.of].aged
         THEN SetStatus(r.of, r.next) ELSE UNCHANGED analysis
      /\ recovery' = [recovery EXCEPT ![p] = NoRecovery]
      /\ UNCHANGED <<objects, outbox, holder, requests, stage, queueOnly,
                     usageOnly, faults>>

-----------------------------------------------------------------------------
(* Time and faults.                                                        *)

AnalysisAges(s) ==
  /\ Live(s) /\ ~analysis[s].aged
  /\ analysis' = [analysis EXCEPT ![s].aged = TRUE]
  /\ UNCHANGED <<objects, outbox, holder, requests, execution, queueOnly,
                 usageOnly, faults>>

QueueTime(s) ==
  /\ Queue!RunAfterElapses(s) \/ Queue!AbandonedLockExpires(s)
  /\ UNCHANGED <<records, requests, execution, usageOnly>>

QueueFault(s) ==
  /\ Queue!HeartbeatStalls(s)
  /\ UNCHANGED <<records, requests, execution, usageOnly>>

Heartbeat(p) ==
  /\ Queue!Heartbeat(p)
  /\ UNCHANGED <<records, requests, execution, usageOnly>>

\* A runner's process dies in the middle of a tick.
RunnerCrashes(p) ==
  /\ Queue!Crash(p)
  /\ stage' = [stage EXCEPT ![p] = "none"]
  /\ recovery' = [recovery EXCEPT ![p] = NoRecovery]
  /\ comp' = [comp EXCEPT ![p] = Usage!NoCompensation]
  /\ UNCHANGED <<records, requests, ledger, counter, marker, refunds, stray>>

\* A request's process dies: nothing after the last statement happens.
RequestCrashes ==
  /\ Fault("crash")
  /\ \/ \E s \in Submissions :
          /\ submission[s].pc \notin {"new", "done", "reused", "failed"}
          /\ Proceed(s, "failed")
          /\ comp' = [comp EXCEPT ![s] = Usage!NoCompensation]
          /\ UNCHANGED deletion
     \/ \E d \in Deletions :
          /\ deletion[d].pc \notin {"new", "done"}
          /\ DeletionProceeds(d, "done")
          /\ UNCHANGED <<submission, comp>>
  /\ UNCHANGED <<records, execution, queueOnly, ledger, counter, marker, refunds,
                 stray>>

\* A PostgreSQL statement of the submission fails and has no effect, but for
\* the job, which is there when only the insert of its ENQUEUED event failed.
\* The look-up in the catch block of the router fails into the log.
SubmissionStatementFails(s) ==
  /\ Fault("database")
  /\ \/ /\ submission[s].pc \in {"create", "conflict"}
        /\ Proceed(s, "compensate") /\ UNCHANGED job
     \/ /\ submission[s].pc \in {"persist", "publish"}
        /\ Proceed(s, "cleanup") /\ UNCHANGED job
     \/ /\ At(s, "enqueue") /\ Proceed(s, "cleanup")
        /\ job' = Queue!Upserted(s) \/ UNCHANGED job
     \/ At(s, "markFailed") /\ Proceed(s, "compensate") /\ UNCHANGED job
     \/ /\ At(s, "compensate") /\ Scope[Key(s)] # "UNLIMITED"
        /\ Proceed(s, "failed") /\ UNCHANGED job
  /\ UNCHANGED <<records, deletion, execution, runner, claimant, expiries,
                 usageOnly>>

\* A PostgreSQL statement of the submission commits and its reply is lost: the
\* request goes on as if it had failed.
SubmissionReplyLost(s) ==
  /\ Fault("database")
  /\ \/ At(s, "create") /\ Inserted(s) /\ Proceed(s, "compensate")
     \/ /\ StillUploading(s) /\ Proceed(s, "cleanup")
        /\ \/ At(s, "persist") /\ SetReference(s)
           \/ At(s, "publish") /\ SetStatus(s, "QUEUED")
        /\ UNCHANGED <<holder, ledger>>
  /\ UNCHANGED <<objects, outbox, deletion, execution, queueOnly, counter,
                 marker, comp, refunds, stray>>

\* Object storage fails: an upload may or may not have stored the document.
SubmissionStorageFails(s) ==
  /\ Fault("storage")
  /\ \/ /\ At(s, "upload") /\ Proceed(s, "cleanup")
        /\ objects' = objects \cup {s} \/ UNCHANGED objects
     \/ At(s, "cleanup") /\ Proceed(s, "markFailed") /\ UNCHANGED objects
  /\ UNCHANGED <<analysis, outbox, holder, deletion, execution, queueOnly,
                 usageOnly>>

\* Redis counts for a paid plan, PostgreSQL for a trial.
CounterFault(s) ==
  /\ Key(s) # None /\ Scope[Key(s)] # "UNLIMITED"
  /\ Fault(IF Scope[Key(s)] = "REDIS" THEN "redis" ELSE "database")

\* The Redis client sends a command without a reply again, three times at most
\* (a fault each), and then throws.
SentAgain(s) == Scope[Key(s)] = "REDIS" /\ UNCHANGED submission

\* Reading or incrementing the counter fails, before usageReserved is set; an
\* increment without a reply may have taken effect.
ChargeFails(s) ==
  /\ CounterFault(s)
  /\ \/ /\ submission[s].pc \in {"check", "charge"}
        /\ Proceed(s, "failed") /\ UNCHANGED counter
     \/ /\ At(s, IF Scope[Key(s)] = "REDIS" THEN "charge" ELSE "check")
        /\ Scope[Key(s)] = "TRIAL" => ~Exceeds(s, Usage!Charged(Key(s)))
        /\ counter' = Usage!Charged(Key(s))
        /\ Proceed(s, "failed") \/ SentAgain(s)
  /\ UNCHANGED <<records, deletion, execution, queueOnly, ledger, marker, comp,
                 refunds, stray>>

\* A decrement fails.  That of a reused execution throws with usageReserved
\* still true, into the catch block; the others end the request.  A decrement
\* without a reply may have taken effect: sent again, or made good by the catch
\* block, it takes units that are not the request's.
GivingBackFails(s) ==
  LET thrown == IF At(s, "rollback") THEN "compensate" ELSE "failed"
  IN  /\ CounterFault(s)
      /\ submission[s].pc \in {"overLimit", "rollback", "rollbackFailed"}
      /\ \/ Proceed(s, thrown) /\ UNCHANGED <<counter, stray>>
         \/ /\ counter' = GivenBack(s)
            /\ (At(s, "rollback") /\ Proceed(s, thrown)) \/ SentAgain(s)
            /\ stray' = [stray EXCEPT ![Scope[Key(s)]] = @ + Units[Key(s)]]
      /\ UNCHANGED <<records, deletion, execution, queueOnly, ledger, marker,
                     comp, refunds>>

CompletionFails(p) ==
  /\ Queue!CompletionFails(p)
  /\ UNCHANGED <<records, requests, execution, usageOnly>>

CompensationFails(c) ==
  /\ Usage!CompensationFault(c)
  /\ UNCHANGED <<records, requests, execution, queueOnly, stray>>

\* updateAnalysisStatus and the entity update swallow a failing database: the
\* execution goes on as if the status had been written.
StatusWriteFails(p) ==
  /\ Fault("database")
  /\ \/ /\ runner[p].pc = "running"
        /\ \E step \in {<<"extract", "analyze">>, <<"analyze", "complete">>,
                        <<"complete", "finalize">>} :
             stage[p] = step[1] /\ Enter(p, step[2])
        /\ UNCHANGED runner
     \/ \E retryable \in BOOLEAN :
          /\ Running(p, IF retryable THEN "recordRetryable" ELSE "recordFatal")
          /\ runner' = [runner EXCEPT ![p].pc = "failing",
                                      ![p].retryable = retryable]
          /\ Enter(p, "none")
     \/ /\ Settling(p, {"RETRYING", "DEAD_LETTERED"}, "none")
        /\ Enter(p, AfterFailure(p))
        /\ UNCHANGED runner
  /\ UNCHANGED <<records, requests, recovery, job, claimant, expiries, usageOnly>>

\* The final transaction commits and its reply is lost: the pipeline sees an
\* error although the result is there.
FinalReplyLost(p) ==
  /\ Running(p, "finalize")
  /\ Fault("database")
  /\ FinalTransaction(p)
  /\ Enter(p, "recordRetryable")
  /\ UNCHANGED <<objects, outbox, holder, requests, recovery, runner, claimant,
                 expiries, counter, marker, comp, refunds, stray>>

-----------------------------------------------------------------------------
SubmissionProceeds(s) ==
  \/ Dedupe(s) \/ ResolveUsage(s) \/ ReserveUnits(s) \/ UndoOverLimit(s)
  \/ CreateRecord(s) \/ ResolveConflict(s) \/ RollbackReused(s)
  \/ Upload(s) \/ PersistReference(s) \/ EnqueueJob(s) \/ Publish(s)
  \/ Cleanup(s) \/ MarkSubmissionFailed(s)
  \/ Compensate(s) \/ FinishCompensation(s) \/ RollbackFailed(s)

DeletionStep(d) ==
  \/ RevokeAnalysis(d) \/ CancelJobs(d) \/ PublishDeletion(d)

\* The pipeline's own progress and the runner's statements.
ExecutionStep(p) ==
  \/ Claim(p) \/ Authorize(p) \/ Download(p)
  \/ Extract(p) \/ Analyze(p) \/ Complete(p) \/ Finalize(p)
  \/ RecordFailure(p) \/ RunnerStep(p)
  \/ UpdateEntity(p) \/ BeginRefund(p) \/ EndRefund(p) \/ FinishTick(p)
  \/ Recover(p)

FaultStep ==
  \/ RequestCrashes
  \/ \E s \in Submissions : \/ QueueFault(s) \/ SubmissionStatementFails(s)
                            \/ SubmissionReplyLost(s) \/ SubmissionStorageFails(s)
                            \/ ChargeFails(s) \/ GivingBackFails(s)
  \/ \E c \in Submissions \cup Processes : CompensationFails(c)
  \/ \E p \in Processes :
       \/ RunnerCrashes(p) \/ CompletionFails(p)
       \/ StatusWriteFails(p) \/ FinalReplyLost(p)

Next ==
  \/ \E s \in Submissions : SubmissionProceeds(s) \/ AnalysisAges(s) \/ QueueTime(s)
  \/ \E d \in Deletions : ReadForDeletion(d) \/ DeletionStep(d)
  \/ \E c \in Submissions \cup Processes : Compensating(c)
  \/ \E p \in Processes : \/ ExecutionStep(p) \/ ReadForRecovery(p)
                          \/ ObserveRevocation(p) \/ PipelineFails(p)
                          \/ Heartbeat(p)
  \/ FaultStep

Spec == Init /\ [][Next]_vars

\* Requests that arrived are worked on, runners poll and their statements
\* return, sweeps run and time passes.  No fault, no deletion and no error of
\* the pipeline has to happen.
Fairness ==
  /\ \A s \in Submissions : /\ WF_vars(SubmissionProceeds(s))
                            /\ WF_vars(AnalysisAges(s))
                            /\ WF_vars(QueueTime(s))
  /\ \A d \in Deletions : WF_vars(DeletionStep(d))
  /\ \A c \in Submissions \cup Processes : WF_vars(Compensating(c))
  /\ \A p \in Processes : /\ WF_vars(ExecutionStep(p))
                          /\ SF_vars(ReadForRecovery(p))

LiveSpec == Spec /\ Fairness
=============================================================================
