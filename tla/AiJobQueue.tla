----------------------------- MODULE AiJobQueue -----------------------------
(***************************************************************************)
(* The durable AI job queue: rows of the AiJob table, and the processes    *)
(* that poll it (AiJobRunner in ai-job-runner.ts, the lease in             *)
(* ai-job-lease.ts).  One step is one database statement of the runner;    *)
(* everything between two statements may interleave with other processes.  *)
(*                                                                         *)
(* What a handler does while it runs is left to the module that uses this  *)
(* one; here it ends by returning or by throwing any of its errors.        *)
(*                                                                         *)
(* Time is abstracted to two flags of a row: `due' (runAfter has passed)   *)
(* and `stale' (lockedAt is older than AI_JOB_STALE_LOCK_MS).              *)
(***************************************************************************)
EXTENDS Integers, FiniteSets

CONSTANTS
  Jobs,         \* rows the application may enqueue, by idempotency key
  Processes,    \* server processes that run an AiJobRunner
  WorkerId,     \* WorkerId[p]: the value hostname:pid of process p
  NoProcess,    \* stands for a NULL lockedBy, and for "nobody yet"
  MaxAttempts,  \* AiJob.maxAttempts
  FaultKinds,   \* the faults injected: some of crash, heartbeat, database
  MaxFaults     \* bound: how many of them

ASSUME QueueAssumption ==
  /\ MaxAttempts \in Nat \ {0}
  /\ MaxFaults \in Nat
  /\ NoProcess \notin Processes
  /\ \A p \in Processes : WorkerId[p] # NoProcess

VARIABLES
  job,       \* the AiJob table
  runner,    \* the control state of each process's AiJobRunner
  claimant,  \* history: the process that made the last claim of a job
  expiries,  \* history: how often a job's lock was taken away as stale
  faults     \* history: faults injected so far

queueVars == <<job, runner, claimant, expiries, faults>>

Waiting  == {"QUEUED", "RETRYING"}
Terminal == {"COMPLETED", "CANCELLED", "DEAD_LETTERED"}
JobStatus == {"ABSENT", "RUNNING"} \cup Waiting \cup Terminal

\* Control states in which execute() holds a lease object and its heartbeat
\* timer is running.
Executing == {"running", "completing", "verifying", "cancelling", "failing",
              "settling"}

WorkerIds == {WorkerId[p] : p \in Processes}

JobRow == [status   : JobStatus,
           lockedBy : WorkerIds \cup {NoProcess},
           attempts : Nat,
           due      : BOOLEAN,
           stale    : BOOLEAN]

\* What execute() keeps in local variables: the claimed job, the fencing token,
\* whether the caught error is retryable, and the status it has written.
Execution == [pc        : Executing,
              job       : Jobs,
              attempt   : Nat,
              retryable : BOOLEAN,
              verdict   : {"RUNNING", "RETRYING"} \cup Terminal]

Idle    == [pc |-> "idle"]
Polling == [pc |-> "polling"]

QueueTypeOK ==
  /\ job \in [Jobs -> JobRow]
  /\ runner \in [Processes -> {Idle, Polling} \cup Execution]
  /\ claimant \in [Jobs -> Processes \cup {NoProcess}]
  /\ expiries \in [Jobs -> Nat]
  /\ faults \in 0 .. MaxFaults

AbsentRow == [status |-> "ABSENT", lockedBy |-> NoProcess, attempts |-> 0,
              due |-> FALSE, stale |-> FALSE]

QueueInit ==
  /\ job = [j \in Jobs |-> AbsentRow]
  /\ runner = [p \in Processes |-> Idle]
  /\ claimant = [j \in Jobs |-> NoProcess]
  /\ expiries = [j \in Jobs |-> 0]
  /\ faults = 0

-----------------------------------------------------------------------------
(* The lease of an execution and the writes it guards.                     *)

\* Mutant: the lease is the worker's name alone, without the fencing token.
LeaseHeldByName(p) ==
  LET row == job[runner[p].job]
  IN  row.status = "RUNNING" /\ row.lockedBy = WorkerId[p]

\* aiJobLeaseWhere: the row still belongs to this execution generation.
LeaseHeld(p) ==
  LET row == job[runner[p].job]
  IN  /\ row.status = "RUNNING"
      /\ row.lockedBy = WorkerId[p]
      /\ row.attempts = runner[p].attempt

Goto(p, pc) == runner' = [runner EXCEPT ![p].pc = pc]
Return(p) == runner' = [runner EXCEPT ![p] = Idle]

\* Mutant: a row that is put back starts its attempts anew.
UnlockedAfresh(row, status) ==
  [row EXCEPT !.status = status, !.lockedBy = NoProcess, !.stale = FALSE,
              !.attempts = 0]

\* A transition out of RUNNING clears lockedAt and lockedBy.
Unlocked(row, status) ==
  [row EXCEPT !.status = status, !.lockedBy = NoProcess, !.stale = FALSE]

-----------------------------------------------------------------------------
(* The application side.                                                   *)

\* enqueue(): an upsert on the idempotency key whose update is empty, so a
\* second enqueue of the same key leaves the row as it is.
Upserted(j) ==
  [job EXCEPT ![j] = IF @.status = "ABSENT"
                     THEN [@ EXCEPT !.status = "QUEUED", !.due = TRUE]
                     ELSE @]

Enqueue(j) ==
  /\ job[j].status = "ABSENT"
  /\ job' = Upserted(j)
  /\ UNCHANGED <<runner, claimant, expiries, faults>>

\* deleteGapAnalysis cancels the jobs of the analysis without asking the worker.
CancelByOwner(j) ==
  /\ job[j].status \in Waiting \cup {"RUNNING"}
  /\ job' = [job EXCEPT ![j] = Unlocked(@, "CANCELLED")]
  /\ UNCHANGED <<runner, claimant, expiries, faults>>

-----------------------------------------------------------------------------
(* One tick of a runner.                                                   *)

\* Mutant: crash recovery stops at maxAttempts and leaves the row RUNNING.
RequeueWithinBudget(p) ==
  LET expired == {j \in Jobs : /\ job[j].status = "RUNNING" /\ job[j].stale
                               /\ job[j].attempts < MaxAttempts}
  IN  /\ runner[p].pc = "idle"
      /\ job' = [j \in Jobs |->
                   IF j \in expired
                   THEN [Unlocked(job[j], "RETRYING") EXCEPT !.due = TRUE]
                   ELSE job[j]]
      /\ expiries' = [j \in Jobs |->
                        IF j \in expired THEN expiries[j] + 1 ELSE expiries[j]]
      /\ runner' = [runner EXCEPT ![p] = Polling]
      /\ UNCHANGED <<claimant, faults>>

\* requeueStaleLocks: every RUNNING row with an old lock goes back, whatever
\* its attempts.
RequeueStaleLocks(p) ==
  LET expired == {j \in Jobs : job[j].status = "RUNNING" /\ job[j].stale}
  IN  /\ runner[p].pc = "idle"
      /\ job' = [j \in Jobs |->
                   IF j \in expired
                   THEN [Unlocked(job[j], "RETRYING") EXCEPT !.due = TRUE]
                   ELSE job[j]]
      /\ expiries' = [j \in Jobs |->
                        IF j \in expired THEN expiries[j] + 1 ELSE expiries[j]]
      /\ runner' = [runner EXCEPT ![p] = Polling]
      /\ UNCHANGED <<claimant, faults>>

\* Mutant: the claim does not look at who has the row.
ClaimableWhileRunning(j) == job[j].status \in Waiting \cup {"RUNNING"}

Claimable(j) == job[j].status \in Waiting /\ job[j].due

\* claimNextJob: FOR UPDATE SKIP LOCKED picks one waiting row.  Rows another
\* process holds locked are skipped, so the pick is not bound to the ORDER BY.
ClaimNextJob(p) ==
  /\ runner[p].pc = "polling"
  /\ \E j \in Jobs :
       /\ Claimable(j)
       /\ job' = [job EXCEPT ![j].status   = "RUNNING",
                             ![j].lockedBy = WorkerId[p],
                             ![j].attempts = @ + 1,
                             ![j].due      = FALSE,
                             ![j].stale    = FALSE]
       /\ runner' = [runner EXCEPT ![p] =
                       [pc |-> "running", job |-> j,
                        attempt |-> job[j].attempts + 1,
                        retryable |-> FALSE, verdict |-> "RUNNING"]]
       /\ claimant' = [claimant EXCEPT ![j] = p]
  /\ UNCHANGED <<expiries, faults>>

NothingToClaim(p) ==
  /\ runner[p].pc = "polling"
  /\ \A j \in Jobs : ~Claimable(j)
  /\ Return(p)
  /\ UNCHANGED <<job, claimant, expiries, faults>>

\* The heartbeat timer: renewAiJobLease touches only a row the lease matches.
\* A failed renewal is logged; the handler is not interrupted.
Heartbeat(p) ==
  /\ runner[p].pc \in Executing
  /\ LeaseHeld(p)
  /\ job[runner[p].job].stale
  /\ job' = [job EXCEPT ![runner[p].job].stale = FALSE]
  /\ UNCHANGED <<runner, claimant, expiries, faults>>

\* updateProgress: the fenced write found no row, so the handler stops here.
ProgressFenced(p) ==
  /\ runner[p].pc = "running"
  /\ ~LeaseHeld(p)
  /\ Return(p)
  /\ UNCHANGED <<job, claimant, expiries, faults>>

HandlerReturns(p) ==
  /\ runner[p].pc = "running"
  /\ Goto(p, "completing")
  /\ UNCHANGED <<job, claimant, expiries, faults>>

\* A GapAnalysisCancelledError and any other error take different branches of
\* the catch; an AiJobLeaseLostError just ends the execution (ProgressFenced).
HandlerCancelled(p) ==
  /\ runner[p].pc = "running"
  /\ Goto(p, "cancelling")
  /\ UNCHANGED <<job, claimant, expiries, faults>>

HandlerThrows(p, retryable) ==
  /\ runner[p].pc = "running"
  /\ runner' = [runner EXCEPT ![p].pc = "failing", ![p].retryable = retryable]
  /\ UNCHANGED <<job, claimant, expiries, faults>>

\* A handler may complete its job in the transaction that writes its result
\* (finalizeGapAnalysisAttempt); the runner finds it completed.
HandlerFinalizes(p) ==
  /\ runner[p].pc = "running"
  /\ LeaseHeld(p)
  /\ job' = [job EXCEPT ![runner[p].job] = Unlocked(@, "COMPLETED")]
  /\ Goto(p, "completing")
  /\ UNCHANGED <<claimant, expiries, faults>>

-----------------------------------------------------------------------------
(* The fenced transitions that end an execution.                           *)

\* Mutant: the ending updates the row by its id alone.
EndExecutionUnfenced(p, status) ==
  /\ job' = [job EXCEPT ![runner[p].job] = Unlocked(@, status)]
  /\ runner' = [runner EXCEPT ![p].pc = "settling", ![p].verdict = status]

\* The compare-and-set every ending shares: it writes when the lease matches
\* (EndExecution) and leaves the row alone when it matches no row.
EndExecution(p, status) ==
  /\ LeaseHeld(p)
  /\ job' = [job EXCEPT ![runner[p].job] = Unlocked(@, status)]
  /\ runner' = [runner EXCEPT ![p].pc = "settling", ![p].verdict = status]

Fenced(p) == ~LeaseHeld(p) /\ UNCHANGED job

MarkCompleted(p) ==
  /\ runner[p].pc = "completing"
  /\ \/ EndExecution(p, "COMPLETED")
     \/ Fenced(p) /\ Goto(p, "verifying")
  /\ UNCHANGED <<claimant, expiries, faults>>

\* Zero rows were updated.  The handler may have completed the job itself in
\* its own transaction; any other reason means the lease is lost.
VerifyCompletion(p) ==
  LET row == job[runner[p].job]
  IN  /\ runner[p].pc = "verifying"
      /\ IF row.status = "COMPLETED" /\ row.attempts = runner[p].attempt
         THEN runner' = [runner EXCEPT ![p].pc = "settling",
                                       ![p].verdict = "COMPLETED"]
         ELSE Return(p)
      /\ UNCHANGED <<job, claimant, expiries, faults>>

MarkCancelled(p) ==
  /\ runner[p].pc = "cancelling"
  /\ \/ EndExecution(p, "CANCELLED")
     \/ Fenced(p) /\ Return(p)
  /\ UNCHANGED <<claimant, expiries, faults>>

\* Mutant: one attempt too many.
ExhaustedLate(p) == ~runner[p].retryable \/ runner[p].attempt > MaxAttempts

Exhausted(p) == ~runner[p].retryable \/ runner[p].attempt >= MaxAttempts

MarkFailed(p) ==
  /\ runner[p].pc = "failing"
  /\ \/ EndExecution(p, IF Exhausted(p) THEN "DEAD_LETTERED" ELSE "RETRYING")
     \/ Fenced(p) /\ Return(p)
  /\ UNCHANGED <<claimant, expiries, faults>>

\* Payload scrubbing, the entity update, refunds and the job event follow the
\* transition; then the tick is over.
FinishTick(p) ==
  /\ runner[p].pc = "settling"
  /\ Return(p)
  /\ UNCHANGED <<job, claimant, expiries, faults>>

-----------------------------------------------------------------------------
(* Time and faults.                                                        *)

Fault(kind) ==
  kind \in FaultKinds /\ faults < MaxFaults /\ faults' = faults + 1

\* The retry delay of a RETRYING row elapses.
RunAfterElapses(j) ==
  /\ job[j].status = "RETRYING" /\ ~job[j].due
  /\ job' = [job EXCEPT ![j].due = TRUE]
  /\ UNCHANGED <<runner, claimant, expiries, faults>>

Renewed(j) == \E p \in Processes : /\ runner[p].pc \in Executing
                                   /\ runner[p].job = j
                                   /\ LeaseHeld(p)

\* A lock nobody renews becomes stale.
AbandonedLockExpires(j) ==
  /\ job[j].status = "RUNNING" /\ ~job[j].stale
  /\ ~Renewed(j)
  /\ job' = [job EXCEPT ![j].stale = TRUE]
  /\ UNCHANGED <<runner, claimant, expiries, faults>>

\* Heartbeats fail for longer than the stale-lock time while the handler is
\* still at work: a paused process, or a database it cannot reach.
HeartbeatStalls(j) ==
  /\ job[j].status = "RUNNING" /\ ~job[j].stale
  /\ Renewed(j)
  /\ Fault("heartbeat")
  /\ job' = [job EXCEPT ![j].stale = TRUE]
  /\ UNCHANGED <<runner, claimant, expiries>>

\* The statements that complete the job are inside execute()'s try block: when
\* one fails, its effect there or not, the catch block takes the handler to
\* have failed.
CompletionFails(p) ==
  /\ runner[p].pc \in {"completing", "verifying"}
  /\ Fault("database")
  /\ \/ /\ runner[p].pc = "completing" /\ LeaseHeld(p)
        /\ job' = [job EXCEPT ![runner[p].job] = Unlocked(@, "COMPLETED")]
     \/ UNCHANGED job
  /\ runner' = [runner EXCEPT ![p].pc = "failing", ![p].retryable = TRUE]
  /\ UNCHANGED <<claimant, expiries>>

\* The process dies and its successor starts with an idle runner.  The same
\* step is what an execution leaves behind when a statement outside the try
\* block fails (the STARTED event, a transition of the catch block): execute()
\* rejects and the row stays as it is.
Crash(p) ==
  /\ runner[p].pc # "idle"
  /\ Fault("crash")
  /\ Return(p)
  /\ UNCHANGED <<job, claimant, expiries>>

-----------------------------------------------------------------------------
\* Steps of process p other than claims, heartbeats and the handler's end.
Bookkeeping(p) ==
  \/ RequeueStaleLocks(p) \/ NothingToClaim(p)
  \/ ProgressFenced(p)
  \/ MarkCompleted(p) \/ VerifyCompletion(p)
  \/ MarkCancelled(p) \/ MarkFailed(p)
  \/ FinishTick(p)

HandlerEnds(p) ==
  \/ HandlerReturns(p) \/ HandlerFinalizes(p) \/ HandlerCancelled(p)
  \/ \E retryable \in BOOLEAN : HandlerThrows(p, retryable)

QueueNext ==
  \/ \E j \in Jobs :
       \/ Enqueue(j) \/ CancelByOwner(j)
       \/ RunAfterElapses(j) \/ AbandonedLockExpires(j) \/ HeartbeatStalls(j)
  \/ \E p \in Processes :
       \/ Bookkeeping(p) \/ ClaimNextJob(p) \/ HandlerEnds(p)
       \/ Heartbeat(p) \/ CompletionFails(p) \/ Crash(p)

\* The timers of a live process fire, its statements return, a handler ends
\* (each has a deadline), and time passes.  Nothing is assumed of faults, of
\* heartbeats or of the application.
QueueFairness ==
  /\ \A p \in Processes : /\ WF_queueVars(Bookkeeping(p))
                          /\ WF_queueVars(ClaimNextJob(p))
                          /\ WF_queueVars(HandlerEnds(p))
  /\ \A j \in Jobs : /\ WF_queueVars(RunAfterElapses(j))
                     /\ WF_queueVars(AbandonedLockExpires(j))

QueueSpec == QueueInit /\ [][QueueNext]_queueVars
LiveQueueSpec == QueueSpec /\ QueueFairness
=============================================================================
