-------------------------- MODULE AiJobQueueProofs --------------------------
(***************************************************************************)
(* Proofs that AiJobQueue has the safety properties of                     *)
(* AiJobQueueProperties, for any number of jobs, processes, attempts and   *)
(* faults.                                                                 *)
(***************************************************************************)
EXTENDS AiJobQueueProperties, TLAPS

-----------------------------------------------------------------------------
(* The three places a step can leave a job row and a runner in.            *)

\* Unlocking a row that is there gives a row again.
LEMMA UnlockedType ==
  ASSUME NEW row \in JobRow, NEW status \in JobStatus
  PROVE  Unlocked(row, status) \in JobRow
BY DEF Unlocked, JobRow

\* A control state in Executing means a whole execution record is there.
LEMMA ExecutingRecord ==
  ASSUME QueueTypeOK, NEW p \in Processes, runner[p].pc \in Executing
  PROVE  runner[p] \in Execution
BY DEF QueueTypeOK, Idle, Polling, Executing

\* The shared ending of an execution keeps the types.
LEMMA EndExecutionType ==
  ASSUME QueueTypeOK, NEW p \in Processes, runner[p].pc \in Executing,
         NEW status \in {"RETRYING"} \cup Terminal,
         EndExecution(p, status)
  PROVE  /\ job' \in [Jobs -> JobRow]
         /\ runner' \in [Processes -> {Idle, Polling} \cup Execution]
<1>1. runner[p] \in Execution
  BY ExecutingRecord
<1>2. job[runner[p].job] \in JobRow /\ status \in JobStatus
  BY <1>1 DEF QueueTypeOK, Execution, JobStatus, Waiting, Terminal
<1>3. Unlocked(job[runner[p].job], status) \in JobRow
  BY <1>2, UnlockedType
<1>4. [runner[p] EXCEPT !.pc = "settling", !.verdict = status] \in Execution
  BY <1>1 DEF Execution, Executing
<1> QED
  BY <1>3, <1>4 DEF EndExecution, QueueTypeOK

\* A jump of an execution to another of its control states keeps the types.
LEMMA GotoType ==
  ASSUME QueueTypeOK, NEW p \in Processes, runner[p].pc \in Executing,
         NEW pc \in Executing, Goto(p, pc)
  PROVE  runner' \in [Processes -> {Idle, Polling} \cup Execution]
<1>1. [runner[p] EXCEPT !.pc = pc] \in Execution
  BY ExecutingRecord DEF Execution
<1> QED
  BY <1>1 DEF Goto, QueueTypeOK

\* The completion of a job by its execution, before the runner knows of it.
LEMMA CompletedType ==
  ASSUME QueueTypeOK, NEW p \in Processes, runner[p].pc \in Executing,
         job' = [job EXCEPT ![runner[p].job] = Unlocked(@, "COMPLETED")]
  PROVE  job' \in [Jobs -> JobRow]
<1>1. job[runner[p].job] \in JobRow
  BY ExecutingRecord DEF QueueTypeOK, Execution
<1>2. Unlocked(job[runner[p].job], "COMPLETED") \in JobRow
  BY <1>1, UnlockedType DEF JobStatus, Terminal
<1> QED
  BY <1>2 DEF QueueTypeOK

LEMMA ReturnType ==
  ASSUME QueueTypeOK, NEW p \in Processes, Return(p)
  PROVE  runner' \in [Processes -> {Idle, Polling} \cup Execution]
BY DEF Return, QueueTypeOK

-----------------------------------------------------------------------------
(* Type correctness.                                                       *)

LEMMA TypeInit == QueueInit => QueueTypeOK
BY QueueAssumption DEF QueueInit, QueueTypeOK, AbsentRow, JobRow, JobStatus

\* Steps of a job row that no execution takes.
LEMMA TypeJobSteps ==
  ASSUME QueueTypeOK, NEW j \in Jobs,
         \/ Enqueue(j) \/ CancelByOwner(j) \/ RunAfterElapses(j)
         \/ AbandonedLockExpires(j) \/ HeartbeatStalls(j)
  PROVE  QueueTypeOK'
<1> USE DEF QueueTypeOK
<1>1. CASE Enqueue(j)
  BY <1>1 DEF Enqueue, Upserted, JobRow, JobStatus, Waiting
<1>2. CASE CancelByOwner(j)
  <2>1. Unlocked(job[j], "CANCELLED") \in JobRow
    BY UnlockedType DEF JobStatus, Terminal
  <2> QED
    BY <1>2, <2>1 DEF CancelByOwner
<1>3. CASE RunAfterElapses(j)
  BY <1>3 DEF RunAfterElapses, JobRow
<1>4. CASE AbandonedLockExpires(j)
  BY <1>4 DEF AbandonedLockExpires, JobRow
<1>5. CASE HeartbeatStalls(j)
  <2>1. job' \in [Jobs -> JobRow]
    BY <1>5 DEF HeartbeatStalls, JobRow
  <2>2. faults' \in 0 .. MaxFaults
    BY <1>5, QueueAssumption DEF HeartbeatStalls, Fault
  <2> QED
    BY <1>5, <2>1, <2>2 DEF HeartbeatStalls
<1> QED
  BY <1>1, <1>2, <1>3, <1>4, <1>5

\* The sweep of stale locks and the claim of a row.
LEMMA TypePolling ==
  ASSUME QueueTypeOK, NEW p \in Processes,
         RequeueStaleLocks(p) \/ ClaimNextJob(p) \/ NothingToClaim(p)
  PROVE  QueueTypeOK'
<1> USE DEF QueueTypeOK
<1>1. CASE RequeueStaleLocks(p)
  <2>1. ASSUME NEW j \in Jobs
        PROVE  [Unlocked(job[j], "RETRYING") EXCEPT !.due = TRUE] \in JobRow
    <3>1. Unlocked(job[j], "RETRYING") \in JobRow
      BY UnlockedType DEF JobStatus, Waiting
    <3> QED
      BY <3>1 DEF JobRow
  <2> QED
    BY <1>1, <2>1 DEF RequeueStaleLocks
<1>2. CASE ClaimNextJob(p)
  <2>1. PICK j \in Jobs :
          /\ job' = [job EXCEPT ![j].status   = "RUNNING",
                                ![j].lockedBy = WorkerId[p],
                                ![j].attempts = @ + 1,
                                ![j].due      = FALSE,
                                ![j].stale    = FALSE]
          /\ runner' = [runner EXCEPT ![p] =
                          [pc |-> "running", job |-> j,
                           attempt |-> job[j].attempts + 1,
                           retryable |-> FALSE, verdict |-> "RUNNING"]]
          /\ claimant' = [claimant EXCEPT ![j] = p]
    BY <1>2 DEF ClaimNextJob
  <2>2. job' \in [Jobs -> JobRow]
    BY <2>1 DEF JobRow, JobStatus, WorkerIds
  <2>3. job[j].attempts + 1 \in Nat
    BY DEF JobRow
  <2>4. runner' \in [Processes -> {Idle, Polling} \cup Execution]
    BY <2>1, <2>3 DEF Execution, Executing
  <2> QED
    BY <1>2, <2>1, <2>2, <2>4 DEF ClaimNextJob
<1>3. CASE NothingToClaim(p)
  BY <1>3, ReturnType DEF NothingToClaim
<1> QED
  BY <1>1, <1>2, <1>3

\* The end of a handler, the heartbeat and the fenced transitions.
LEMMA TypeExecution ==
  ASSUME QueueTypeOK, NEW p \in Processes,
         \/ ProgressFenced(p) \/ HandlerEnds(p) \/ Heartbeat(p)
         \/ MarkCompleted(p) \/ VerifyCompletion(p) \/ MarkCancelled(p)
         \/ MarkFailed(p) \/ FinishTick(p) \/ CompletionFails(p) \/ Crash(p)
  PROVE  QueueTypeOK'
<1> USE DEF QueueTypeOK
<1>1. CASE ProgressFenced(p)
  BY <1>1, ReturnType DEF ProgressFenced
<1>2. CASE HandlerReturns(p)
  BY <1>2, GotoType DEF HandlerReturns, Executing
<1>3. CASE HandlerCancelled(p)
  BY <1>3, GotoType DEF HandlerCancelled, Executing
<1>4. ASSUME NEW retryable \in BOOLEAN, HandlerThrows(p, retryable)
      PROVE  QueueTypeOK'
  <2>1. runner[p] \in Execution
    BY <1>4, ExecutingRecord DEF HandlerThrows, Executing
  <2>2. [runner[p] EXCEPT !.pc = "failing", !.retryable = retryable] \in Execution
    BY <2>1 DEF Execution, Executing
  <2> QED
    BY <1>4, <2>2 DEF HandlerThrows
<1>5. CASE Heartbeat(p)
  <2>1. runner[p].job \in Jobs
    BY <1>5, ExecutingRecord DEF Heartbeat, Execution
  <2> QED
    BY <1>5, <2>1 DEF Heartbeat, JobRow
<1>6. CASE MarkCompleted(p)
  <2>1. runner[p].pc \in Executing
    BY <1>6 DEF MarkCompleted, Executing
  <2>2. CASE EndExecution(p, "COMPLETED")
    BY <1>6, <2>1, <2>2, EndExecutionType DEF MarkCompleted, Terminal
  <2>3. CASE Fenced(p) /\ Goto(p, "verifying")
    BY <1>6, <2>1, <2>3, GotoType DEF MarkCompleted, Fenced, Executing
  <2> QED
    BY <1>6, <2>2, <2>3 DEF MarkCompleted
<1>7. CASE VerifyCompletion(p)
  <2>1. runner[p] \in Execution
    BY <1>7, ExecutingRecord DEF VerifyCompletion, Executing
  <2>2. [runner[p] EXCEPT !.pc = "settling", !.verdict = "COMPLETED"] \in Execution
    BY <2>1 DEF Execution, Executing, Terminal
  <2>3. runner' \in [Processes -> {Idle, Polling} \cup Execution]
    BY <1>7, <2>2, ReturnType DEF VerifyCompletion
  <2> QED
    BY <1>7, <2>3 DEF VerifyCompletion
<1>8. CASE MarkCancelled(p)
  <2>1. runner[p].pc \in Executing
    BY <1>8 DEF MarkCancelled, Executing
  <2>2. CASE EndExecution(p, "CANCELLED")
    BY <1>8, <2>1, <2>2, EndExecutionType DEF MarkCancelled, Terminal
  <2>3. CASE Fenced(p) /\ Return(p)
    BY <1>8, <2>3, ReturnType DEF MarkCancelled, Fenced
  <2> QED
    BY <1>8, <2>2, <2>3 DEF MarkCancelled
<1>9. CASE MarkFailed(p)
  <2>1. runner[p].pc \in Executing
    BY <1>9 DEF MarkFailed, Executing
  <2> DEFINE status == IF Exhausted(p) THEN "DEAD_LETTERED" ELSE "RETRYING"
  <2>2. CASE EndExecution(p, status)
    <3>1. status \in {"RETRYING"} \cup Terminal
      BY DEF Terminal
    <3> HIDE DEF status
    <3> QED
      BY <1>9, <2>1, <2>2, <3>1, EndExecutionType DEF MarkFailed
  <2>3. CASE Fenced(p) /\ Return(p)
    BY <1>9, <2>3, ReturnType DEF MarkFailed, Fenced
  <2> QED
    BY <1>9, <2>2, <2>3 DEF MarkFailed
<1>10. CASE FinishTick(p)
  BY <1>10, ReturnType DEF FinishTick
<1>11. CASE Crash(p)
  BY <1>11, ReturnType, QueueAssumption DEF Crash, Fault
<1>12. CASE HandlerFinalizes(p)
  BY <1>12, GotoType, CompletedType DEF HandlerFinalizes, Executing
<1>13. CASE CompletionFails(p)
  <2>1. runner[p] \in Execution /\ runner[p].pc \in Executing
    BY <1>13, ExecutingRecord DEF CompletionFails, Executing
  <2>2. [runner[p] EXCEPT !.pc = "failing", !.retryable = TRUE] \in Execution
    BY <2>1 DEF Execution, Executing
  <2>3. runner' \in [Processes -> {Idle, Polling} \cup Execution]
    BY <1>13, <2>2 DEF CompletionFails
  <2>4. job' \in [Jobs -> JobRow]
    BY <1>13, <2>1, CompletedType DEF CompletionFails
  <2>5. faults' \in 0 .. MaxFaults
    BY <1>13, QueueAssumption DEF CompletionFails, Fault
  <2> QED
    BY <1>13, <2>3, <2>4, <2>5 DEF CompletionFails
<1> QED
  BY <1>1, <1>2, <1>3, <1>4, <1>5, <1>6, <1>7, <1>8, <1>9, <1>10, <1>11, <1>12,
     <1>13
     DEF HandlerEnds

LEMMA TypeStep == QueueTypeOK /\ [QueueNext]_queueVars => QueueTypeOK'
<1> SUFFICES ASSUME QueueTypeOK, [QueueNext]_queueVars
             PROVE  QueueTypeOK'
  OBVIOUS
<1>1. CASE UNCHANGED queueVars
  BY <1>1 DEF queueVars, QueueTypeOK
<1>2. CASE QueueNext
  BY <1>2, TypeJobSteps, TypePolling, TypeExecution DEF QueueNext, Bookkeeping
<1> QED
  BY <1>1, <1>2

\* The table and the runners always hold values of their types: in particular
\* an execution keeps the job and the fencing token it claimed until it ends.
THEOREM QueueTypeCorrect == QueueSpec => []QueueTypeOK
BY TypeInit, TypeStep, PTL DEF QueueSpec

-----------------------------------------------------------------------------
(* The inductive invariant.                                                *)

LEMMA InvariantInit == QueueInit => QueueInvariant
<1> SUFFICES ASSUME QueueInit PROVE QueueInvariant
  OBVIOUS
<1>1. ClaimsAreNumbered
  BY DEF QueueInit, ClaimsAreNumbered, Idle, Executing
<1>2. AbsentIsUntried
  BY DEF QueueInit, AbsentIsUntried, AbsentRow
<1>3. AttemptBudget
  BY QueueAssumption DEF QueueInit, AttemptBudget, AbsentRow
<1> QED
  BY TypeInit, <1>1, <1>2, <1>3 DEF QueueInvariant

\* A step that starts no execution, changes the number of no execution and of
\* no row, and leaves the claims alone, keeps the numbering.
LEMMA NumberingKept ==
  ASSUME QueueTypeOK, ClaimsAreNumbered,
         claimant' = claimant,
         \A j \in Jobs : job'[j].attempts = job[j].attempts,
         \A p \in Processes :
           runner'[p].pc \in Executing =>
             /\ runner[p].pc \in Executing
             /\ runner'[p].job = runner[p].job
             /\ runner'[p].attempt = runner[p].attempt
  PROVE  ClaimsAreNumbered'
<1> SUFFICES ASSUME NEW p \in Processes, runner'[p].pc \in Executing
             PROVE  LET j == runner'[p].job
                    IN  /\ runner'[p].attempt <= job'[j].attempts
                        /\ runner'[p].attempt = job'[j].attempts
                             => claimant'[j] = p
  BY DEF ClaimsAreNumbered
<1>1. runner[p].job \in Jobs
  BY ExecutingRecord DEF Execution
<1> QED
  BY <1>1 DEF ClaimsAreNumbered

\* A step that keeps or lowers nothing of the budget: rows it puts back to wait
\* are within it, and expiries only grow.
LEMMA JobStepsKeepInvariant ==
  ASSUME QueueInvariant, NEW j \in Jobs,
         \/ Enqueue(j) \/ CancelByOwner(j) \/ RunAfterElapses(j)
         \/ AbandonedLockExpires(j) \/ HeartbeatStalls(j)
  PROVE  QueueInvariant'
<1> USE DEF QueueInvariant
<1>1. QueueTypeOK'
  BY TypeJobSteps
<1>2. /\ claimant' = claimant /\ expiries' = expiries /\ runner' = runner
      /\ \E row \in JobRow :
           /\ job' = [job EXCEPT ![j] = row]
           /\ row.attempts = job[j].attempts
           /\ row.status # "ABSENT"
           /\ row.status \in Waiting => job[j].status \in Waiting \cup {"ABSENT"}
  <2>1. job'[j] \in JobRow
    BY <1>1 DEF QueueTypeOK
  <2>2. CASE Enqueue(j)
    BY <2>1, <2>2 DEF Enqueue, Upserted, QueueTypeOK, JobRow, Waiting
  <2>3. CASE CancelByOwner(j)
    BY <2>1, <2>3 DEF CancelByOwner, Unlocked, QueueTypeOK, JobRow, Waiting
  <2>4. CASE RunAfterElapses(j)
    BY <2>1, <2>4 DEF RunAfterElapses, QueueTypeOK, JobRow, Waiting
  <2>5. CASE AbandonedLockExpires(j)
    BY <2>1, <2>5 DEF AbandonedLockExpires, QueueTypeOK, JobRow, Waiting
  <2>6. CASE HeartbeatStalls(j)
    BY <2>1, <2>6 DEF HeartbeatStalls, QueueTypeOK, JobRow, Waiting
  <2> QED
    BY <2>2, <2>3, <2>4, <2>5, <2>6
<1>3. \A i \in Jobs : job'[i].attempts = job[i].attempts
  BY <1>2 DEF QueueTypeOK
<1>4. ClaimsAreNumbered'
  BY <1>2, <1>3, NumberingKept
<1>5. AbsentIsUntried'
  BY <1>2, <1>3 DEF AbsentIsUntried, QueueTypeOK
<1>6. AttemptBudget'
  <2>1. job[j].status = "ABSENT" => job[j].attempts < MaxAttempts + expiries[j]
    BY QueueAssumption DEF AbsentIsUntried, QueueTypeOK
  <2> QED
    BY <1>2, <1>3, <2>1 DEF AttemptBudget, QueueTypeOK
<1> QED
  BY <1>1, <1>4, <1>5, <1>6

LEMMA PollingKeepsInvariant ==
  ASSUME QueueInvariant, NEW p \in Processes,
         RequeueStaleLocks(p) \/ ClaimNextJob(p) \/ NothingToClaim(p)
  PROVE  QueueInvariant'
<1> USE DEF QueueInvariant
<1>1. QueueTypeOK'
  BY TypePolling
<1>2. CASE RequeueStaleLocks(p)
  <2>1. \A j \in Jobs :
          /\ job'[j].attempts = job[j].attempts
          /\ \/ job'[j] = job[j] /\ expiries'[j] = expiries[j]
             \/ /\ job'[j].status = "RETRYING"
                /\ expiries'[j] = expiries[j] + 1
    BY <1>1, <1>2 DEF RequeueStaleLocks, Unlocked, QueueTypeOK, JobRow
  <2>2. ClaimsAreNumbered'
    BY <1>2, <2>1, NumberingKept
       DEF RequeueStaleLocks, QueueTypeOK, Polling, Executing
  <2>3. AbsentIsUntried'
    BY <2>1 DEF AbsentIsUntried
  <2>4. AttemptBudget'
    <3> SUFFICES ASSUME NEW j \in Jobs
                 PROVE  /\ job'[j].attempts <= MaxAttempts + expiries'[j]
                        /\ job'[j].status \in Waiting =>
                             job'[j].attempts < MaxAttempts + expiries'[j]
      BY DEF AttemptBudget
    <3>1. job[j].attempts \in Nat /\ expiries[j] \in Nat
      BY DEF QueueTypeOK, JobRow
    <3> QED
      BY <2>1, <3>1, QueueAssumption DEF AttemptBudget
  <2> QED
    BY <1>1, <2>2, <2>3, <2>4
<1>3. CASE ClaimNextJob(p)
  <2>1. PICK j \in Jobs :
          /\ Claimable(j)
          /\ job' = [job EXCEPT ![j].status   = "RUNNING",
                                ![j].lockedBy = WorkerId[p],
                                ![j].attempts = @ + 1,
                                ![j].due      = FALSE,
                                ![j].stale    = FALSE]
          /\ runner' = [runner EXCEPT ![p] =
                          [pc |-> "running", job |-> j,
                           attempt |-> job[j].attempts + 1,
                           retryable |-> FALSE, verdict |-> "RUNNING"]]
          /\ claimant' = [claimant EXCEPT ![j] = p]
    BY <1>3 DEF ClaimNextJob
  <2>2. /\ job'[j].status = "RUNNING"
        /\ job'[j].attempts = job[j].attempts + 1
        /\ \A i \in Jobs \ {j} : job'[i] = job[i] /\ claimant'[i] = claimant[i]
        /\ expiries' = expiries
    <3>1. /\ job \in [Jobs -> JobRow]
          /\ claimant \in [Jobs -> Processes \cup {NoProcess}]
          /\ expiries' = expiries
      BY <1>3 DEF QueueTypeOK, ClaimNextJob
    <3>2. job'[j].status = "RUNNING" /\ job'[j].attempts = job[j].attempts + 1
      BY <2>1, <3>1 DEF JobRow
    <3>3. \A i \in Jobs \ {j} : job'[i] = job[i] /\ claimant'[i] = claimant[i]
      BY <2>1, <3>1
    <3> QED
      BY <3>1, <3>2, <3>3
  <2>3. job[j].attempts \in Nat /\ expiries[j] \in Nat
    BY DEF QueueTypeOK, JobRow
  <2>4. ClaimsAreNumbered'
    <3> SUFFICES ASSUME NEW q \in Processes, runner'[q].pc \in Executing
                 PROVE  LET i == runner'[q].job
                        IN  /\ runner'[q].attempt <= job'[i].attempts
                            /\ runner'[q].attempt = job'[i].attempts
                                 => claimant'[i] = q
      BY DEF ClaimsAreNumbered
    <3>1. CASE q = p
      BY <2>1, <2>2, <2>3, <3>1 DEF QueueTypeOK
    <3>2. CASE q # p
      <4>1. runner'[q] = runner[q]
        BY <2>1, <3>2 DEF QueueTypeOK
      <4>2. runner[q].job \in Jobs /\ runner[q].attempt \in Nat
        BY <4>1, ExecutingRecord DEF Execution
      <4>3. CASE runner[q].job = j
        BY <2>2, <2>3, <4>1, <4>2, <4>3 DEF ClaimsAreNumbered
      <4>4. CASE runner[q].job # j
        BY <2>2, <4>1, <4>2, <4>4 DEF ClaimsAreNumbered
      <4> QED
        BY <4>3, <4>4
    <3> QED
      BY <3>1, <3>2
  <2>5. AbsentIsUntried'
    BY <2>2 DEF AbsentIsUntried
  <2>6. AttemptBudget'
    <3>1. job'[j].attempts <= MaxAttempts + expiries'[j]
      BY <2>1, <2>2, <2>3, QueueAssumption DEF AttemptBudget, Claimable
    <3>2. job'[j].status \notin Waiting
      BY <2>2 DEF Waiting
    <3>3. \A i \in Jobs \ {j} : job'[i] = job[i] /\ expiries'[i] = expiries[i]
      BY <2>2
    <3> QED
      BY <3>1, <3>2, <3>3 DEF AttemptBudget
  <2> QED
    BY <1>1, <2>4, <2>5, <2>6
<1>4. CASE NothingToClaim(p)
  <2>1. /\ UNCHANGED <<job, claimant, expiries>>
        /\ runner' = [runner EXCEPT ![p] = Idle]
    BY <1>4 DEF NothingToClaim, Return
  <2>2. ClaimsAreNumbered'
    BY <2>1, NumberingKept DEF QueueTypeOK, Idle, Executing
  <2> QED
    BY <1>1, <2>1, <2>2 DEF AbsentIsUntried, AttemptBudget
<1> QED
  BY <1>2, <1>3, <1>4

\* The fenced transition that ends an execution.  A job is put back to wait
\* only by an execution whose number is below maxAttempts, and holding the
\* lease makes that number the row's.
LEMMA EndingKeepsInvariant ==
  ASSUME QueueInvariant, NEW p \in Processes, runner[p].pc \in Executing,
         NEW status \in {"RETRYING"} \cup Terminal,
         status = "RETRYING" => runner[p].attempt < MaxAttempts,
         EndExecution(p, status), UNCHANGED <<claimant, expiries>>
  PROVE  ClaimsAreNumbered' /\ AbsentIsUntried' /\ AttemptBudget'
<1> DEFINE j == runner[p].job
<1> USE DEF QueueInvariant
<1>1. runner[p] \in Execution /\ j \in Jobs
  BY ExecutingRecord DEF Execution
<1>2. /\ job \in [Jobs -> JobRow] /\ expiries \in [Jobs -> Nat]
      /\ runner \in [Processes -> {Idle, Polling} \cup Execution]
  BY DEF QueueTypeOK
<1>3. /\ job'[j].attempts = job[j].attempts /\ job'[j].status = status
      /\ \A i \in Jobs \ {j} : job'[i] = job[i]
      /\ job[j].attempts = runner[p].attempt
  BY <1>1, <1>2 DEF EndExecution, LeaseHeld, Unlocked, JobRow
<1>4. \A i \in Jobs : job'[i].attempts = job[i].attempts
  BY <1>1, <1>3
<1>5. \A q \in Processes :
        runner'[q].pc \in Executing =>
          /\ runner[q].pc \in Executing
          /\ runner'[q].job = runner[q].job
          /\ runner'[q].attempt = runner[q].attempt
  BY <1>1, <1>2 DEF EndExecution, Execution
<1>6. ClaimsAreNumbered'
  BY <1>4, <1>5, NumberingKept
<1>7. AbsentIsUntried'
  BY <1>3 DEF AbsentIsUntried, Terminal
<1>8. AttemptBudget'
  <2>1. job[j].attempts \in Nat /\ expiries[j] \in Nat
    BY <1>1, <1>2 DEF JobRow
  <2>2. status \in Waiting => job[j].attempts < MaxAttempts + expiries[j]
    BY <1>3, <2>1, QueueAssumption DEF Waiting, Terminal
  <2> QED
    BY <1>1, <1>3, <2>2 DEF AttemptBudget
<1> QED
  BY <1>6, <1>7, <1>8

\* A row that is completed is out of the budget's reach.
LEMMA CompletingKeepsInvariant ==
  ASSUME QueueInvariant, NEW p \in Processes, runner[p].pc \in Executing,
         job' = [job EXCEPT ![runner[p].job] = Unlocked(@, "COMPLETED")],
         UNCHANGED <<claimant, expiries>>,
         \A q \in Processes :
           runner'[q].pc \in Executing =>
             /\ runner[q].pc \in Executing
             /\ runner'[q].job = runner[q].job
             /\ runner'[q].attempt = runner[q].attempt
  PROVE  ClaimsAreNumbered' /\ AbsentIsUntried' /\ AttemptBudget'
<1> DEFINE j == runner[p].job
<1> USE DEF QueueInvariant
<1>1. j \in Jobs /\ job \in [Jobs -> JobRow]
  BY ExecutingRecord DEF Execution, QueueTypeOK
<1>2. /\ job'[j].attempts = job[j].attempts /\ job'[j].status = "COMPLETED"
      /\ \A i \in Jobs \ {j} : job'[i] = job[i]
  BY <1>1 DEF Unlocked, JobRow
<1>3. ClaimsAreNumbered'
  BY <1>2, NumberingKept
<1>4. AbsentIsUntried'
  BY <1>2 DEF AbsentIsUntried
<1>5. AttemptBudget'
  BY <1>1, <1>2 DEF AttemptBudget, Waiting
<1> QED
  BY <1>3, <1>4, <1>5

\* The other steps of an execution leave status and attempts of every row.
LEMMA QuietKeepsInvariant ==
  ASSUME QueueInvariant, UNCHANGED <<claimant, expiries>>,
         \A j \in Jobs : /\ job'[j].attempts = job[j].attempts
                         /\ job'[j].status = job[j].status,
         \A p \in Processes :
           runner'[p].pc \in Executing =>
             /\ runner[p].pc \in Executing
             /\ runner'[p].job = runner[p].job
             /\ runner'[p].attempt = runner[p].attempt
  PROVE  ClaimsAreNumbered' /\ AbsentIsUntried' /\ AttemptBudget'
<1>1. ClaimsAreNumbered'
  BY NumberingKept DEF QueueInvariant
<1>2. AbsentIsUntried' /\ AttemptBudget'
  BY DEF QueueInvariant, AbsentIsUntried, AttemptBudget
<1> QED
  BY <1>1, <1>2

LEMMA ExecutionKeepsInvariant ==
  ASSUME QueueInvariant, NEW p \in Processes,
         \/ ProgressFenced(p) \/ HandlerEnds(p) \/ Heartbeat(p)
         \/ MarkCompleted(p) \/ VerifyCompletion(p) \/ MarkCancelled(p)
         \/ MarkFailed(p) \/ FinishTick(p) \/ CompletionFails(p) \/ Crash(p)
  PROVE  QueueInvariant'
<1>0. QueueTypeOK /\ QueueTypeOK'
  BY TypeExecution DEF QueueInvariant
<1>1. ASSUME Return(p), UNCHANGED <<job, claimant, expiries>>
      PROVE  QueueInvariant'
  BY <1>0, <1>1, QuietKeepsInvariant
     DEF Return, QueueTypeOK, Idle, Executing, QueueInvariant
<1>2. ASSUME NEW pc, Goto(p, pc), runner[p].pc \in Executing,
             UNCHANGED <<job, claimant, expiries>>
      PROVE  QueueInvariant'
  <2>1. runner[p] \in Execution
    BY <1>0, <1>2, ExecutingRecord
  <2>2. \A q \in Processes :
          runner'[q].pc \in Executing =>
             /\ runner[q].pc \in Executing
             /\ runner'[q].job = runner[q].job
             /\ runner'[q].attempt = runner[q].attempt
    BY <1>0, <1>2, <2>1 DEF Goto, QueueTypeOK, Execution
  <2> QED
    BY <1>0, <1>2, <2>2, QuietKeepsInvariant DEF QueueInvariant
<1>3. ASSUME NEW status \in {"RETRYING"} \cup Terminal, EndExecution(p, status),
             status = "RETRYING" => runner[p].attempt < MaxAttempts,
             runner[p].pc \in Executing, UNCHANGED <<claimant, expiries>>
      PROVE  QueueInvariant'
  BY <1>0, <1>3, EndingKeepsInvariant DEF QueueInvariant
<1>4. CASE ProgressFenced(p)
  BY <1>1, <1>4 DEF ProgressFenced
<1>5. CASE HandlerReturns(p)
  BY <1>2, <1>5 DEF HandlerReturns, Executing
<1>6. CASE HandlerCancelled(p)
  BY <1>2, <1>6 DEF HandlerCancelled, Executing
<1>7. ASSUME NEW retryable \in BOOLEAN, HandlerThrows(p, retryable)
      PROVE  QueueInvariant'
  <2>1. runner[p] \in Execution
    BY <1>0, <1>7, ExecutingRecord DEF HandlerThrows, Executing
  <2>2. \A q \in Processes :
          runner'[q].pc \in Executing =>
             /\ runner[q].pc \in Executing
             /\ runner'[q].job = runner[q].job
             /\ runner'[q].attempt = runner[q].attempt
    BY <1>0, <1>7, <2>1 DEF HandlerThrows, QueueTypeOK, Execution, Executing
  <2> QED
    BY <1>0, <1>7, <2>2, QuietKeepsInvariant DEF HandlerThrows, QueueInvariant
<1>8. CASE Heartbeat(p)
  <2>1. runner[p].job \in Jobs
    BY <1>0, <1>8, ExecutingRecord DEF Heartbeat, Execution
  <2>2. \A j \in Jobs : /\ job'[j].attempts = job[j].attempts
                        /\ job'[j].status = job[j].status
    BY <1>0, <1>8, <2>1 DEF Heartbeat, QueueTypeOK, JobRow
  <2> QED
    BY <1>0, <1>8, <2>2, QuietKeepsInvariant DEF Heartbeat, QueueInvariant
<1>9. CASE MarkCompleted(p)
  BY <1>2, <1>3, <1>9 DEF MarkCompleted, Fenced, Executing, Terminal
<1>10. CASE VerifyCompletion(p)
  <2>1. CASE Return(p)
    BY <1>1, <1>10, <2>1 DEF VerifyCompletion
  <2>2. CASE runner' = [runner EXCEPT ![p].pc = "settling",
                                      ![p].verdict = "COMPLETED"]
    <3>1. runner[p] \in Execution
      BY <1>0, <1>10, ExecutingRecord DEF VerifyCompletion, Executing
    <3>2. \A q \in Processes :
            runner'[q].pc \in Executing =>
               /\ runner[q].pc \in Executing
               /\ runner'[q].job = runner[q].job
               /\ runner'[q].attempt = runner[q].attempt
      BY <1>0, <2>2, <3>1 DEF QueueTypeOK, Execution
    <3> QED
      BY <1>0, <1>10, <3>2, QuietKeepsInvariant
         DEF VerifyCompletion, QueueInvariant
  <2> QED
    BY <1>10, <2>1, <2>2 DEF VerifyCompletion
<1>11. CASE MarkCancelled(p)
  BY <1>1, <1>3, <1>11 DEF MarkCancelled, Fenced, Executing, Terminal
<1>12. CASE MarkFailed(p)
  <2>1. CASE Fenced(p) /\ Return(p)
    BY <1>1, <1>12, <2>1 DEF MarkFailed, Fenced
  <2>2. CASE Exhausted(p) /\ EndExecution(p, "DEAD_LETTERED")
    BY <1>3, <1>12, <2>2 DEF MarkFailed, Executing, Terminal
  <2>3. CASE ~Exhausted(p) /\ EndExecution(p, "RETRYING")
    <3>1. runner[p].attempt \in Nat
      BY <1>0, <1>12, ExecutingRecord DEF MarkFailed, Executing, Execution
    <3>2. runner[p].attempt < MaxAttempts
      BY <2>3, <3>1, QueueAssumption DEF Exhausted
    <3> QED
      BY <1>3, <1>12, <2>3, <3>2 DEF MarkFailed, Executing
  <2> QED
    BY <1>12, <2>1, <2>2, <2>3 DEF MarkFailed
<1>13. CASE FinishTick(p)
  BY <1>1, <1>13 DEF FinishTick
<1>14. CASE Crash(p)
  BY <1>1, <1>14 DEF Crash
<1>15. CASE HandlerFinalizes(p)
  <2>1. runner[p] \in Execution /\ runner[p].pc \in Executing
    BY <1>0, <1>15, ExecutingRecord DEF HandlerFinalizes, Executing
  <2>2. \A q \in Processes :
          runner'[q].pc \in Executing =>
             /\ runner[q].pc \in Executing
             /\ runner'[q].job = runner[q].job
             /\ runner'[q].attempt = runner[q].attempt
    BY <1>0, <1>15, <2>1 DEF HandlerFinalizes, Goto, QueueTypeOK, Execution
  <2> QED
    BY <1>0, <1>15, <2>1, <2>2, CompletingKeepsInvariant
       DEF HandlerFinalizes, QueueInvariant
<1>16. CASE CompletionFails(p)
  <2>1. runner[p] \in Execution /\ runner[p].pc \in Executing
    BY <1>0, <1>16, ExecutingRecord DEF CompletionFails, Executing
  <2>2. \A q \in Processes :
          runner'[q].pc \in Executing =>
             /\ runner[q].pc \in Executing
             /\ runner'[q].job = runner[q].job
             /\ runner'[q].attempt = runner[q].attempt
    BY <1>0, <1>16, <2>1 DEF CompletionFails, QueueTypeOK, Execution
  <2>3. CASE UNCHANGED job
    BY <1>0, <1>16, <2>2, <2>3, QuietKeepsInvariant
       DEF CompletionFails, QueueInvariant
  <2>4. CASE job' = [job EXCEPT ![runner[p].job] = Unlocked(@, "COMPLETED")]
    BY <1>0, <1>16, <2>1, <2>2, <2>4, CompletingKeepsInvariant
       DEF CompletionFails, QueueInvariant
  <2> QED
    BY <1>16, <2>3, <2>4 DEF CompletionFails
<1> QED
  BY <1>4, <1>5, <1>6, <1>7, <1>8, <1>9, <1>10, <1>11, <1>12, <1>13, <1>14,
     <1>15, <1>16
     DEF HandlerEnds

LEMMA InvariantStep == QueueInvariant /\ [QueueNext]_queueVars => QueueInvariant'
<1> SUFFICES ASSUME QueueInvariant, [QueueNext]_queueVars
             PROVE  QueueInvariant'
  OBVIOUS
<1>1. CASE UNCHANGED queueVars
  BY <1>1 DEF queueVars, QueueInvariant, QueueTypeOK, ClaimsAreNumbered,
              AbsentIsUntried, AttemptBudget
<1>2. CASE QueueNext
  BY <1>2, JobStepsKeepInvariant, PollingKeepsInvariant, ExecutionKeepsInvariant
     DEF QueueNext, Bookkeeping
<1> QED
  BY <1>1, <1>2

\* The numbering of claims is invariant, however crashes, stalled heartbeats,
\* takeovers and the statements of different runners interleave.
THEOREM QueueInvariantHolds == QueueSpec => []QueueInvariant
BY InvariantInit, InvariantStep, PTL DEF QueueSpec

\* The lease of ai-job-lease.ts fences: a process that holds a matching lease is
\* the one that made the last claim, even among processes with one worker id.
THEOREM LeaseFences == QueueSpec => []LeaseIsLatestClaim
<1>1. QueueInvariant => LeaseIsLatestClaim
  BY DEF QueueInvariant, ClaimsAreNumbered, LeaseIsLatestClaim, LeaseHeld
<1> QED
  BY <1>1, QueueInvariantHolds, PTL

\* Only expired locks take a job past maxAttempts.
THEOREM AttemptsAreBudgeted == QueueSpec => []AttemptBudget
<1>1. QueueInvariant => AttemptBudget
  BY DEF QueueInvariant
<1> QED
  BY <1>1, QueueInvariantHolds, PTL

-----------------------------------------------------------------------------
(* Outcomes are final.                                                     *)

\* Every statement that writes a row requires it not to be terminal.
LEMMA TerminalRowsStay ==
  ASSUME QueueTypeOK, QueueNext, NEW j \in Jobs, job[j].status \in Terminal
  PROVE  job'[j] = job[j]
<1>1. ASSUME NEW i \in Jobs, NEW row, job[i].status \notin Terminal,
             job' = [job EXCEPT ![i] = row]
      PROVE  job'[j] = job[j]
  BY <1>1 DEF QueueTypeOK
<1>2. ASSUME NEW i \in Jobs,
             \/ Enqueue(i) \/ CancelByOwner(i) \/ RunAfterElapses(i)
             \/ AbandonedLockExpires(i) \/ HeartbeatStalls(i)
      PROVE  job'[j] = job[j]
  BY <1>2 DEF Enqueue, Upserted, CancelByOwner, RunAfterElapses,
              AbandonedLockExpires, HeartbeatStalls, QueueTypeOK,
              Terminal, Waiting
<1>3. ASSUME NEW p \in Processes, RequeueStaleLocks(p) \/ ClaimNextJob(p)
      PROVE  job'[j] = job[j]
  <2>1. CASE RequeueStaleLocks(p)
    BY <2>1 DEF RequeueStaleLocks, Terminal
  <2>2. CASE ClaimNextJob(p)
    BY <2>2 DEF ClaimNextJob, Claimable, Waiting, Terminal, QueueTypeOK
  <2> QED
    BY <1>3, <2>1, <2>2
<1>4. ASSUME NEW p \in Processes, runner[p].pc \in Executing, LeaseHeld(p),
             NEW row, job' = [job EXCEPT ![runner[p].job] = row]
      PROVE  job'[j] = job[j]
  BY <1>4, ExecutingRecord
     DEF LeaseHeld, Execution, QueueTypeOK, Terminal
<1>5. ASSUME NEW p \in Processes,
             \/ Heartbeat(p) \/ MarkCompleted(p) \/ MarkCancelled(p)
             \/ MarkFailed(p) \/ HandlerFinalizes(p) \/ CompletionFails(p)
      PROVE  job'[j] = job[j]
  <2>1. CASE Heartbeat(p)
    BY <1>4, <2>1 DEF Heartbeat
  <2>2. CASE MarkCompleted(p)
    BY <1>4, <2>2 DEF MarkCompleted, EndExecution, Fenced, Executing
  <2>3. CASE MarkCancelled(p)
    BY <1>4, <2>3 DEF MarkCancelled, EndExecution, Fenced, Executing
  <2>4. CASE MarkFailed(p)
    BY <1>4, <2>4 DEF MarkFailed, EndExecution, Fenced, Executing
  <2>5. CASE HandlerFinalizes(p)
    BY <1>4, <2>5 DEF HandlerFinalizes, Executing
  <2>6. CASE CompletionFails(p)
    BY <1>4, <2>6 DEF CompletionFails, Executing
  <2> QED
    BY <1>5, <2>1, <2>2, <2>3, <2>4, <2>5, <2>6
<1>6. ASSUME NEW p \in Processes,
             \/ NothingToClaim(p) \/ ProgressFenced(p)
             \/ HandlerReturns(p) \/ HandlerCancelled(p)
             \/ \E retryable \in BOOLEAN : HandlerThrows(p, retryable)
             \/ VerifyCompletion(p) \/ FinishTick(p) \/ Crash(p)
      PROVE  job'[j] = job[j]
  BY <1>6 DEF NothingToClaim, ProgressFenced, HandlerReturns, HandlerCancelled,
              HandlerThrows, VerifyCompletion, FinishTick, Crash
<1> QED
  BY <1>2, <1>3, <1>5, <1>6 DEF QueueNext, Bookkeeping, HandlerEnds

\* No runner, owner or sweep changes a completed, cancelled or dead-lettered
\* job again.
THEOREM OutcomesAreFinal == QueueSpec => OutcomeIsFinal
<1>1. QueueTypeOK /\ [QueueNext]_queueVars =>
        [\A j \in Jobs : job[j].status \in Terminal => job'[j] = job[j]]_queueVars
  BY TerminalRowsStay
<1> QED
  BY <1>1, QueueTypeCorrect, PTL DEF QueueSpec, OutcomeIsFinal

-----------------------------------------------------------------------------
(* The queue implements its service.                                       *)

LEMMA ServiceStarts == QueueInit => Service!ServiceInit
<1> SUFFICES ASSUME QueueInit PROVE Service!ServiceInit
  OBVIOUS
<1>1. phaseBar = [j \in Jobs |-> "absent"]
  <2>1. \A j \in Jobs : PhaseOf(job[j].status) = "absent"
    <3>1. PhaseOf("ABSENT") = "absent"
      BY DEF PhaseOf, Waiting
    <3> QED
      BY <3>1 DEF QueueInit, AbsentRow
  <2> QED
    BY <2>1 DEF phaseBar
<1>2. ownerBar = [j \in Jobs |-> NoProcess]
  BY DEF QueueInit, ownerBar, AbsentRow
<1>3. busyBar = [p \in Processes |-> NoJob]
  BY DEF QueueInit, busyBar, Busy, Executing, Idle
<1> QED
  BY <1>1, <1>2, <1>3 DEF Service!ServiceInit

\* What a step on one row, and a step of one runner, do to the mapping.
LEMMA MappedRow ==
  ASSUME NEW j \in Jobs, \A i \in Jobs \ {j} : job'[i] = job[i],
         claimant' = claimant
  PROVE  /\ phaseBar' = [phaseBar EXCEPT ![j] = PhaseOf(job'[j].status)]
         /\ ownerBar' = [ownerBar EXCEPT ![j] =
              IF job'[j].status = "RUNNING" THEN claimant[j] ELSE NoProcess]
BY DEF phaseBar, ownerBar

LEMMA MappedRunner ==
  ASSUME NEW p \in Processes, \A q \in Processes \ {p} : runner'[q] = runner[q]
  PROVE  busyBar' = [busyBar EXCEPT ![p] =
                       IF runner'[p].pc \in Busy THEN runner'[p].job ELSE NoJob]
<1> DEFINE B(q) == IF runner[q].pc \in Busy THEN runner[q].job ELSE NoJob
           C(q) == IF runner'[q].pc \in Busy THEN runner'[q].job ELSE NoJob
<1>1. busyBar = [q \in Processes |-> B(q)] /\ busyBar' = [q \in Processes |-> C(q)]
  BY DEF busyBar
<1>2. \A q \in Processes \ {p} : C(q) = B(q)
  OBVIOUS
<1> HIDE DEF B, C
<1>3. busyBar' = [busyBar EXCEPT ![p] = C(p)]
  BY <1>1, <1>2
<1> QED
  BY <1>3 DEF C

LEMMA PhaseTable ==
  /\ PhaseOf("ABSENT") = "absent" /\ PhaseOf("RUNNING") = "executing"
  /\ \A status \in Waiting : PhaseOf(status) = "waiting"
  /\ \A status \in Terminal : PhaseOf(status) = status
  /\ \A status \in JobStatus : /\ PhaseOf(status) = "absent" => status = "ABSENT"
                               /\ PhaseOf(status) = "executing" => status = "RUNNING"
BY DEF PhaseOf, Waiting, Terminal, JobStatus

\* A process that executes a job names it, so it is not idle to its callers.
LEMMA BusyNames ==
  ASSUME QueueTypeOK, NEW p \in Processes, runner[p].pc \in Busy
  PROVE  busyBar[p] = runner[p].job /\ runner[p].job \in Jobs /\ busyBar[p] # NoJob
BY ExecutingRecord, NoJobAssumption DEF busyBar, Busy, Executing, Execution

LEMMA JobStepsImplement ==
  ASSUME QueueInvariant, NEW j \in Jobs,
         \/ Enqueue(j) \/ CancelByOwner(j) \/ RunAfterElapses(j)
         \/ AbandonedLockExpires(j) \/ HeartbeatStalls(j)
  PROVE  Service!ServiceNext \/ UNCHANGED Service!serviceVars
<1>1. QueueTypeOK /\ job \in [Jobs -> JobRow]
  BY DEF QueueInvariant, QueueTypeOK
<1>2. phaseBar[j] = PhaseOf(job[j].status)
  BY DEF phaseBar
<1>3. CASE Enqueue(j)
  <2>1. /\ job' = [job EXCEPT ![j] = [@ EXCEPT !.status = "QUEUED", !.due = TRUE]]
        /\ claimant' = claimant /\ runner' = runner /\ job[j].status = "ABSENT"
    BY <1>1, <1>3 DEF Enqueue, Upserted
  <2>2. /\ job'[j].status = "QUEUED"
        /\ \A i \in Jobs \ {j} : job'[i] = job[i]
    BY <1>1, <2>1 DEF JobRow
  <2>3. phaseBar' = [phaseBar EXCEPT ![j] = "waiting"]
    BY <2>1, <2>2, MappedRow, PhaseTable DEF Waiting
  <2>4. ownerBar' = [ownerBar EXCEPT ![j] = NoProcess]
    BY <2>1, <2>2, MappedRow
  <2>5. busyBar' = busyBar
    BY <2>1 DEF busyBar
  <2> QED
    BY <1>2, <2>1, <2>3, <2>4, <2>5, PhaseTable
       DEF Service!ServiceNext, Service!Submit, Service!Move
<1>4. CASE CancelByOwner(j)
  <2>1. /\ job' = [job EXCEPT ![j] = Unlocked(@, "CANCELLED")]
        /\ claimant' = claimant /\ runner' = runner
        /\ job[j].status \in Waiting \cup {"RUNNING"}
    BY <1>4 DEF CancelByOwner
  <2>2. /\ job'[j].status = "CANCELLED"
        /\ \A i \in Jobs \ {j} : job'[i] = job[i]
    BY <1>1, <2>1 DEF Unlocked, JobRow
  <2>3. phaseBar' = [phaseBar EXCEPT ![j] = "CANCELLED"]
    BY <2>1, <2>2, MappedRow, PhaseTable DEF Terminal
  <2>4. ownerBar' = [ownerBar EXCEPT ![j] = NoProcess]
    BY <2>1, <2>2, MappedRow
  <2>5. busyBar' = busyBar
    BY <2>1 DEF busyBar
  <2> QED
    BY <1>2, <2>1, <2>3, <2>4, <2>5, PhaseTable
       DEF Service!ServiceNext, Service!Withdraw, Service!Move
<1>5. CASE RunAfterElapses(j) \/ AbandonedLockExpires(j) \/ HeartbeatStalls(j)
  <2>1. /\ \A i \in Jobs : job'[i].status = job[i].status
        /\ claimant' = claimant /\ runner' = runner
    BY <1>1, <1>5
       DEF RunAfterElapses, AbandonedLockExpires, HeartbeatStalls, JobRow
  <2> QED
    BY <2>1 DEF phaseBar, ownerBar, busyBar, Service!serviceVars
<1> QED
  BY <1>3, <1>4, <1>5

LEMMA PollingImplements ==
  ASSUME QueueInvariant, NEW p \in Processes,
         RequeueStaleLocks(p) \/ ClaimNextJob(p) \/ NothingToClaim(p)
  PROVE  Service!ServiceNext \/ UNCHANGED Service!serviceVars
<1>1. QueueTypeOK /\ job \in [Jobs -> JobRow]
  BY DEF QueueInvariant, QueueTypeOK
<1>2. CASE RequeueStaleLocks(p)
  <2> DEFINE expired == {j \in Jobs : job[j].status = "RUNNING" /\ job[j].stale}
  <2>1. \A j \in Jobs : IF j \in expired THEN job'[j].status = "RETRYING"
                                         ELSE job'[j] = job[j]
    BY <1>1, <1>2 DEF RequeueStaleLocks, Unlocked, JobRow
  <2>2. phaseBar' = [j \in Jobs |-> IF j \in expired THEN "waiting" ELSE phaseBar[j]]
    BY <2>1, PhaseTable DEF phaseBar, Waiting
  <2>3. ownerBar' = [j \in Jobs |-> IF j \in expired THEN NoProcess ELSE ownerBar[j]]
    BY <1>2, <2>1 DEF ownerBar, RequeueStaleLocks
  <2>4. busyBar' = busyBar
    BY <1>1, <1>2 DEF RequeueStaleLocks, QueueTypeOK, busyBar, Polling, Busy,
                      Executing
  <2>5. \A j \in expired : phaseBar[j] = "executing"
    BY PhaseTable DEF phaseBar
  <2>6. Service!Revoke(expired)
    BY <2>2, <2>3, <2>4, <2>5 DEF Service!Revoke
  <2> QED
    BY <2>6 DEF Service!ServiceNext
<1>3. CASE ClaimNextJob(p)
  <2>1. PICK j \in Jobs :
          /\ Claimable(j)
          /\ job' = [job EXCEPT ![j].status   = "RUNNING",
                                ![j].lockedBy = WorkerId[p],
                                ![j].attempts = @ + 1,
                                ![j].due      = FALSE,
                                ![j].stale    = FALSE]
          /\ runner' = [runner EXCEPT ![p] =
                          [pc |-> "running", job |-> j,
                           attempt |-> job[j].attempts + 1,
                           retryable |-> FALSE, verdict |-> "RUNNING"]]
          /\ claimant' = [claimant EXCEPT ![j] = p]
    BY <1>3 DEF ClaimNextJob
  <2>2. job'[j].status = "RUNNING" /\ claimant'[j] = p
    BY <1>1, <2>1 DEF QueueTypeOK, JobRow
  <2>3. \A i \in Jobs \ {j} : job'[i] = job[i] /\ claimant'[i] = claimant[i]
    BY <1>1, <2>1 DEF QueueTypeOK
  <2>4. phaseBar' = [phaseBar EXCEPT ![j] = "executing"]
    BY <2>2, <2>3, PhaseTable DEF phaseBar
  <2>5. ownerBar' = [ownerBar EXCEPT ![j] = p]
    BY <2>2, <2>3 DEF ownerBar
  <2>6. busyBar' = [busyBar EXCEPT ![p] = j]
    <3>1. /\ runner'[p].pc = "running" /\ runner'[p].job = j
          /\ \A q \in Processes \ {p} : runner'[q] = runner[q]
      BY <1>1, <2>1 DEF QueueTypeOK
    <3> QED
      BY <3>1, MappedRunner DEF Busy, Executing
  <2>7. phaseBar[j] = "waiting"
    BY <2>1, PhaseTable DEF phaseBar, Claimable
  <2>8. busyBar[p] = NoJob
    BY <1>3 DEF ClaimNextJob, busyBar, Busy, Executing
  <2> QED
    BY <2>4, <2>5, <2>6, <2>7, <2>8
       DEF Service!ServiceNext, Service!Start, Service!Move
<1>4. CASE NothingToClaim(p)
  <2>1. busyBar' = busyBar
    BY <1>1, <1>4 DEF NothingToClaim, Return, QueueTypeOK, busyBar, Idle, Busy,
                          Executing
  <2> QED
    BY <1>4, <2>1 DEF NothingToClaim, phaseBar, ownerBar, Service!serviceVars
<1> QED
  BY <1>2, <1>3, <1>4

\* An execution that completes its job, whether the runner knows it or not, is
\* its owner and decides.
LEMMA CompletingImplements ==
  ASSUME QueueInvariant, NEW p \in Processes, runner[p].pc \in Busy,
         LeaseHeld(p), UNCHANGED claimant,
         job' = [job EXCEPT ![runner[p].job] = Unlocked(@, "COMPLETED")],
         \A q \in Processes : /\ runner'[q].pc \in Busy <=> runner[q].pc \in Busy
                              /\ runner[q].pc \in Busy
                                   => runner'[q].job = runner[q].job
  PROVE  Service!ServiceNext
<1> DEFINE j == runner[p].job
<1>1. QueueTypeOK /\ job \in [Jobs -> JobRow]
  BY DEF QueueInvariant, QueueTypeOK
<1>2. j \in Jobs /\ busyBar[p] = j
  BY <1>1, BusyNames
<1>3. /\ job[j].status = "RUNNING" /\ claimant[j] = p
      /\ job'[j].status = "COMPLETED"
      /\ \A i \in Jobs \ {j} : job'[i] = job[i]
  BY <1>1, <1>2
     DEF LeaseHeld, Unlocked, JobRow, QueueInvariant, ClaimsAreNumbered, Busy
<1>4. phaseBar[j] = "executing" /\ ownerBar[j] = p
  BY <1>2, <1>3, PhaseTable DEF phaseBar, ownerBar
<1>5. /\ phaseBar' = [phaseBar EXCEPT ![j] = "COMPLETED"]
      /\ ownerBar' = [ownerBar EXCEPT ![j] = NoProcess]
  BY <1>2, <1>3, MappedRow, PhaseTable DEF Terminal
<1>6. busyBar' = busyBar
  BY DEF busyBar
<1>7. Service!Decide(p, j)
  BY <1>2, <1>4, <1>5, <1>6
     DEF Service!Decide, Service!Move, Service!Outcomes
<1> QED
  BY <1>2, <1>7 DEF Service!ServiceNext

\* The ending of an execution is a decision of the job's owner.
LEMMA EndingImplements ==
  ASSUME QueueInvariant, NEW p \in Processes, runner[p].pc \in Busy,
         NEW status \in {"RETRYING"} \cup Terminal,
         EndExecution(p, status), UNCHANGED claimant
  PROVE  Service!ServiceNext
<1> DEFINE j == runner[p].job
<1>1. QueueTypeOK /\ job \in [Jobs -> JobRow] /\ runner[p] \in Execution
  BY ExecutingRecord DEF QueueInvariant, QueueTypeOK, Busy, Executing
<1>2. j \in Jobs /\ busyBar[p] = j
  BY <1>1, BusyNames
<1>3. /\ job[j].status = "RUNNING" /\ claimant[j] = p
      /\ job'[j].status = status
      /\ \A i \in Jobs \ {j} : job'[i] = job[i]
  BY <1>1, <1>2
     DEF EndExecution, LeaseHeld, Unlocked, JobRow, QueueInvariant,
         ClaimsAreNumbered, Busy, Executing
<1>4. phaseBar[j] = "executing" /\ ownerBar[j] = p
  BY <1>2, <1>3, PhaseTable DEF phaseBar, ownerBar
<1>5. /\ phaseBar' = [phaseBar EXCEPT ![j] = PhaseOf(status)]
      /\ ownerBar' = [ownerBar EXCEPT ![j] = NoProcess]
  BY <1>2, <1>3, MappedRow DEF Terminal
<1>6. PhaseOf(status) \in Service!Outcomes \cup {"waiting"}
  BY PhaseTable DEF Service!Outcomes, Terminal, Waiting
<1>7. busyBar' = [busyBar EXCEPT ![p] = NoJob]
  <2>1. /\ runner'[p].pc = "settling"
        /\ \A q \in Processes \ {p} : runner'[q] = runner[q]
    BY <1>1 DEF EndExecution, QueueTypeOK, Execution
  <2> QED
    BY <2>1, MappedRunner DEF Busy
<1>8. Service!Decide(p, j)
  BY <1>2, <1>4, <1>5, <1>6, <1>7 DEF Service!Decide, Service!Move
<1> QED
  BY <1>2, <1>8 DEF Service!ServiceNext

\* An execution that gives up without writing is a stop.
LEMMA GivingUpImplements ==
  ASSUME QueueInvariant, NEW p \in Processes, UNCHANGED <<job, claimant>>,
         \A q \in Processes \ {p} : runner'[q] = runner[q],
         runner'[p].pc \notin Busy
  PROVE  Service!ServiceNext \/ UNCHANGED Service!serviceVars
<1>1. phaseBar' = phaseBar /\ ownerBar' = ownerBar
  BY DEF phaseBar, ownerBar
<1>2. busyBar' = [busyBar EXCEPT ![p] = NoJob]
  BY MappedRunner
<1>3. CASE runner[p].pc \in Busy
  <2>1. busyBar[p] # NoJob
    BY <1>3, BusyNames DEF QueueInvariant
  <2> QED
    BY <1>1, <1>2, <2>1 DEF Service!ServiceNext, Service!Stop
<1>4. CASE runner[p].pc \notin Busy
  <2>1. busyBar' = busyBar
    BY <1>2, <1>4 DEF busyBar
  <2> QED
    BY <1>1, <2>1 DEF Service!serviceVars
<1> QED
  BY <1>3, <1>4

LEMMA ExecutionImplements ==
  ASSUME QueueInvariant, NEW p \in Processes,
         \/ ProgressFenced(p) \/ HandlerEnds(p) \/ Heartbeat(p)
         \/ MarkCompleted(p) \/ VerifyCompletion(p) \/ MarkCancelled(p)
         \/ MarkFailed(p) \/ FinishTick(p) \/ CompletionFails(p) \/ Crash(p)
  PROVE  Service!ServiceNext \/ UNCHANGED Service!serviceVars
<1>1. /\ QueueTypeOK /\ job \in [Jobs -> JobRow]
      /\ runner \in [Processes -> {Idle, Polling} \cup Execution]
  BY DEF QueueInvariant, QueueTypeOK
<1>2. ASSUME Return(p), UNCHANGED <<job, claimant>>
      PROVE  Service!ServiceNext \/ UNCHANGED Service!serviceVars
  <2>1. /\ runner'[p].pc \notin Busy
        /\ \A q \in Processes \ {p} : runner'[q] = runner[q]
    BY <1>1, <1>2 DEF Return, Idle, Busy, Executing
  <2> QED
    BY <1>2, <2>1, GivingUpImplements
<1>3. ASSUME runner[p].pc \in Busy,
             \/ \E pc \in Busy : Goto(p, pc)
             \/ \E pc \in Busy, retryable \in BOOLEAN :
                  runner' = [runner EXCEPT ![p].pc = pc, ![p].retryable = retryable]
      PROVE  \A q \in Processes :
               /\ runner'[q].pc \in Busy <=> runner[q].pc \in Busy
               /\ runner[q].pc \in Busy => runner'[q].job = runner[q].job
  <2>1. runner[p] \in Execution
    BY <1>1, <1>3, ExecutingRecord DEF Busy
  <2> QED
    <3>1. /\ runner'[p].pc \in Busy /\ runner'[p].job = runner[p].job
          /\ \A q \in Processes \ {p} : runner'[q] = runner[q]
      BY <1>1, <1>3, <2>1 DEF Goto, Execution
    <3> QED
      BY <1>3, <3>1
<1>10. ASSUME runner[p].pc \in Busy, UNCHANGED <<job, claimant>>,
              \/ \E pc \in Busy : Goto(p, pc)
              \/ \E pc \in Busy, retryable \in BOOLEAN :
                   runner' = [runner EXCEPT ![p].pc = pc, ![p].retryable = retryable]
       PROVE  UNCHANGED Service!serviceVars
  <2>1. busyBar' = busyBar
    BY <1>3, <1>10 DEF busyBar
  <2> QED
    BY <1>10, <2>1 DEF phaseBar, ownerBar, Service!serviceVars
<1>11. CASE HandlerReturns(p) \/ HandlerCancelled(p)
  BY <1>10, <1>11 DEF HandlerReturns, HandlerCancelled, Busy, Executing
<1>12. CASE \E retryable \in BOOLEAN : HandlerThrows(p, retryable)
  BY <1>10, <1>12 DEF HandlerThrows, Busy, Executing
<1>13. CASE HandlerFinalizes(p)
  <2>1. runner[p].pc \in Busy /\ \E pc \in Busy : Goto(p, pc)
    BY <1>13 DEF HandlerFinalizes, Busy, Executing
  <2> QED
    BY <1>3, <1>13, <2>1, CompletingImplements DEF HandlerFinalizes
<1>14. CASE CompletionFails(p)
  <2>1. /\ runner[p].pc \in Busy
        /\ \E pc \in Busy, retryable \in BOOLEAN :
             runner' = [runner EXCEPT ![p].pc = pc, ![p].retryable = retryable]
        /\ UNCHANGED claimant
    BY <1>14 DEF CompletionFails, Busy, Executing
  <2>2. CASE UNCHANGED job
    BY <1>10, <2>1, <2>2
  <2>3. CASE /\ LeaseHeld(p)
             /\ job' = [job EXCEPT ![runner[p].job] = Unlocked(@, "COMPLETED")]
    BY <1>3, <2>1, <2>3, CompletingImplements
  <2> QED
    BY <1>14, <2>2, <2>3 DEF CompletionFails
<1>4. CASE Heartbeat(p)
  <2>1. /\ \A j \in Jobs : job'[j].status = job[j].status
        /\ claimant' = claimant /\ runner' = runner
    BY <1>1, <1>4 DEF Heartbeat, JobRow
  <2> QED
    BY <2>1 DEF phaseBar, ownerBar, busyBar, Service!serviceVars
<1>5. CASE MarkCompleted(p)
  <2>1. CASE EndExecution(p, "COMPLETED")
    BY <1>5, <2>1, EndingImplements DEF MarkCompleted, Busy, Executing, Terminal
  <2>2. CASE Fenced(p) /\ Goto(p, "verifying")
    BY <1>5, <1>10, <2>2 DEF MarkCompleted, Fenced, Busy, Executing
  <2> QED
    BY <1>5, <2>1, <2>2 DEF MarkCompleted
<1>6. CASE VerifyCompletion(p)
  <2>1. UNCHANGED <<job, claimant>>
    BY <1>6 DEF VerifyCompletion
  <2>2. CASE Return(p)
    BY <1>2, <2>1, <2>2
  <2>3. CASE runner' = [runner EXCEPT ![p].pc = "settling",
                                      ![p].verdict = "COMPLETED"]
    <3>1. runner[p] \in Execution
      BY <1>1, <1>6, ExecutingRecord DEF VerifyCompletion, Executing
    <3>2. /\ runner'[p].pc \notin Busy
          /\ \A q \in Processes \ {p} : runner'[q] = runner[q]
      BY <1>1, <2>3, <3>1 DEF Busy, Execution
    <3> QED
      BY <2>1, <3>2, GivingUpImplements
  <2> QED
    BY <1>6, <2>2, <2>3 DEF VerifyCompletion
<1>7. CASE MarkCancelled(p)
  BY <1>2, <1>7, EndingImplements
     DEF MarkCancelled, Fenced, Busy, Executing, Terminal
<1>8. CASE MarkFailed(p)
  <2> DEFINE status == IF Exhausted(p) THEN "DEAD_LETTERED" ELSE "RETRYING"
  <2>1. status \in {"RETRYING"} \cup Terminal
    BY DEF Terminal
  <2>2. CASE Fenced(p) /\ Return(p)
    BY <1>2, <1>8, <2>2 DEF MarkFailed, Fenced
  <2>3. CASE EndExecution(p, status)
    <3> HIDE DEF status
    <3> QED
      BY <1>8, <2>1, <2>3, EndingImplements DEF MarkFailed, Busy, Executing
  <2> QED
    BY <1>8, <2>2, <2>3 DEF MarkFailed
<1>9. CASE ProgressFenced(p) \/ FinishTick(p) \/ Crash(p)
  BY <1>2, <1>9 DEF ProgressFenced, FinishTick, Crash
<1> QED
  BY <1>4, <1>5, <1>6, <1>7, <1>8, <1>9, <1>11, <1>12, <1>13, <1>14 DEF HandlerEnds

\* The queue is an implementation of the service: one authoritative execution
\* per job, decided once, by that execution or by the job's owner.
THEOREM QueueImplementsService == QueueSpec => ImplementsService
<1>1. QueueInvariant /\ [QueueNext]_queueVars
        => [Service!ServiceNext]_(Service!serviceVars)
  <2> SUFFICES ASSUME QueueInvariant, [QueueNext]_queueVars
               PROVE  Service!ServiceNext \/ UNCHANGED Service!serviceVars
    OBVIOUS
  <2>1. CASE UNCHANGED queueVars
    BY <2>1 DEF queueVars, phaseBar, ownerBar, busyBar, Service!serviceVars
  <2>2. CASE QueueNext
    BY <2>2, JobStepsImplement, PollingImplements, ExecutionImplements
       DEF QueueNext, Bookkeeping
  <2> QED
    BY <2>1, <2>2
<1> QED
  BY ServiceStarts, QueueInvariantHolds, <1>1, PTL
     DEF QueueSpec, ImplementsService, Service!ServiceSpec
=============================================================================
