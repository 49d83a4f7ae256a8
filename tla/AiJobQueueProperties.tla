------------------------ MODULE AiJobQueueProperties ------------------------
(***************************************************************************)
(* What the job queue must guarantee, stated over AiJobQueue.              *)
(***************************************************************************)
EXTENDS AiJobQueue

CONSTANT NoJob   \* "executing nothing", in the terms of AiJobService

ASSUME NoJobAssumption == NoJob \notin Jobs

\* The lease predicate of ai-job-lease.ts identifies one execution: if the row
\* matches the lease a process holds, that process made the latest claim of the
\* job.  A process whose lock went stale and was taken over can therefore not
\* renew, complete, fail or cancel the job, not even when its successor carries
\* the same hostname:pid.
LeaseIsLatestClaim ==
  \A p \in Processes :
    runner[p].pc \in Executing /\ LeaseHeld(p) => claimant[runner[p].job] = p

\* Failures never take a job past maxAttempts: each attempt beyond it was
\* preceded by a lock that expired (requeueStaleLocks gives an attempt back
\* without looking at maxAttempts), and a job is put back for another attempt
\* only while that budget lasts.
AttemptBudget ==
  \A j \in Jobs :
    /\ job[j].attempts <= MaxAttempts + expiries[j]
    /\ job[j].status \in Waiting => job[j].attempts < MaxAttempts + expiries[j]

\* What the two invariants above rest on.  Claims of a job are numbered by its
\* attempts: no execution holds a number the row has not reached, and the
\* execution that holds the row's own number is the one of the last claim.
ClaimsAreNumbered ==
  \A p \in Processes :
    runner[p].pc \in Executing =>
      LET j == runner[p].job
      IN  /\ runner[p].attempt <= job[j].attempts
          /\ runner[p].attempt = job[j].attempts => claimant[j] = p

AbsentIsUntried ==
  \A j \in Jobs : job[j].status = "ABSENT" => job[j].attempts = 0

\* The inductive invariant: ClaimNextJob increments attempts in the statement
\* that takes the row, and no other statement touches them.
QueueInvariant ==
  QueueTypeOK /\ ClaimsAreNumbered /\ AbsentIsUntried /\ AttemptBudget

\* An outcome is decided once: no statement of any runner, owner or sweeper
\* changes a COMPLETED, CANCELLED or DEAD_LETTERED row again.
OutcomeIsFinal ==
  [][\A j \in Jobs : job[j].status \in Terminal => job'[j] = job[j]]_queueVars

\* The queue implements the service its callers rely on (AiJobService).  An
\* execution is busy until its ending has been attempted.
PhaseOf(status) ==
  CASE status = "ABSENT"  -> "absent"
    [] status \in Waiting -> "waiting"
    [] status = "RUNNING" -> "executing"
    [] OTHER              -> status

Busy == Executing \ {"settling"}

phaseBar == [j \in Jobs |-> PhaseOf(job[j].status)]
ownerBar == [j \in Jobs |-> IF job[j].status = "RUNNING" THEN claimant[j]
                                                       ELSE NoProcess]
busyBar  == [p \in Processes |-> IF runner[p].pc \in Busy THEN runner[p].job
                                                         ELSE NoJob]

Service == INSTANCE AiJobService
             WITH phase <- phaseBar, owner <- ownerBar, busy <- busyBar

ImplementsService == Service!ServiceSpec

\* Durable execution: a job that was enqueued is eventually completed,
\* dead-lettered or cancelled, whatever finite number of crashes and stalled
\* heartbeats its executions meet.
EveryJobSettles ==
  \A j \in Jobs : job[j].status = "QUEUED" ~> job[j].status \in Terminal
=============================================================================
