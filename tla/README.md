# Formal models of the SheriaBot backend

TLA+ modules, TLC configurations and TLAPS proofs for the parts of this
backend whose correctness depends on the order of concurrent steps. The
repository is a Fastify/tRPC server over PostgreSQL (Prisma), Upstash Redis and
R2 object storage; a deployment runs several server processes, and each of them
also polls for background work. Everything below `src/` is the repository.

Contents: [1 the system](#1-the-system), [2 the plan](#2-the-plan),
[3 the modules](#3-the-modules), [4 the runs](#4-the-runs),
[5 fairness](#5-fairness), [6 the proofs](#6-the-proofs),
[7 disagreements](#7-where-code-and-text-disagree),
[8 what is left out](#8-what-is-left-out), [9 running it](#9-running-it).

## 1 The system

### 1.1 Components

| Component | State | Operations | Hard behaviour | Correct when |
|---|---|---|---|---|
| Durable AI jobs (`modules/ai-jobs`) | `AiJob` rows: status, lockedBy, lockedAt, attempts, runAfter; per process the execution in hand | enqueue, poll, requeue of stale locks, claim, heartbeat, fenced progress and endings | any process may stall, die or be replaced; hostname:pid is not unique; a statement's reply may be lost | only the latest claim can decide a job; outcomes are final; failures stay within `maxAttempts`; every job ends |
| Gap Analysis submission (`gap-analysis.router.ts`, `runGapAnalysis`) | `GapAnalysis` row, stored document, ledger row, counter | deduplicate, reserve, create, upload, enqueue, publish; clean up and compensate on failure | ten statements over three stores with other requests in between | one live execution per identity; failed submissions leave nothing counted |
| Gap Analysis execution (`executeGapAnalysisPipeline`, finalization, cancellation) | status of the row, cancellation signal | authorize, download, extract, analyze, complete, finalize, record failure | cooperative cancellation, lease loss at any await, retries | result, settlement and job completion appear together; terminal statuses stay |
| Gap Analysis deletion and recovery | `deletedAt`, outbox rows, updatedAt | revoke, cancel jobs, soft delete; sweep of abandoned analyses | races with upload, worker and retry; stale reads | no analysis stays in progress; stored objects of deleted rows are queued |
| Usage accounting of Gap Analysis | `GapAnalysisUsageLedger`, Redis counter and refund markers, `User.freeTrialUsage` | reserve, settle, compensate, reconcile | two stores, concurrent compensators, crash between the stores | units are given back once, or held by a row |
| Object-deletion outbox (`gap-analysis-object-deletion.ts`) | `GapAnalysisObjectDeletion` rows, the bucket | enqueue, claim, validate, delete, complete, fail, recover stale claims | claims are fenced by the name of a process only; bucket and row are two stores | only objects of deleted analyses vanish; a completed row has no object; every request is settled |
| Quota middleware and trial counters | Redis counters, trial JSON | pre-check, increment, roll back | check then act | reservations stay within the plan |
| Usage reservations of other metrics (`services/usage-reservation`, `usage-tracking`) | reservation rows, Redis counters | reserve, commit, release, reconcile orphans | month rollover, fallback to the database | like the ledger |
| Policy pipelines (`policy`, `enterprise-policy`) | `Policy`, `GeneratedPolicy` | generate, retry | entity updates by id after a fenced transition | the entity follows the job |
| M-Pesa billing (`intasend-*.service.ts`, `mpesa-renewal.service.ts`, `resolve-effective-plan.ts`, `billing.router.ts`) | `Payment` rows, the organization's plan, status and dates, cached plan context, the provider's own record | initiate, finalize, repair, fail, expire, renew, downgrade | four callers finalize one payment; lost and repeated webhooks; writes conditioned on nothing; crashes between push and row | service follows completed payments; nobody loses paid time; what was paid is recorded; what lapsed ends |
| Stripe (`lib/stripe`) | subscriptions, purchased credits | webhooks | duplicated and reordered events | one purchase grants once |
| Agents and approvals (`modules/agents`) | agent runs, credentials, approval requests | start, finish, approve, reject, execute | decision racing with expiry and execution | nothing runs unapproved, or twice |
| Marketing (`modules/marketing`, `bulk-send-cron.ts`) | campaign, send jobs, a Redis list, three kinds of Redis locks, `CampaignSend` rows, consent, suppression | confirm, execute, queue, drain, send, cancel, suppress, revoke | two executions, overlapping cron runs, locks that expire, opt-outs between resolution and sending | nobody is mailed twice without a named race; nobody queued is forgotten; an opt-out is respected |
| Blog automation (`blog-automation`) | discovery lock, drafts, reviews | discover, triage, draft, verify, publish | lock expiry during discovery | one discovery at a time; published text is reviewed |
| Users, organizations, seats, invitations (`organization.router.ts`, `auth.router.ts`, `organization-*.service.ts`) | memberships, invitations, plan, pilot, an advisory lock; sessions and profiles | invite, add, accept, revoke, resend, remove, suspend, reactivate, provision, change plan | the last seat taken twice; changes made without the lock | seats stay within the plan; a revoked invitation admits nobody |
| Idempotency plugin, rate limiter, circuit breaker, locks | Redis keys | begin, replay, trip, probe, reset | expiry and lost replies | a request's effect happens once |
| Vault and documents | files, quota | upload, delete, reconcile | storage and database diverge | quota equals stored bytes |
| Compliance evaluation, regulatory intelligence, AI gateway, RAG, ingestion | none shared | pure evaluation, provider calls | provider failures | - |
| Notifications, alerts, e-mail, analytics, admin, calendar, content | single rows | create, list, mark | best effort | - |

### 1.2 How the modelled components interact

A request handler deduplicates by execution identity, resolves the quota, adds
its units to the counter and calls `runGapAnalysis`. That writes the analysis
and its ledger row in one transaction, uploads the document, persists the
reference, enqueues the job and publishes `QUEUED`. A runner claims the job and
calls the pipeline with the lease; the pipeline moves the analysis on with
transactions that renew the lease, and `finalizeGapAnalysisAttempt` writes
result, settlement and job completion in one transaction. What the pipeline
throws decides how `execute()` ends the job, and afterwards what happens to the
analysis row and to the ledger. A deletion revokes the analysis, cancels the
job and soft-deletes. The recovery sweep runs in a runner's tick.

A deletion leaves outbox rows, which runners and an operator's script drain.
The other three modelled parts meet this one in the organization only: M-Pesa
billing decides its plan (whose seats `OrganizationSeats` counts and whose
quota `GapAnalysis` reserves from), and no step of one reads the state of
another in the middle of its own. `OrganizationSeats` therefore takes a
purchase as one action of its environment, `MpesaBilling` leaves seats out, and
`MarketingSend` shares nothing with them.

The stores are shared by all of them, and the only atomic units are one SQL
statement, one `$transaction`, one Redis command and one Lua script. These are
the steps of the models.

## 2 The plan

In the order of importance:

1. `AiJobQueue` with its abstract specification `AiJobService`, its properties
   and proofs. *Done.*
2. `GapAnalysisUsage`, the two-store accounting, and proofs. *Done.*
3. `GapAnalysis`, composing both with submission, execution, deletion and
   recovery, and proofs. *Done.*
4. `ObjectDeletionOutbox` with its abstract specification
   `ObjectDeletionService`, and proofs of safety and refinement. *Done.*
5. `MpesaBilling`: IntaSend finalization and reconciliation, renewal and lazy
   downgrade, and proofs. *Done; Stripe events are not modelled.*
6. `OrganizationSeats`: memberships and invitations against the seat limit, and
   proofs. *Done.*
7. `MarketingSend`: executions and cron runs against locks and opt-outs, and
   proofs. *Done.*
8. Usage reservations of the other metrics; month rollover and fallback.
9. Agent approvals: a decision, its expiry and its execution.
10. Circuit breaker and idempotency plugin.
11. Proofs about the composition: the life cycle, the quota and the lease of
    `GapAnalysis` (*done*); that the composition keeps the budget of attempts
    and implements `AiJobService` as the queue alone does (open).

The parts 4 to 10 are independent of each other.

## 3 The modules

| Module | Models |
|---|---|
| `AiJobQueue` | `AiJobRunner`, the lease, the `AiJob` table |
| `AiJobService` | what the queue promises: one authoritative execution, outcomes decided once (abstract) |
| `AiJobQueueProperties` | the queue's properties and the refinement mapping |
| `AiJobQueueProofs` | their proofs |
| `GapAnalysisUsage` | the ledger, the counter, compensation and reconciliation, with their properties |
| `GapAnalysisUsageProofs` | proofs of the safety properties |
| `GapAnalysis` | the life of an analysis; `INSTANCE`s the two modules above |
| `GapAnalysisProperties`, `GapAnalysisProofs` | its properties; proofs of the life cycle, the quota and the lease |
| `ObjectDeletionOutbox` | the outbox, its workers and the bucket |
| `ObjectDeletionService` | what a deletion is promised about its objects (abstract) |
| `ObjectDeletionProperties`, `ObjectDeletionProofs` | properties and refinement mapping; proofs |
| `OrganizationSeats` | memberships, invitations, the advisory lock, plan and pilot |
| `OrganizationSeatsProperties`, `OrganizationSeatsProofs` | properties; proofs |
| `MpesaBilling` | payments, the organization's subscription, renewal job, plan lookup and cache |
| `MpesaBillingProperties`, `MpesaBillingProofs` | properties; proofs |
| `MarketingSend` | one campaign: executions, queue, cron runs, the send pipeline, opt-outs |
| `MarketingSendProperties`, `MarketingSendProofs` | properties; proofs |
| `UnitCounting` | lemmas on adding up the units of a set of rows or requests, used by the proofs of the accounting and the quota |
| `MC...` | constants for TLC, one module for each component |

### 3.1 AiJobQueue

`job[j]` is a row; `runner[p]` is where a process's tick is and the local
variables of `execute()`. Time is two flags of a row: `due` (`runAfter` has
passed) and `stale` (`lockedAt` is older than `AI_JOB_STALE_LOCK_MS`). One
action is one statement:

| Action | Code (`ai-job-runner.ts`) |
|---|---|
| `RequeueStaleLocks`, `ClaimNextJob`, `NothingToClaim` | a tick: 141, 164, 169 |
| `Heartbeat`, `ProgressFenced` | the interval timer 222-246, `updateProgress` |
| `HandlerReturns`, `HandlerFinalizes`, `HandlerCancelled`, `HandlerThrows` | how a handler ends, 249-263 |
| `MarkCompleted`, `VerifyCompletion` | the completing compare-and-set 265-287 |
| `MarkCancelled`, `MarkFailed` | the catch block's 291-318, 329-356 |
| `FinishTick` | what follows the transition |
| `CompletionFails`, `Crash`, `HeartbeatStalls` | faults, bounded by `MaxFaults` |
| `RunAfterElapses`, `AbandonedLockExpires` | time |

The claim picks any eligible row: `SKIP LOCKED` makes the `ORDER BY` no
guarantee. A process that crashes is replaced by one with an idle runner and
the same worker id, which is what a container restart does.

### 3.2 GapAnalysisUsage

`comp[c]` is the control state of one call of `compensateGapAnalysisUsage`; its
first step reads the row and chooses the path, and never reads again. The Lua
script is one step (`RefundScript`); the claim, the script and the release are
separate steps for paid plans, one step for trials. `RefundFails` has the
script's effect or not, because the reply may be lost. The refund marker's
45-day expiry is not modelled: a compensation is taken to be retried sooner.
`refunds` is a history variable, used by the properties alone.

### 3.3 GapAnalysis

`submission[s]` is a request's place in the router and in `runGapAnalysis`, and
the execution identity it asked for; `stage[p]` is the pipeline's place within
the queue's state `running`, and what follows the transition within `settling`.
The `AiJobQueue` instance has one job per submission (the idempotency key is the
analysis id); its application action `Enqueue` is replaced by `EnqueueJob`, its
`CancelByOwner` by `CancelJobs`. The `GapAnalysisUsage` instance has one row per
identity, as `reservationKey` is unique, and its `Reserve` and `Settle` are
parts of the transactions `CreateRecord` and `FinalTransaction`.
`assertGapAnalysisStillActive` reads two rows concurrently; the model reads them
at once, which gives the same verdicts. The model takes every place where the
pipeline may look at its cancellation signal as one action, `ObserveRevocation`,
enabled anywhere. Consecutive progress writes with the same status are one.

The faults of a submission are those of its three stores. A PostgreSQL statement
fails without effect (`SubmissionStatementFails`) or commits and loses its reply
(`SubmissionReplyLost`). The counter (Redis for a paid plan, PostgreSQL for a
trial) fails at an increment (`ChargeFails`) or at a decrement
(`GivingBackFails`), in each case with or without the effect, and either the
error is thrown or the Redis client re-sends the command (`SentAgain`,
`lib/redis/client.ts:16`). A decrement that throws in the handler of a reused
execution leaves `usageReserved` true, so the catch block compensates for it
once more. `stray` is the history of units that such decrements gave back before
they were repeated; it guards nothing and is read by the quota's properties
only.

Data is reduced to what the properties tell apart: an identity is a value, a
document is present or not, an error is retryable or not.

### 3.4 ObjectDeletionOutbox

`row[o]` is the outbox row of an object, `worker[w]` one turn of
`processGapAnalysisObjectDeletionBatch`, `storage` the bucket. `Owned` are the
objects the validation accepts: those the deleted analysis still names, under
its own prefix. A row waiting for `runAfter` may be claimed at any later time;
a claim is stale once nobody works on it, or by a stall.

| Action | Code (`gap-analysis-object-deletion.ts`) |
|---|---|
| `ReadForDeletion`, `CommitDeletion` | `deleteGapAnalysis`, the upsert and the soft deletion in one transaction |
| `ClaimNextDeletion`, `ClaimReplyLost` | the claim with `SKIP LOCKED`; its reply may be lost |
| `Validate`, `Refuse` | ownership and prefix checks, the immediate escalation |
| `RemoveObject`, `CompleteDeletion`, `FailDeletion` | the removal and the two closing updates, conditioned on `PROCESSING` and the worker's name |
| `RecoverAbandonedClaim`, `RecoverStalledClaim` | claims older than ten minutes |
| `StorageFails`, `DatabaseFails`, `Crash` | faults, with or without the effect |

### 3.5 OrganizationSeats

Transactions run at READ COMMITTED, so a procedure is several steps of a
session: look something up, take the advisory lock, count, commit. The lock is
one variable; PostgreSQL releases it with the transaction.

| Action | Code |
|---|---|
| `BeginInvite`, `BeginAdd`, `BeginRevoke`, `BeginAccept` | what is read before the lock: `organization.router.ts`, `auth.router.ts` (registration with an invitation), `admin.router.ts` |
| `LockSeats`, `CheckSeats`, `RollBack` | `pg_advisory_xact_lock`, the counts under it, the refusals |
| `CommitInvite`, `CommitAdd`, `CommitAccept`, `CommitRevoke` | the writes |
| `RemoveMember`, `BeginChange`, `CommitChange`, `ResendInvitation`, `ProvisionUser` | changes without the lock |
| `BeginPurchase`, `CommitPurchase`, `PilotEnds`, `InviteExpires` | changes of the limit, and time |

`causes` is a history of the changes that took a seat, or lowered the limit,
without the lock: `resent` and `unchecked`. The properties say what holds as
long as they did not happen.

### 3.6 MpesaBilling

`org.until` stands for the three dates that every payment writes together, in
ticks, `org.method` for `preferredPaymentMethod`; `mpesaCancelledByUserAt`, the
other condition of the renewal job's query, is only ever cleared by this
repository's code, so it always holds and has no field. `payment[p]` is a row,
`born` its place in the order of `createdAt`; `provider[p]` is IntaSend's own
verdict, which is taken to be final. `MISMATCHED` is a complete payment whose
amount, currency, plan or invoice is not the row's. `handler[h]` is one run of
the finalization code, whoever called it, or of `updatePaymentMethod`; a
webhook's content is never believed, each run asks the provider. The
reconciliation job may take a row only while fewer than `Batch` older ones wait
(`InBatch`).

| Action | Code |
|---|---|
| `Begin`, `Deduplicate`, `Create`, `PushAccepted`, `PushThrows`, `StoreInvoice`, `InitiatorDies` | `initiateMpesaPayment` (`billing.router.ts`) |
| `ProviderDecides`, `Receive` | the provider, and asking it (webhook, poll, reconciliation, admin) |
| `Reject` | `finalizePayment` refuses what does not match its row (341-381); the row stays `PENDING` |
| `Finalize`, `Repair`, `NothingToFinalize`, `Invalidate` | `finalizePayment`: the claim of the row and what it buys; the repair of an organization whose payment is already completed; the caches |
| `ReadFailed`, `CommitFailed`, `ExpireOrLeave` | `markFailed` and the expiry |
| `ChooseMethod` | `updatePaymentMethod` (`billing.router.ts`), which leaves plan and dates alone |
| `CronScan`, `CronAct`, `CronInvalidate` | the renewal job: what it selects and decides, its unconditional write, the caches |
| `ResolverRead`, `ResolverAct`, `CacheExpires` | the plan lookup of a request, which decides by the cached or the row's due date, and its cache |
| `HandlerDies`, `Tick` | a run that dies, time |

### 3.7 MarketingSend

`worker[w]` is an `executeSend` request or a cron run (one `drainBatch` within
`runBulkSendCron`); both go through the actions of `sendToContact`. Redis is
`queue`, `drainLock` (the campaign's queue), `cronLock` (the job), `sendLock`
(a contact's 24-hour idempotency lock) and `token`. A recipient list is any
order of the recipients, as the query has none.

| Action | Code |
|---|---|
| `RequestConfirmation`, `ReadForCancel`, `CommitCancel` | `campaign.service.ts`, 262 and 524 |
| `Validate`, `StartSending`, `Resolve`, `BackToDraft`, `FinishSync` | `executeSend` |
| `CreateJob`, `Push`, `SetSending` | `enqueue` (`send-queue.service.ts`) |
| `FindJob`, `LockQueue`, `QueueIsLocked`, `Pop`, `FinishBatch`, `FinalizeJob`, `Conclude`, `Release` | a cron run and `drainBatch` |
| `Take`, `Check`, `Mail`, `Persist`, `MailFails`, `DatabaseFails` | `sendToContact` (`send.service.ts`) |
| `Suppress`, `Revoke` | `suppression.service.ts`, `consent.service.ts` |
| `Crash`, `DrainLockExpires`, `CronLockExpires`, `SendLockExpires` | faults; a lock whose holder died expires without one |

Only positive answers of the suppression check are cached, and nothing in
production lifts a suppression, so the cache and the table decide alike and are
one set. Any contact may have revoked its consent before the campaign begins;
`Leavers` are those that may opt out during it. `raced`, `lost` and `overtaken`
are history, and so is a worker's `refused`: how its contact had opted out when
it was taken (`Refusal`: not at all, by a revocation only, or suppressed).

## 4 The runs

| Run | Instance | Shows |
|---|---|---|
| `AiJobQueue` | 2 jobs, 2 processes with one worker id, 2 attempts, 2 faults | all of the queue's properties, the refinement, and that every job ends |
| `GapAnalysisUsage` | a paid row of 2 units, a trial row, an unlimited row; worker, handler, operator; 2 faults | all of the accounting's properties |
| `GapAnalysisOne` | 1 request on a paid plan or on trial, 1 deletion, 2 runners, 2 attempts, 2 faults | `ResultIsAtomic`, `WorkerRefundsOnlyFailures`, `NoResurrection`, `OnlyLatestClaimWrites`, and `AnalysisInvariant`, the invariant the proofs rest on |
| `GapAnalysisTwo` | 2 requests of 2 members, identities of 1 and 2 units on a quota of 2, 1 deletion, 1 runner, 1 fault of any kind | `OneLiveExecution`, `HeldWithinLimit`, `QuotaIsCovered` |
| `GapAnalysisLive` | 1 request on any plan, 2 runners, 2 attempts, 1 fault of any kind | `EveryAnalysisConcludes`, `DeadLetterIsRefunded` |
| `ObjectDeletion` | an owned object and one the analysis no longer names, 2 workers of one name, 2 attempts, 3 faults | safety, the refinement, and that every request is settled |
| `OrganizationSeats` | an owner, 2 others of whom one has an account, 2 invitations, 2 sessions, plans of 1 and 2 seats, a pilot of 3 | all of the seat properties |
| `MpesaBilling` | 2 payments, a webhook run and a reconciliation run, batches of 1, any number of deaths, 2 plans of which the job knows one, 3 ticks | `PrepaidIsPaid`, `ServiceWasBought`, `VerdictsAgree`, `EarlyEndHasCause` |
| `MpesaBillingLive` | 2 payments for one plan, 1 reconciliation run, batches of 1, any number of deaths, no grace period, 2 ticks | `PaidIsRecorded`, `LapsedServiceEnds` |
| `MarketingSend` | 2 contacts, one of whom may opt out, 2 executions, 2 cron runs, batches of 1, 1 fault of any kind | all of the marketing properties |
| `GapAnalysisRetry`, `MpesaRenewalOverlap` | the smallest instances | section 7 |

Why the bounds are enough. A stale worker needs one process that stalls and one
that takes over; a worker whose id was reused needs the two to have the same
one; a budget that is overdrawn needs a lock that expires on the last attempt
after one failure, hence two attempts and two faults. Two jobs are needed for a
process to be busy with one while the other's lock expires. A double refund
needs two callers and one lost reply; the third caller is the reconciliation.
A race of requests needs two of them, and units of 1 and 2 on a quota of 2 make
the same instance one in which two identical requests both pass the quota and
two different ones do not.

The outbox needs two turns of one name, so that one may close the claim of the
other, and two deletions that read one analysis. Seats need two sessions that
compete for one seat, two invitations for the second one of an address, and
plans on both sides of the number of people. A payment is repeated by two runs,
and the repair of an older purchase needs a second payment; three ticks reach
past one period and its grace. Two payments and a batch of one are enough for an
older row to keep a younger one out of every batch, as a hundred do with the
code's batch of 100; with one slot for runs, a run that looks at a payment and
one that changes the method follow each other in any order, and two of them
beside each other are the safety run's. A rollback that takes another request's
units needs requests of two members, whose rows the compensation of the other
does not find. A mail is repeated by two executions or two cron
runs; a threshold of one makes a list of two queued and, once one contact opted
out, a list of one mailed within the request, and batches of one let a run end
with the queue half drained. In the same instance a request comes to a contact
that was suppressed, and to one that only revoked its consent, after it read the
list.

`DeadLetterIsRefunded` speaks of every point from which nothing fails any more:
a crash between the job's last transition and the compensation, or a failed
claim of the compensation, leaves the ledger row `RESERVED` for good, which no
reconciliation selects.

Interchangeable values are a symmetry in `GapAnalysisOne`, `OrganizationSeats`,
`MpesaBilling`, `MpesaRenewalOverlap` and `MarketingSend`;
the runs with liveness use none. Every history and fault counter is bounded by
`MaxFaults` or by the number of attempts it allows, the clock of
billing by `MaxNow`, requests in flight for one object by `MaxRequests`.

Deadlock is checked where a system never stops: a runner always polls again, an
operator may always call, a member may always be removed and come back. It is
not checked in `ObjectDeletion` (every row settled, no fault left), in the
billing runs (the clock at its bound, every payment decided) and in
`MarketingSend` (the campaign finished), whose systems come to rest.

## 5 Fairness

- Runners (`QueueFairness`, `Fairness`): a live process's timer fires, and a
  statement returns or fails. `start()` schedules the poll and every path of
  `tick()` schedules the next, so weak fairness of its steps is justified.
- Handlers end: the pipeline has a deadline of its own
  (`maxWallClockMs`, compliance.module.ts:402) and every provider call a timeout.
- Time passes: `RunAfterElapses`, `AbandonedLockExpires`, `AnalysisAges`.
- The recovery sweep looks at every candidate again and again, though a claim
  may disable its step in between, hence strong fairness of `ReadForRecovery`.
- The operator keeps running the reconciliation script
  (`scripts/reconcile-gap-analysis-usage.ts`).
- The outbox (`LiveOutboxSpec`): a turn that was begun goes on, a claim nobody
  works on is returned, and a row that is due again and again is claimed; the
  last is strong fairness, as failing takes the row from `Due` in between, and
  justified by the claim's order (oldest first) and the bounded retries.
- Billing (`BillingFairness`): the renewal job is scheduled every day and
  finishes what it scanned; a run of the finalization goes on unless it dies;
  reconciliation walks its whole batch, whatever becomes of one row, again and
  again. `InBatch` is a condition of `Receive`, so its strong fairness owes a row
  nothing while a hundred older ones wait. Runs die without bound, but not every
  run that takes up the same payment dies with it (strong fairness of
  `Conclude`). No webhook, no polling client and no request that resolves a plan
  is ever owed.
- Nothing is assumed of faults, deletions, requests that have not arrived, of
  the pipeline failing or succeeding, or of the provider deciding.

`OrganizationSeats` and `MarketingSend` state no liveness. Of the first nothing
has to happen; a campaign's end depends on section 7's lost jobs.

## 6 The proofs

Seven modules of theorems, and `UnitCounting` with lemmas two of them share,
over every value of the constants that satisfies the named assumption of the
component (`QueueAssumption` and `NoJobAssumption`, `UsageAssumption`,
`GapAssumption`, `OutboxAssumption`, `SeatsAssumption`, `BillingAssumption`,
`SendAssumption`): any sets of jobs, processes, rows, callers, people, sessions,
payments and contacts, any limits and any bounds on the faults. Each proves an
inductive invariant, one step per action, and the properties from it.

`GapAssumption` says that requests and processes are different actors, that
`None` is neither a request nor an identity, that finitely many of both exist
(their units are added up), and what the two instantiated modules assume: a
positive number of units for each identity, a scope, a positive `MaxAttempts`.

**The queue.** `LeaseIsLatestClaim` is not inductive: it needs that no execution
holds an attempt number its row has not reached, and that the execution holding
the row's own number belongs to the last claimant. That is `ClaimsAreNumbered`,
inductive because the claim increments `attempts` in the statement that takes
the row, and nothing else touches it; `AbsentIsUntried` covers rows not yet
inserted. `QueueInvariant` adds types and `AttemptBudget`. From it:

- `QueueTypeCorrect`, `QueueInvariantHolds`, `LeaseFences`,
  `AttemptsAreBudgeted`: invariants;
- `OutcomesAreFinal`: every statement that writes a row requires it to be
  `RUNNING`, waiting or absent;
- `QueueImplementsService`: under the mapping of `AiJobQueueProperties` every
  step is a step of `AiJobService` or a stutter. An ending maps to `Decide`,
  which needs `LeaseIsLatestClaim`: the process that passes the compare-and-set
  is the owner in the abstract specification.

**The accounting.** `RefundedAtMostOnce` and `ReleasedMeansRefunded` follow from
`UsageInvariant`: a paid refund happened exactly when its marker is set, a trial
refund exactly when its row is released; a caller about to release a paid row
has seen its marker set; and a compensation never leaves the path of its row's
scope. `AccountingInvariant` adds that a compensation past its first step has a
row. With it, `CounterNeverDrifts`: the counter of a scope equals the units its
rows hold. Units are a set (pairs of a row and a number), so that a sum is a
cardinality; that reserving adds a row's units and a refund takes away exactly
those, never cut off at zero, are lemmas of `UnitCounting` from
FiniteSetTheorems. `TrialSettlementsAreFinal` is proved of every step.

**The life cycle.** None of the properties of `GapAnalysis` is inductive.
`GapInvariant` says what a place in the code may rely on: a request has a row
from the transaction that creates it on (`RequestFits`); a ledger row belongs to
one analysis for ever, and a job to its analysis (`RowsHaveHolders`); what a
runner believes of a job it ended is true, and it compensates the row of that
job (`ExecutionFits`); a settled row has a completed job. Most steps are
`Quiet`: they create and complete nothing, and need a look at their actor's
control state only. From it:

- `ResultAppearsAtOnce`, `ExecutionsAreUnique`: conjuncts or consequences. An
  identity has one holder because `reservationKey` is unique;
- `RunnersRefundOnlyFailures`: a dead-lettered or cancelled job stays so, and a
  settlement needs a completed one;
- `NothingIsResurrected`: every write to a status requires it to be active, but
  for the deletion, which cancels.

**The quota.** `QuotaInvariant` joins `GapInvariant`, what the accounting knows
of refunds (`RefundsFit`) and the two bounds. `QuotaIsCovered` counts the units
rows hold and those of requests charged without a row yet (`Owes`); it must
cover both for the rollback of one request not to take another's units.
`HeldWithinLimit` follows from it at the increment, the only step that looks at
the limit. `CounterCoversReservations` and `ReservationsRespectLimit` state both,
for any interleaving of requests, refunds, replies lost and crashes. Both allow
for `stray`, the units of decrements that took effect and were repeated as no
reply told the request so; without it neither holds of the code (section 7). As
long as every decrement is answered `stray` is zero and the bounds are the plain
ones. Neither bound is an equality: a request that dies after its increment
leaves units counted that nothing owes (section 7).

**The lease in the composition.** The queue's theorems are about the queue with
its own environment. Here the application writes job rows as well: status
transactions renew the lease, the final transaction completes the job, a
deletion cancels it, the pipeline's failures end the handler. `ClaimsAreNumbered`
is therefore proved again over all of `GapAnalysis` (`KeepsClaims`: every step
but the claim leaves attempts, claimants and concluded rows alone), and
`AnalysisInvariantHolds` joins it to the quota's invariant. From it
`JobOutcomesAreFinal`, and `OnlyTheLatestClaimWrites`: a step that moves an
analysis on, completes it, or settles its ledger row is taken by the execution
that made the latest claim of its job, for any assignment of worker names to
processes. A delayed progress write of a worker that was replaced is the case it
excludes, and what it needs is that the write and the renewal of the lease are
one transaction.

**The outbox.** `OutboxInvariant` strengthens the three safety properties by
`TurnIsOnCourse`: how far a turn got says what is true of its object (a turn
about to complete has seen it removed, one about to remove has seen it owned)
and no turn holds an attempt number its row has not reached. That is what makes
a claim without a token harmless here: whichever turn closes the row, what it
says of the object is true. The invariant gives
`CompletionIsHonest`, `DeletionsAreOwed` and `EscalationsAreLate`;
`OutboxImplementsDeletion` is the refinement of the safety part of
`ObjectDeletionService`.

**The seats.** `SeatsInvariant` adds that whoever is past `LockSeats` holds the
lock (`LockIsHeld`) and that what it counted still covers the seat it is about
to take (`CheckStillHolds`), whatever changes without the lock may have
happened since, as those are recorded in `causes`. Counting is
`FS_CardinalityType`, `FS_AddElement` and `FS_Subset` of FiniteSetTheorems.
The invariant gives `OversubscriptionIsExplained`, `MembersFitLimit`,
`DuplicatesAreExplained` and `RevocationsHold`.

**Billing.** `BillingInvariant` adds that rows follow their request
(`RowsFollowRequest`), that a run acts on what the provider said (`RunsKnow`),
that every payment buys at most one period beyond those completed
(`EndsArePaid`) and that the due date by which the job or the lookup is about to
end a plan is overdue (`ReadsAreOld`). The invariant gives `ServiceIsPrepaid`,
`ServiceIsBought`, `VerdictsAreTheProviders` and `EarlyEndsAreExplained`.

**Marketing.** `SendInvariant` adds that a contact which was never raced is in
one hand at most, locked since it was taken and not mailed before that hand's
`mail` (`TakenOnce`); that, unless a job was ended early, whatever is or will be
in the queue has an active job no run is about to end (`JobsFollowQueue`);
that a queued recipient is decided, lost, in the queue or in the hands of a
cron run (`QueuedIsKept`); and that every worker knows of an opt-out before it
mails, but for a request whose contact only revoked its consent
(`RefusalsAreKnown`). The invariant gives `SecondMailsAreExplained`,
`RecipientsAreRemembered` and `OptOutsAreRespected`.

`OncePerExecution` counts mails, and has an invariant of its own,
`MailsAreBudgeted`: the mails a contact got, with the places from which one may
still come, are no more than the executions begun. A place is a tuple: a
position in the queue, a position in the list of a worker that did not queue it,
the hand of a worker that has not mailed, an execution without a list. Each step
maps the places after it into the places before it, one to one, so counting
needs no induction over queues; `Validate` brings a place and the execution that
pays for it, `Mail` gives one up for the mail. `MailsStayBudgeted` and
`MailsAreNotRepeated` hold for any overlap, crash and expiry of cron runs.

Every inductive invariant was checked by TLC on the instance of its component's
run before it was proved. Those the runs still list are `QueueInvariant`,
`AnalysisInvariant` and `SeatsInvariant`; of the others the runs list what
follows from them.

**Only model-checked.** Liveness (`EveryJobSettles`, `EveryAnalysisConcludes`,
`DeadLetterIsRefunded`, `PendingIsReconciledOrStranded`, `PaidIsRecorded`,
`LapsedServiceEnds`, and the fairness parts of `ImplementsDeletion`), as fairness
and `ENABLED` are beyond the prover, and the two behaviours of section 7 that a
run exhibits. Every invariant and action property of a passing run is a theorem.

## 7 Where code and text disagree

Two have a run that finds the behaviour; PROJECT.json quotes the text.

- `GapAnalysisRetry`: the pipeline writes `FAILED` before the runner schedules a
  retry, so "Retry scheduled" never reaches the row and the retried attempt
  cancels itself.
- `MpesaRenewalOverlap`: two renewals begun before either completes are given
  the same period, so the second payment buys no time, although "early renewal
  preserves already-paid service time".

The models contain the following too; they were met while modelling and have no
run of their own.

Gap Analysis:

- The ledger's unique `reservationKey` refuses a new request after a failed,
  cancelled or deleted attempt, which the identity's comment says does not
  happen (compliance.module.ts:3291).
- `EXTRACTING` is not a reusable status, and the duplicate's compensation, found
  by reservation key, releases the reservation of the execution that goes on to
  complete (gap-analysis.router.ts:601).
- A request refused after a failed one finds a released row, takes it for its
  own and keeps its unit counted.
- A request that dies between the increment and the insert of the ledger row
  leaves a unit no row records (gap-analysis.router.ts:566).
- The rollback of a reused execution clears `usageReserved` after the decrement
  was answered (gap-analysis.router.ts:591). A decrement that took effect and
  lost its reply is thus made good a second time by the catch block, when the
  row of the identity is another member's, and the Redis client sends every
  unanswered command up to three times more (lib/redis/client.ts:16). Either
  takes units another request was charged, and the limit can then be exceeded by
  as many: `QuotaIsCovered` and `HeldWithinLimit` fail without `stray`.
- A retry of a pending compensation that dies after its claim leaves
  `COMPENSATING`, which the reconciliation does not select.
- A deletion that read the row before the upload was persisted queues no
  removal; one of an analysis in progress cancels its job without compensating
  (compliance.module.ts:3576 and 3586).
- `requeueStaleLocks` ignores `maxAttempts`, so a job whose worker dies every
  time is executed without bound; `AttemptBudget` states the bound that holds.
- The reconcile script lists `ESCALATED` outbox rows, but nothing claims them.

Seats:

- A resent invitation is not counted and may be the second for its address; a
  suspension or reactivation may bring back a member removed in between; an
  administrator provisions without counting.
- Members in excess of a smaller plan become `REMOVED`, where the comment speaks
  of suspending them, and `retainedMemberUserIds` has no effect.
- An organization on a pilot passes `assertOrganizationCanUseTeamSeats`, but the
  team check inside the transaction ignores the pilot.

Billing:

- A payment that expires and is completed by the provider later is refused with
  409: money without a plan, left to an administrator.
- A process that dies between the push and the update that stores the invoice id
  leaves a payment no verdict can be matched to.
- A repeated verdict for an older completed payment "repairs" the organization
  back to that payment's plan and end.
- A failed early renewal marks an organization `PAST_DUE` that has paid time
  left. The renewal job selects two plans; the others end only when someone
  asks for their plan.
- A payment the provider completed with another amount, currency or plan is
  refused and stays `PENDING`; it neither expires nor is it failed, so it is
  among the oldest rows for ever, and a hundred of them keep reconciliation from
  every younger payment (intasend-reconciliation.service.ts:36).
- An organization that chooses another payment method keeps its M-Pesa plan
  unpaid: the renewal job and the plan lookup both ask for `MPESA`
  (mpesa-renewal.service.ts:81, resolve-effective-plan.ts:448), and
  `updatePaymentMethod` changes nothing else (billing.router.ts:602).

Marketing:

- Two executions both pass the "atomic status transition"; one that finds the
  count changed returns the campaign to `DRAFT` while the other sends, and a
  campaign cancelled after `Validate` is sent.
- A cron run may end a job whose execution has not filled the queue; what is
  pushed then stays there, and the campaign stays `SENDING`.
- "The contact must not receive future sends" (consent.service.ts:18), and the
  comment at line 132 says that `isSuppressed` falls back to `consentStatus` when
  the suppression failed; it does not. A request that read the list before the
  revocation mails a contact whose suppression failed or is still to come, the
  one exception `OptOutIsRespected` names. Cron runs read the consent again.

## 8 What is left out

- The components of section 1.1 that section 2 has not reached, and those with
  no shared state at all; PROJECT.json gives the reason for each.
- Content: documents, prompts, scores, messages, audit rows, notifications,
  caches (a list cache is invalidated by best effort and nothing reads it back
  into these decisions), and payload scrubbing, which no modelled step reads.
- The branch of the pipeline without a lease (the runner always passes one) and
  legacy payloads with inline content.
- The other handlers of the queue: their entity updates after a failure.
- Months: the counter key of a month is one counter; a refund after the month's
  end goes to the key in the ledger row.
- Billing: the figures of amounts (a verdict matches its row or does not), the
  200 rows a renewal job takes, most overdue first, and `staleMinutes`, which
  only delay, receipts, reminders, credits, enterprise contracts and the
  counter of failed renewals (which two concurrent failures increment twice);
  webhooks are believed only as a reason to ask the provider.
- Seats: the membership cache, and `organization.maxSeats` set by an older
  purchase; sessions and profiles.
- Commands the Redis client re-sends after a lost reply are modelled for the
  quota's counter only; an `RPUSH` sent twice would queue a list twice, an `LPOP`
  sent twice lose a batch.
- Marketing: lists, imports, templates, counters, the kind of the final status,
  the expiry of the token and of the queue (48 hours), contacts deleted
  meanwhile; `cancelJob` and `unsuppress`, which production code does not call.
- Routers, pages of the admin console, content and compliance evaluation, AI
  gateway and ingestion are sequential code over one row or one provider call;
  their share of the repository's lines is why most lines have no model.

## 9 Running it

    tlc -config AiJobQueue.cfg MCAiJobQueue.tla
    tlc -config GapAnalysisUsage.cfg MCGapAnalysisUsage.tla
    tlc -config GapAnalysisOne.cfg MCGapAnalysis.tla      # and the other GapAnalysis*.cfg
    tlc -config ObjectDeletion.cfg MCObjectDeletion.tla
    tlc -config OrganizationSeats.cfg MCOrganizationSeats.tla
    tlc -config MpesaBilling.cfg MCMpesaBilling.tla       # and the other Mpesa*.cfg
    tlc -config MarketingSend.cfg MCMarketingSend.tla
    tlapm AiJobQueueProofs.tla                            # and the other *Proofs.tla, UnitCounting.tla

Definitions introduced by "Mutant:" are not part of a specification: each is a
plausible bug in the definition that follows it, and makes the property
PROJECT.json names for it fail.
