---------------------------- MODULE MarketingSend ----------------------------
(***************************************************************************)
(* Sending one marketing campaign (campaign.service.ts,                    *)
(* send-queue.service.ts, send.service.ts, bulk-send-cron.ts) while its    *)
(* contacts opt out (suppression.service.ts, consent.service.ts).  An      *)
(* administrator confirms and executes a send; a small list is mailed      *)
(* within the request, a large one goes to a Redis list that cron runs     *)
(* drain in batches.                                                       *)
(*                                                                         *)
(* Each step is one statement, or several that only read.  Redis locks     *)
(* expire: a lock whose holder died at any time, one whose holder is alive *)
(* as a fault (stall), the 24-hour lock of a contact as a fault (day).     *)
(***************************************************************************)
EXTENDS Naturals, Sequences, FiniteSets, SequencesExt

CONSTANTS
  Contacts,        \* members of the campaign's list
  Leavers,         \* of these, the contacts that may opt out during the sending
  Executions,      \* calls of executeSend
  CronRuns,        \* concurrent runs of the bulk-send job
  AsyncThreshold,  \* larger lists are queued
  BatchSize,       \* contacts a run takes from the queue
  Nobody, NoToken,
  FaultKinds,      \* the faults injected: some of crash, stall, day, mail, database
  MaxFaults        \* bound: how many of them

ASSUME SendAssumption ==
  /\ IsFiniteSet(Contacts) /\ Leavers \subseteq Contacts
  /\ Executions \cap CronRuns = {}
  /\ AsyncThreshold \in Nat /\ BatchSize \in Nat \ {0} /\ MaxFaults \in Nat
  /\ Nobody \notin Contacts /\ NoToken \notin Nat

VARIABLES
  campaign,   \* status of the campaign
  token,      \* the recipient count the confirmation token holds
  cancelling, \* a cancellation has read the status
  jobs,       \* statuses of the campaign's send jobs, oldest first
  queue,      \* the Redis list
  drainLock,  \* the lock of the campaign's queue is set
  cronLock,   \* the lock of the bulk-send job is set
  sendLock,   \* contacts whose idempotency lock is set
  row,        \* status of each contact's CampaignSend
  suppressed, \* contacts on the suppression list
  revoked,    \* contacts whose consent is REVOKED
  worker,     \* what each execution and each cron run is doing
  mailed,     \* history: mails handed to the provider for each contact
  raced,      \* history: contacts taken over a held lock, or whose lock expired
  lost,       \* history: contacts a failing run had in hand
  overtaken,  \* history: a job was ended while an execution was queueing
  faults      \* history: faults injected so far

Workers == Executions \cup CronRuns

vars == <<campaign, token, cancelling, jobs, queue, drainLock, cronLock, sendLock,
          row, suppressed, revoked, worker, mailed, raced, lost, overtaken, faults>>
locks   == <<drainLock, cronLock>>
optOut  == <<suppressed, revoked>>
history == <<raced, lost, overtaken, faults>>
sending == <<sendLock, row, mailed>>

\* todo: contacts still to be sent to; contact: the one in hand; consents: its
\* consent as it was read, or that of todo when the list was resolved; refused:
\* history, how it had opted out when it was taken.
Idle == [pc |-> "idle", todo |-> <<>>, contact |-> Nobody, consents |-> TRUE,
         refused |-> "no", count |-> 0, job |-> 0, fresh |-> FALSE]

SendInit ==
  /\ campaign = "DRAFT" /\ token = NoToken /\ cancelling = FALSE
  /\ jobs = <<>> /\ queue = <<>> /\ drainLock = FALSE /\ cronLock = FALSE
  /\ sendLock = {} /\ row = [c \in Contacts |-> "none"]
  /\ suppressed = {} /\ revoked \in SUBSET Contacts
  /\ worker = [w \in Workers |-> Idle]
  /\ mailed = [c \in Contacts |-> 0] /\ raced = {} /\ lost = {}
  /\ overtaken = FALSE /\ faults = 0

Fault(kind) == kind \in FaultKinds /\ faults < MaxFaults /\ faults' = faults + 1

At(w, pc)   == worker[w].pc = pc
Goto(w, pc) == worker' = [worker EXCEPT ![w].pc = pc]
InHand(w)   == ToSet(worker[w].todo) \cup ({worker[w].contact} \ {Nobody})
Active(j)   == jobs[j] \in {"QUEUED", "RUNNING"}

-----------------------------------------------------------------------------
(* Contacts opt out: two transactions, of which a revocation makes the     *)
(* second afterwards and only logs its failure.                            *)

\* A suppression that stands outweighs the consent.
Refusal(c) == CASE c \in suppressed -> "suppressed" [] c \in revoked \ suppressed -> "revoked"
                [] OTHER -> "no"

Suppress(c) ==
  /\ c \in Leavers \ suppressed
  /\ suppressed' = suppressed \cup {c}
  /\ UNCHANGED <<campaign, token, cancelling, jobs, queue, locks, sending, revoked,
                 worker, history>>

Revoke(c) ==
  /\ c \in Leavers \ revoked
  /\ revoked' = revoked \cup {c}
  /\ UNCHANGED <<campaign, token, cancelling, jobs, queue, locks, sending, suppressed,
                 worker, history>>

\* resolveContacts
Recipients == Contacts \ (suppressed \cup revoked)

-----------------------------------------------------------------------------
(* The administrator: confirm, execute, cancel.                            *)

\* An execution whose token expires is one that does not begin.
RequestConfirmation ==
  /\ campaign = "DRAFT"
  /\ token' = Cardinality(Recipients)
  /\ UNCHANGED <<campaign, cancelling, jobs, queue, locks, sending, optOut, worker, history>>

ReadForCancel ==
  /\ campaign = "DRAFT" /\ ~cancelling
  /\ cancelling' = TRUE
  /\ UNCHANGED <<campaign, token, jobs, queue, locks, sending, optOut, worker, history>>

\* The update has no condition on the status.
CommitCancel ==
  /\ cancelling /\ cancelling' = FALSE
  /\ campaign' = "CANCELLED" /\ token' = NoToken
  /\ UNCHANGED <<jobs, queue, locks, sending, optOut, worker, history>>

\* executeSend reads the campaign and its token.
Validate(e) ==
  /\ At(e, "idle") /\ campaign = "DRAFT" /\ token # NoToken
  /\ worker' = [worker EXCEPT ![e].pc = "validated", ![e].count = token]
  /\ UNCHANGED <<campaign, token, cancelling, jobs, queue, locks, sending, optOut, history>>

\* "Atomic status transition", without a condition.
StartSending(e) ==
  /\ At(e, "validated")
  /\ campaign' = "SENDING" /\ Goto(e, "sending")
  /\ UNCHANGED <<token, cancelling, jobs, queue, locks, sending, optOut, history>>

\* The list is resolved again, and its length decides.
Resolve(e) ==
  /\ At(e, "sending")
  /\ \E list \in SetToSeqs(Recipients) :
       worker' = [worker EXCEPT ![e].todo = list, ![e].count = 0, ![e].pc =
         IF Len(list) # worker[e].count THEN "changed"
         ELSE IF Len(list) > AsyncThreshold THEN "create" ELSE "next"]
  /\ UNCHANGED <<campaign, token, cancelling, jobs, queue, locks, sending, optOut, history>>

BackToDraft(e) ==
  /\ At(e, "changed")
  /\ campaign' = "DRAFT"
  /\ worker' = [worker EXCEPT ![e].pc = "done", ![e].todo = <<>>]
  /\ UNCHANGED <<token, cancelling, jobs, queue, locks, sending, optOut, history>>

CreateJob(e) ==
  /\ At(e, "create")
  /\ jobs' = Append(jobs, "QUEUED")
  /\ worker' = [worker EXCEPT ![e].pc = "push", ![e].job = Len(jobs) + 1]
  /\ UNCHANGED <<campaign, token, cancelling, queue, locks, sending, optOut, history>>

Push(e) ==
  /\ At(e, "push")
  /\ queue' = queue \o worker[e].todo
  /\ Goto(e, "queued")
  /\ UNCHANGED <<campaign, token, cancelling, jobs, locks, sending, optOut, history>>

SetSending(e) ==
  /\ At(e, "queued")
  /\ campaign' = "SENDING" /\ token' = NoToken
  /\ Goto(e, "done")
  /\ UNCHANGED <<cancelling, jobs, queue, locks, sending, optOut, history>>

\* A list mailed within the request ends with the campaign's final status.
FinishSync(e) ==
  /\ At(e, "next") /\ worker[e].todo = <<>>
  /\ campaign' = "FINISHED" /\ token' = NoToken
  /\ Goto(e, "done")
  /\ UNCHANGED <<cancelling, jobs, queue, locks, sending, optOut, history>>

-----------------------------------------------------------------------------
(* A cron run: one drainBatch of the campaign.                             *)

\* The newest active job is read before any lock of the campaign is taken.
FindJob(d) ==
  /\ At(d, "idle") /\ ~cronLock
  /\ \E j \in DOMAIN jobs :
       /\ Active(j) /\ \A k \in DOMAIN jobs : k > j => ~Active(k)
       /\ worker' = [worker EXCEPT ![d].pc = "found", ![d].job = j,
                                   ![d].fresh = jobs[j] = "QUEUED"]
  /\ cronLock' = TRUE
  /\ UNCHANGED <<campaign, token, cancelling, jobs, queue, drainLock, sending, optOut, history>>

\* A job that was QUEUED when it was read is marked RUNNING whatever it is now.
LockQueue(d) ==
  /\ At(d, "found") /\ ~drainLock
  /\ drainLock' = TRUE
  /\ jobs' = IF worker[d].fresh THEN [jobs EXCEPT ![worker[d].job] = "RUNNING"] ELSE jobs
  /\ worker' = [worker EXCEPT ![d].pc = "pop", ![d].fresh = FALSE]
  /\ UNCHANGED <<campaign, token, cancelling, queue, cronLock, sending, optOut, history>>

QueueIsLocked(d) ==
  /\ At(d, "found") /\ drainLock
  /\ worker' = [worker EXCEPT ![d] = Idle] /\ cronLock' = FALSE
  /\ UNCHANGED <<campaign, token, cancelling, jobs, queue, drainLock, sending, optOut, history>>

\* A run that finds the queue empty ends its job, though an execution may have
\* created it and not yet filled the queue or set the campaign's status.
Filling  == \E e \in Executions : worker[e].pc \in {"push", "queued"}
Ends(pc) == overtaken' = (overtaken \/ (pc = "finalize" /\ Filling))

\* Mutant: the contacts are read and stay in the list.
AfterPopNothing(n) == queue

AfterPop(n) == SubSeq(queue, n + 1, Len(queue))

Pop(d) ==
  /\ At(d, "pop")
  /\ LET n == IF Len(queue) < BatchSize THEN Len(queue) ELSE BatchSize
         pc == IF n = 0 THEN "finalize" ELSE "next"
     IN  /\ queue' = AfterPop(n)
         /\ worker' = [worker EXCEPT ![d].todo = SubSeq(queue, 1, n), ![d].pc = pc]
         /\ Ends(pc)
  /\ UNCHANGED <<campaign, token, cancelling, jobs, locks, sending, optOut, raced, lost, faults>>

\* Mutant: a job ends with its first batch.
AnyBatchIsLast == TRUE

\* The depth of the queue decides.
BatchIsLast == queue = <<>>

FinishBatch(d) ==
  /\ At(d, "next") /\ worker[d].todo = <<>>
  /\ LET pc == IF BatchIsLast THEN "finalize" ELSE "release" IN Goto(d, pc) /\ Ends(pc)
  /\ UNCHANGED <<campaign, token, cancelling, jobs, queue, locks, sending, optOut, raced, lost,
                 faults>>

FinalizeJob(d) ==
  /\ At(d, "finalize")
  /\ jobs' = [jobs EXCEPT ![worker[d].job] = "DONE"]
  /\ Goto(d, "conclude")
  /\ UNCHANGED <<campaign, token, cancelling, queue, locks, sending, optOut, history>>

Conclude(d) ==
  /\ At(d, "conclude")
  /\ campaign' = "FINISHED" /\ Goto(d, "release")
  /\ UNCHANGED <<token, cancelling, jobs, queue, locks, sending, optOut, history>>

\* Both locks are deleted, whoever holds them by now.
Release(d) ==
  /\ At(d, "release")
  /\ drainLock' = FALSE /\ cronLock' = FALSE
  /\ worker' = [worker EXCEPT ![d] = Idle]
  /\ UNCHANGED <<campaign, token, cancelling, jobs, queue, sending, optOut, history>>

-----------------------------------------------------------------------------
(* sendToContact, called by both.                                          *)

\* Mutant: the row of a contact whose lock is held is not looked for.
MayTakeHeld(c) == TRUE

\* The lock is acquired, or it is held and no row says what became of it.
MayTake(c) == c \in sendLock => row[c] = "none"

\* A cron run reads the contact here; an execution read it with the list.
Take(w) ==
  LET c == Head(worker[w].todo) IN
  /\ At(w, "next") /\ worker[w].todo # <<>>
  /\ sendLock' = sendLock \cup {c}
  /\ raced' = IF c \in sendLock /\ row[c] = "none" THEN raced \cup {c} ELSE raced
  /\ worker' = [worker EXCEPT ![w] =
       IF MayTake(c)
         THEN [@ EXCEPT !.pc = "check", !.todo = Tail(worker[w].todo),
                        !.contact = c, !.consents = w \in Executions \/ c \notin revoked,
                        !.refused = Refusal(c)]
         ELSE [@ EXCEPT !.todo = Tail(worker[w].todo)]]
  /\ UNCHANGED <<campaign, token, cancelling, jobs, queue, locks, row, mailed, optOut,
                 lost, overtaken, faults>>

GoOn(w) == worker' = [worker EXCEPT ![w].pc = "next", ![w].contact = Nobody,
                                    ![w].consents = TRUE, ![w].refused = "no"]

Settle(w, status) == row' = [row EXCEPT ![worker[w].contact] = status] /\ GoOn(w)

\* Mutant: a list mailed within the request is taken for free of suppressed contacts.
MayMailListed(w) ==
  (w \in Executions \/ worker[w].contact \notin suppressed) /\ worker[w].consents

MayMail(w) == worker[w].contact \notin suppressed /\ worker[w].consents

Check(w) ==
  /\ At(w, "check")
  /\ IF MayMail(w) THEN Goto(w, "mail") /\ UNCHANGED row ELSE Settle(w, "SKIPPED")
  /\ UNCHANGED <<campaign, token, cancelling, jobs, queue, locks, sendLock, mailed, optOut,
                 history>>

Mail(w) ==
  /\ At(w, "mail")
  /\ mailed' = [mailed EXCEPT ![worker[w].contact] = @ + 1]
  /\ Goto(w, "persist")
  /\ UNCHANGED <<campaign, token, cancelling, jobs, queue, locks, sendLock, row, optOut, history>>

Persist(w) ==
  /\ At(w, "persist")
  /\ Settle(w, "SENT")
  /\ UNCHANGED <<campaign, token, cancelling, jobs, queue, locks, sendLock, mailed, optOut,
                 history>>

\* The provider reports an error, having accepted the mail or not.
MailFails(w) ==
  /\ At(w, "mail") /\ Fault("mail")
  /\ mailed' \in {mailed, [mailed EXCEPT ![worker[w].contact] = @ + 1]}
  /\ Settle(w, "FAILED")
  /\ UNCHANGED <<campaign, token, cancelling, jobs, queue, locks, sendLock, optOut, raced,
                 lost, overtaken>>

\* A statement of the pipeline fails and the catch-all records that, or fails too.
DatabaseFails(w) ==
  /\ worker[w].pc \in {"check", "persist"} /\ Fault("database")
  /\ \/ Settle(w, "FAILED") /\ UNCHANGED lost
     \/ GoOn(w) /\ lost' = lost \cup {worker[w].contact} /\ UNCHANGED row
  /\ UNCHANGED <<campaign, token, cancelling, jobs, queue, locks, sendLock, mailed, optOut,
                 raced, overtaken>>

-----------------------------------------------------------------------------
(* Processes die, and locks expire.                                        *)

\* An execution that dies, or fails outside sendToContact, leaves the campaign
\* as it is; a cron run that dies leaves its locks as well.
Crash(w) ==
  /\ worker[w].pc \notin {"idle", "done"} /\ Fault("crash")
  /\ lost' = lost \cup InHand(w)
  /\ worker' = [worker EXCEPT ![w] =
       IF w \in CronRuns THEN Idle ELSE [Idle EXCEPT !.pc = "done"]]
  /\ UNCHANGED <<campaign, token, cancelling, jobs, queue, locks, sending, optOut, raced,
                 overtaken>>

Draining(d) == worker[d].pc \notin {"idle", "found"}

DrainLockExpires ==
  /\ drainLock /\ drainLock' = FALSE
  /\ IF \E d \in CronRuns : Draining(d) THEN Fault("stall") ELSE UNCHANGED faults
  /\ UNCHANGED <<campaign, token, cancelling, jobs, queue, cronLock, sending, optOut, worker,
                 raced, lost, overtaken>>

CronLockExpires ==
  /\ cronLock /\ cronLock' = FALSE
  /\ IF \E d \in CronRuns : ~At(d, "idle") THEN Fault("stall") ELSE UNCHANGED faults
  /\ UNCHANGED <<campaign, token, cancelling, jobs, queue, drainLock, sending, optOut, worker,
                 raced, lost, overtaken>>

SendLockExpires(c) ==
  /\ c \in sendLock /\ Fault("day")
  /\ sendLock' = sendLock \ {c} /\ raced' = raced \cup {c}
  /\ UNCHANGED <<campaign, token, cancelling, jobs, queue, locks, row, mailed, optOut, worker,
                 lost, overtaken>>

-----------------------------------------------------------------------------
ExecutionStep(e) ==
  \/ StartSending(e) \/ Resolve(e) \/ BackToDraft(e)
  \/ CreateJob(e) \/ Push(e) \/ SetSending(e) \/ FinishSync(e)

CronStep(d) ==
  \/ FindJob(d) \/ LockQueue(d) \/ QueueIsLocked(d) \/ Pop(d)
  \/ FinishBatch(d) \/ FinalizeJob(d) \/ Conclude(d) \/ Release(d)

ContactStep(w) == Take(w) \/ Check(w) \/ Mail(w) \/ Persist(w)

SendNext ==
  \/ RequestConfirmation \/ ReadForCancel \/ CommitCancel
  \/ \E c \in Leavers : Suppress(c) \/ Revoke(c)
  \/ \E e \in Executions : Validate(e) \/ ExecutionStep(e)
  \/ \E d \in CronRuns : CronStep(d)
  \/ \E w \in Workers :
       ContactStep(w) \/ MailFails(w) \/ DatabaseFails(w) \/ Crash(w)
  \/ DrainLockExpires \/ CronLockExpires
  \/ \E c \in Contacts : SendLockExpires(c)

SendSpec == SendInit /\ [][SendNext]_vars
=============================================================================
