---------------------------- MODULE MpesaBilling ----------------------------
(***************************************************************************)
(* The subscription of one organization that pays by M-Pesa.  A member     *)
(* starts a payment (billing.router.ts, initiateMpesaPayment); IntaSend    *)
(* decides it; webhooks, polling, the reconciliation job and the admin     *)
(* console each ask IntaSend for its verdict and hand it to                *)
(* intasend-finalization.service.ts; the renewal job                       *)
(* (mpesa-renewal.service.ts) and the plan lookup of every request         *)
(* (resolve-effective-plan.ts) end a subscription that was not renewed.    *)
(*                                                                         *)
(* Time is counted in ticks: Period is what one payment buys, Grace what   *)
(* the code waits after the due date.  The organization's planEndDate,     *)
(* subscriptionCycleEnd and mpesaNextPaymentDueDate are always written     *)
(* together by a payment and are one field here, "until" (0: never set).   *)
(* mpesaCancelledByUserAt, which the renewal job also asks for, is only    *)
(* ever cleared by this code: that guard always holds and has no field.    *)
(***************************************************************************)
EXTENDS Naturals, FiniteSets

CONSTANTS
  Payments,      \* rows of the payments table that may be created
  Plans,         \* plans that M-Pesa can buy
  CronPlans,     \* of these, the plans the renewal job selects
  NoPlan,        \* SubscriptionPlan.REGULATOR, what an unpaid organization has
  Handlers,      \* concurrent runs of webhook, polling, reconciliation, admin
                 \* and of a member who chooses another payment method
  Reconcilers,   \* of these, the ones in which the reconciliation job runs
  Batch,         \* rows the reconciliation job takes at a time: 100
  NoPayment,
  Period,        \* length of one billing cycle, in ticks
  Grace,         \* MPESA_RENEWAL_GRACE_DAYS, and 7 days in the plan lookup
  Empty,         \* no cached plan context
  MaxNow         \* bound of the clock

ASSUME BillingAssumption ==
  /\ IsFiniteSet(Payments) /\ NoPayment \notin Payments
  /\ CronPlans \subseteq Plans /\ NoPlan \notin Plans
  /\ Reconcilers \subseteq Handlers /\ Batch \in Nat \ {0}
  /\ Period \in Nat \ {0} /\ Grace \in Nat /\ MaxNow \in Nat
  /\ Empty \notin Nat

VARIABLES
  now,        \* the clock
  org,        \* the organization's row
  payment,    \* the payments table
  initiator,  \* how far the request that makes a payment has come
  provider,   \* IntaSend's own state of the payment
  handler,    \* what each run of the finalization code holds
  cron,       \* what the renewal job holds
  resolver,   \* what a request resolving the plan holds
  cache,      \* the due date in the cached plan context
  stale       \* history: a subscription was ended over a later payment

core == <<now, org, payment, initiator, provider>>
vars == <<now, org, payment, initiator, provider, handler, cron, resolver,
          cache, stale>>

Purposes == {"INITIAL", "RENEWAL"}
Status   == {"none", "PENDING", "COMPLETED", "FAILED", "EXPIRED"}

NoRow     == [status |-> "none", plan |-> NoPlan, purpose |-> "INITIAL",
              end |-> 0, invoice |-> FALSE, born |-> 0]
IdleRun   == [pc |-> "idle", pay |-> NoPayment, seen |-> "none", wasActive |-> FALSE]
AppliedRun == [IdleRun EXCEPT !.pc = "applied"]
IdleCron  == [pc |-> "idle", until |-> 0]
AppliedCron == [IdleCron EXCEPT !.pc = "applied"]
IdleLookup == [pc |-> "idle", due |-> 0]

Row == [status : Status, plan : Plans \cup {NoPlan}, purpose : Purposes,
        end : Nat, invoice : BOOLEAN, born : Nat]

\* MISMATCHED: complete, but not with the amount, the currency or the plan of
\* the row.
FinalVerdicts == {"COMPLETE", "FAILED", "MISMATCHED"}
Verdicts == {"none", "PENDING"} \cup FinalVerdicts
Run == [pc : {"idle", "verified", "failing", "applied"}, pay : Payments \cup {NoPayment},
        seen : Verdicts, wasActive : BOOLEAN]
OrgStatus == {"ACTIVE", "PAST_DUE", "EXPIRED"}
Methods   == {"MPESA", "OTHER"}
OrgRow == [plan : Plans \cup {NoPlan}, status : OrgStatus, until : Nat, method : Methods]

BillingTypeOK ==
  /\ now \in 0 .. MaxNow /\ stale \in BOOLEAN
  /\ org \in OrgRow
  /\ payment \in [Payments -> Row]
  /\ initiator \in [Payments -> {"idle", "begun", "created", "pushed", "done"}]
  /\ provider \in [Payments -> Verdicts]
  /\ handler \in [Handlers -> Run]
  /\ cron \in [pc : {"idle", "ending", "lapsing", "applied"}, until : Nat]
  /\ resolver \in [pc : {"idle", "ending", "caching"}, due : Nat]
  /\ cache \in Nat \cup {Empty}

BillingInit ==
  /\ now = 0 /\ stale = FALSE /\ cache = Empty
  /\ org = [plan |-> NoPlan, status |-> "ACTIVE", until |-> 0, method |-> "OTHER"]
  /\ payment = [p \in Payments |-> NoRow]
  /\ initiator = [p \in Payments |-> "idle"]
  /\ provider = [p \in Payments |-> "none"]
  /\ handler = [h \in Handlers |-> IdleRun]
  /\ cron = IdleCron /\ resolver = IdleLookup

-----------------------------------------------------------------------------
(* initiateMpesaPayment *)

\* computeSubscriptionCycle: an early renewal starts where the paid time ends.
CycleEnd(purpose) ==
  (IF purpose = "RENEWAL" /\ org.until > now THEN org.until ELSE now) + Period

\* A renewal is for the plan the organization has.
MayBuy(plan, purpose) == purpose = "RENEWAL" => org.plan = plan

\* The request reads the organization, makes M-Pesa its method and fixes the
\* period there and then.
Begin(p, plan, purpose) ==
  /\ initiator[p] = "idle" /\ MayBuy(plan, purpose)
  /\ initiator' = [initiator EXCEPT ![p] = "begun"]
  /\ payment' = [payment EXCEPT ![p] =
       [NoRow EXCEPT !.plan = plan, !.purpose = purpose, !.end = CycleEnd(purpose)]]
  /\ org' = [org EXCEPT !.method = "MPESA"]
  /\ UNCHANGED <<now, provider, handler, cron, resolver, cache, stale>>

\* A pending payment of the last fifteen minutes for the same thing is returned
\* instead.  A tick is longer than that, so such a row may or may not be found.
Deduplicate(p) ==
  /\ initiator[p] = "begun"
  /\ \E q \in Payments : /\ payment[q].status = "PENDING"
                         /\ payment[q].plan = payment[p].plan
                         /\ payment[q].purpose = payment[p].purpose
  /\ initiator' = [initiator EXCEPT ![p] = "done"]
  /\ UNCHANGED <<now, org, payment, provider, handler, cron, resolver, cache, stale>>

\* The rows of the table, which createdAt puts in the order of their creation.
Created == {p \in Payments : payment[p].status # "none"}

Create(p) ==
  /\ initiator[p] = "begun"
  /\ initiator' = [initiator EXCEPT ![p] = "created"]
  /\ payment' = [payment EXCEPT ![p].status = "PENDING", ![p].born = Cardinality(Created)]
  /\ UNCHANGED <<now, org, provider, handler, cron, resolver, cache, stale>>

\* IntaSend accepts the STK push and prompts the customer.
PushAccepted(p) ==
  /\ initiator[p] = "created"
  /\ initiator' = [initiator EXCEPT ![p] = "pushed"]
  /\ provider' = [provider EXCEPT ![p] = "PENDING"]
  /\ UNCHANGED <<now, org, payment, handler, cron, resolver, cache, stale>>

\* The call throws.  If only its answer was lost, IntaSend has the payment.
PushThrows(p) ==
  /\ initiator[p] = "created"
  /\ initiator' = [initiator EXCEPT ![p] = "done"]
  /\ payment' = [payment EXCEPT ![p].status = "FAILED"]
  /\ \E s \in {"none", "PENDING"} : provider' = [provider EXCEPT ![p] = s]
  /\ UNCHANGED <<now, org, handler, cron, resolver, cache, stale>>

\* The invoice id goes on the row; without it no run can match the payment.
StoreInvoice(p) ==
  /\ initiator[p] = "pushed"
  /\ initiator' = [initiator EXCEPT ![p] = "done"]
  /\ payment' = [payment EXCEPT ![p].invoice = TRUE]
  /\ UNCHANGED <<now, org, provider, handler, cron, resolver, cache, stale>>

\* The process dies; it leaves behind whatever it had written.
InitiatorDies(p) ==
  /\ initiator[p] \in {"created", "pushed"}
  /\ initiator' = [initiator EXCEPT ![p] = "done"]
  /\ UNCHANGED <<now, org, payment, provider, handler, cron, resolver, cache, stale>>

\* The customer pays, refuses or lets the prompt lapse; the verdict is final.
ProviderDecides(p, s) ==
  /\ provider[p] = "PENDING"
  /\ provider' = [provider EXCEPT ![p] = s]
  /\ UNCHANGED <<now, org, payment, initiator, handler, cron, resolver, cache, stale>>

-----------------------------------------------------------------------------
(* Webhook, polling, reconciliation and admin runs *)

\* Mutant: a prompt IntaSend is still processing counts as paid.
VerdictInProcess(p) == IF provider[p] = "PENDING" THEN "COMPLETE" ELSE provider[p]

\* What a run takes for the verdict is IntaSend's answer, never the payload.
Verdict(p) == provider[p]

\* What the reconciliation job may take: rows that wait with an invoice.
Waiting == {p \in Payments : payment[p].status = "PENDING" /\ payment[p].invoice}

\* The job takes the oldest rows of these and no more than a batch.
InBatch(p) ==
  p \in Waiting /\ Cardinality({q \in Waiting : payment[q].born < payment[p].born}) < Batch

\* Mutant: reconciliation leaves completed payments to their webhook.
ReceiveUnpaid(h, p) ==
  /\ handler[h].pc = "idle" /\ payment[p].invoice
  /\ h \in Reconcilers => InBatch(p) /\ Verdict(p) # "COMPLETE"
  /\ Verdict(p) = "PENDING" => h \in Reconcilers
  /\ handler' = [handler EXCEPT ![h] =
       [pc |-> "verified", pay |-> p, seen |-> Verdict(p), wasActive |-> FALSE]]
  /\ UNCHANGED <<core, cron, resolver, cache, stale>>

\* A webhook, a client's poll, the reconciliation job or an administrator asks
\* IntaSend about a payment.  Only the job does anything with a pending verdict.
Receive(h, p) ==
  /\ handler[h].pc = "idle" /\ payment[p].invoice
  /\ h \in Reconcilers => InBatch(p)
  /\ Verdict(p) = "PENDING" => h \in Reconcilers
  /\ handler' = [handler EXCEPT ![h] =
       [pc |-> "verified", pay |-> p, seen |-> Verdict(p), wasActive |-> FALSE]]
  /\ UNCHANGED <<core, cron, resolver, cache, stale>>

\* orgHasAppliedPlan.
Applied(p) == org.plan = payment[p].plan /\ org.status = "ACTIVE"

\* Mutant: the end of service never moves back.
PurchaseKeepsEnd(p) ==
  [plan |-> payment[p].plan, status |-> "ACTIVE", method |-> "MPESA",
   until |-> IF org.until > payment[p].end THEN org.until ELSE payment[p].end]

\* What a finalized payment gives the organization: the period on its row.
Purchase(p) == [plan |-> payment[p].plan, status |-> "ACTIVE", until |-> payment[p].end,
                method |-> "MPESA"]

\* The compare-and-set that one of several runs wins.
Claimable(p) == payment[p].status = "PENDING"

\* The plan, the amount or the currency of a complete payment is not the row's:
\* finalizePayment notes it and throws, and the row stays as it is.
Reject(h) ==
  /\ handler[h].pc = "verified" /\ handler[h].seen = "MISMATCHED"
  /\ handler' = [handler EXCEPT ![h] = IdleRun]
  /\ UNCHANGED <<core, cron, resolver, cache, stale>>

\* finalizePayment: one transaction completes the row and applies the plan.
Finalize(h) ==
  LET p == handler[h].pay IN
  /\ handler[h].pc = "verified" /\ handler[h].seen = "COMPLETE"
  /\ Claimable(p)
  /\ payment' = [payment EXCEPT ![p].status = "COMPLETED"]
  /\ org' = Purchase(p)
  /\ handler' = [handler EXCEPT ![h] = AppliedRun]
  /\ UNCHANGED <<now, initiator, provider, cron, resolver, cache, stale>>

\* Mutant: the repair computes the period again from the organization's dates.
RepairedAgain(p) == [Purchase(p) EXCEPT !.until = CycleEnd("RENEWAL")]

\* What a completed payment is repaired to.
Repaired(p) == Purchase(p)

\* A completed payment the organization does not show is applied again.
Repair(h) ==
  LET p == handler[h].pay IN
  /\ handler[h].pc = "verified" /\ handler[h].seen = "COMPLETE"
  /\ payment[p].status = "COMPLETED" /\ ~Applied(p)
  /\ org' = Repaired(p)
  /\ handler' = [handler EXCEPT ![h] = AppliedRun]
  /\ UNCHANGED <<now, payment, initiator, provider, cron, resolver, cache, stale>>

\* Already finalized, or expired or failed in the meantime: nothing is written.
NothingToFinalize(h) ==
  LET p == handler[h].pay IN
  /\ handler[h].pc = "verified" /\ handler[h].seen = "COMPLETE"
  /\ ~Claimable(p) /\ (payment[p].status = "COMPLETED" => Applied(p))
  /\ handler' = [handler EXCEPT ![h] = IdleRun]
  /\ UNCHANGED <<core, cron, resolver, cache, stale>>

\* updatePaymentMethod writes the method and nothing else: the plan of an
\* organization that leaves M-Pesa keeps its dates.
ChooseMethod(h, method) ==
  /\ handler[h].pc = "idle"
  /\ org' = [org EXCEPT !.method = method]
  /\ handler' = [handler EXCEPT ![h] = AppliedRun]
  /\ UNCHANGED <<now, payment, initiator, provider, cron, resolver, cache, stale>>

\* invalidateOrganizationPlanCaches, after the write.
Invalidate(h) ==
  /\ handler[h].pc = "applied"
  /\ handler' = [handler EXCEPT ![h] = IdleRun]
  /\ cache' = Empty
  /\ UNCHANGED <<core, cron, resolver, stale>>

\* markFailed reads the row and the organization, then decides.
ReadFailed(h) ==
  LET p == handler[h].pay IN
  /\ handler[h].pc = "verified" /\ handler[h].seen = "FAILED"
  /\ handler' = [handler EXCEPT ![h] =
       IF payment[p].status \in {"COMPLETED", "FAILED"} THEN IdleRun
       ELSE [pc |-> "failing", pay |-> p, seen |-> "FAILED",
             wasActive |-> org.status = "ACTIVE"]]
  /\ UNCHANGED <<core, cron, resolver, cache, stale>>

\* Its transaction writes whatever the row and the organization hold by then.
CommitFailed(h) ==
  LET p == handler[h].pay IN
  /\ handler[h].pc = "failing"
  /\ payment' = [payment EXCEPT ![p].status = "FAILED"]
  /\ org' = IF payment[p].purpose = "RENEWAL" /\ handler[h].wasActive
            THEN [org EXCEPT !.status = "PAST_DUE"] ELSE org
  /\ handler' = [handler EXCEPT ![h] = IdleRun]
  /\ UNCHANGED <<now, initiator, provider, cron, resolver, cache, stale>>

\* Still pending at IntaSend: an old row expires by compare-and-set; one that is
\* not old enough, or that moved on, is left alone.
ExpireOrLeave(h) ==
  LET p == handler[h].pay IN
  /\ handler[h].pc = "verified" /\ handler[h].seen = "PENDING"
  /\ payment' \in {payment} \cup
       (IF Claimable(p) THEN {[payment EXCEPT ![p].status = "EXPIRED"]} ELSE {})
  /\ handler' = [handler EXCEPT ![h] = IdleRun]
  /\ UNCHANGED <<now, org, initiator, provider, cron, resolver, cache, stale>>

HandlerDies(h) ==
  /\ handler[h].pc # "idle"
  /\ handler' = [handler EXCEPT ![h] = IdleRun]
  /\ UNCHANGED <<core, cron, resolver, cache, stale>>

-----------------------------------------------------------------------------
(* The renewal job and the plan lookup *)

\* Mutant: no grace period.
OverdueAtOnce(due, at) == at > due

\* The due date and the grace period are over.
Overdue(due, at) == at > due + Grace

\* A subscription that is ended keeps its dates; ending it over a date that is
\* no longer the organization's is recorded.
EndService(due) ==
  /\ org' = [org EXCEPT !.plan = NoPlan, !.status = "EXPIRED"]
  /\ stale' = (stale \/ org.until # due)

\* Mutant: a subscription that is past due is no longer looked at.
CronActiveOnly == {"ACTIVE"}

\* The statuses the renewal job selects.
CronStatuses == {"ACTIVE", "PAST_DUE"}

\* The job decides by what it read at its start.  Another payment method takes
\* the organization out of its hands; the 200 rows it takes, most overdue first,
\* are more than this one.
CronScan ==
  /\ cron.pc = "idle" /\ org.method = "MPESA"
  /\ org.plan \in CronPlans /\ org.status \in CronStatuses
  /\ \/ /\ Overdue(org.until, now)
        /\ cron' = [pc |-> "ending", until |-> org.until]
     \/ /\ ~Overdue(org.until, now) /\ now > org.until /\ org.status = "ACTIVE"
        /\ cron' = [IdleCron EXCEPT !.pc = "lapsing"]
  /\ UNCHANGED <<core, handler, resolver, cache, stale>>

\* Its write has no condition on the row.
CronAct ==
  /\ \/ cron.pc = "ending" /\ EndService(cron.until)
     \/ cron.pc = "lapsing" /\ org' = [org EXCEPT !.status = "PAST_DUE"] /\ UNCHANGED stale
  /\ cron' = AppliedCron
  /\ UNCHANGED <<now, payment, initiator, provider, handler, resolver, cache>>

CronInvalidate ==
  /\ cron.pc = "applied"
  /\ cron' = IdleCron /\ cache' = Empty
  /\ UNCHANGED <<core, handler, resolver, stale>>

\* The due date that binds an organization: none without M-Pesa.
DueDate == IF org.method = "MPESA" THEN org.until ELSE 0

\* resolveEffectivePlan takes the due date from the cache or from the row; a
\* cached date that is not overdue asks for nothing more.
ResolverRead ==
  LET due == IF cache = Empty THEN DueDate ELSE cache
      overdue == due # 0 /\ Overdue(due, now) IN
  /\ resolver.pc = "idle" /\ (overdue \/ cache = Empty)
  /\ resolver' = [pc |-> IF overdue THEN "ending" ELSE "caching", due |-> due]
  /\ UNCHANGED <<core, handler, cron, cache, stale>>

\* It caches what it read or, past the grace period, ends the subscription.
ResolverAct ==
  /\ \/ resolver.pc = "ending" /\ EndService(resolver.due) /\ cache' = Empty
     \/ resolver.pc = "caching" /\ cache' = resolver.due /\ UNCHANGED <<org, stale>>
  /\ resolver' = IdleLookup
  /\ UNCHANGED <<now, payment, initiator, provider, handler, cron>>

\* The cached context lives 300 seconds.
CacheExpires ==
  /\ cache # Empty
  /\ cache' = Empty
  /\ UNCHANGED <<core, handler, cron, resolver, stale>>

Tick ==
  /\ now < MaxNow
  /\ now' = now + 1
  /\ UNCHANGED <<org, payment, initiator, provider, handler, cron, resolver, cache, stale>>

-----------------------------------------------------------------------------
InitiatorStep(p) ==
  \/ \E plan \in Plans, purpose \in Purposes : Begin(p, plan, purpose)
  \/ Deduplicate(p) \/ Create(p) \/ PushAccepted(p) \/ PushThrows(p)
  \/ StoreInvoice(p) \/ InitiatorDies(p)

RunStep(h) ==
  \/ Reject(h) \/ Finalize(h) \/ Repair(h) \/ NothingToFinalize(h) \/ Invalidate(h)
  \/ ReadFailed(h) \/ CommitFailed(h) \/ ExpireOrLeave(h)

CronStep == CronScan \/ CronAct \/ CronInvalidate

BillingNext ==
  \/ \E p \in Payments : InitiatorStep(p)
  \/ \E p \in Payments, s \in FinalVerdicts : ProviderDecides(p, s)
  \/ \E h \in Handlers : \/ \E p \in Payments : Receive(h, p)
                         \/ \E method \in Methods : ChooseMethod(h, method)
                         \/ RunStep(h) \/ HandlerDies(h)
  \/ CronStep \/ ResolverRead \/ ResolverAct \/ CacheExpires \/ Tick

BillingSpec == BillingInit /\ [][BillingNext]_vars

\* The jobs are scheduled again and again and finish what they begin; a
\* reconciliation run walks its whole batch, whatever becomes of one row of it.
\* Any run may die, but not every run that ever takes up the same payment.  No
\* webhook, no polling client and no request that looks a plan up is owed.
Conclude(h, p) == handler[h].pay = p /\ RunStep(h)

BillingFairness ==
  /\ WF_vars(CronStep)
  /\ \A h \in Handlers : WF_vars(RunStep(h))
  /\ \A h \in Reconcilers, p \in Payments : SF_vars(Receive(h, p)) /\ SF_vars(Conclude(h, p))

LiveBillingSpec == BillingSpec /\ BillingFairness
=============================================================================
