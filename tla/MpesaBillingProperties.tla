----------------------- MODULE MpesaBillingProperties -----------------------
(***************************************************************************)
(* What M-Pesa billing must guarantee, stated over MpesaBilling.           *)
(***************************************************************************)
EXTENDS MpesaBilling

Completed == {p \in Payments : payment[p].status = "COMPLETED"}

\* "does not double-extend a renewal payment under repeated concurrent
\* completion" (intasend-finalization.db.test.ts): however many runs handle a
\* payment, service never reaches beyond one period for each completed payment.
PrepaidIsPaid == org.until <= now + Period * Cardinality(Completed)

\* An organization's plan and its end are those of one payment that completed,
\* never a mixture of two.
ServiceWasBought ==
  org.plan # NoPlan =>
    \E p \in Completed : org.plan = payment[p].plan /\ org.until = payment[p].end

\* No run, however late or repeated, records another verdict than IntaSend's.
VerdictsAgree ==
  \A p \in Payments :
    /\ payment[p].status = "COMPLETED" => provider[p] = "COMPLETE"
    /\ payment[p].invoice /\ payment[p].status = "FAILED" => provider[p] = "FAILED"

\* The renewal job and the plan lookup write without a condition, so a payment
\* can land between their read and their write.  That is the only way a paid
\* organization loses its plan before the grace period is over.
EarlyEndHasCause ==
  org.plan = NoPlan /\ org.until # 0 /\ ~stale => now > org.until + Grace

\* A payment IntaSend completed for what its row says does not stay pending:
\* reconciliation finds it although every webhook is lost.  The one exception:
\* for ever a whole batch of older rows waits before it, as rows do whose
\* payment was complete but did not match and which nothing ever concludes.
PaidIsRecorded ==
  \A p \in Payments :
    (p \in Waiting /\ provider[p] = "COMPLETE") ~> (p \notin Waiting \/ []~InBatch(p))

\* A plan of the renewal job that is not paid for ends, with nobody logging in,
\* as long as M-Pesa is the organization's method.
Lapsed == org.method = "MPESA" /\ org.plan \in CronPlans /\ now > org.until + Grace

LapsedServiceEnds == Lapsed ~> ~Lapsed

\* "Early renewal preserves already-paid service time." (billing-dates.ts): two
\* renewals that both completed never cover the same period.
RenewalAddsTime ==
  \A p, q \in Completed :
    p # q /\ payment[p].purpose = "RENEWAL" /\ payment[q].purpose = "RENEWAL"
      => payment[p].end # payment[q].end

\* What the safety properties rest on.  A row's invoice is stored only after
\* everything its request does to it, and no run touches a row without one.
RowsFollowRequest ==
  \A p \in Payments :
    /\ initiator[p] # "idle" => payment[p].plan \in Plans
    /\ initiator[p] \in {"idle", "begun"} => payment[p].status = "none"
    /\ initiator[p] \in {"created", "pushed"} => payment[p].status = "PENDING"
    /\ initiator[p] \in {"idle", "begun", "created"} => provider[p] = "none"
    /\ initiator[p] # "done" => ~payment[p].invoice
    /\ payment[p].status = "COMPLETED" => initiator[p] = "done"

\* A run acts only on a final verdict that IntaSend gave for its payment.
RunsKnow ==
  \A h \in Handlers :
    /\ handler[h].pc \in {"verified", "failing"} =>
         handler[h].pay \in Payments /\ payment[handler[h].pay].invoice
    /\ handler[h].pc = "verified" /\ handler[h].seen = "COMPLETE" =>
         provider[handler[h].pay] = "COMPLETE"
    /\ handler[h].pc = "verified" /\ handler[h].seen = "FAILED" =>
         provider[handler[h].pay] = "FAILED"
    /\ handler[h].pc = "failing" => provider[handler[h].pay] = "FAILED"

\* No payment, completed or still to complete, buys more than one period.
EndsArePaid ==
  \A p \in Payments :
    /\ payment[p].status = "COMPLETED" =>
         payment[p].end <= now + Period * Cardinality(Completed)
    /\ payment[p].status # "COMPLETED" =>
         payment[p].end <= now + Period * (Cardinality(Completed) + 1)

\* What the job and the lookup are about to end was overdue when they read it.
ReadsAreOld ==
  /\ cron.pc = "ending" => now > cron.until + Grace
  /\ resolver.pc = "ending" => now > resolver.due + Grace

\* The inductive invariant.
BillingInvariant ==
  /\ BillingTypeOK /\ RowsFollowRequest /\ RunsKnow /\ EndsArePaid /\ ReadsAreOld
  /\ PrepaidIsPaid /\ ServiceWasBought /\ VerdictsAgree /\ EarlyEndHasCause
=============================================================================
