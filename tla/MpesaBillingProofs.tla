------------------------- MODULE MpesaBillingProofs -------------------------
(***************************************************************************)
(* Proofs that MpesaBilling has the safety properties of                   *)
(* MpesaBillingProperties for any number of payments and runs, any plans,  *)
(* any period and grace period, and any bound of the clock.                *)
(***************************************************************************)
EXTENDS MpesaBillingProperties, FiniteSetTheorems, TLAPS

-----------------------------------------------------------------------------
(* Arithmetic and cardinality.                                             *)

\* What one more payment buys.
LEMMA PeriodSum ==
  ASSUME NEW c \in Nat
  PROVE  /\ Period * c \in Nat
         /\ Period * (c + 1) = Period * c + Period
BY BillingAssumption

\* Completed payments can be counted, and completing one adds one.
LEMMA CompletedCount ==
  /\ IsFiniteSet(Completed) /\ Cardinality(Completed) \in Nat
  /\ \A p \in Payments : payment[p].status # "COMPLETED" =>
       Cardinality(Completed \cup {p}) = Cardinality(Completed) + 1
<1>1. IsFiniteSet(Completed)
  BY BillingAssumption, FS_Subset DEF Completed
<1>2. Cardinality(Completed) \in Nat
  BY <1>1, FS_CardinalityType
<1>3. ASSUME NEW p \in Payments, payment[p].status # "COMPLETED"
      PROVE  Cardinality(Completed \cup {p}) = Cardinality(Completed) + 1
  <2>1. p \notin Completed
    BY <1>3 DEF Completed
  <2> QED
    BY <1>1, <2>1, FS_AddElement
<1> QED
  BY <1>1, <1>2, <1>3

-----------------------------------------------------------------------------
(* What the updates of a row and of a run do to it.                        *)

LEMMA SetStatus ==
  ASSUME BillingTypeOK, NEW p \in Payments, NEW s \in Status,
         payment' = [payment EXCEPT ![p].status = s]
  PROVE  /\ payment' \in [Payments -> Row]
         /\ payment'[p].status = s /\ payment'[p].plan = payment[p].plan
         /\ payment'[p].end = payment[p].end /\ payment'[p].invoice = payment[p].invoice
         /\ \A q \in Payments \ {p} : payment'[q] = payment[q]
BY DEF BillingTypeOK, Row

LEMMA ApplyRun ==
  ASSUME BillingTypeOK, NEW h \in Handlers,
         handler' = [handler EXCEPT ![h] = AppliedRun]
  PROVE  /\ handler' \in [Handlers -> Run]
         /\ handler'[h].pc = "applied"
         /\ \A g \in Handlers \ {h} : handler'[g] = handler[g]
BY DEF BillingTypeOK, Run, AppliedRun, IdleRun, Verdicts

LEMMA EndRun ==
  ASSUME BillingTypeOK, NEW h \in Handlers,
         handler' = [handler EXCEPT ![h] = IdleRun]
  PROVE  /\ handler' \in [Handlers -> Run]
         /\ handler'[h].pc = "idle"
         /\ \A g \in Handlers \ {h} : handler'[g] = handler[g]
BY DEF BillingTypeOK, Run, IdleRun, Verdicts

-----------------------------------------------------------------------------
(* The invariant, one lemma per group of actions.                          *)

LEMMA BillingInitially == BillingInit => BillingInvariant
<1> SUFFICES ASSUME BillingInit PROVE BillingInvariant
  OBVIOUS
<1> USE DEF BillingInit, NoRow
<1>1. BillingTypeOK
  <2>1. NoRow \in Row
    BY DEF Row, Status, Purposes
  <2>2. IdleRun \in Run
    BY DEF Run, IdleRun, Verdicts
  <2>3. org \in OrgRow
    BY DEF OrgRow, OrgStatus, Methods
  <2>4. cron \in [pc : {"idle", "ending", "lapsing", "applied"}, until : Nat]
    BY BillingAssumption DEF IdleCron, OrgRow, OrgStatus, Methods
  <2>5. resolver \in [pc : {"idle", "ending", "caching"}, due : Nat]
    BY DEF IdleLookup
  <2>6. now \in 0 .. MaxNow
    BY BillingAssumption
  <2> HIDE DEF NoRow
  <2> QED
    BY <2>1, <2>2, <2>3, <2>4, <2>5, <2>6 DEF BillingTypeOK, Verdicts
<1>2. Completed = {}
  BY DEF Completed
<1>3. Cardinality(Completed) = 0
  BY <1>2, FS_EmptySet
<1>4. EndsArePaid /\ PrepaidIsPaid
  BY <1>3, BillingAssumption DEF EndsArePaid, PrepaidIsPaid
<1>5. RowsFollowRequest /\ RunsKnow /\ ReadsAreOld /\ ServiceWasBought /\ VerdictsAgree
        /\ EarlyEndHasCause
  BY DEF RowsFollowRequest, RunsKnow, ReadsAreOld, ServiceWasBought, VerdictsAgree,
         EarlyEndHasCause, IdleRun, IdleCron, IdleLookup
<1> QED
  BY <1>1, <1>4, <1>5 DEF BillingInvariant

\* A step that leaves the clock, the plan, its end and the completed rows alone
\* keeps the accounting, if every other row still ends where it may.
LEMMA AccountsKept ==
  ASSUME BillingInvariant, BillingTypeOK', UNCHANGED now,
         org'.plan = org.plan, org'.until = org.until,
         \A q \in Payments :
           \/ payment'[q].status = payment[q].status /\ payment'[q].end = payment[q].end
                /\ payment'[q].plan = payment[q].plan
           \/ /\ payment[q].status # "COMPLETED" /\ payment'[q].status # "COMPLETED"
              /\ payment'[q].end <= now + Period * (Cardinality(Completed) + 1)
  PROVE  EndsArePaid' /\ PrepaidIsPaid' /\ ServiceWasBought'
<1>1. Completed' = Completed
  BY DEF Completed
<1> HIDE DEF Completed
<1>2. EndsArePaid'
  BY <1>1 DEF EndsArePaid, BillingInvariant
<1>3. PrepaidIsPaid'
  BY <1>1 DEF PrepaidIsPaid, BillingInvariant
<1>4. ServiceWasBought'
  BY <1>1 DEF ServiceWasBought, BillingInvariant, Completed
<1> QED
  BY <1>2, <1>3, <1>4

\* The request that makes a payment.
LEMMA RequestBegins ==
  ASSUME BillingInvariant, NEW p \in Payments, NEW plan \in Plans, NEW purpose \in Purposes,
         Begin(p, plan, purpose)
  PROVE  BillingInvariant'
<1> USE DEF BillingInvariant
<1>1. CycleEnd(purpose) \in Nat /\ CycleEnd(purpose) <= now + Period * (Cardinality(Completed) + 1)
  <2>1. /\ org.until <= now + Period * Cardinality(Completed)
        /\ now \in Nat /\ org.until \in Nat /\ Period \in Nat
    BY BillingAssumption DEF PrepaidIsPaid, BillingTypeOK, OrgRow
  <2>2. Cardinality(Completed) \in Nat
    BY CompletedCount
  <2> HIDE DEF Completed
  <2>3. /\ Period * Cardinality(Completed) \in Nat
        /\ Period * (Cardinality(Completed) + 1) = Period * Cardinality(Completed) + Period
    BY <2>2, PeriodSum
  <2> QED
    BY <2>1, <2>3 DEF CycleEnd
<1> DEFINE r == [NoRow EXCEPT !.plan = plan, !.purpose = purpose, !.end = CycleEnd(purpose)]
<1>2. /\ r \in Row /\ r.status = "none" /\ r.plan = plan /\ r.end = CycleEnd(purpose) /\ r.invoice = FALSE
  BY <1>1 DEF Row, NoRow, Status, Purposes
<1>3. payment' = [payment EXCEPT ![p] = r]
  BY DEF Begin
<1> HIDE DEF r
<1>12. org' \in OrgRow /\ org'.plan = org.plan /\ org'.until = org.until
  BY DEF Begin, BillingTypeOK, OrgRow, Methods
<1>4. BillingTypeOK'
  BY <1>2, <1>3, <1>12 DEF Begin, BillingTypeOK
<1>5. /\ payment[p].status = "none" /\ provider[p] = "none" /\ ~payment[p].invoice
  BY DEF Begin, RowsFollowRequest, BillingTypeOK
<1>6. payment'[p] = r /\ \A q \in Payments \ {p} : payment'[q] = payment[q]
  BY <1>3 DEF BillingTypeOK
<1>7. EndsArePaid' /\ PrepaidIsPaid' /\ ServiceWasBought'
  <2>1. \A q \in Payments :
          \/ payment'[q].status = payment[q].status /\ payment'[q].end = payment[q].end
               /\ payment'[q].plan = payment[q].plan
          \/ /\ payment[q].status # "COMPLETED" /\ payment'[q].status # "COMPLETED"
             /\ payment'[q].end <= now + Period * (Cardinality(Completed) + 1)
    BY <1>1, <1>2, <1>5, <1>6
  <2>2. UNCHANGED now
    BY DEF Begin
  <2> HIDE DEF BillingInvariant
  <2> QED
    BY <1>4, <1>12, <2>1, <2>2, AccountsKept
<1>8. RowsFollowRequest'
  BY <1>2, <1>5, <1>6 DEF Begin, RowsFollowRequest, BillingTypeOK
<1>9. RunsKnow'
  BY <1>5, <1>6 DEF Begin, RunsKnow, BillingTypeOK
<1>10. VerdictsAgree'
  BY <1>2, <1>6 DEF Begin, VerdictsAgree
<1>11. ReadsAreOld' /\ EarlyEndHasCause'
  BY <1>12 DEF Begin, ReadsAreOld, EarlyEndHasCause
<1> QED
  BY <1>4, <1>7, <1>8, <1>9, <1>10, <1>11

LEMMA RequestProceeds ==
  ASSUME BillingInvariant, NEW p \in Payments,
         \/ Deduplicate(p) \/ Create(p) \/ PushAccepted(p) \/ PushThrows(p)
         \/ StoreInvoice(p) \/ InitiatorDies(p)
  PROVE  BillingInvariant'
<1>1. ASSUME initiator[p] # "idle", payment[p].status # "COMPLETED",
             provider[p] = "none" \/ ~payment[p].invoice,
             BillingTypeOK', UNCHANGED <<now, org>>,
             payment'[p].status \in {payment[p].status, "PENDING", "FAILED"},
             payment'[p].end = payment[p].end,
             \A q \in Payments \ {p} : payment'[q] = payment[q]
      PROVE  EndsArePaid' /\ PrepaidIsPaid' /\ ServiceWasBought'
  <2>1. payment[p].end <= now + Period * (Cardinality(Completed) + 1)
    BY <1>1 DEF BillingInvariant, EndsArePaid
  <2> QED
    BY <1>1, <2>1, AccountsKept
<1> USE DEF BillingInvariant
<1>2. CASE Deduplicate(p)
  <2>1. payment[p].status = "none" /\ provider[p] = "none"
    BY <1>2 DEF Deduplicate, RowsFollowRequest
  <2>2. BillingTypeOK'
    BY <1>2 DEF Deduplicate, BillingTypeOK
  <2>3. EndsArePaid' /\ PrepaidIsPaid' /\ ServiceWasBought'
    BY <1>1, <1>2, <2>1, <2>2 DEF Deduplicate
  <2>4. RowsFollowRequest' /\ RunsKnow' /\ VerdictsAgree' /\ ReadsAreOld' /\ EarlyEndHasCause'
    BY <1>2, <2>1 DEF Deduplicate, RowsFollowRequest, RunsKnow, VerdictsAgree, ReadsAreOld,
                      EarlyEndHasCause, BillingTypeOK
  <2> QED
    BY <2>2, <2>3, <2>4
<1>3. CASE Create(p)
  <2>1. payment[p].status = "none" /\ provider[p] = "none" /\ ~payment[p].invoice
    BY <1>3 DEF Create, RowsFollowRequest
  <2>6. Cardinality(Created) \in Nat
    BY BillingAssumption, FS_Subset, FS_CardinalityType DEF Created
  <2>2. /\ payment' \in [Payments -> Row]
        /\ payment'[p].status = "PENDING" /\ payment'[p].plan = payment[p].plan
        /\ payment'[p].end = payment[p].end /\ payment'[p].invoice = payment[p].invoice
        /\ \A q \in Payments \ {p} : payment'[q] = payment[q]
    BY <1>3, <2>6 DEF Create, BillingTypeOK, Row, Status
  <2>3. BillingTypeOK'
    BY <1>3, <2>2 DEF Create, BillingTypeOK
  <2>4. EndsArePaid' /\ PrepaidIsPaid' /\ ServiceWasBought'
    BY <1>1, <1>3, <2>1, <2>2, <2>3 DEF Create
  <2>5. RowsFollowRequest' /\ RunsKnow' /\ VerdictsAgree' /\ ReadsAreOld' /\ EarlyEndHasCause'
    BY <1>3, <2>1, <2>2 DEF Create, RowsFollowRequest, RunsKnow, VerdictsAgree, ReadsAreOld,
                      EarlyEndHasCause, BillingTypeOK
  <2> QED
    BY <2>3, <2>4, <2>5
<1>4. CASE PushAccepted(p)
  <2>1. payment[p].status = "PENDING" /\ provider[p] = "none" /\ ~payment[p].invoice
    BY <1>4 DEF PushAccepted, RowsFollowRequest
  <2>2. BillingTypeOK'
    BY <1>4 DEF PushAccepted, BillingTypeOK, Verdicts
  <2>3. EndsArePaid' /\ PrepaidIsPaid' /\ ServiceWasBought'
    BY <1>1, <1>4, <2>1, <2>2 DEF PushAccepted
  <2>4. RowsFollowRequest' /\ RunsKnow' /\ VerdictsAgree' /\ ReadsAreOld' /\ EarlyEndHasCause'
    BY <1>4, <2>1 DEF PushAccepted, RowsFollowRequest, RunsKnow, VerdictsAgree, ReadsAreOld,
                      EarlyEndHasCause, BillingTypeOK
  <2> QED
    BY <2>2, <2>3, <2>4
<1>5. CASE PushThrows(p)
  <2>1. payment[p].status = "PENDING" /\ provider[p] = "none" /\ ~payment[p].invoice
    BY <1>5 DEF PushThrows, RowsFollowRequest
  <2>2. /\ payment' \in [Payments -> Row]
        /\ payment'[p].status = "FAILED" /\ payment'[p].plan = payment[p].plan
        /\ payment'[p].end = payment[p].end /\ payment'[p].invoice = payment[p].invoice
        /\ \A q \in Payments \ {p} : payment'[q] = payment[q]
    BY <1>5, SetStatus DEF PushThrows, Status
  <2>3. PICK s \in {"none", "PENDING"} : provider' = [provider EXCEPT ![p] = s]
    BY <1>5 DEF PushThrows
  <2>4. BillingTypeOK'
    BY <1>5, <2>2, <2>3 DEF PushThrows, BillingTypeOK, Verdicts
  <2>5. EndsArePaid' /\ PrepaidIsPaid' /\ ServiceWasBought'
    BY <1>1, <1>5, <2>1, <2>2, <2>4 DEF PushThrows
  <2>6. RowsFollowRequest' /\ RunsKnow' /\ VerdictsAgree' /\ ReadsAreOld' /\ EarlyEndHasCause'
    BY <1>5, <2>1, <2>2, <2>3 DEF PushThrows, RowsFollowRequest, RunsKnow, VerdictsAgree,
                      ReadsAreOld, EarlyEndHasCause, BillingTypeOK
  <2> QED
    BY <2>4, <2>5, <2>6
<1>6. CASE StoreInvoice(p)
  <2>1. payment[p].status = "PENDING" /\ ~payment[p].invoice
    BY <1>6 DEF StoreInvoice, RowsFollowRequest
  <2>2. /\ payment' \in [Payments -> Row]
        /\ payment'[p].status = payment[p].status /\ payment'[p].plan = payment[p].plan
        /\ payment'[p].end = payment[p].end /\ payment'[p].invoice = TRUE
        /\ \A q \in Payments \ {p} : payment'[q] = payment[q]
    BY <1>6 DEF StoreInvoice, BillingTypeOK, Row
  <2>3. BillingTypeOK'
    BY <1>6, <2>2 DEF StoreInvoice, BillingTypeOK
  <2>4. EndsArePaid' /\ PrepaidIsPaid' /\ ServiceWasBought'
    BY <1>1, <1>6, <2>1, <2>2, <2>3 DEF StoreInvoice
  <2>5. RowsFollowRequest' /\ RunsKnow' /\ VerdictsAgree' /\ ReadsAreOld' /\ EarlyEndHasCause'
    BY <1>6, <2>1, <2>2 DEF StoreInvoice, RowsFollowRequest, RunsKnow, VerdictsAgree,
                      ReadsAreOld, EarlyEndHasCause, BillingTypeOK
  <2> QED
    BY <2>3, <2>4, <2>5
<1>7. CASE InitiatorDies(p)
  <2>1. payment[p].status = "PENDING" /\ ~payment[p].invoice
    BY <1>7 DEF InitiatorDies, RowsFollowRequest
  <2>2. BillingTypeOK'
    BY <1>7 DEF InitiatorDies, BillingTypeOK
  <2>3. EndsArePaid' /\ PrepaidIsPaid' /\ ServiceWasBought'
    BY <1>1, <1>7, <2>1, <2>2 DEF InitiatorDies
  <2>4. RowsFollowRequest' /\ RunsKnow' /\ VerdictsAgree' /\ ReadsAreOld' /\ EarlyEndHasCause'
    BY <1>7, <2>1 DEF InitiatorDies, RowsFollowRequest, RunsKnow, VerdictsAgree, ReadsAreOld,
                      EarlyEndHasCause, BillingTypeOK
  <2> QED
    BY <2>2, <2>3, <2>4
<1> QED
  BY <1>2, <1>3, <1>4, <1>5, <1>6, <1>7

\* IntaSend's verdict.
LEMMA VerdictFalls ==
  ASSUME BillingInvariant, NEW p \in Payments, NEW s \in FinalVerdicts,
         ProviderDecides(p, s)
  PROVE  BillingInvariant'
<1>1. BillingTypeOK'
  BY DEF BillingInvariant, ProviderDecides, BillingTypeOK, Verdicts, FinalVerdicts
<1>2. EndsArePaid' /\ PrepaidIsPaid' /\ ServiceWasBought'
  BY <1>1, AccountsKept DEF ProviderDecides
<1>3. RowsFollowRequest' /\ RunsKnow' /\ VerdictsAgree' /\ ReadsAreOld' /\ EarlyEndHasCause'
  BY DEF BillingInvariant, ProviderDecides, RowsFollowRequest, RunsKnow, VerdictsAgree,
         ReadsAreOld, EarlyEndHasCause, BillingTypeOK
<1> QED
  BY <1>1, <1>2, <1>3 DEF BillingInvariant

\* Steps of a run that write nothing but the run's own state and the cache.
LEMMA RunOnly ==
  ASSUME BillingInvariant, BillingTypeOK', UNCHANGED <<core, cron, resolver, stale>>, RunsKnow'
  PROVE  BillingInvariant'
<1>1. UNCHANGED <<now, org, payment, initiator, provider>>
  BY DEF core
<1>2. EndsArePaid' /\ PrepaidIsPaid' /\ ServiceWasBought'
  BY <1>1, AccountsKept
<1>3. RowsFollowRequest' /\ VerdictsAgree' /\ ReadsAreOld' /\ EarlyEndHasCause'
  BY <1>1 DEF BillingInvariant, RowsFollowRequest, VerdictsAgree, ReadsAreOld, EarlyEndHasCause
<1> QED
  BY <1>2, <1>3 DEF BillingInvariant

LEMMA RunsReceiveAndEnd ==
  ASSUME BillingInvariant, NEW h \in Handlers,
         \/ \E p \in Payments : Receive(h, p)
         \/ Reject(h) \/ NothingToFinalize(h) \/ Invalidate(h) \/ ReadFailed(h) \/ HandlerDies(h)
  PROVE  BillingInvariant'
<1>1. CASE \E p \in Payments : Receive(h, p)
  <2>1. PICK p \in Payments : Receive(h, p)
    BY <1>1
  <2> DEFINE r == [pc |-> "verified", pay |-> p, seen |-> Verdict(p), wasActive |-> FALSE]
  <2>2. /\ r \in Run /\ r.pc = "verified" /\ r.pay = p /\ r.seen = provider[p]
    BY DEF Run, Verdict, BillingInvariant, BillingTypeOK
  <2>3. /\ handler' = [handler EXCEPT ![h] = r] /\ payment[p].invoice
        /\ UNCHANGED <<core, cron, resolver, cache, stale>>
    BY <2>1 DEF Receive
  <2> HIDE DEF r
  <2>4. BillingTypeOK'
    BY <2>2, <2>3 DEF core, BillingInvariant, BillingTypeOK
  <2>5. handler'[h] = r /\ \A g \in Handlers \ {h} : handler'[g] = handler[g]
    BY <2>3 DEF BillingInvariant, BillingTypeOK
  <2>6. RunsKnow'
    BY <2>2, <2>3, <2>5 DEF core, BillingInvariant, RunsKnow
  <2> QED
    BY <2>3, <2>4, <2>6, RunOnly
<1>2. ASSUME handler' = [handler EXCEPT ![h] = IdleRun], UNCHANGED <<core, cron, resolver, stale>>,
             cache' \in {cache, Empty}
      PROVE  BillingInvariant'
  <2>1. /\ handler' \in [Handlers -> Run] /\ handler'[h].pc = "idle"
        /\ \A g \in Handlers \ {h} : handler'[g] = handler[g]
    BY <1>2, EndRun DEF BillingInvariant
  <2>2. BillingTypeOK'
    BY <1>2, <2>1 DEF core, BillingInvariant, BillingTypeOK
  <2>3. RunsKnow'
    BY <1>2, <2>1 DEF core, BillingInvariant, RunsKnow
  <2> QED
    BY <1>2, <2>2, <2>3, RunOnly
<1>3. cache \in {cache, Empty}
  OBVIOUS
<1>8. CASE Reject(h)
  BY <1>2, <1>3, <1>8 DEF Reject
<1>4. CASE NothingToFinalize(h)
  BY <1>2, <1>3, <1>4 DEF NothingToFinalize
<1>5. CASE Invalidate(h)
  BY <1>2, <1>3, <1>5 DEF Invalidate
<1>6. CASE HandlerDies(h)
  BY <1>2, <1>3, <1>6 DEF HandlerDies
<1>7. CASE ReadFailed(h)
  <2>1. CASE payment[handler[h].pay].status \in {"COMPLETED", "FAILED"}
    BY <1>2, <1>3, <1>7, <2>1 DEF ReadFailed
  <2>2. CASE payment[handler[h].pay].status \notin {"COMPLETED", "FAILED"}
    <3> DEFINE r == [pc |-> "failing", pay |-> handler[h].pay, seen |-> "FAILED",
                     wasActive |-> org.status = "ACTIVE"]
    <3>1. /\ handler' = [handler EXCEPT ![h] = r] /\ UNCHANGED <<core, cron, resolver, cache, stale>>
          /\ handler[h].pc = "verified" /\ handler[h].seen = "FAILED"
      BY <1>7, <2>2 DEF ReadFailed
    <3>2. r \in Run /\ r.pc = "failing" /\ r.pay = handler[h].pay
      <4>1. (org.status = "ACTIVE") \in BOOLEAN
        OBVIOUS
      <4>2. handler[h].pay \in Payments \cup {NoPayment}
        BY DEF BillingInvariant, BillingTypeOK, Run
      <4> HIDE DEF BillingInvariant
      <4> QED
        BY <4>1, <4>2 DEF Run, Verdicts, FinalVerdicts
    <3> HIDE DEF r
    <3>3. handler'[h] = r /\ \A g \in Handlers \ {h} : handler'[g] = handler[g]
      BY <3>1 DEF BillingInvariant, BillingTypeOK
    <3>4. BillingTypeOK'
      BY <3>1, <3>2 DEF core, BillingInvariant, BillingTypeOK
    <3>5. RunsKnow'
      BY <3>1, <3>2, <3>3 DEF core, BillingInvariant, RunsKnow
    <3> QED
      BY <3>1, <3>4, <3>5, RunOnly
  <2> QED
    BY <2>1, <2>2
<1> QED
  BY <1>1, <1>4, <1>5, <1>6, <1>7, <1>8

\* The transaction that completes a payment and applies its plan.
LEMMA RunFinalizes ==
  ASSUME BillingInvariant, NEW h \in Handlers, Finalize(h)
  PROVE  BillingInvariant'
<1> DEFINE p == handler[h].pay
<1>1. /\ p \in Payments /\ payment[p].status = "PENDING" /\ payment[p].invoice
      /\ provider[p] = "COMPLETE" /\ initiator[p] = "done"
  BY DEF Finalize, Claimable, BillingInvariant, RunsKnow, RowsFollowRequest, BillingTypeOK
<1>2. /\ payment' \in [Payments -> Row]
      /\ payment'[p].status = "COMPLETED" /\ payment'[p].plan = payment[p].plan
      /\ payment'[p].end = payment[p].end /\ payment'[p].invoice = payment[p].invoice
      /\ \A q \in Payments \ {p} : payment'[q] = payment[q]
  BY <1>1, SetStatus DEF Finalize, Status, BillingInvariant
<1>3. /\ handler' \in [Handlers -> Run]
      /\ handler'[h].pc = "applied"
      /\ \A g \in Handlers \ {h} : handler'[g] = handler[g]
  BY ApplyRun DEF Finalize, BillingInvariant
<1>4. /\ UNCHANGED <<now, initiator, provider, cron, resolver, cache, stale>>
      /\ org' = Purchase(p)
  BY DEF Finalize
<1>5. /\ org'.plan = payment[p].plan /\ org'.status = "ACTIVE" /\ org'.until = payment[p].end
  BY <1>4 DEF Purchase
<1>6. org' \in OrgRow
  <2>1. payment[p].plan \in Plans \cup {NoPlan} /\ payment[p].end \in Nat
    BY <1>1 DEF BillingInvariant, BillingTypeOK, Row
  <2> QED
    BY <1>4, <2>1 DEF Purchase, OrgRow, OrgStatus, Methods
<1> HIDE DEF p
<1>7. BillingTypeOK'
  BY <1>2, <1>3, <1>4, <1>6 DEF BillingInvariant, BillingTypeOK
<1>8. Completed' = Completed \cup {p}
  BY <1>1, <1>2 DEF Completed
<1>9. /\ Cardinality(Completed) \in Nat
      /\ Cardinality(Completed \cup {p}) = Cardinality(Completed) + 1
  BY <1>1, CompletedCount
<1>10. Cardinality(Completed') = Cardinality(Completed) + 1
  BY <1>8, <1>9
<1> DEFINE c == Cardinality(Completed)
           d == Cardinality(Completed')
<1>11. /\ c \in Nat /\ d = c + 1
       /\ Period * c \in Nat /\ Period * d = Period * c + Period
       /\ Period * (d + 1) = Period * d + Period
  <2>1. c \in Nat /\ d = c + 1 /\ d \in Nat
    BY <1>9, <1>10
  <2> HIDE DEF c, d
  <2> QED
    BY <2>1, PeriodSum
<1>12. /\ \A q \in Payments : payment[q].end \in Nat
       /\ \A q \in Payments : payment[q].status = "COMPLETED" => payment[q].end <= now + Period * c
       /\ \A q \in Payments : payment[q].status # "COMPLETED" => payment[q].end <= now + Period * (c + 1)
  BY DEF BillingInvariant, EndsArePaid, BillingTypeOK, Row
<1>13. now \in Nat /\ Period \in Nat
  BY BillingAssumption DEF BillingInvariant, BillingTypeOK
<1> HIDE DEF c, d
<1>14. payment[p].end <= now + Period * d
  BY <1>1, <1>11, <1>12
<1>15. \A q \in Payments :
          /\ payment'[q].status = "COMPLETED" => payment'[q].end <= now + Period * d
          /\ payment'[q].status # "COMPLETED" => payment'[q].end <= now + Period * (d + 1)
  <2> SUFFICES ASSUME NEW q \in Payments
               PROVE  /\ payment'[q].status = "COMPLETED" => payment'[q].end <= now + Period * d
                      /\ payment'[q].status # "COMPLETED" => payment'[q].end <= now + Period * (d + 1)
    OBVIOUS
  <2>1. CASE q = p
    BY <1>2, <1>14, <2>1
  <2>2. CASE q # p
    <3>1. payment'[q] = payment[q]
      BY <1>2, <2>2
    <3>2. /\ payment[q].status = "COMPLETED" => payment[q].end <= now + Period * d
          /\ payment[q].status # "COMPLETED" => payment[q].end <= now + Period * (d + 1)
      BY <1>11, <1>12, <1>13
    <3> QED
      BY <3>1, <3>2
  <2> QED
    BY <2>1, <2>2
<1>16. EndsArePaid' /\ PrepaidIsPaid'
  BY <1>4, <1>5, <1>14, <1>15 DEF EndsArePaid, PrepaidIsPaid, d
<1>17. ServiceWasBought'
  BY <1>1, <1>2, <1>5, <1>8 DEF ServiceWasBought
<1>18. RowsFollowRequest'
  BY <1>1, <1>2, <1>4 DEF BillingInvariant, RowsFollowRequest
<1>19. RunsKnow'
  <2>1. \A q \in Payments : payment'[q].invoice = payment[q].invoice
    BY <1>1, <1>2
  <2>2. RunsKnow
    BY DEF BillingInvariant
  <2> HIDE DEF BillingInvariant
  <2> QED
    BY <1>3, <1>4, <2>1, <2>2 DEF RunsKnow
<1>20. VerdictsAgree'
  BY <1>1, <1>2, <1>4 DEF BillingInvariant, VerdictsAgree
<1>21. ReadsAreOld'
  BY <1>4 DEF BillingInvariant, ReadsAreOld
<1>22. payment[p].plan # NoPlan => EarlyEndHasCause'
  BY <1>5 DEF EarlyEndHasCause
<1>23. payment[p].plan # NoPlan
  BY <1>1, BillingAssumption DEF BillingInvariant, RowsFollowRequest
<1> QED
  BY <1>7, <1>16, <1>17, <1>18, <1>19, <1>20, <1>21, <1>22, <1>23 DEF BillingInvariant

\* Applying a completed payment again.
LEMMA RunRepairs ==
  ASSUME BillingInvariant, NEW h \in Handlers, Repair(h)
  PROVE  BillingInvariant'
<1> DEFINE p == handler[h].pay
<1>1. /\ p \in Payments /\ payment[p].status = "COMPLETED" /\ initiator[p] = "done"
  BY DEF Repair, BillingInvariant, RunsKnow, RowsFollowRequest
<1>2. /\ handler' \in [Handlers -> Run]
      /\ handler'[h].pc = "applied"
      /\ \A g \in Handlers \ {h} : handler'[g] = handler[g]
  BY ApplyRun DEF Repair, BillingInvariant
<1>3. /\ UNCHANGED <<now, payment, initiator, provider, cron, resolver, cache, stale>>
      /\ org' = Purchase(p)
  BY DEF Repair, Repaired
<1>4. /\ org'.plan = payment[p].plan /\ org'.status = "ACTIVE" /\ org'.until = payment[p].end
  BY <1>3 DEF Purchase
<1>5. org' \in OrgRow
  <2>1. payment[p].plan \in Plans \cup {NoPlan} /\ payment[p].end \in Nat
    BY <1>1 DEF BillingInvariant, BillingTypeOK, Row
  <2> QED
    BY <1>3, <2>1 DEF Purchase, OrgRow, OrgStatus, Methods
<1> HIDE DEF p
<1>6. BillingTypeOK'
  BY <1>2, <1>3, <1>5 DEF BillingInvariant, BillingTypeOK
<1>7. Completed' = Completed
  BY <1>3 DEF Completed
<1>8. EndsArePaid' /\ PrepaidIsPaid'
  <2> HIDE DEF Completed
  <2> QED
    BY <1>1, <1>3, <1>4, <1>7 DEF BillingInvariant, EndsArePaid, PrepaidIsPaid
<1>9. ServiceWasBought'
  BY <1>1, <1>3, <1>4, <1>7 DEF ServiceWasBought, Completed
<1>10. RowsFollowRequest' /\ VerdictsAgree' /\ ReadsAreOld'
  BY <1>3 DEF BillingInvariant, RowsFollowRequest, VerdictsAgree, ReadsAreOld
<1>11. RunsKnow'
  BY <1>2, <1>3 DEF BillingInvariant, RunsKnow
<1>12. payment[p].plan # NoPlan
  BY <1>1, BillingAssumption DEF BillingInvariant, RowsFollowRequest
<1>13. EarlyEndHasCause'
  BY <1>4, <1>12 DEF EarlyEndHasCause
<1> QED
  BY <1>6, <1>8, <1>9, <1>10, <1>11, <1>13 DEF BillingInvariant

\* Another payment method.
LEMMA MethodChosen ==
  ASSUME BillingInvariant, NEW h \in Handlers, NEW method \in Methods, ChooseMethod(h, method)
  PROVE  BillingInvariant'
<1>1. /\ handler' \in [Handlers -> Run]
      /\ handler'[h].pc = "applied"
      /\ \A g \in Handlers \ {h} : handler'[g] = handler[g]
  BY ApplyRun DEF ChooseMethod, BillingInvariant
<1>2. /\ UNCHANGED <<now, payment, initiator, provider, cron, resolver, cache, stale>>
      /\ org' \in OrgRow /\ org'.plan = org.plan /\ org'.until = org.until
  BY DEF ChooseMethod, BillingInvariant, BillingTypeOK, OrgRow
<1>3. BillingTypeOK'
  BY <1>1, <1>2 DEF BillingInvariant, BillingTypeOK
<1>4. EndsArePaid' /\ PrepaidIsPaid' /\ ServiceWasBought'
  BY <1>2, <1>3, AccountsKept
<1>5. RunsKnow'
  BY <1>1, <1>2 DEF BillingInvariant, RunsKnow
<1>6. RowsFollowRequest' /\ VerdictsAgree' /\ ReadsAreOld' /\ EarlyEndHasCause'
  BY <1>2 DEF BillingInvariant, RowsFollowRequest, VerdictsAgree, ReadsAreOld, EarlyEndHasCause
<1> QED
  BY <1>3, <1>4, <1>5, <1>6 DEF BillingInvariant

\* A step that keeps the plan and its end, or takes the plan away, keeps what
\* is said of them.
LEMMA PlanKeptOrLost ==
  ASSUME BillingInvariant, UNCHANGED now, Completed' = Completed,
         \A q \in Completed : payment'[q].plan = payment[q].plan /\ payment'[q].end = payment[q].end,
         org'.until = org.until, org'.plan \in {org.plan, NoPlan}
  PROVE  PrepaidIsPaid' /\ ServiceWasBought'
<1> HIDE DEF Completed
<1>1. PrepaidIsPaid'
  BY DEF BillingInvariant, PrepaidIsPaid
<1>2. ServiceWasBought'
  BY DEF BillingInvariant, ServiceWasBought
<1> QED
  BY <1>1, <1>2

\* The transaction of markFailed.
LEMMA RunFails ==
  ASSUME BillingInvariant, NEW h \in Handlers, CommitFailed(h)
  PROVE  BillingInvariant'
<1> DEFINE p == handler[h].pay
<1>1. /\ p \in Payments /\ payment[p].status # "COMPLETED" /\ provider[p] = "FAILED"
      /\ payment[p].invoice /\ initiator[p] = "done"
  BY DEF CommitFailed, BillingInvariant, RunsKnow, VerdictsAgree, RowsFollowRequest,
         BillingTypeOK
<1>2. /\ payment' \in [Payments -> Row]
      /\ payment'[p].status = "FAILED" /\ payment'[p].plan = payment[p].plan
      /\ payment'[p].end = payment[p].end /\ payment'[p].invoice = payment[p].invoice
      /\ \A q \in Payments \ {p} : payment'[q] = payment[q]
  BY <1>1, SetStatus DEF CommitFailed, Status, BillingInvariant
<1>3. /\ handler' \in [Handlers -> Run]
      /\ handler'[h].pc = "idle"
      /\ \A g \in Handlers \ {h} : handler'[g] = handler[g]
  BY EndRun DEF CommitFailed, BillingInvariant
<1>4. UNCHANGED <<now, initiator, provider, cron, resolver, cache, stale>>
  BY DEF CommitFailed
<1>5. /\ org' \in OrgRow
      /\ org'.plan = org.plan /\ org'.until = org.until
  BY DEF CommitFailed, BillingInvariant, BillingTypeOK, OrgRow, OrgStatus, Methods
<1> HIDE DEF p
<1>6. BillingTypeOK'
  BY <1>2, <1>3, <1>4, <1>5 DEF BillingInvariant, BillingTypeOK
<1>7. Completed' = Completed
  BY <1>1, <1>2 DEF Completed
<1>8. \A q \in Completed : payment'[q].plan = payment[q].plan /\ payment'[q].end = payment[q].end
  BY <1>1, <1>2 DEF Completed
<1>9. PrepaidIsPaid' /\ ServiceWasBought'
  BY <1>4, <1>5, <1>7, <1>8, PlanKeptOrLost
<1>10. EndsArePaid'
  <2> HIDE DEF Completed
  <2> QED
    BY <1>1, <1>2, <1>4, <1>7 DEF BillingInvariant, EndsArePaid
<1>11. RunsKnow'
  <2>1. \A q \in Payments : payment'[q].invoice = payment[q].invoice
    BY <1>1, <1>2
  <2> QED
    BY <1>3, <1>4, <2>1 DEF BillingInvariant, RunsKnow
<1>13. RowsFollowRequest' /\ VerdictsAgree'
  <2>1. /\ RowsFollowRequest /\ VerdictsAgree
    BY DEF BillingInvariant
  <2> QED
    BY <1>1, <1>2, <1>4, <2>1 DEF RowsFollowRequest, VerdictsAgree
<1>12. ReadsAreOld' /\ EarlyEndHasCause'
  BY <1>4, <1>5 DEF BillingInvariant, ReadsAreOld, EarlyEndHasCause
<1> QED
  BY <1>6, <1>9, <1>10, <1>11, <1>12, <1>13 DEF BillingInvariant

\* Expiry.
LEMMA RunExpires ==
  ASSUME BillingInvariant, NEW h \in Handlers, ExpireOrLeave(h)
  PROVE  BillingInvariant'
<1> DEFINE p == handler[h].pay
<1>1. p \in Payments /\ payment[p].invoice
  BY DEF ExpireOrLeave, BillingInvariant, RunsKnow
<1>2. /\ handler' \in [Handlers -> Run]
      /\ handler'[h].pc = "idle"
      /\ \A g \in Handlers \ {h} : handler'[g] = handler[g]
  BY EndRun DEF ExpireOrLeave, BillingInvariant
<1>3. UNCHANGED <<now, org, initiator, provider, cron, resolver, cache, stale>>
  BY DEF ExpireOrLeave
<1>4. /\ payment' \in [Payments -> Row]
      /\ \A q \in Payments :
           \/ payment'[q] = payment[q]
           \/ /\ q = p /\ payment[q].status = "PENDING" /\ payment'[q].status = "EXPIRED"
              /\ payment'[q].plan = payment[q].plan /\ payment'[q].end = payment[q].end
              /\ payment'[q].invoice = payment[q].invoice
  <2>1. CASE payment' = payment
    BY <2>1 DEF BillingInvariant, BillingTypeOK
  <2>2. CASE Claimable(p) /\ payment' = [payment EXCEPT ![p].status = "EXPIRED"]
    BY <1>1, <2>2, SetStatus DEF Claimable, Status, BillingInvariant
  <2> QED
    BY <2>1, <2>2 DEF ExpireOrLeave
<1> HIDE DEF p
<1>5. BillingTypeOK'
  BY <1>2, <1>3, <1>4 DEF BillingInvariant, BillingTypeOK
<1>6. EndsArePaid' /\ PrepaidIsPaid' /\ ServiceWasBought'
  <2>1. \A q \in Payments :
          \/ payment'[q].status = payment[q].status /\ payment'[q].end = payment[q].end
               /\ payment'[q].plan = payment[q].plan
          \/ /\ payment[q].status # "COMPLETED" /\ payment'[q].status # "COMPLETED"
             /\ payment'[q].end <= now + Period * (Cardinality(Completed) + 1)
    BY <1>4 DEF BillingInvariant, EndsArePaid
  <2> QED
    BY <1>3, <1>5, <2>1, AccountsKept
<1>7. RowsFollowRequest' /\ VerdictsAgree'
  BY <1>1, <1>3, <1>4 DEF BillingInvariant, RowsFollowRequest, VerdictsAgree
<1>8. RunsKnow'
  BY <1>1, <1>2, <1>3, <1>4 DEF BillingInvariant, RunsKnow
<1>9. ReadsAreOld' /\ EarlyEndHasCause'
  BY <1>3 DEF BillingInvariant, ReadsAreOld, EarlyEndHasCause
<1> QED
  BY <1>5, <1>6, <1>7, <1>8, <1>9 DEF BillingInvariant

\* The renewal job and the plan lookup.
LEMMA JobAndLookup ==
  ASSUME BillingInvariant, CronStep \/ ResolverRead \/ ResolverAct \/ CacheExpires
  PROVE  BillingInvariant'
<1>1. ASSUME UNCHANGED <<now, payment, initiator, provider, handler>>, BillingTypeOK',
             org'.until = org.until, org'.plan \in {org.plan, NoPlan},
             ReadsAreOld', EarlyEndHasCause'
      PROVE  BillingInvariant'
  <2>1. Completed' = Completed
    BY <1>1 DEF Completed
  <2>2. PrepaidIsPaid' /\ ServiceWasBought'
    BY <1>1, <2>1, PlanKeptOrLost
  <2>3. EndsArePaid'
    <3> HIDE DEF Completed
    <3> QED
      BY <1>1, <2>1 DEF BillingInvariant, EndsArePaid
  <2>4. RowsFollowRequest' /\ RunsKnow' /\ VerdictsAgree'
    BY <1>1 DEF BillingInvariant, RowsFollowRequest, RunsKnow, VerdictsAgree
  <2> QED
    BY <1>1, <2>2, <2>3, <2>4 DEF BillingInvariant
<1>2. BillingTypeOK /\ ReadsAreOld /\ EarlyEndHasCause
  BY DEF BillingInvariant
<1>3. now \in Nat /\ now \in 0 .. MaxNow /\ org.until \in Nat /\ Grace \in Nat
  BY <1>2, BillingAssumption DEF BillingTypeOK, OrgRow
\* Ending the service over a due date that is past its grace period.
<1>4. ASSUME NEW due \in Nat, EndService(due), now > due + Grace, UNCHANGED now
      PROVE  /\ org' \in OrgRow
             /\ org'.until = org.until /\ org'.plan = NoPlan
             /\ stale' \in BOOLEAN /\ EarlyEndHasCause'
  <2>1. /\ org' \in OrgRow
        /\ org'.until = org.until /\ org'.plan = NoPlan
    BY <1>2, <1>4 DEF EndService, BillingTypeOK, OrgRow, OrgStatus, Methods
  <2>2. stale' \in BOOLEAN
    BY <1>2, <1>4 DEF EndService, BillingTypeOK
  <2>3. ~stale' => org.until = due
    BY <1>4 DEF EndService
  <2> QED
    BY <1>4, <2>1, <2>2, <2>3 DEF EarlyEndHasCause
<1>5. CASE CronScan
  <2>1. UNCHANGED <<now, org, payment, initiator, provider, handler, resolver, cache, stale>>
    BY <1>5 DEF CronScan, core
  <2>2. CASE Overdue(org.until, now) /\ cron' = [pc |-> "ending", until |-> org.until]
    <3>1. BillingTypeOK' /\ ReadsAreOld' /\ EarlyEndHasCause'
      BY <1>2, <1>3, <2>1, <2>2 DEF BillingTypeOK, ReadsAreOld, EarlyEndHasCause, Overdue
    <3> QED
      BY <1>1, <2>1, <3>1
  <2>3. CASE cron' = [IdleCron EXCEPT !.pc = "lapsing"]
    <3>1. BillingTypeOK' /\ ReadsAreOld' /\ EarlyEndHasCause'
      BY <1>2, <2>1, <2>3 DEF BillingTypeOK, ReadsAreOld, EarlyEndHasCause, IdleCron
    <3> QED
      BY <1>1, <2>1, <3>1
  <2> QED
    BY <1>5, <2>2, <2>3 DEF CronScan
<1>6. CASE CronAct
  <2>1. /\ UNCHANGED <<now, payment, initiator, provider, handler, resolver, cache>>
        /\ cron' = AppliedCron /\ cron.until \in Nat
    BY <1>2, <1>6 DEF CronAct, BillingTypeOK
  <2>2. CASE cron.pc = "ending" /\ EndService(cron.until)
    <3>1. /\ org' \in OrgRow /\ org'.until = org.until /\ org'.plan = NoPlan
          /\ stale' \in BOOLEAN /\ EarlyEndHasCause'
      BY <1>2, <1>4, <2>1, <2>2 DEF ReadsAreOld
    <3>2. BillingTypeOK' /\ ReadsAreOld'
      BY <1>2, <2>1, <3>1 DEF BillingTypeOK, ReadsAreOld, AppliedCron, IdleCron
    <3> QED
      BY <1>1, <2>1, <3>1, <3>2
  <2>3. CASE org' = [org EXCEPT !.status = "PAST_DUE"] /\ UNCHANGED stale
    <3>1. org' \in OrgRow /\ org'.until = org.until /\ org'.plan = org.plan
      BY <1>2, <2>3 DEF BillingTypeOK, OrgRow, OrgStatus
    <3>2. BillingTypeOK' /\ ReadsAreOld' /\ EarlyEndHasCause'
      BY <1>2, <2>1, <2>3, <3>1
      DEF BillingTypeOK, ReadsAreOld, EarlyEndHasCause, AppliedCron, IdleCron
    <3> QED
      BY <1>1, <2>1, <3>1, <3>2
  <2> QED
    BY <1>6, <2>2, <2>3 DEF CronAct
<1>7. CASE CronInvalidate
  <2>1. UNCHANGED <<now, org, payment, initiator, provider, handler, resolver, stale>>
          /\ cron' = IdleCron /\ cache' = Empty
    BY <1>7 DEF CronInvalidate, core
  <2>2. BillingTypeOK' /\ ReadsAreOld' /\ EarlyEndHasCause'
    BY <1>2, <2>1 DEF BillingTypeOK, ReadsAreOld, EarlyEndHasCause, IdleCron
  <2> QED
    BY <1>1, <2>1, <2>2
<1>8. CASE ResolverRead
  <2> DEFINE due == IF cache = Empty THEN DueDate ELSE cache
             overdue == due # 0 /\ Overdue(due, now)
  <2>1. /\ UNCHANGED <<now, org, payment, initiator, provider, handler, cron, cache, stale>>
        /\ resolver' = [pc |-> IF overdue THEN "ending" ELSE "caching", due |-> due]
    BY <1>8 DEF ResolverRead, core
  <2>2. due \in Nat
    BY <1>2, <1>3 DEF BillingTypeOK, DueDate
  <2>3. overdue => now > due + Grace
    BY DEF Overdue
  <2> HIDE DEF due, overdue
  <2>4. BillingTypeOK' /\ ReadsAreOld' /\ EarlyEndHasCause'
    BY <1>2, <2>1, <2>2, <2>3 DEF BillingTypeOK, ReadsAreOld, EarlyEndHasCause
  <2> QED
    BY <1>1, <2>1, <2>4
<1>9. CASE ResolverAct
  <2>1. /\ UNCHANGED <<now, payment, initiator, provider, handler, cron>>
        /\ resolver' = IdleLookup /\ resolver.due \in Nat
    BY <1>2, <1>9 DEF ResolverAct, BillingTypeOK
  <2>2. CASE resolver.pc = "ending" /\ EndService(resolver.due) /\ cache' = Empty
    <3>1. /\ org' \in OrgRow /\ org'.until = org.until /\ org'.plan = NoPlan
          /\ stale' \in BOOLEAN /\ EarlyEndHasCause'
      BY <1>2, <1>4, <2>1, <2>2 DEF ReadsAreOld
    <3>2. BillingTypeOK' /\ ReadsAreOld'
      BY <1>2, <2>1, <2>2, <3>1 DEF BillingTypeOK, ReadsAreOld, IdleLookup
    <3> QED
      BY <1>1, <2>1, <3>1, <3>2
  <2>3. CASE UNCHANGED <<org, stale>> /\ cache' = resolver.due
    <3>1. BillingTypeOK' /\ ReadsAreOld' /\ EarlyEndHasCause'
      BY <1>2, <2>1, <2>3 DEF BillingTypeOK, ReadsAreOld, EarlyEndHasCause, IdleLookup
    <3> QED
      BY <1>1, <2>1, <2>3, <3>1
  <2> QED
    BY <1>9, <2>2, <2>3 DEF ResolverAct
<1>10. CASE CacheExpires
  <2>1. UNCHANGED <<now, org, payment, initiator, provider, handler, cron, resolver, stale>>
          /\ cache' = Empty
    BY <1>10 DEF CacheExpires, core
  <2>2. BillingTypeOK' /\ ReadsAreOld' /\ EarlyEndHasCause'
    BY <1>2, <2>1 DEF BillingTypeOK, ReadsAreOld, EarlyEndHasCause
  <2> QED
    BY <1>1, <2>1, <2>2
<1> QED
  BY <1>5, <1>6, <1>7, <1>8, <1>9, <1>10 DEF CronStep

\* Time passes.
LEMMA TimePasses ==
  ASSUME BillingInvariant, Tick
  PROVE  BillingInvariant'
<1>1. /\ now \in 0 .. MaxNow /\ now' = now + 1 /\ now' \in 0 .. MaxNow
      /\ UNCHANGED <<org, payment, initiator, provider, handler, cron, resolver, cache, stale>>
      /\ MaxNow \in Nat /\ Grace \in Nat
  BY BillingAssumption DEF Tick, BillingInvariant, BillingTypeOK
<1>2. BillingTypeOK'
  BY <1>1 DEF BillingInvariant, BillingTypeOK
<1>3. Completed' = Completed
  BY <1>1 DEF Completed
<1>4. EndsArePaid' /\ PrepaidIsPaid'
  <2> DEFINE paid == Period * Cardinality(Completed)
             more == Period * (Cardinality(Completed) + 1)
  <2>1. paid \in Nat /\ more \in Nat
    <3>1. Cardinality(Completed) \in Nat
      BY CompletedCount
    <3> HIDE DEF Completed
    <3>2. Cardinality(Completed) + 1 \in Nat
      BY <3>1
    <3> QED
      BY <3>1, <3>2, PeriodSum
  <2>2. /\ \A q \in Payments : payment[q].end \in Nat
        /\ org.until \in Nat /\ org.until <= now + paid
        /\ \A q \in Payments : payment[q].status = "COMPLETED" => payment[q].end <= now + paid
        /\ \A q \in Payments : payment[q].status # "COMPLETED" => payment[q].end <= now + more
    BY DEF BillingInvariant, EndsArePaid, PrepaidIsPaid, BillingTypeOK, Row, OrgRow
  <2>3. paid' = paid /\ more' = more
    BY <1>3
  <2>4. /\ org.until <= now' + paid
        /\ \A q \in Payments : payment[q].status = "COMPLETED" => payment[q].end <= now' + paid
        /\ \A q \in Payments : payment[q].status # "COMPLETED" => payment[q].end <= now' + more
    <3> HIDE DEF paid, more
    <3> QED
      BY <1>1, <2>1, <2>2
  <2> QED
    BY <1>1, <1>3, <2>4 DEF EndsArePaid, PrepaidIsPaid
<1>5. ServiceWasBought'
  BY <1>1, <1>3 DEF BillingInvariant, ServiceWasBought
<1>6. RowsFollowRequest' /\ RunsKnow' /\ VerdictsAgree'
  BY <1>1 DEF BillingInvariant, RowsFollowRequest, RunsKnow, VerdictsAgree
<1>7. ReadsAreOld' /\ EarlyEndHasCause'
  <2>1. now \in Nat /\ cron.until \in Nat /\ resolver.due \in Nat /\ org.until \in Nat
    BY <1>1 DEF BillingInvariant, BillingTypeOK, OrgRow
  <2> QED
    BY <1>1, <2>1 DEF BillingInvariant, ReadsAreOld, EarlyEndHasCause
<1> QED
  BY <1>2, <1>4, <1>5, <1>6, <1>7 DEF BillingInvariant

-----------------------------------------------------------------------------
\* Every step keeps the invariant.
LEMMA BillingStep == BillingInvariant /\ [BillingNext]_vars => BillingInvariant'
<1> SUFFICES ASSUME BillingInvariant, [BillingNext]_vars
             PROVE  BillingInvariant'
  OBVIOUS
<1>1. ASSUME NEW p \in Payments, InitiatorStep(p)
      PROVE  BillingInvariant'
  BY <1>1, RequestBegins, RequestProceeds DEF InitiatorStep
<1>2. ASSUME NEW p \in Payments, NEW s \in FinalVerdicts, ProviderDecides(p, s)
      PROVE  BillingInvariant'
  BY <1>2, VerdictFalls
<1>7. ASSUME NEW h \in Handlers, NEW method \in Methods, ChooseMethod(h, method)
      PROVE  BillingInvariant'
  BY <1>7, MethodChosen
<1>3. ASSUME NEW h \in Handlers,
             (\E p \in Payments : Receive(h, p)) \/ RunStep(h) \/ HandlerDies(h)
      PROVE  BillingInvariant'
  BY <1>3, RunsReceiveAndEnd, RunFinalizes, RunRepairs, RunFails, RunExpires DEF RunStep
<1>4. CASE CronStep \/ ResolverRead \/ ResolverAct \/ CacheExpires
  BY <1>4, JobAndLookup
<1>5. CASE Tick
  BY <1>5, TimePasses
<1>6. CASE UNCHANGED vars
  <2>1. Completed' = Completed
    BY <1>6 DEF vars, Completed
  <2> QED
    BY <1>6, <2>1
    DEF vars, BillingInvariant, BillingTypeOK, RowsFollowRequest, RunsKnow, EndsArePaid,
        ReadsAreOld, PrepaidIsPaid, ServiceWasBought, VerdictsAgree, EarlyEndHasCause
<1> QED
  BY <1>1, <1>2, <1>3, <1>4, <1>5, <1>6, <1>7 DEF BillingNext

\* However the runs, the renewal job and the plan lookups interleave with one
\* another and with new payments, the invariant holds.
THEOREM BillingIsSafe == BillingSpec => []BillingInvariant
<1> QED
  BY BillingInitially, BillingStep, PTL DEF BillingSpec

\* Each completed payment buys one period and no more, whatever is received,
\* repaired and reconciled twice.
THEOREM ServiceIsPrepaid == BillingSpec => []PrepaidIsPaid
<1>1. BillingInvariant => PrepaidIsPaid
  BY DEF BillingInvariant
<1> QED
  BY <1>1, BillingIsSafe, PTL

\* The plan and the end an organization has are what one completed payment
\* bought.
THEOREM ServiceIsBought == BillingSpec => []ServiceWasBought
<1>1. BillingInvariant => ServiceWasBought
  BY DEF BillingInvariant
<1> QED
  BY <1>1, BillingIsSafe, PTL

\* A payment recorded as completed is completed at IntaSend, and one recorded
\* as failed after it had an invoice has failed there.
THEOREM VerdictsAreTheProviders == BillingSpec => []VerdictsAgree
<1>1. BillingInvariant => VerdictsAgree
  BY DEF BillingInvariant
<1> QED
  BY <1>1, BillingIsSafe, PTL

\* Only a write that was decided before a payment landed takes an
\* organization's plan away before the grace period is over.
THEOREM EarlyEndsAreExplained == BillingSpec => []EarlyEndHasCause
<1>1. BillingInvariant => EarlyEndHasCause
  BY DEF BillingInvariant
<1> QED
  BY <1>1, BillingIsSafe, PTL
=============================================================================
