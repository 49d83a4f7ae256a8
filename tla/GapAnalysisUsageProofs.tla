----------------------- MODULE GapAnalysisUsageProofs -----------------------
(***************************************************************************)
(* Proofs that the compensation of GapAnalysisUsage gives units back at    *)
(* most once and never loses a refund, for any number of callers, rows,    *)
(* units and faults.                                                       *)
(***************************************************************************)
EXTENDS GapAnalysisUsage, UnitCounting, TLAPS

Counters == [{"REDIS", "TRIAL"} -> Int]
Compensations == [pc : CompStep, key : Keys \cup {NoKey}]

-----------------------------------------------------------------------------
(* The operators the actions are built from.                               *)

LEMMA ChargedType ==
  ASSUME counter \in Counters, NEW k \in Keys
  PROVE  Charged(k) \in Counters
BY UsageAssumption DEF Charged, Counters, Scopes

LEMMA RefundedType ==
  ASSUME counter \in Counters, NEW k \in Keys, Scope[k] # "UNLIMITED"
  PROVE  Refunded(k) \in Counters
BY UsageAssumption DEF Refunded, Counters, Scopes

\* A compensation under way has a key.
LEMMA CompensationKey ==
  ASSUME UsageTypeOK, NEW c \in Callers, comp[c].pc \notin {"none"} \cup Results
  PROVE  comp[c].key \in Keys
BY DEF UsageTypeOK

\* A step of a compensation to another control state keeps the type.
LEMMA StepType ==
  ASSUME UsageTypeOK, NEW c \in Callers, comp[c].pc \notin {"none"} \cup Results,
         NEW pc \in CompStep, Step(c, pc)
  PROVE  /\ comp' \in [Callers -> Compensations]
         /\ \A d \in Callers :
              comp'[d].pc \notin {"none"} \cup Results => comp'[d].key \in Keys
         /\ comp'[c].pc = pc /\ comp'[c].key = comp[c].key
         /\ \A d \in Callers \ {c} : comp'[d] = comp[d]
<1>1. comp \in [Callers -> Compensations] /\ comp[c] \in Compensations
  BY DEF UsageTypeOK, Compensations
<1>2. /\ comp' \in [Callers -> Compensations]
      /\ comp'[c].pc = pc /\ comp'[c].key = comp[c].key
      /\ \A d \in Callers \ {c} : comp'[d] = comp[d]
  BY <1>1 DEF Step, Compensations
<1> QED
  BY <1>2 DEF UsageTypeOK

\* Once per row: the script refunds a row that has no marker, and only that.
LEMMA ScriptRefundsOnce ==
  ASSUME UsageInvariant, NEW k \in Keys, Scope[k] = "REDIS", RefundScript(k)
  PROVE  /\ counter' \in Counters /\ refunds' \in [Keys -> Nat]
         /\ marker' = marker \cup {k}
         /\ refunds'[k] = 1
         /\ \A i \in Keys \ {k} : refunds'[i] = refunds[i]
<1>1. CASE k \in marker
  BY <1>1 DEF RefundScript, UsageInvariant, UsageTypeOK, RefundsAreMarked, Counters
<1>2. CASE k \notin marker
  <2>1. refunds[k] = 0
    BY <1>2 DEF UsageInvariant, RefundsAreMarked
  <2>2. counter' \in Counters
    BY <1>2, RefundedType
       DEF RefundScript, UsageInvariant, UsageTypeOK, Counters
  <2> QED
    BY <1>2, <2>1, <2>2 DEF RefundScript, UsageInvariant, UsageTypeOK
<1> QED
  BY <1>1, <1>2

-----------------------------------------------------------------------------
(* The inductive invariant.                                                *)

LEMMA UsageInvariantInit == UsageInit => UsageInvariant
<1> SUFFICES ASSUME UsageInit PROVE UsageInvariant
  OBVIOUS
<1>1. UsageTypeOK
  BY UsageAssumption
     DEF UsageInit, UsageTypeOK, LedgerState, NoCompensation, CompStep, Results
<1>2. RefundsAreMarked /\ ReleasesAreMarked /\ PathsFollowScopes
  BY DEF UsageInit, RefundsAreMarked, ReleasesAreMarked, PathsFollowScopes,
         NoCompensation
<1> QED
  BY <1>1, <1>2 DEF UsageInvariant

\* The look-up of the row chooses the path of its scope.
LEMMA PathsBegin ==
  ASSUME NEW k \in Keys
  PROVE  /\ FirstStep(k) \in CompStep
         /\ FirstStep(k) = "trial" => Scope[k] = "TRIAL"
         /\ FirstStep(k) = "unlimited" => Scope[k] = "UNLIMITED"
         /\ FirstStep(k) \in {"claim", "refund", "release", "postpone"} =>
              FirstStep(k) = "claim" /\ Scope[k] = "REDIS"
<1>1. FirstStep(k) \in {"false", "true", PathOf[Scope[k]]}
  BY DEF FirstStep
<1>2. Scope[k] \in Scopes
  BY UsageAssumption
<1> QED
  BY <1>1, <1>2 DEF PathOf, Scopes, CompStep, Results

\* The start and the end of a compensation, and a crash in between, touch the
\* caller's own state alone.
LEMMA CallKeepsInvariant ==
  ASSUME UsageInvariant, NEW c \in Callers,
         \/ \E k \in Keys : BeginCompensation(c, k)
         \/ EndCompensation(c) \/ CallerCrashes(c)
  PROVE  UsageInvariant'
<1>1. UsageTypeOK /\ comp \in [Callers -> Compensations]
  BY DEF UsageInvariant, UsageTypeOK, Compensations
<1>2. /\ UNCHANGED <<ledger, counter, marker, refunds>>
      /\ faults' \in 0 .. MaxFaults
  BY <1>1, UsageAssumption
     DEF BeginCompensation, EndCompensation, CallerCrashes, Fault, UsageTypeOK
<1>3. CASE \E k \in Keys : BeginCompensation(c, k)
  <2>1. PICK k \in Keys, pc \in CompStep :
          /\ comp' = [comp EXCEPT ![c] = [key |-> k, pc |-> pc]]
          /\ pc = "trial" => Scope[k] = "TRIAL"
          /\ pc = "unlimited" => Scope[k] = "UNLIMITED"
          /\ pc \in {"claim", "refund", "release", "postpone"} =>
               pc = "claim" /\ Scope[k] = "REDIS"
    <3>1. PICK k \in Keys : BeginCompensation(c, k)
      BY <1>3
    <3> QED
      BY <3>1, PathsBegin DEF BeginCompensation
  <2>2. /\ comp' \in [Callers -> Compensations]
        /\ comp'[c].key = k /\ comp'[c].pc = pc
        /\ \A d \in Callers \ {c} : comp'[d] = comp[d]
    BY <1>1, <2>1 DEF Compensations
  <2>3. UsageTypeOK'
    BY <1>1, <1>2, <2>2 DEF UsageTypeOK, Compensations
  <2>4. RefundsAreMarked' /\ ReleasesAreMarked'
    BY <1>2, <2>1, <2>2 DEF UsageInvariant, RefundsAreMarked, ReleasesAreMarked
  <2>5. PathsFollowScopes'
    BY <2>1, <2>2 DEF UsageInvariant, PathsFollowScopes
  <2> QED
    BY <2>3, <2>4, <2>5 DEF UsageInvariant
<1>4. CASE EndCompensation(c) \/ CallerCrashes(c)
  <2>1. /\ comp' \in [Callers -> Compensations]
        /\ comp'[c].pc = "none"
        /\ \A d \in Callers \ {c} : comp'[d] = comp[d]
    BY <1>1, <1>4
       DEF EndCompensation, CallerCrashes, NoCompensation, Compensations, CompStep
  <2>2. UsageTypeOK'
    BY <1>1, <1>2, <2>1 DEF UsageTypeOK, Compensations
  <2>3. RefundsAreMarked' /\ ReleasesAreMarked' /\ PathsFollowScopes'
    BY <1>2, <2>1
       DEF UsageInvariant, RefundsAreMarked, ReleasesAreMarked, PathsFollowScopes
  <2> QED
    BY <2>2, <2>3 DEF UsageInvariant
<1> QED
  BY <1>3, <1>4

\* What the rest of the system does to a row.
LEMMA RowStepsKeepInvariant ==
  ASSUME UsageInvariant, NEW k \in Keys, Reserve(k) \/ Settle(k)
  PROVE  UsageInvariant'
<1>1. /\ UsageTypeOK /\ counter' \in Counters
      /\ ledger[k] \in {"ABSENT", "RESERVED"}
      /\ ledger' \in [Keys -> LedgerState]
      /\ ledger'[k] \in {"RESERVED", "SETTLED"}
      /\ \A i \in Keys \ {k} : ledger'[i] = ledger[i]
      /\ UNCHANGED <<marker, comp, refunds, faults>>
  BY ChargedType
     DEF Reserve, Settle, Settled, SetState, UsageInvariant, UsageTypeOK,
         LedgerState, Counters
<1>2. UsageTypeOK'
  BY <1>1 DEF UsageTypeOK, Counters
<1>3. RefundsAreMarked'
  BY <1>1 DEF UsageInvariant, RefundsAreMarked
<1>4. ReleasesAreMarked' /\ PathsFollowScopes'
  BY <1>1 DEF UsageInvariant, ReleasesAreMarked, PathsFollowScopes
<1> QED
  BY <1>2, <1>3, <1>4 DEF UsageInvariant

\* A step of a paid compensation that gives nothing back: it may write any
\* state into its row but RELEASED without a marker.
LEMMA PaidStepKeepsInvariant ==
  ASSUME UsageInvariant, NEW c \in Callers,
         comp[c].pc \in {"claim", "refund", "release", "postpone"},
         NEW pc \in Results \cup {"refund", "postpone"}, Step(c, pc),
         NEW state \in LedgerState,
         state = "RELEASED" => comp[c].key \in marker,
         \/ ledger' = [ledger EXCEPT ![comp[c].key] = state]
         \/ ledger' = ledger,
         UNCHANGED <<counter, marker, refunds>>,
         faults' \in 0 .. MaxFaults
  PROVE  UsageInvariant'
<1> DEFINE k == comp[c].key
<1>1. UsageTypeOK /\ k \in Keys /\ Scope[k] = "REDIS"
  BY CompensationKey DEF UsageInvariant, PathsFollowScopes, Results
<1>2. /\ comp' \in [Callers -> Compensations]
      /\ \A d \in Callers :
           comp'[d].pc \notin {"none"} \cup Results => comp'[d].key \in Keys
      /\ comp'[c].pc = pc /\ comp'[c].key = k
      /\ \A d \in Callers \ {c} : comp'[d] = comp[d]
  BY <1>1, StepType DEF CompStep, Results
<1>3. /\ ledger' \in [Keys -> LedgerState]
      /\ ledger'[k] \in {state, ledger[k]}
      /\ \A i \in Keys \ {k} : ledger'[i] = ledger[i]
  BY <1>1 DEF UsageTypeOK
<1>4. UsageTypeOK'
  BY <1>1, <1>2, <1>3 DEF UsageTypeOK, Compensations
<1>5. RefundsAreMarked'
  BY <1>1, <1>3 DEF UsageInvariant, RefundsAreMarked
<1>6. ReleasesAreMarked'
  BY <1>1, <1>2, <1>3 DEF UsageInvariant, ReleasesAreMarked, Results
<1>7. PathsFollowScopes'
  BY <1>1, <1>2 DEF UsageInvariant, PathsFollowScopes, Results
<1> QED
  BY <1>4, <1>5, <1>6, <1>7 DEF UsageInvariant

\* The step in which the script runs, whether its reply arrives or is lost.
LEMMA ScriptKeepsInvariant ==
  ASSUME UsageInvariant, NEW c \in Callers, comp[c].pc = "refund",
         RefundScript(comp[c].key),
         NEW pc \in {"release", "postpone"}, Step(c, pc),
         ledger' = ledger, faults' \in 0 .. MaxFaults
  PROVE  UsageInvariant'
<1> DEFINE k == comp[c].key
<1>1. UsageTypeOK /\ k \in Keys /\ Scope[k] = "REDIS"
  BY CompensationKey DEF UsageInvariant, PathsFollowScopes, Results
<1>2. /\ comp' \in [Callers -> Compensations]
      /\ \A d \in Callers :
           comp'[d].pc \notin {"none"} \cup Results => comp'[d].key \in Keys
      /\ comp'[c].pc = pc /\ comp'[c].key = k
      /\ \A d \in Callers \ {c} : comp'[d] = comp[d]
  BY <1>1, StepType DEF CompStep, Results
<1>3. /\ counter' \in Counters /\ refunds' \in [Keys -> Nat]
      /\ marker' = marker \cup {k}
      /\ refunds'[k] = 1
      /\ \A i \in Keys \ {k} : refunds'[i] = refunds[i]
  BY <1>1, ScriptRefundsOnce
<1>4. UsageTypeOK'
  BY <1>1, <1>2, <1>3 DEF UsageTypeOK, Compensations, Counters
<1>5. RefundsAreMarked'
  BY <1>1, <1>3 DEF UsageInvariant, RefundsAreMarked
<1>6. ReleasesAreMarked'
  BY <1>1, <1>2, <1>3 DEF UsageInvariant, ReleasesAreMarked
<1>7. PathsFollowScopes'
  BY <1>1, <1>2 DEF UsageInvariant, PathsFollowScopes
<1> QED
  BY <1>4, <1>5, <1>6, <1>7 DEF UsageInvariant

LEMMA TrialKeepsInvariant ==
  ASSUME UsageInvariant, NEW c \in Callers, CompensateTrial(c)
  PROVE  UsageInvariant'
<1> DEFINE k == comp[c].key
<1>1. /\ UsageTypeOK /\ k \in Keys /\ Scope[k] = "TRIAL"
      /\ UNCHANGED <<marker, faults>>
  BY CompensationKey
     DEF CompensateTrial, UsageInvariant, PathsFollowScopes, Results
<1>2. /\ comp' \in [Callers -> Compensations]
      /\ \A d \in Callers :
           comp'[d].pc \notin {"none"} \cup Results => comp'[d].key \in Keys
      /\ comp'[c].pc = "true"
      /\ \A d \in Callers \ {c} : comp'[d] = comp[d]
  BY <1>1, StepType DEF CompensateTrial, CompStep, Results
<1>3. ReleasesAreMarked'
  <2>1. \A i \in Keys \ {k} : ledger'[i] = ledger[i]
    BY <1>1 DEF CompensateTrial, SetState, UsageTypeOK
  <2> QED
    BY <1>1, <1>2, <2>1 DEF UsageInvariant, ReleasesAreMarked
<1>4. PathsFollowScopes'
  BY <1>2 DEF UsageInvariant, PathsFollowScopes
<1>5. CASE ledger[k] \in {"RESERVED", "COMPENSATION_PENDING"}
  <2>1. /\ ledger' \in [Keys -> LedgerState] /\ ledger'[k] = "RELEASED"
        /\ \A i \in Keys \ {k} : ledger'[i] = ledger[i]
    BY <1>1, <1>5 DEF CompensateTrial, SetState, UsageTypeOK, LedgerState
  <2>2. counter' \in Counters
    BY <1>1, <1>5, RefundedType DEF CompensateTrial, UsageTypeOK, Counters
  <2>3. refunds[k] = 0
    BY <1>1, <1>5 DEF UsageInvariant, RefundsAreMarked
  <2>4. /\ refunds' \in [Keys -> Nat] /\ refunds'[k] = 1
        /\ \A i \in Keys \ {k} : refunds'[i] = refunds[i]
    BY <1>1, <1>5, <2>3 DEF CompensateTrial, UsageTypeOK
  <2>5. UsageTypeOK'
    BY <1>1, <1>2, <2>1, <2>2, <2>4 DEF UsageTypeOK, Compensations, Counters
  <2>6. RefundsAreMarked'
    BY <1>1, <2>1, <2>4 DEF UsageInvariant, RefundsAreMarked
  <2> QED
    BY <1>3, <1>4, <2>5, <2>6 DEF UsageInvariant
<1>6. CASE ledger[k] \notin {"RESERVED", "COMPENSATION_PENDING"}
  <2>1. UNCHANGED <<ledger, counter, refunds>>
    BY <1>6 DEF CompensateTrial
  <2>2. UsageTypeOK' /\ RefundsAreMarked'
    BY <1>1, <1>2, <2>1
       DEF UsageInvariant, UsageTypeOK, RefundsAreMarked, Compensations
  <2> QED
    BY <1>3, <1>4, <2>2 DEF UsageInvariant
<1> QED
  BY <1>5, <1>6

LEMMA UnlimitedKeepsInvariant ==
  ASSUME UsageInvariant, NEW c \in Callers, CompensateUnlimited(c)
  PROVE  UsageInvariant'
<1> DEFINE k == comp[c].key
<1>1. /\ UsageTypeOK /\ k \in Keys /\ Scope[k] = "UNLIMITED"
      /\ UNCHANGED <<counter, marker, refunds, faults>>
  BY CompensationKey
     DEF CompensateUnlimited, UsageInvariant, PathsFollowScopes, Results
<1>2. /\ comp' \in [Callers -> Compensations]
      /\ \A d \in Callers :
           comp'[d].pc \notin {"none"} \cup Results => comp'[d].key \in Keys
      /\ comp'[c].pc = "true"
      /\ \A d \in Callers \ {c} : comp'[d] = comp[d]
  BY <1>1, StepType DEF CompensateUnlimited, CompStep, Results
<1>3. /\ ledger' \in [Keys -> LedgerState]
      /\ \A i \in Keys \ {k} : ledger'[i] = ledger[i]
  BY <1>1 DEF CompensateUnlimited, SetState, UsageTypeOK, LedgerState
<1>4. UsageTypeOK'
  BY <1>1, <1>2, <1>3 DEF UsageTypeOK, Compensations
<1>5. RefundsAreMarked' /\ ReleasesAreMarked' /\ PathsFollowScopes'
  BY <1>1, <1>2, <1>3
     DEF UsageInvariant, RefundsAreMarked, ReleasesAreMarked, PathsFollowScopes
<1> QED
  BY <1>4, <1>5 DEF UsageInvariant

LEMMA CompensationKeepsInvariant ==
  ASSUME UsageInvariant, NEW c \in Callers,
         CompensationStep(c) \/ CompensationFault(c)
  PROVE  UsageInvariant'
<1>0. /\ UsageTypeOK /\ faults \in 0 .. MaxFaults
      /\ \A kind : Fault(kind) => faults' \in 0 .. MaxFaults
      /\ {"COMPENSATING", "RELEASED", "COMPENSATION_PENDING"} \subseteq LedgerState
  BY UsageAssumption DEF UsageInvariant, UsageTypeOK, Fault, LedgerState
<1>1. CASE CompensateTrial(c)
  BY <1>1, TrialKeepsInvariant
<1>2. CASE CompensateUnlimited(c)
  BY <1>2, UnlimitedKeepsInvariant
<1>3. CASE ClaimCompensation(c)
  BY <1>0, <1>3, PaidStepKeepsInvariant DEF ClaimCompensation, SetState
<1>4. CASE Refund(c)
  BY <1>0, <1>4, ScriptKeepsInvariant DEF Refund
<1>5. CASE Release(c)
  <2>1. comp[c].key \in marker
    BY <1>5 DEF Release, UsageInvariant, ReleasesAreMarked
  <2> QED
    BY <1>0, <1>5, <2>1, PaidStepKeepsInvariant DEF Release, SetState, Results
<1>6. CASE PostponeCompensation(c)
  BY <1>0, <1>6, PaidStepKeepsInvariant
     DEF PostponeCompensation, SetState, Results
<1>7. CASE RefundFails(c)
  <2>1. CASE RefundScript(comp[c].key)
    BY <1>0, <1>7, <2>1, ScriptKeepsInvariant DEF RefundFails
  <2>2. CASE UNCHANGED <<counter, marker, refunds>>
    BY <1>0, <1>7, <2>2, PaidStepKeepsInvariant DEF RefundFails
  <2> QED
    BY <1>7, <2>1, <2>2 DEF RefundFails
<1>8. CASE StatementFails(c)
  <2>1. /\ UNCHANGED <<ledger, counter, marker, refunds>>
        /\ faults' \in 0 .. MaxFaults
    BY <1>0, <1>8 DEF StatementFails
  <2>2. CASE comp[c].pc \in {"release", "claim", "postpone"}
    <3>1. PICK pc \in Results \cup {"postpone"} : Step(c, pc)
      BY <1>8, <2>2 DEF StatementFails, Results
    <3> QED
      BY <1>0, <2>1, <2>2, <3>1, PaidStepKeepsInvariant
  <2>3. CASE comp[c].pc \in {"trial", "unlimited"}
    <3>1. Step(c, "error")
      BY <1>8, <2>3 DEF StatementFails
    <3>2. /\ comp' \in [Callers -> Compensations]
          /\ \A d \in Callers :
               comp'[d].pc \notin {"none"} \cup Results => comp'[d].key \in Keys
          /\ comp'[c].pc = "error"
          /\ \A d \in Callers \ {c} : comp'[d] = comp[d]
      BY <1>0, <2>3, <3>1, StepType DEF CompStep, Results
    <3>3. UsageTypeOK'
      BY <1>0, <2>1, <3>2 DEF UsageTypeOK, Compensations
    <3>4. RefundsAreMarked' /\ ReleasesAreMarked' /\ PathsFollowScopes'
      BY <2>1, <3>2
         DEF UsageInvariant, RefundsAreMarked, ReleasesAreMarked,
             PathsFollowScopes
    <3> QED
      BY <3>3, <3>4 DEF UsageInvariant
  <2> QED
    BY <1>8, <2>2, <2>3 DEF StatementFails
<1> QED
  BY <1>1, <1>2, <1>3, <1>4, <1>5, <1>6, <1>7, <1>8
     DEF CompensationStep, CompensationFault

LEMMA UsageInvariantStep == UsageInvariant /\ [UsageNext]_usageVars => UsageInvariant'
<1> SUFFICES ASSUME UsageInvariant, [UsageNext]_usageVars
             PROVE  UsageInvariant'
  OBVIOUS
<1>1. CASE UNCHANGED usageVars
  BY <1>1 DEF usageVars, UsageInvariant, UsageTypeOK, RefundsAreMarked,
              ReleasesAreMarked, PathsFollowScopes
<1>2. CASE UsageNext
  BY <1>2, RowStepsKeepInvariant, CallKeepsInvariant, CompensationKeepsInvariant
     DEF UsageNext, Reconcile
<1> QED
  BY <1>1, <1>2

THEOREM UsageInvariantHolds == UsageSpec => []UsageInvariant
BY UsageInvariantInit, UsageInvariantStep, PTL DEF UsageSpec

-----------------------------------------------------------------------------
(* The counter.  Rows are compensated only once they were written, so that *)
(* a row that is written now holds units nobody gave back before.          *)

\* What a step does to rows and compensations without disturbing the above: no
\* row vanishes, and who compensates or marks a row found it there.
RowsStay ==
  /\ \A k \in Keys : ledger[k] # "ABSENT" => ledger'[k] # "ABSENT"
  /\ \A k \in marker' : k \in marker \/ \E c \in Callers :
       comp[c].pc \notin {"none"} \cup Results /\ k = comp[c].key
  /\ \A c \in Callers : comp'[c].pc \notin {"none"} \cup Results =>
       \/ ledger[comp'[c].key] # "ABSENT" /\ comp'[c].key \in Keys
       \/ /\ comp[c].pc \notin {"none"} \cup Results
          /\ comp'[c].key = comp[c].key

LEMMA RowsStaySuffices ==
  ASSUME AccountingInvariant, RowsStay
  PROVE  CompensationsHaveRows'
<1>1. marker \subseteq Keys
  BY DEF AccountingInvariant, UsageInvariant, UsageTypeOK
<1>2. \A c \in Callers : comp[c].pc \notin {"none"} \cup Results =>
        comp[c].key \in Keys /\ ledger[comp[c].key] # "ABSENT"
  BY CompensationKey DEF AccountingInvariant, UsageInvariant, CompensationsHaveRows
<1>3. ASSUME NEW c \in Callers, comp'[c].pc \notin {"none"} \cup Results
      PROVE  ledger'[comp'[c].key] # "ABSENT"
  BY <1>2, <1>3 DEF RowsStay
<1>4. ASSUME NEW k \in marker' PROVE ledger'[k] # "ABSENT"
  BY <1>1, <1>2, <1>4 DEF RowsStay, AccountingInvariant, CompensationsHaveRows
<1> QED
  BY <1>3, <1>4 DEF CompensationsHaveRows

LEMMA UsageStepKeepsRows ==
  ASSUME AccountingInvariant, UsageNext
  PROVE  RowsStay
<1>1. /\ UsageTypeOK /\ comp \in [Callers -> Compensations]
      /\ ledger \in [Keys -> LedgerState]
  BY DEF AccountingInvariant, UsageInvariant, UsageTypeOK, Compensations
<1>2. ASSUME NEW k \in Keys, Reserve(k) \/ Settle(k) PROVE RowsStay
  BY <1>1, <1>2 DEF Reserve, Settle, Settled, SetState, RowsStay
<1>3. ASSUME NEW c \in Callers, NEW k \in Keys, BeginCompensation(c, k)
      PROVE  RowsStay
  <2>1. /\ comp'[c].key = k /\ comp'[c].pc = FirstStep(k)
        /\ \A d \in Callers \ {c} : comp'[d] = comp[d]
        /\ UNCHANGED <<ledger, marker>>
    BY <1>1, <1>3 DEF BeginCompensation, Compensations
  <2>2. ledger[k] = "ABSENT" => FirstStep(k) \in Results
    BY DEF FirstStep, Results
  <2> QED
    BY <2>1, <2>2 DEF RowsStay
<1>4. ASSUME NEW c \in Callers, EndCompensation(c) \/ CallerCrashes(c)
      PROVE  RowsStay
  BY <1>1, <1>4 DEF EndCompensation, CallerCrashes, NoCompensation, RowsStay
<1>5. ASSUME NEW c \in Callers, CompensationStep(c) \/ CompensationFault(c)
      PROVE  RowsStay
  <2>1. /\ comp[c].pc \notin {"none"} \cup Results
        /\ comp[c].key \in Keys
    BY <1>1, <1>5, CompensationKey
       DEF CompensationStep, CompensationFault, CompensateTrial,
           CompensateUnlimited, ClaimCompensation, Refund, Release,
           PostponeCompensation, RefundFails, StatementFails, Results
  <2>2. PICK pc \in CompStep : Step(c, pc)
    BY <1>5
       DEF CompensationStep, CompensationFault, CompensateTrial,
           CompensateUnlimited, ClaimCompensation, Refund, Release,
           PostponeCompensation, RefundFails, StatementFails, Results, CompStep
  <2>3. /\ comp'[c].key = comp[c].key
        /\ \A d \in Callers \ {c} : comp'[d] = comp[d]
    BY <1>1, <2>1, <2>2, StepType
  <2>4. \A k \in Keys : ledger[k] # "ABSENT" => ledger'[k] # "ABSENT"
    BY <1>1, <1>5, <2>1
       DEF CompensationStep, CompensationFault, CompensateTrial,
           CompensateUnlimited, ClaimCompensation, Refund, Release,
           PostponeCompensation, RefundFails, StatementFails, SetState
  <2>5. marker' \subseteq marker \cup {comp[c].key}
    BY <1>5
       DEF CompensationStep, CompensationFault, CompensateTrial,
           CompensateUnlimited, ClaimCompensation, Refund, Release,
           PostponeCompensation, RefundFails, StatementFails, RefundScript
  <2> QED
    BY <2>1, <2>3, <2>4, <2>5 DEF RowsStay
<1> QED
  BY <1>2, <1>3, <1>4, <1>5 DEF UsageNext, Reconcile

\* The rows of one scope that hold units, and their units.
HeldRows(s) == {k \in Keys : Scope[k] = s /\ Holds(k)}

LEMMA UnitsAreCounted ==
  ASSUME NEW s, NEW R \in SUBSET Keys
  PROVE  /\ UnitsHeld(s) = Counted(HeldRows(s), Units)
         /\ IsFiniteSet(R) /\ \A k \in R : Units[k] \in Nat
<1>1. UnitsHeld(s) = Counted(HeldRows(s), Units)
  BY DEF UnitsHeld, Counted, HeldRows
<1>2. IsFiniteSet(R)
  BY UsageAssumption, FS_Subset
<1> QED
  BY <1>1, <1>2, UsageAssumption

\* Nobody's row begins or ceases to hold units, and nothing is counted.
LEMMA CounterStays ==
  ASSUME CounterIsExact, UNCHANGED counter, \A k \in Keys : Holds(k)' = Holds(k)
  PROVE  CounterIsExact'
<1>1. \A s : UnitsHeld(s)' = UnitsHeld(s)
  BY DEF UnitsHeld
<1> QED
  BY <1>1 DEF CounterIsExact

\* A charged row begins to hold its units.
LEMMA CounterTakes ==
  ASSUME CounterIsExact, counter \in Counters, NEW k \in Keys,
         ~Holds(k), Holds(k)', \A i \in Keys \ {k} : Holds(i)' = Holds(i),
         counter' = Charged(k)
  PROVE  CounterIsExact'
<1> SUFFICES ASSUME NEW s \in {"REDIS", "TRIAL"}
             PROVE  counter'[s] = Cardinality(UnitsHeld(s)')
  BY DEF CounterIsExact
<1>0. /\ counter[s] = Cardinality(Counted(HeldRows(s), Units))
      /\ UnitsHeld(s)' = Counted(HeldRows(s)', Units)
  <2>1. counter[s] = Cardinality(UnitsHeld(s))
    BY DEF CounterIsExact
  <2>2. UnitsHeld(s)' = Counted(HeldRows(s)', Units)
    BY DEF UnitsHeld, Counted, HeldRows
  <2> QED
    BY <2>1, <2>2 DEF UnitsHeld, Counted, HeldRows
<1>1. CASE Scope[k] = s
  <2>1. HeldRows(s)' = HeldRows(s) \cup {k} /\ k \notin HeldRows(s)
    BY <1>1 DEF HeldRows
  <2>2. HeldRows(s) \in SUBSET Keys /\ HeldRows(s) \cup {k} \in SUBSET Keys
    BY DEF HeldRows
  <2>3. Cardinality(Counted(HeldRows(s) \cup {k}, Units))
          = Cardinality(Counted(HeldRows(s), Units)) + Units[k]
    BY <2>1, <2>2, UnitsAreCounted, CountedMore
  <2>4. counter'[s] = counter[s] + Units[k]
    BY <1>1 DEF Charged, Counters
  <2> QED
    BY <1>0, <2>1, <2>3, <2>4
<1>2. CASE Scope[k] # s
  <2>1. HeldRows(s)' = HeldRows(s)
    BY <1>2 DEF HeldRows
  <2>2. counter'[s] = counter[s]
    BY <1>2, UsageAssumption DEF Charged, Counters, Scopes
  <2> QED
    BY <1>0, <2>1, <2>2
<1> QED
  BY <1>1, <1>2

\* A refunded row held its units, so that the counter stood at them or higher
\* and is not cut off.
LEMMA CounterGivesBack ==
  ASSUME CounterIsExact, counter \in Counters, NEW k \in Keys,
         Scope[k] # "UNLIMITED",
         Holds(k), ~Holds(k)', \A i \in Keys \ {k} : Holds(i)' = Holds(i),
         counter' = Refunded(k)
  PROVE  CounterIsExact'
<1> SUFFICES ASSUME NEW s \in {"REDIS", "TRIAL"}
             PROVE  counter'[s] = Cardinality(UnitsHeld(s)')
  BY DEF CounterIsExact
<1>0. /\ counter[s] = Cardinality(Counted(HeldRows(s), Units))
      /\ UnitsHeld(s)' = Counted(HeldRows(s)', Units)
  <2>1. counter[s] = Cardinality(UnitsHeld(s))
    BY DEF CounterIsExact
  <2>2. UnitsHeld(s)' = Counted(HeldRows(s)', Units)
    BY DEF UnitsHeld, Counted, HeldRows
  <2> QED
    BY <2>1, <2>2 DEF UnitsHeld, Counted, HeldRows
<1>1. CASE Scope[k] = s
  <2>1. HeldRows(s)' = HeldRows(s) \ {k} /\ k \in HeldRows(s)
    BY <1>1 DEF HeldRows
  <2>2. HeldRows(s) \in SUBSET Keys /\ HeldRows(s) \ {k} \in SUBSET Keys
    BY DEF HeldRows
  <2>3. Cardinality(Counted(HeldRows(s) \ {k}, Units))
          = Cardinality(Counted(HeldRows(s), Units)) - Units[k]
    BY <2>1, <2>2, UnitsAreCounted, CountedLess
  <2>4. Cardinality(Counted(HeldRows(s) \ {k}, Units)) \in Nat
    BY <2>2, UnitsAreCounted, CountedFinite
  <2>5. counter[s] - Units[k] \in Nat /\ Units[k] \in Nat /\ counter[s] \in Int
    BY <1>0, <2>3, <2>4, UsageAssumption DEF Counters
  <2>6. counter'[s] = IF counter[s] > Units[k] THEN counter[s] - Units[k] ELSE 0
    BY <1>1 DEF Refunded, Counters
  <2>7. counter'[s] = counter[s] - Units[k]
    BY <2>5, <2>6
  <2> QED
    BY <1>0, <2>1, <2>3, <2>7
<1>2. CASE Scope[k] # s
  <2>1. HeldRows(s)' = HeldRows(s)
    BY <1>2 DEF HeldRows
  <2>2. counter'[s] = counter[s]
    BY <1>2, UsageAssumption DEF Refunded, Counters, Scopes
  <2> QED
    BY <1>0, <2>1, <2>2
<1> QED
  BY <1>1, <1>2

LEMMA ScriptKeepsCounter ==
  ASSUME AccountingInvariant, CounterIsExact, NEW c \in Callers,
         comp[c].pc = "refund", RefundScript(comp[c].key), UNCHANGED ledger
  PROVE  CounterIsExact'
<1>1. PICK k \in Keys :
        /\ k = comp[c].key
        /\ Scope[k] = "REDIS" /\ ledger[k] # "ABSENT"
  BY CompensationKey
     DEF AccountingInvariant, CompensationsHaveRows, UsageInvariant,
         PathsFollowScopes, Results
<1>0. UsageInvariant /\ counter \in Counters
  BY DEF AccountingInvariant, UsageInvariant, UsageTypeOK, Counters
<1>2. CASE k \in marker
  BY <1>1, <1>2, CounterStays DEF RefundScript, Holds
<1>3. CASE k \notin marker
  <2>1. refunds[k] = 0
    BY <1>0, <1>1, <1>3 DEF UsageInvariant, RefundsAreMarked
  <2>2. /\ refunds'[k] = 1
        /\ \A i \in Keys \ {k} : refunds'[i] = refunds[i]
    BY <1>0, <1>1, ScriptRefundsOnce
  <2>3. Holds(k) /\ ~Holds(k)' /\ \A i \in Keys \ {k} : Holds(i)' = Holds(i)
    BY <1>1, <2>1, <2>2 DEF Holds
  <2>4. counter' = Refunded(k)
    BY <1>1, <1>3 DEF RefundScript
  <2> QED
    BY <1>0, <1>1, <2>3, <2>4, CounterGivesBack
<1> QED
  BY <1>2, <1>3

LEMMA CounterStep ==
  ASSUME AccountingInvariant, CounterIsExact, UsageNext
  PROVE  CounterIsExact'
<1>1. /\ UsageInvariant /\ UsageTypeOK /\ counter \in Counters
      /\ ledger \in [Keys -> LedgerState]
  BY DEF AccountingInvariant, UsageInvariant, UsageTypeOK, Counters
<1>2. ASSUME NEW k \in Keys, Reserve(k) PROVE CounterIsExact'
  <2>1. k \notin marker
    BY <1>2 DEF Reserve, AccountingInvariant, CompensationsHaveRows
  <2>2. refunds[k] = 0
    BY <1>1, <1>2, <2>1 DEF Reserve, UsageInvariant, RefundsAreMarked
  <2>3. /\ ~Holds(k) /\ Holds(k)'
        /\ \A i \in Keys \ {k} : Holds(i)' = Holds(i)
    BY <1>1, <1>2, <2>2 DEF Reserve, SetState, Holds
  <2> QED
    BY <1>1, <1>2, <2>3, CounterTakes DEF Reserve
<1>3. ASSUME NEW k \in Keys, Settle(k) PROVE CounterIsExact'
  <2>1. \A i \in Keys : Holds(i)' = Holds(i)
    BY <1>1, <1>3 DEF Settle, Settled, Holds
  <2> QED
    BY <1>3, <2>1, CounterStays DEF Settle
<1>4. ASSUME NEW c \in Callers,
             \/ \E k \in Keys : BeginCompensation(c, k)
             \/ EndCompensation(c) \/ CallerCrashes(c) \/ StatementFails(c)
      PROVE  CounterIsExact'
  <2>1. UNCHANGED <<ledger, counter, refunds>>
    BY <1>4 DEF BeginCompensation, EndCompensation, CallerCrashes, StatementFails
  <2> QED
    BY <2>1, CounterStays DEF Holds
<1>5. ASSUME NEW c \in Callers, CompensateTrial(c) PROVE CounterIsExact'
  <2>1. PICK k \in Keys : k = comp[c].key /\ Scope[k] = "TRIAL"
    BY <1>1, <1>5, CompensationKey
       DEF CompensateTrial, UsageInvariant, PathsFollowScopes, Results
  <2>2. CASE ledger[k] \in {"RESERVED", "COMPENSATION_PENDING"}
    <3>1. refunds[k] = 0
      BY <1>1, <2>1, <2>2 DEF UsageInvariant, RefundsAreMarked
    <3>2. /\ refunds'[k] = 1 /\ ledger'[k] = "RELEASED"
          /\ \A i \in Keys \ {k} : refunds'[i] = refunds[i] /\ ledger'[i] = ledger[i]
          /\ counter' = Refunded(k)
      BY <1>1, <1>5, <2>1, <2>2, <3>1 DEF CompensateTrial, SetState, UsageTypeOK
    <3>3. /\ Holds(k) /\ ~Holds(k)'
          /\ \A i \in Keys \ {k} : Holds(i)' = Holds(i)
      BY <2>2, <3>1, <3>2 DEF Holds
    <3> QED
      BY <1>1, <2>1, <3>2, <3>3, CounterGivesBack
  <2>3. CASE ledger[k] \notin {"RESERVED", "COMPENSATION_PENDING"}
    BY <1>5, <2>1, <2>3, CounterStays DEF CompensateTrial, Holds
  <2> QED
    BY <2>2, <2>3
<1>6. ASSUME NEW c \in Callers,
             \/ CompensateUnlimited(c) \/ ClaimCompensation(c) \/ Release(c)
             \/ PostponeCompensation(c)
      PROVE  CounterIsExact'
  <2>1. comp[c].key \in Keys /\ ledger[comp[c].key] # "ABSENT"
    BY <1>1, <1>6, CompensationKey
       DEF CompensateUnlimited, ClaimCompensation, Release, PostponeCompensation,
           AccountingInvariant, CompensationsHaveRows, Results
  <2>2. /\ UNCHANGED <<counter, refunds>>
        /\ \A i \in Keys : ledger'[i] = "ABSENT" <=> ledger[i] = "ABSENT"
    BY <1>1, <1>6, <2>1
       DEF CompensateUnlimited, ClaimCompensation, Release, PostponeCompensation,
           SetState
  <2> QED
    BY <2>2, CounterStays DEF Holds
<1>7. ASSUME NEW c \in Callers, Refund(c) \/ RefundFails(c) PROVE CounterIsExact'
  <2>1. comp[c].pc = "refund" /\ UNCHANGED ledger
    BY <1>7 DEF Refund, RefundFails
  <2>2. CASE RefundScript(comp[c].key)
    BY <2>1, <2>2, ScriptKeepsCounter
  <2>3. CASE UNCHANGED <<counter, marker, refunds>>
    BY <2>1, <2>3, CounterStays DEF Holds
  <2> QED
    BY <1>7, <2>2, <2>3 DEF Refund, RefundFails
<1> QED
  BY <1>2, <1>3, <1>4, <1>5, <1>6, <1>7
     DEF UsageNext, CompensationStep, CompensationFault, Reconcile

\* The inductive invariant of the counter.
ExactInvariant == AccountingInvariant /\ CounterIsExact

LEMMA ExactInvariantInit == UsageInit => ExactInvariant
<1> SUFFICES ASSUME UsageInit PROVE ExactInvariant
  OBVIOUS
<1>1. UsageInvariant
  BY UsageInvariantInit
<1>2. CompensationsHaveRows
  BY DEF UsageInit, NoCompensation, CompensationsHaveRows
<1>3. CounterIsExact
  <2>1. \A s \in {"REDIS", "TRIAL"} : UnitsHeld(s) = {} /\ counter[s] = 0
    BY DEF UsageInit, UnitsHeld, Holds
  <2> QED
    BY <2>1, FS_EmptySet DEF CounterIsExact
<1> QED
  BY <1>1, <1>2, <1>3 DEF ExactInvariant, AccountingInvariant

LEMMA ExactInvariantStep == ExactInvariant /\ [UsageNext]_usageVars => ExactInvariant'
<1> SUFFICES ASSUME ExactInvariant, [UsageNext]_usageVars
             PROVE  ExactInvariant'
  OBVIOUS
<1>1. UsageInvariant'
  BY UsageInvariantStep DEF ExactInvariant, AccountingInvariant
<1>2. CASE UNCHANGED usageVars
  BY <1>1, <1>2, CounterStays
     DEF usageVars, ExactInvariant, AccountingInvariant, CompensationsHaveRows, Holds
<1>3. CASE UsageNext
  BY <1>1, <1>3, UsageStepKeepsRows, RowsStaySuffices, CounterStep
     DEF ExactInvariant, AccountingInvariant
<1> QED
  BY <1>2, <1>3

\* Compensations and markers are about rows that were written.
THEOREM AccountingInvariantHolds == UsageSpec => []AccountingInvariant
<1>1. ExactInvariant => AccountingInvariant
  BY DEF ExactInvariant
<1> QED
  BY <1>1, ExactInvariantInit, ExactInvariantStep, PTL DEF UsageSpec

\* The counter customers are limited by is the sum of the units of the rows
\* that were not given back: no interleaving of reservations, compensations,
\* lost replies and crashes makes it drift, and the refund's cut-off at zero
\* never comes into play.
THEOREM CounterNeverDrifts == UsageSpec => []CounterIsExact
<1>1. ExactInvariant => CounterIsExact
  BY DEF ExactInvariant
<1> QED
  BY <1>1, ExactInvariantInit, ExactInvariantStep, PTL DEF UsageSpec

-----------------------------------------------------------------------------
(* What follows from it.                                                   *)

\* No interleaving of callers, lost reply, crash or retry gives the units of a
\* row back twice.
THEOREM RefundsHappenOnce == UsageSpec => []RefundedAtMostOnce
<1>1. UsageInvariant => RefundedAtMostOnce
  BY DEF UsageInvariant, RefundsAreMarked, RefundedAtMostOnce
<1> QED
  BY <1>1, UsageInvariantHolds, PTL

\* A released row has had its units given back: the two stores never disagree
\* in the customer's disfavour.
THEOREM ReleasesAreRefunded == UsageSpec => []ReleasedMeansRefunded
<1>1. UsageInvariant => ReleasedMeansRefunded
  BY UsageAssumption
     DEF UsageInvariant, RefundsAreMarked, ReleasesAreMarked,
         ReleasedMeansRefunded, Scopes
<1> QED
  BY <1>1, UsageInvariantHolds, PTL

\* No compensation takes back a settled trial row.
THEOREM TrialSettlementsAreFinal == UsageSpec => TrialSettlementIsFinal
<1>1. ASSUME UsageInvariant, UsageNext,
             NEW k \in Keys, Scope[k] = "TRIAL", ledger[k] = "SETTLED"
      PROVE  ledger'[k] = "SETTLED"
  <2>1. ledger \in [Keys -> LedgerState]
    BY <1>1 DEF UsageInvariant, UsageTypeOK
  <2>2. ASSUME NEW i \in Keys, Reserve(i) \/ Settle(i)
        PROVE  ledger'[k] = "SETTLED"
    BY <1>1, <2>1, <2>2 DEF Reserve, Settle, Settled, SetState
  <2>3. ASSUME NEW c \in Callers, CompensateTrial(c) \/ CompensateUnlimited(c)
        PROVE  ledger'[k] = "SETTLED"
    BY <1>1, <2>1, <2>3 DEF CompensateTrial, CompensateUnlimited, SetState
  <2>4. ASSUME NEW c \in Callers,
               ClaimCompensation(c) \/ Release(c) \/ PostponeCompensation(c)
        PROVE  ledger'[k] = "SETTLED"
    <3>1. comp[c].key # k
      BY <1>1, <2>4
         DEF ClaimCompensation, Release, PostponeCompensation, UsageInvariant,
             PathsFollowScopes
    <3> QED
      BY <1>1, <2>1, <2>4, <3>1
         DEF ClaimCompensation, Release, PostponeCompensation, SetState
  <2>5. ASSUME NEW c \in Callers,
               \/ \E i \in Keys : BeginCompensation(c, i)
               \/ Refund(c) \/ EndCompensation(c) \/ CompensationFault(c)
               \/ CallerCrashes(c)
        PROVE  ledger'[k] = "SETTLED"
    BY <1>1, <2>5
       DEF BeginCompensation, Refund, EndCompensation, CompensationFault,
           RefundFails, StatementFails, CallerCrashes
  <2> QED
    BY <1>1, <2>2, <2>3, <2>4, <2>5 DEF UsageNext, CompensationStep, Reconcile
<1>2. UsageInvariant /\ [UsageNext]_usageVars =>
        [\A k \in Keys : Scope[k] = "TRIAL" /\ ledger[k] = "SETTLED"
                           => ledger'[k] = "SETTLED"]_usageVars
  BY <1>1
<1> QED
  BY <1>2, UsageInvariantHolds, PTL DEF UsageSpec, TrialSettlementIsFinal
=============================================================================
