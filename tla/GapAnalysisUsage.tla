-------------------------- MODULE GapAnalysisUsage --------------------------
(***************************************************************************)
(* Accounting of Gap Analysis quota (gap-analysis-usage-accounting.ts).    *)
(* Submitting an analysis adds its units to a counter (a Redis key for     *)
(* paid plans, User.freeTrialUsage for trials) and writes one row to the   *)
(* GapAnalysisUsageLedger, unique per reservation key.  A successful       *)
(* analysis settles the row; a failed one is compensated: its units are    *)
(* given back and the row is released.  The counter and the ledger live in *)
(* different stores, so a compensation is several separate writes.  Any    *)
(* number of callers may compensate the same row at the same time.         *)
(***************************************************************************)
EXTENDS Integers, FiniteSets

CONSTANTS
  Callers,    \* request handlers, job runners and operators that compensate
  Operators,  \* the callers that run the reconciliation script
  Keys,       \* reservation keys; a ledger row is identified by its key
  NoKey,
  Scope,      \* Scope[k]: REDIS, TRIAL or UNLIMITED
  Units,      \* Units[k]: the depth's unit cost
  FaultKinds, \* the faults injected: some of crash, redis, database
  MaxFaults   \* bound: how many of them

Scopes == {"REDIS", "TRIAL", "UNLIMITED"}

ASSUME UsageAssumption ==
  /\ Scope \in [Keys -> Scopes]
  /\ Units \in [Keys -> Nat \ {0}]
  /\ MaxFaults \in Nat
  /\ NoKey \notin Keys /\ IsFiniteSet(Keys)
  /\ Operators \subseteq Callers

VARIABLES
  ledger,   \* state of each ledger row, ABSENT when there is none
  counter,  \* units counted against the paid and the trial quota
  marker,   \* keys whose refund marker is set in Redis
  comp,     \* the compensation each caller is in
  refunds,  \* history: how often the units of a row were given back
  faults    \* history: faults injected so far

usageVars == <<ledger, counter, marker, comp, refunds, faults>>

LedgerState == {"ABSENT", "RESERVED", "COMPENSATING", "COMPENSATION_PENDING",
                "RELEASED", "SETTLED"}

\* Control states of compensateGapAnalysisUsage; the last three are its results.
Results  == {"true", "false", "error"}
CompStep == {"none", "trial", "unlimited", "claim", "refund", "release",
             "postpone"} \cup Results

NoCompensation == [pc |-> "none", key |-> NoKey]

UsageTypeOK ==
  /\ ledger \in [Keys -> LedgerState]
  /\ counter \in [{"REDIS", "TRIAL"} -> Int]
  /\ marker \subseteq Keys
  /\ comp \in [Callers -> [pc : CompStep, key : Keys \cup {NoKey}]]
  /\ \A c \in Callers :
       comp[c].pc \notin {"none"} \cup Results => comp[c].key \in Keys
  /\ refunds \in [Keys -> Nat]
  /\ faults \in 0 .. MaxFaults

UsageInit ==
  /\ ledger = [k \in Keys |-> "ABSENT"]
  /\ counter = [s \in {"REDIS", "TRIAL"} |-> 0]
  /\ marker = {}
  /\ comp = [c \in Callers |-> NoCompensation]
  /\ refunds = [k \in Keys |-> 0]
  /\ faults = 0

-----------------------------------------------------------------------------
(* The counter.                                                            *)

Charged(k) ==
  IF Scope[k] = "UNLIMITED" THEN counter
  ELSE [counter EXCEPT ![Scope[k]] = @ + Units[k]]

\* DECR(BY): no lower bound.  The Lua refund and the trial's GREATEST do not
\* go below zero.
Uncharged(k) ==
  IF Scope[k] = "UNLIMITED" THEN counter
  ELSE [counter EXCEPT ![Scope[k]] = @ - Units[k]]

\* Mutant: the refund gives one unit back whatever the analysis cost.
RefundedOne(k) ==
  [counter EXCEPT ![Scope[k]] = IF @ > 1 THEN @ - 1 ELSE 0]

Refunded(k) ==
  [counter EXCEPT ![Scope[k]] = IF @ > Units[k] THEN @ - Units[k] ELSE 0]

-----------------------------------------------------------------------------
(* One call of compensateGapAnalysisUsage.                                 *)

Step(c, pc) == comp' = [comp EXCEPT ![c].pc = pc]

SetState(k, state) == ledger' = [ledger EXCEPT ![k] = state]

\* Each scope has its own way to give units back.
PathOf == [REDIS |-> "claim", TRIAL |-> "trial", UNLIMITED |-> "unlimited"]

\* Mutant: a pending compensation counts as done.
FirstStepSkipsPending(k) ==
  CASE ledger[k] = "ABSENT" -> "false"
    [] ledger[k] \in {"RELEASED", "SETTLED", "COMPENSATION_PENDING"} -> "true"
    [] OTHER -> PathOf[Scope[k]]

\* The row is looked up once and its state is never read again.
FirstStep(k) ==
  CASE ledger[k] = "ABSENT"                  -> "false"
    [] ledger[k] \in {"RELEASED", "SETTLED"} -> "true"
    [] OTHER                                 -> PathOf[Scope[k]]

BeginCompensation(c, k) ==
  /\ comp[c] = NoCompensation
  /\ comp' = [comp EXCEPT ![c] = [key |-> k, pc |-> FirstStep(k)]]
  /\ UNCHANGED <<ledger, counter, marker, refunds, faults>>

\* Mutant: the trial's row is released without claiming it.
CompensateTrialUnclaimed(c) ==
  LET k == comp[c].key
  IN  /\ comp[c].pc = "trial"
      /\ SetState(k, "RELEASED")
      /\ counter' = Refunded(k)
      /\ refunds' = [refunds EXCEPT ![k] = @ + 1]
      /\ Step(c, "true")
      /\ UNCHANGED <<marker, faults>>

\* Claim, decrement and release in one transaction.
CompensateTrial(c) ==
  LET k == comp[c].key
  IN  /\ comp[c].pc = "trial"
      /\ IF ledger[k] \in {"RESERVED", "COMPENSATION_PENDING"}
         THEN /\ SetState(k, "RELEASED")
              /\ counter' = Refunded(k)
              /\ refunds' = [refunds EXCEPT ![k] = @ + 1]
         ELSE UNCHANGED <<ledger, counter, refunds>>
      /\ Step(c, "true")
      /\ UNCHANGED <<marker, faults>>

CompensateUnlimited(c) ==
  LET k == comp[c].key
  IN  /\ comp[c].pc = "unlimited"
      /\ IF ledger[k] = "RESERVED" THEN SetState(k, "RELEASED")
                                   ELSE UNCHANGED ledger
      /\ Step(c, "true")
      /\ UNCHANGED <<counter, marker, refunds, faults>>

\* Mutant: the row is released before its units are given back.
ClaimByReleasing(c) ==
  /\ comp[c].pc = "claim"
  /\ SetState(comp[c].key, "RELEASED")
  /\ Step(c, "refund")
  /\ UNCHANGED <<counter, marker, refunds, faults>>

\* The count of the conditional update is not looked at.
ClaimCompensation(c) ==
  LET k == comp[c].key
  IN  /\ comp[c].pc = "claim"
      /\ IF ledger[k] \in {"RESERVED", "COMPENSATION_PENDING", "COMPENSATING"}
         THEN SetState(k, "COMPENSATING")
         ELSE UNCHANGED ledger
      /\ Step(c, "refund")
      /\ UNCHANGED <<counter, marker, refunds, faults>>

\* Mutant: the decrement without the marker.
RefundScriptUnmarked(k) ==
  /\ counter' = Refunded(k)
  /\ refunds' = [refunds EXCEPT ![k] = @ + 1]
  /\ UNCHANGED marker

\* The Lua script: the marker and the counter change together, once per row.
RefundScript(k) ==
  IF k \in marker
  THEN UNCHANGED <<counter, marker, refunds>>
  ELSE /\ counter' = Refunded(k)
       /\ marker'  = marker \cup {k}
       /\ refunds' = [refunds EXCEPT ![k] = @ + 1]

Refund(c) ==
  /\ comp[c].pc = "refund"
  /\ RefundScript(comp[c].key)
  /\ Step(c, "release")
  /\ UNCHANGED <<ledger, faults>>

Release(c) ==
  /\ comp[c].pc = "release"
  /\ SetState(comp[c].key, "RELEASED")
  /\ Step(c, "true")
  /\ UNCHANGED <<counter, marker, refunds, faults>>

\* The catch block writes COMPENSATION_PENDING over whatever is there.
PostponeCompensation(c) ==
  /\ comp[c].pc = "postpone"
  /\ SetState(comp[c].key, "COMPENSATION_PENDING")
  /\ Step(c, "error")
  /\ UNCHANGED <<counter, marker, refunds, faults>>

\* The caller takes the result.
EndCompensation(c) ==
  /\ comp[c].pc \in Results
  /\ comp' = [comp EXCEPT ![c] = NoCompensation]
  /\ UNCHANGED <<ledger, counter, marker, refunds, faults>>

\* Operator script: only rows left COMPENSATION_PENDING are picked up.
Reconcile(c) ==
  /\ c \in Operators
  /\ \E k \in Keys : /\ ledger[k] = "COMPENSATION_PENDING"
                     /\ BeginCompensation(c, k)

-----------------------------------------------------------------------------
(* Faults.                                                                 *)

Fault(kind) ==
  kind \in FaultKinds /\ faults < MaxFaults /\ faults' = faults + 1

\* Redis fails: before the script ran, or after it when the reply is lost.
RefundFails(c) ==
  /\ comp[c].pc = "refund"
  /\ Fault("redis")
  /\ \/ RefundScript(comp[c].key)
     \/ UNCHANGED <<counter, marker, refunds>>
  /\ Step(c, "postpone")
  /\ UNCHANGED ledger

\* PostgreSQL fails: inside the try block the compensation is postponed, in its
\* catch block the failure is swallowed, before it the error goes to the caller.
StatementFails(c) ==
  /\ Fault("database")
  /\ \/ comp[c].pc = "release" /\ Step(c, "postpone")
     \/ comp[c].pc \in {"trial", "unlimited", "claim", "postpone"}
        /\ Step(c, "error")
  /\ UNCHANGED <<ledger, counter, marker, refunds>>

CallerCrashes(c) ==
  /\ comp[c].pc # "none"
  /\ Fault("crash")
  /\ comp' = [comp EXCEPT ![c] = NoCompensation]
  /\ UNCHANGED <<ledger, counter, marker, refunds>>

-----------------------------------------------------------------------------
(* What the rest of the system does to a ledger row.                       *)

Reserve(k) ==
  /\ ledger[k] = "ABSENT"
  /\ SetState(k, "RESERVED")
  /\ counter' = Charged(k)
  /\ UNCHANGED <<marker, comp, refunds, faults>>

\* finalizeGapAnalysisAttempt settles the row only while it is RESERVED.
Settled(k) ==
  IF ledger[k] = "RESERVED" THEN [ledger EXCEPT ![k] = "SETTLED"] ELSE ledger

Settle(k) ==
  /\ ledger[k] = "RESERVED"
  /\ ledger' = Settled(k)
  /\ UNCHANGED <<counter, marker, comp, refunds, faults>>

-----------------------------------------------------------------------------
CompensationStep(c) ==
  \/ CompensateTrial(c) \/ CompensateUnlimited(c)
  \/ ClaimCompensation(c) \/ Refund(c) \/ Release(c)
  \/ PostponeCompensation(c)

CompensationFault(c) == RefundFails(c) \/ StatementFails(c)

UsageNext ==
  \/ \E k \in Keys : Reserve(k) \/ Settle(k)
  \/ \E c \in Callers :
       \/ c \notin Operators /\ \E k \in Keys : BeginCompensation(c, k)
       \/ CompensationStep(c) \/ EndCompensation(c)
       \/ CompensationFault(c) \/ CallerCrashes(c)
       \/ Reconcile(c)

UsageSpec == UsageInit /\ [][UsageNext]_usageVars

\* A call that was begun runs to its end, and the operator keeps running the
\* reconciliation script.
UsageFairness ==
  \A c \in Callers : /\ WF_usageVars(CompensationStep(c) \/ EndCompensation(c))
                     /\ WF_usageVars(Reconcile(c))

LiveUsageSpec == UsageSpec /\ UsageFairness

-----------------------------------------------------------------------------
(* Properties.                                                             *)

\* However many callers compensate a row, crash halfway, lose a reply of Redis
\* or retry later, its units are given back at most once.
RefundedAtMostOnce == \A k \in Keys : refunds[k] <= 1

\* A row says RELEASED only when its units have really been given back: the
\* refund never gets lost between the two stores.
ReleasedMeansRefunded ==
  \A k \in Keys :
    ledger[k] = "RELEASED" /\ Scope[k] # "UNLIMITED" => refunds[k] = 1

\* What the two invariants above rest on.  A paid refund happens exactly when
\* its marker is set and a trial refund exactly when its row is released; a
\* compensation stays on the path of its row's scope, and releases a paid row
\* only after the marker is there.
RefundsAreMarked ==
  \A k \in Keys :
    refunds[k] = IF \/ Scope[k] = "REDIS" /\ k \in marker
                    \/ Scope[k] = "TRIAL" /\ ledger[k] = "RELEASED"
                 THEN 1 ELSE 0

ReleasesAreMarked ==
  /\ \A k \in Keys : Scope[k] = "REDIS" /\ ledger[k] = "RELEASED" => k \in marker
  /\ \A c \in Callers : comp[c].pc = "release" => comp[c].key \in marker

PathsFollowScopes ==
  \A c \in Callers :
    /\ comp[c].pc = "trial"     => Scope[comp[c].key] = "TRIAL"
    /\ comp[c].pc = "unlimited" => Scope[comp[c].key] = "UNLIMITED"
    /\ comp[c].pc \in {"claim", "refund", "release", "postpone"}
         => Scope[comp[c].key] = "REDIS"

UsageInvariant ==
  UsageTypeOK /\ RefundsAreMarked /\ ReleasesAreMarked /\ PathsFollowScopes

\* Only rows that were written are compensated or marked.
CompensationsHaveRows ==
  /\ \A c \in Callers : comp[c].pc \notin {"none"} \cup Results
                          => ledger[comp[c].key] # "ABSENT"
  /\ \A k \in marker : ledger[k] # "ABSENT"

\* The inductive invariant of the accounting.
AccountingInvariant == UsageInvariant /\ CompensationsHaveRows

\* The units rows of a scope hold: those of every row that were not given back,
\* each unit as a pair of its row and its number.
Holds(k) == ledger[k] # "ABSENT" /\ refunds[k] = 0

UnitsHeld(s) ==
  UNION {{k} \X (1 .. Units[k]) : k \in {i \in Keys : Scope[i] = s /\ Holds(i)}}

\* The counter is exactly what was reserved and not given back.  In particular
\* the cut-off at zero in the refund never hides a second decrement.
CounterIsExact ==
  \A s \in {"REDIS", "TRIAL"} : counter[s] = Cardinality(UnitsHeld(s))

\* Trial units of a settled row stay counted: its compensation claims the row
\* and gives the units back in one transaction.
TrialSettlementIsFinal ==
  [][\A k \in Keys : Scope[k] = "TRIAL" /\ ledger[k] = "SETTLED"
                       => ledger'[k] = "SETTLED"]_usageVars

\* A retry that claimed the row and went no further, by a crash or a database
\* failure, leaves COMPENSATING and nobody at work on it.
Stranded(k) ==
  /\ ledger[k] = "COMPENSATING"
  /\ \A c \in Callers : comp[c].key # k

\* "keeps a failed compensation durable and pending for reconciliation"
\* (gap-analysis-usage-accounting.test.ts): a compensation that failed reaches its
\* end through the reconciliation script, unless its retry is stranded, as the
\* script selects COMPENSATION_PENDING rows only.
PendingIsReconciledOrStranded ==
  \A k \in Keys :
    ledger[k] = "COMPENSATION_PENDING" ~> ledger[k] = "RELEASED" \/ Stranded(k)
=============================================================================
