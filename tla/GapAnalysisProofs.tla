------------------------- MODULE GapAnalysisProofs -------------------------
(***************************************************************************)
(* Proofs of the safety properties of the Gap Analysis life cycle, for any *)
(* number of requests, deletions, processes, identities, units and faults. *)
(*                                                                         *)
(* A step of one actor touches a few of the variables of four components.  *)
(* "Quiet" says what nearly every step leaves true of the shared records:  *)
(* no analysis appears or is completed, no job is completed, no row is     *)
(* written or settled.  Quiet steps are then only looked at for the        *)
(* control state of the actor that takes them.                             *)
(***************************************************************************)
EXTENDS GapAnalysisProperties, UnitCounting, TLAPS

Callers == Submissions \cup Processes

AnalysisRow == [status  : {"ABSENT"} \cup Active \cup Concluded,
                deleted : BOOLEAN, doc : BOOLEAN, aged : BOOLEAN]
Request     == [pc : SubmissionStep, key : Identities \cup {None}]
Runner      == {Queue!Idle, Queue!Polling} \cup Queue!Execution
Compensation == [pc : Usage!CompStep, key : Identities \cup {None}]
Ended       == {"none"} \cup Usage!Results
Strays      == [{"REDIS", "TRIAL"} -> Nat]

\* The variables the frame below says nothing about.
OthersTypeOK ==
  /\ objects \subseteq Submissions /\ outbox \subseteq Submissions
  /\ deletion \in [Deletions ->
       [pc : {"new", "revoke", "cancelJobs", "publish", "done"},
        of : Submissions \cup {None}, doc : BOOLEAN]]
  /\ stage \in [Processes -> Stages]
  /\ recovery \in [Processes -> {NoRecovery} \cup Candidate]
  /\ runner \in [Processes -> Runner]
  /\ claimant \in [Submissions -> Processes \cup {NoProcess}]
  /\ expiries \in [Submissions -> Nat]
  /\ counter \in [{"REDIS", "TRIAL"} -> Int]
  /\ marker \subseteq Identities
  /\ comp \in [Callers -> Compensation]
  /\ \A c \in Callers : comp[c].pc \notin Ended => comp[c].key \in Identities
  /\ refunds \in [Identities -> Nat]
  /\ stray \in Strays
  /\ faults \in 0 .. MaxFaults

RecordsTypeOK ==
  /\ analysis \in [Submissions -> AnalysisRow]
  /\ holder \in [Identities -> Submissions \cup {None}]
  /\ submission \in [Submissions -> Request]
  /\ job \in [Submissions -> Queue!JobRow]
  /\ ledger \in [Identities -> Usage!LedgerState]

LEMMA TypesSplit == GapTypeOK <=> RecordsTypeOK /\ OthersTypeOK
BY DEF GapTypeOK, RecordsTypeOK, OthersTypeOK, Queue!QueueTypeOK,
       Usage!UsageTypeOK, AnalysisRow, Request, Runner, Compensation, Ended, Callers,
       Strays

-----------------------------------------------------------------------------
(* Quiet steps.                                                            *)

\* Nothing is created or completed; what is completed or cancelled stays so,
\* but for a completed analysis that its owner cancels.
QuietAnalyses ==
  /\ analysis' \in [Submissions -> AnalysisRow]
  /\ \A s \in Submissions :
       /\ analysis'[s].status = "ABSENT" <=> analysis[s].status = "ABSENT"
       /\ analysis'[s].status = "COMPLETED" => analysis[s].status = "COMPLETED"
       /\ analysis[s].status = "COMPLETED" =>
            analysis'[s].status \in {"COMPLETED", "CANCELLED"}
       /\ analysis[s].status = "CANCELLED" => analysis'[s].status = "CANCELLED"

QuietJobs ==
  /\ job' \in [Submissions -> Queue!JobRow]
  /\ \A s \in Submissions :
       /\ job[s].status \in Queue!Terminal => job'[s].status = job[s].status
       /\ job'[s].status = "COMPLETED" => job[s].status = "COMPLETED"
       /\ job'[s].status # "ABSENT" => job[s].status # "ABSENT" \/ Exists(s)

QuietLedger ==
  /\ ledger' \in [Identities -> Usage!LedgerState]
  /\ \A k \in Identities :
       /\ ledger'[k] = "ABSENT" <=> ledger[k] = "ABSENT"
       /\ ledger'[k] = "RESERVED" => ledger[k] = "RESERVED"
       /\ ledger'[k] = "SETTLED" => ledger[k] = "SETTLED"

QuietRequests ==
  /\ submission' \in [Submissions -> Request]
  /\ \A s \in Submissions : submission'[s].key = submission[s].key

Quiet == QuietAnalyses /\ QuietJobs /\ QuietLedger /\ QuietRequests
         /\ UNCHANGED holder

\* What every step leaves true of the records.
Onward ==
  /\ \A s \in Submissions :
       /\ analysis[s].status # "ABSENT" => analysis'[s].status # "ABSENT"
       /\ job[s].status \in Queue!Terminal => job'[s].status = job[s].status
  /\ \A k \in Identities :
       /\ ledger[k] # "ABSENT" => ledger'[k] # "ABSENT"
       /\ holder[k] # None => holder'[k] = holder[k]

LEMMA QuietIsOnward == Quiet => Onward
BY DEF Quiet, QuietAnalyses, QuietJobs, QuietLedger, Onward

\* The key of an analysis that exists is an identity.
LEMMA KeyOfAnalysis ==
  ASSUME GapInvariant, NEW s \in Submissions, Exists(s)
  PROVE  Key(s) \in Identities
<1>1. submission[s] \in Request
  BY TypesSplit DEF GapInvariant, RecordsTypeOK
<1>2. RequestFits(s)
  BY DEF GapInvariant
<1>3. submission[s].pc # "new"
  BY <1>2 DEF RequestFits, Unrecorded
<1> QED
  BY <1>1, <1>2, <1>3 DEF RequestFits, Key, Request

LEMMA QuietKeepsRecords ==
  ASSUME GapInvariant, Quiet
  PROVE  RecordsTypeOK' /\ RowsHaveHolders' /\ ResultIsAtomic' /\ SettledMeansCompleted'
<1>1. RecordsTypeOK /\ RowsHaveHolders /\ ResultIsAtomic /\ SettledMeansCompleted
  BY TypesSplit DEF GapInvariant
<1>2. RecordsTypeOK'
  BY <1>1 DEF Quiet, QuietAnalyses, QuietJobs, QuietLedger, QuietRequests,
              RecordsTypeOK
<1>3. RowsHaveHolders'
  BY <1>1 DEF Quiet, QuietAnalyses, QuietJobs, QuietLedger, QuietRequests,
              RowsHaveHolders, Exists, Key
<1>4. ResultIsAtomic'
  <2> SUFFICES ASSUME NEW s \in Submissions
               PROVE  /\ analysis'[s].status = "COMPLETED" =>
                           /\ job'[s].status = "COMPLETED"
                           /\ ledger'[submission'[s].key] # "RESERVED"
                      /\ job'[s].status = "COMPLETED" =>
                           analysis'[s].status \in {"COMPLETED", "CANCELLED"}
    BY DEF ResultIsAtomic, Key
  <2>1. CASE analysis[s].status = "COMPLETED"
    <3>1. Key(s) \in Identities
      BY <2>1, KeyOfAnalysis DEF Exists
    <3> QED
      BY <1>1, <2>1, <3>1
         DEF Quiet, QuietAnalyses, QuietJobs, QuietLedger, QuietRequests,
             ResultIsAtomic, Key, Queue!Terminal
  <2>2. CASE analysis[s].status # "COMPLETED"
    BY <1>1, <2>2
       DEF Quiet, QuietAnalyses, QuietJobs, ResultIsAtomic
  <2> QED
    BY <2>1, <2>2
<1>5. SettledMeansCompleted'
  BY <1>1 DEF Quiet, QuietJobs, QuietLedger, RowsHaveHolders, RecordsTypeOK,
              SettledMeansCompleted, Queue!Terminal
<1> QED
  BY <1>2, <1>3, <1>4, <1>5

-----------------------------------------------------------------------------
(* The control state of an actor that does not move still fits.            *)

LEMMA RequestStillFits ==
  ASSUME NEW s \in Submissions, RequestFits(s), UNCHANGED submission[s],
         Exists(s)' <=> Exists(s)
  PROVE  RequestFits(s)'
BY DEF RequestFits, Key

LEMMA DeletionStillFits ==
  ASSUME OthersTypeOK, Onward, NEW d \in Deletions, DeletionFits(d),
         UNCHANGED deletion[d]
  PROVE  DeletionFits(d)'
BY DEF OthersTypeOK, DeletionFits, Onward, Exists

LEMMA ExecutionStillFits ==
  ASSUME OthersTypeOK, Onward, NEW p \in Processes, ExecutionFits(p),
         UNCHANGED <<runner[p], stage[p], comp[p]>>
  PROVE  ExecutionFits(p)'
<1>1. /\ runner[p] \in Runner /\ comp[p] \in Compensation
      /\ runner[p].pc \in Queue!Executing => runner[p].job \in Submissions
  BY DEF OthersTypeOK, Callers, Runner, Queue!Idle, Queue!Polling,
         Queue!Execution, Queue!Executing
<1>2. runner[p].pc \in {"completing", "verifying"} => job'[Doing(p)].status = "COMPLETED"
  BY <1>1 DEF ExecutionFits, Onward, Queue!Terminal, Queue!Executing, Doing
<1>3. runner[p].pc = "settling" /\ runner[p].verdict \in Queue!Terminal
        => job'[Doing(p)].status = runner[p].verdict
  BY <1>1 DEF ExecutionFits, Onward, Queue!Terminal, Queue!Executing, Doing
<1>4. stage[p] = "refunding" => holder'[comp[p].key] = Doing(p)
  BY <1>1, GapAssumption
     DEF ExecutionFits, Onward, Queue!Executing, Doing, Compensation
<1> QED
  BY <1>2, <1>3, <1>4 DEF ExecutionFits, Doing

LEMMA CompensationStillFits ==
  ASSUME OthersTypeOK, Onward, NEW c \in Callers, CompensationFits(c),
         UNCHANGED comp[c]
  PROVE  CompensationFits(c)'
BY DEF OthersTypeOK, CompensationFits, Onward, Ended

\* Who moved still fits; who did not, does so anyway.
LEMMA QuietStep ==
  ASSUME GapInvariant, Quiet, OthersTypeOK',
         \A s \in Submissions : RequestFits(s)' \/ UNCHANGED submission[s],
         \A d \in Deletions : DeletionFits(d)' \/ UNCHANGED deletion[d],
         \A p \in Processes :
           ExecutionFits(p)' \/ UNCHANGED <<runner[p], stage[p], comp[p]>>,
         \A c \in Callers : CompensationFits(c)' \/ UNCHANGED comp[c]
  PROVE  GapInvariant'
<1>1. /\ RecordsTypeOK' /\ RowsHaveHolders' /\ ResultIsAtomic'
      /\ SettledMeansCompleted'
  BY QuietKeepsRecords
<1>2. GapTypeOK'
  BY <1>1, TypesSplit, PTL
<1>3. Onward /\ OthersTypeOK
  BY QuietIsOnward, TypesSplit DEF GapInvariant
<1>4. \A s \in Submissions : RequestFits(s)'
  <2>1. \A s \in Submissions : Exists(s)' <=> Exists(s)
    BY DEF Quiet, QuietAnalyses, Exists
  <2> QED
    BY <2>1, RequestStillFits DEF GapInvariant
<1>5. \A d \in Deletions : DeletionFits(d)'
  BY <1>3, DeletionStillFits DEF GapInvariant
<1>6. \A p \in Processes : ExecutionFits(p)'
  BY <1>3, ExecutionStillFits DEF GapInvariant
<1>7. \A c \in Callers : CompensationFits(c)'
  BY <1>3, CompensationStillFits DEF GapInvariant, Callers
<1> QED
  BY <1>1, <1>2, <1>4, <1>5, <1>6, <1>7 DEF GapInvariant, Callers

-----------------------------------------------------------------------------
(* What the actions are put together from.                                 *)

LEMMA UnchangedIsQuiet ==
  ASSUME RecordsTypeOK
  PROVE  /\ UNCHANGED analysis => QuietAnalyses
         /\ UNCHANGED job => QuietJobs
         /\ UNCHANGED ledger => QuietLedger
         /\ UNCHANGED submission => QuietRequests
BY DEF RecordsTypeOK, QuietAnalyses, QuietJobs, QuietLedger, QuietRequests

\* A status may be written over one that is still open, and CANCELLED over any.
LEMMA StatusIsQuiet ==
  ASSUME RecordsTypeOK, NEW s \in Submissions, NEW status,
         SetStatus(s, status),
         \/ Live(s) /\ status \in (Active \cup Concluded) \ {"COMPLETED"}
         \/ Exists(s) /\ status = "CANCELLED"
  PROVE  QuietAnalyses
<1>1. status \in Active \cup Concluded /\ status # "COMPLETED" /\ status # "ABSENT"
  BY DEF Active, Concluded
<1>2. analysis'[s].status = status /\ \A t \in Submissions \ {s} : analysis'[t] = analysis[t]
  BY DEF RecordsTypeOK, SetStatus, AnalysisRow
<1>3. analysis' \in [Submissions -> AnalysisRow]
  BY <1>1 DEF RecordsTypeOK, SetStatus, AnalysisRow
<1> QED
  BY <1>1, <1>2, <1>3 DEF QuietAnalyses, Live, Exists, Active

\* Flags of an analysis.
LEMMA FlagsAreQuiet ==
  ASSUME RecordsTypeOK, NEW s \in Submissions, NEW row \in AnalysisRow,
         row.status = analysis[s].status,
         analysis' = [analysis EXCEPT ![s] = row]
  PROVE  QuietAnalyses
BY DEF RecordsTypeOK, QuietAnalyses

LEMMA RowIsQuiet ==
  ASSUME RecordsTypeOK, NEW s \in Submissions, NEW row \in Queue!JobRow,
         job' = [job EXCEPT ![s] = row],
         job[s].status \in Queue!Terminal => row.status = job[s].status,
         row.status = "COMPLETED" => job[s].status = "COMPLETED",
         job[s].status # "ABSENT" \/ Exists(s) \/ row.status = "ABSENT"
  PROVE  QuietJobs /\ job'[s] = row
BY DEF RecordsTypeOK, QuietJobs

LEMMA UpsertIsQuiet ==
  ASSUME RecordsTypeOK, NEW s \in Submissions, Exists(s), job' = Queue!Upserted(s)
  PROVE  QuietJobs
<1>1. job[s] \in Queue!JobRow
  BY DEF RecordsTypeOK
<1>2. CASE job[s].status = "ABSENT"
  <2> DEFINE row == [job[s] EXCEPT !.status = "QUEUED", !.due = TRUE]
  <2>1. row \in Queue!JobRow /\ row.status = "QUEUED"
    BY <1>1 DEF Queue!JobRow, Queue!JobStatus, Queue!Waiting
  <2>2. job' = [job EXCEPT ![s] = row]
    BY <1>2 DEF Queue!Upserted
  <2> HIDE DEF row
  <2> QED
    BY <1>2, <2>1, <2>2, RowIsQuiet DEF Queue!Terminal
<1>3. CASE job[s].status # "ABSENT"
  <2>1. job' = job
    BY <1>3 DEF Queue!Upserted, RecordsTypeOK
  <2> QED
    BY <2>1, UnchangedIsQuiet
<1> QED
  BY <1>2, <1>3

LEMMA UnlockedRow ==
  ASSUME NEW row \in Queue!JobRow, NEW status \in Queue!JobStatus
  PROVE  /\ Queue!Unlocked(row, status) \in Queue!JobRow
         /\ Queue!Unlocked(row, status).status = status
BY DEF Queue!Unlocked, Queue!JobRow

Counters == [{"REDIS", "TRIAL"} -> Int]

LEMMA CounterTypes ==
  ASSUME counter \in Counters, NEW k \in Identities
  PROVE  /\ Usage!Charged(k) \in Counters /\ Usage!Uncharged(k) \in Counters
         /\ Usage!Refunded(k) \in Counters
<1>1. Scope[k] \in {"REDIS", "TRIAL", "UNLIMITED"} /\ Units[k] \in Nat
  BY GapAssumption
<1>2. Usage!Charged(k) \in Counters /\ Usage!Uncharged(k) \in Counters
  BY <1>1 DEF Usage!Charged, Usage!Uncharged, Counters
<1>3. CASE Scope[k] # "UNLIMITED"
  BY <1>1, <1>2, <1>3 DEF Usage!Refunded, Counters
<1>4. CASE Scope[k] = "UNLIMITED"
  <2>1. \A v : [counter EXCEPT !["UNLIMITED"] = v] \in Counters
    BY DEF Counters
  <2> QED
    BY <1>2, <1>4, <2>1 DEF Usage!Refunded
<1> QED
  BY <1>1, <1>3, <1>4

LEMMA FaultType ==
  ASSUME OthersTypeOK, NEW kind, Fault(kind)
  PROVE  faults' \in 0 .. MaxFaults
BY GapAssumption DEF OthersTypeOK, Fault

LEMMA QueueFaultType ==
  ASSUME OthersTypeOK, NEW kind, Queue!Fault(kind)
  PROVE  faults' \in 0 .. MaxFaults
BY GapAssumption DEF OthersTypeOK, Queue!Fault

LEMMA UsageFaultType ==
  ASSUME OthersTypeOK, NEW kind, Usage!Fault(kind)
  PROVE  faults' \in 0 .. MaxFaults
BY GapAssumption DEF OthersTypeOK, Usage!Fault

LEMMA TypesOfInvariant == GapInvariant => RecordsTypeOK /\ OthersTypeOK
BY TypesSplit DEF GapInvariant

LEMMA KeyOfRequest ==
  ASSUME GapInvariant, NEW s \in Submissions, submission[s].pc # "new"
  PROVE  Key(s) \in Identities
<1>1. submission[s] \in Request /\ RequestFits(s)
  BY TypesOfInvariant DEF GapInvariant, RecordsTypeOK
<1> QED
  BY <1>1 DEF RequestFits, Key, Request

-----------------------------------------------------------------------------
(* Submitting.                                                             *)

LEMMA RequestMoves ==
  ASSUME RecordsTypeOK, NEW s \in Submissions, NEW pc \in SubmissionStep,
         Proceed(s, pc)
  PROVE  /\ QuietRequests /\ submission'[s].pc = pc
         /\ \A t \in Submissions \ {s} : submission'[t] = submission[t]
BY DEF RecordsTypeOK, Proceed, QuietRequests, Request

\* A move of a request stays on the side of the insert it is on.
SameSide(s, pc) ==
  /\ submission[s].pc # "new"
  /\ pc \in Unrecorded => submission[s].pc \in Unrecorded
  /\ pc \in Recorded => submission[s].pc \in Recorded

LEMMA RequestStillOnItsSide ==
  ASSUME GapInvariant, NEW s \in Submissions, NEW pc \in SubmissionStep,
         Proceed(s, pc), SameSide(s, pc), QuietAnalyses
  PROVE  RequestFits(s)'
<1>1. /\ submission'[s].pc = pc /\ submission'[s].key = Key(s)
      /\ RequestFits(s)
  BY TypesOfInvariant, RequestMoves DEF GapInvariant, QuietRequests, Key
<1>2. analysis'[s].status = "ABSENT" <=> analysis[s].status = "ABSENT"
  BY DEF QuietAnalyses
<1> QED
  BY <1>1, <1>2 DEF SameSide, RequestFits, Exists, Key

\* A step of a request that writes no ledger row.
LEMMA StrayingRequestStep ==
  ASSUME GapInvariant, NEW s \in Submissions, NEW pc \in SubmissionStep,
         Proceed(s, pc), SameSide(s, pc), QuietAnalyses, QuietJobs,
         counter' \in Counters, stray' \in Strays,
         objects' \subseteq Submissions, faults' \in 0 .. MaxFaults,
         UNCHANGED <<outbox, holder, deletion, stage, recovery, runner, claimant,
                     expiries, ledger, marker, comp, refunds>>
  PROVE  GapInvariant'
<1>1. RecordsTypeOK /\ OthersTypeOK
  BY TypesOfInvariant
<1>2. Quiet
  BY <1>1, RequestMoves, UnchangedIsQuiet DEF Quiet
<1>3. OthersTypeOK'
  BY <1>1 DEF OthersTypeOK, Counters
<1>4. \A t \in Submissions : RequestFits(t)' \/ UNCHANGED submission[t]
  BY <1>1, RequestMoves, RequestStillOnItsSide
<1> QED
  BY <1>2, <1>3, <1>4, QuietStep

LEMMA RequestStep ==
  ASSUME GapInvariant, NEW s \in Submissions, NEW pc \in SubmissionStep,
         Proceed(s, pc), SameSide(s, pc), QuietAnalyses, QuietJobs,
         counter' \in Counters,
         objects' \subseteq Submissions, faults' \in 0 .. MaxFaults,
         UNCHANGED <<outbox, holder, deletion, stage, recovery, runner, claimant,
                     expiries, ledger, marker, comp, refunds, stray>>
  PROVE  GapInvariant'
<1>1. stray' \in Strays
  BY TypesOfInvariant DEF OthersTypeOK
<1> QED
  BY <1>1, StrayingRequestStep

LEMMA CounterStepKeepsInvariant ==
  ASSUME GapInvariant, NEW s \in Submissions,
         NEW from, NEW to \in SubmissionStep, NEW count \in Counters,
         CounterStep(s, from, count, to), SameSide(s, to)
  PROVE  GapInvariant'
<1>1. RecordsTypeOK /\ OthersTypeOK
  BY TypesOfInvariant
<1>2. /\ Proceed(s, to) /\ counter' = count
      /\ UNCHANGED <<analysis, objects, outbox, holder, deletion, stage, recovery,
                     job, runner, claimant, expiries, ledger, marker, comp,
                     refunds, stray, faults>>
  BY DEF CounterStep, records, execution, queueOnly
<1>3. QuietAnalyses /\ QuietJobs
  BY <1>1, <1>2, UnchangedIsQuiet
<1>4. objects' \subseteq Submissions /\ faults' \in 0 .. MaxFaults
  BY <1>1, <1>2 DEF OthersTypeOK
<1> QED
  BY <1>2, <1>3, <1>4, RequestStep

LEMMA ChargingKeepsInvariant ==
  ASSUME GapInvariant, NEW s \in Submissions,
         \/ ResolveUsage(s) \/ ReserveUnits(s) \/ UndoOverLimit(s)
         \/ ResolveConflict(s) \/ RollbackReused(s) \/ RollbackFailed(s)
  PROVE  GapInvariant'
<1>1. RecordsTypeOK /\ OthersTypeOK /\ counter \in Counters
  BY TypesOfInvariant DEF OthersTypeOK, Counters
<1>2. ASSUME submission[s].pc # "new"
      PROVE  /\ Key(s) \in Identities
             /\ Usage!Charged(Key(s)) \in Counters /\ GivenBack(s) \in Counters
  <2>1. Key(s) \in Identities
    BY <1>2, KeyOfRequest
  <2> QED
    BY <1>1, <2>1, CounterTypes DEF GivenBack
<1>3. CASE ResolveUsage(s)
  <2>1. PICK to \in {"failed", "charge", "create"} : Proceed(s, to)
    BY <1>3 DEF ResolveUsage
  <2>2. SameSide(s, to) /\ to \in SubmissionStep
    BY <1>3 DEF ResolveUsage, At, SameSide, Unrecorded, Recorded, SubmissionStep
  <2>3. /\ counter' \in Counters
        /\ UNCHANGED <<analysis, objects, outbox, holder, deletion, stage, recovery,
                       job, runner, claimant, expiries, ledger, marker, comp,
                       refunds, stray, faults>>
    BY <1>1, <1>2, <1>3, <2>2
       DEF ResolveUsage, records, execution, queueOnly, SameSide
  <2>4. /\ QuietAnalyses /\ QuietJobs
        /\ objects' \subseteq Submissions /\ faults' \in 0 .. MaxFaults
    BY <1>1, <2>3, UnchangedIsQuiet DEF OthersTypeOK
  <2> QED
    BY <2>1, <2>2, <2>3, <2>4, RequestStep
<1>4. CASE ReserveUnits(s)
  <2> DEFINE to == IF Exceeds(s, Usage!Charged(Key(s))) THEN "overLimit" ELSE "create"
  <2>1. /\ CounterStep(s, "charge", Usage!Charged(Key(s)), to)
        /\ to \in {"overLimit", "create"}
    BY <1>4 DEF ReserveUnits
  <2> HIDE DEF to
  <2>2. submission[s].pc = "charge"
    BY <2>1 DEF CounterStep, At
  <2>3. SameSide(s, to) /\ to \in SubmissionStep
    BY <2>1, <2>2 DEF SameSide, Unrecorded, Recorded, SubmissionStep
  <2> QED
    BY <1>2, <2>1, <2>2, <2>3, CounterStepKeepsInvariant
<1>5. CASE UndoOverLimit(s) \/ RollbackReused(s) \/ RollbackFailed(s)
  <2>1. PICK from \in {"overLimit", "rollback", "rollbackFailed"},
             to \in {"failed", "reused"} : CounterStep(s, from, GivenBack(s), to)
    BY <1>5 DEF UndoOverLimit, RollbackReused, RollbackFailed
  <2>2. submission[s].pc = from
    BY <2>1 DEF CounterStep, At
  <2>3. SameSide(s, to) /\ to \in SubmissionStep
    BY <2>2 DEF SameSide, Unrecorded, Recorded, SubmissionStep
  <2> QED
    BY <1>2, <2>1, <2>2, <2>3, CounterStepKeepsInvariant
<1>6. CASE ResolveConflict(s)
  <2>1. PICK to \in {"rollback", "compensate"} : Proceed(s, to)
    BY <1>6 DEF ResolveConflict
  <2>2. SameSide(s, to) /\ to \in SubmissionStep
    BY <1>6 DEF ResolveConflict, At, SameSide, Unrecorded, Recorded, SubmissionStep
  <2>3. UNCHANGED <<analysis, objects, outbox, holder, deletion, stage, recovery,
                    job, runner, claimant, expiries, counter, ledger, marker, comp,
                    refunds, stray, faults>>
    BY <1>6 DEF ResolveConflict, records, execution, queueOnly, usageOnly
  <2>4. /\ QuietAnalyses /\ QuietJobs /\ counter' \in Counters
        /\ objects' \subseteq Submissions /\ faults' \in 0 .. MaxFaults
    BY <1>1, <2>3, UnchangedIsQuiet DEF OthersTypeOK
  <2> QED
    BY <2>1, <2>2, <2>3, <2>4, RequestStep
<1> QED
  BY <1>3, <1>4, <1>5, <1>6

LEMMA StoringKeepsInvariant ==
  ASSUME GapInvariant, NEW s \in Submissions,
         \/ Upload(s) \/ PersistReference(s) \/ EnqueueJob(s) \/ Publish(s)
         \/ Cleanup(s) \/ MarkSubmissionFailed(s)
  PROVE  GapInvariant'
<1>1. RecordsTypeOK /\ OthersTypeOK
  BY TypesOfInvariant
<1>2. PICK to \in {"persist", "enqueue", "cleanup", "publish", "done", "markFailed",
                   "compensate"} : Proceed(s, to)
  BY DEF Upload, PersistReference, EnqueueJob, Publish, Cleanup,
         MarkSubmissionFailed
<1>3. /\ submission[s].pc \in Recorded
      /\ SameSide(s, to) /\ to \in SubmissionStep
  BY DEF Upload, PersistReference, EnqueueJob, Publish, Cleanup,
         MarkSubmissionFailed, At, SameSide, Unrecorded, Recorded, SubmissionStep
<1>4. /\ objects' \subseteq Submissions
      /\ UNCHANGED <<outbox, holder, deletion, stage, recovery, runner, claimant,
                     expiries, counter, ledger, marker, comp, refunds, stray, faults>>
  BY <1>1
     DEF Upload, PersistReference, EnqueueJob, Publish, Cleanup,
         MarkSubmissionFailed, records, execution, queueOnly, usageOnly,
         OthersTypeOK
<1>5. QuietJobs
  <2>1. CASE EnqueueJob(s)
    <3>1. Exists(s)
      BY <1>3 DEF GapInvariant, RequestFits
    <3> QED
      BY <1>1, <2>1, <3>1, UpsertIsQuiet DEF EnqueueJob
  <2>2. CASE ~EnqueueJob(s)
    <3>1. UNCHANGED job
      BY <2>2 DEF Upload, PersistReference, Publish, Cleanup,
                  MarkSubmissionFailed, queueOnly
    <3> QED
      BY <1>1, <3>1, UnchangedIsQuiet
  <2> QED
    BY <2>1, <2>2
<1>6. QuietAnalyses
  <2>1. CASE Upload(s) \/ EnqueueJob(s) \/ Cleanup(s)
    BY <1>1, <2>1, UnchangedIsQuiet DEF Upload, EnqueueJob, Cleanup, records
  <2>2. CASE PersistReference(s)
    <3>1. [analysis[s] EXCEPT !.doc = TRUE, !.aged = FALSE] \in AnalysisRow
      BY <1>1 DEF RecordsTypeOK, AnalysisRow
    <3>2. \/ UNCHANGED analysis
          \/ analysis' = [analysis EXCEPT ![s] =
                            [analysis[s] EXCEPT !.doc = TRUE, !.aged = FALSE]]
      BY <1>1, <2>2 DEF PersistReference, SetReference, RecordsTypeOK
    <3>3. [analysis[s] EXCEPT !.doc = TRUE, !.aged = FALSE].status
            = analysis[s].status
      BY <1>1 DEF RecordsTypeOK, AnalysisRow
    <3> QED
      BY <1>1, <3>1, <3>2, <3>3, UnchangedIsQuiet, FlagsAreQuiet
  <2>3. CASE Publish(s)
    BY <1>1, <2>3, StatusIsQuiet, UnchangedIsQuiet
       DEF Publish, StillUploading, Live, Active, Concluded
  <2>4. CASE MarkSubmissionFailed(s)
    BY <1>1, <2>4, StatusIsQuiet, UnchangedIsQuiet
       DEF MarkSubmissionFailed, Active, Concluded
  <2> QED
    BY <2>1, <2>2, <2>3, <2>4
<1>7. counter' \in Counters /\ faults' \in 0 .. MaxFaults
  BY <1>1, <1>4 DEF OthersTypeOK, Counters
<1> QED
  BY <1>2, <1>3, <1>4, <1>5, <1>6, <1>7, RequestStep

LEMMA SubmissionFaultsKeepInvariant ==
  ASSUME GapInvariant, NEW s \in Submissions,
         SubmissionStatementFails(s) \/ SubmissionStorageFails(s)
  PROVE  GapInvariant'
<1>1. RecordsTypeOK /\ OthersTypeOK
  BY TypesOfInvariant
<1>2. PICK to \in {"compensate", "cleanup", "markFailed", "failed"} :
        /\ Proceed(s, to)
        /\ SameSide(s, to) /\ to \in SubmissionStep
  BY DEF SubmissionStatementFails, SubmissionStorageFails, At, SameSide, Unrecorded,
         Recorded, SubmissionStep
<1>3. /\ objects' \subseteq Submissions
      /\ UNCHANGED <<analysis, outbox, holder, deletion, stage, recovery, runner,
                     claimant, expiries, ledger, counter, marker, comp, refunds, stray>>
  BY <1>1
     DEF SubmissionStatementFails, SubmissionStorageFails, records, execution,
         queueOnly, usageOnly, OthersTypeOK
<1>4. QuietJobs
  <2>1. \/ UNCHANGED job
        \/ submission[s].pc = "enqueue" /\ job' = Queue!Upserted(s)
    BY DEF SubmissionStatementFails, SubmissionStorageFails, queueOnly, At
  <2>2. submission[s].pc = "enqueue" => Exists(s)
    BY DEF GapInvariant, RequestFits, Recorded
  <2> QED
    BY <1>1, <2>1, <2>2, UnchangedIsQuiet, UpsertIsQuiet
<1>5. /\ QuietAnalyses /\ faults' \in 0 .. MaxFaults /\ counter' \in Counters
  BY <1>1, <1>3, UnchangedIsQuiet, FaultType
     DEF SubmissionStatementFails, SubmissionStorageFails, OthersTypeOK, Counters
<1> QED
  BY <1>2, <1>3, <1>4, <1>5, RequestStep

\* The second of the two updates whose reply may be lost is Publish's.
LEMMA UpdateReplyLostKeepsInvariant ==
  ASSUME GapInvariant, NEW s \in Submissions, SubmissionReplyLost(s), ~At(s, "create")
  PROVE  GapInvariant'
<1>1. RecordsTypeOK /\ OthersTypeOK
  BY TypesOfInvariant
<1>2. /\ Proceed(s, "cleanup") /\ StillUploading(s)
      /\ submission[s].pc \in {"persist", "publish"}
      /\ SetReference(s) \/ SetStatus(s, "QUEUED")
      /\ Fault("database")
      /\ UNCHANGED <<objects, outbox, holder, deletion, stage, recovery, job, runner,
                     claimant, expiries, ledger, counter, marker, comp, refunds, stray>>
  BY DEF SubmissionReplyLost, At, execution, queueOnly
<1>3. SameSide(s, "cleanup") /\ "cleanup" \in SubmissionStep
  BY <1>2 DEF SameSide, Unrecorded, Recorded, SubmissionStep
<1>4. QuietAnalyses
  <2>1. CASE SetReference(s)
    <3> DEFINE row == [analysis[s] EXCEPT !.doc = TRUE, !.aged = FALSE]
    <3>1. row \in AnalysisRow /\ row.status = analysis[s].status
      BY <1>1 DEF RecordsTypeOK, AnalysisRow
    <3>2. analysis' = [analysis EXCEPT ![s] = row]
      BY <1>1, <2>1 DEF SetReference, RecordsTypeOK
    <3> HIDE DEF row
    <3> QED
      BY <1>1, <3>1, <3>2, FlagsAreQuiet
  <2>2. CASE SetStatus(s, "QUEUED")
    BY <1>1, <1>2, <2>2, StatusIsQuiet DEF StillUploading, Live, Active, Concluded
  <2> QED
    BY <1>2, <2>1, <2>2
<1>5. /\ QuietJobs /\ counter' \in Counters /\ objects' \subseteq Submissions
      /\ faults' \in 0 .. MaxFaults
  BY <1>1, <1>2, UnchangedIsQuiet, FaultType DEF OthersTypeOK, Counters
<1> QED
  BY <1>2, <1>3, <1>4, <1>5, RequestStep

\* What the counter may hold after a request that asked for an identity.
LEMMA CounterOfRequest ==
  ASSUME GapInvariant, NEW s \in Submissions, submission[s].pc # "new"
  PROVE  /\ Key(s) \in Identities /\ Units[Key(s)] \in Nat \ {0}
         /\ Scope[Key(s)] \in {"REDIS", "TRIAL", "UNLIMITED"}
         /\ Usage!Charged(Key(s)) \in Counters /\ GivenBack(s) \in Counters
<1>1. Key(s) \in Identities /\ counter \in Counters
  BY KeyOfRequest, TypesOfInvariant DEF OthersTypeOK, Counters
<1> QED
  BY <1>1, CounterTypes, GapAssumption DEF GivenBack

LEMMA CounterFaultType ==
  ASSUME OthersTypeOK, NEW s \in Submissions, CounterFault(s)
  PROVE  faults' \in 0 .. MaxFaults
BY FaultType DEF CounterFault

LEMMA CounterFaultsKeepInvariant ==
  ASSUME GapInvariant, NEW s \in Submissions, ChargeFails(s) \/ GivingBackFails(s)
  PROVE  GapInvariant'
<1>1. RecordsTypeOK /\ OthersTypeOK /\ counter \in Counters /\ stray \in Strays
  BY TypesOfInvariant DEF OthersTypeOK, Counters
<1>2. submission[s] \in Request
  BY <1>1 DEF RecordsTypeOK
<1>3. submission[s].pc \in {"check", "charge", "overLimit", "rollback", "rollbackFailed"}
  BY DEF ChargeFails, GivingBackFails, At
<1>4. PICK to \in {"compensate", "failed", submission[s].pc} : Proceed(s, to)
  <2>1. SentAgain(s) => Proceed(s, submission[s].pc)
    BY <1>1 DEF SentAgain, Proceed, RecordsTypeOK, Request
  <2> QED
    BY <2>1 DEF ChargeFails, GivingBackFails
<1>5. SameSide(s, to) /\ to \in SubmissionStep
  BY <1>3 DEF SameSide, Unrecorded, Recorded, SubmissionStep
<1>6. UNCHANGED <<analysis, objects, outbox, holder, deletion, stage, recovery, job,
                  runner, claimant, expiries, ledger, marker, comp, refunds>>
  BY DEF ChargeFails, GivingBackFails, records, execution, queueOnly
<1>7. counter' \in Counters
  BY <1>1, <1>3, CounterOfRequest DEF ChargeFails, GivingBackFails
<1>8. stray' \in Strays
  <2>1. Units[Key(s)] \in Nat
    BY <1>3, CounterOfRequest
  <2> QED
    BY <1>1, <2>1 DEF ChargeFails, GivingBackFails, Strays
<1>9. /\ QuietAnalyses /\ QuietJobs
      /\ objects' \subseteq Submissions /\ faults' \in 0 .. MaxFaults
  BY <1>1, <1>6, UnchangedIsQuiet, CounterFaultType
     DEF OthersTypeOK, ChargeFails, GivingBackFails
<1> QED
  BY <1>4, <1>5, <1>6, <1>7, <1>8, <1>9, StrayingRequestStep

-----------------------------------------------------------------------------
(* Compensating.                                                           *)

\* The first step of a compensation, for a row that exists.
LEMMA CompensationBegins ==
  ASSUME OthersTypeOK, NEW c \in Callers, NEW k \in Identities,
         ledger[k] # "ABSENT", Usage!BeginCompensation(c, k)
  PROVE  /\ comp' \in [Callers -> Compensation]
         /\ comp'[c].key = k /\ comp'[c].pc \notin {"none", "false"}
         /\ \A d \in Callers \ {c} : comp'[d] = comp[d]
         /\ \A d \in Callers : comp'[d].pc \notin Ended => comp'[d].key \in Identities
         /\ UNCHANGED <<ledger, counter, marker, refunds, faults>>
<1>1. Usage!FirstStep(k) \in {"true", Usage!PathOf[Scope[k]]}
  BY DEF Usage!FirstStep
<1>2. Usage!FirstStep(k) \in {"true", "claim", "trial", "unlimited"}
  BY <1>1, GapAssumption DEF Usage!PathOf
<1>3. [key |-> k, pc |-> Usage!FirstStep(k)] \in Compensation
  BY <1>2 DEF Compensation, Usage!CompStep, Usage!Results
<1>4. /\ comp \in [Callers -> Compensation]
      /\ comp' = [comp EXCEPT ![c] = [key |-> k, pc |-> Usage!FirstStep(k)]]
      /\ UNCHANGED <<ledger, counter, marker, refunds, faults>>
  BY DEF OthersTypeOK, Usage!BeginCompensation
<1>5. /\ comp' \in [Callers -> Compensation]
      /\ comp'[c].key = k /\ comp'[c].pc = Usage!FirstStep(k)
      /\ \A d \in Callers \ {c} : comp'[d] = comp[d]
  BY <1>3, <1>4
<1> QED
  BY <1>2, <1>4, <1>5 DEF OthersTypeOK

\* A compensation that ends, or dies with its caller.
LEMMA CompensationEnds ==
  ASSUME OthersTypeOK, NEW c \in Callers,
         comp' = [comp EXCEPT ![c] = Usage!NoCompensation]
  PROVE  /\ comp' \in [Callers -> Compensation]
         /\ comp'[c].pc = "none" /\ CompensationFits(c)'
         /\ \A d \in Callers \ {c} : comp'[d] = comp[d]
         /\ \A d \in Callers : comp'[d].pc \notin Ended => comp'[d].key \in Identities
<1>1. Usage!NoCompensation \in Compensation /\ Usage!NoCompensation.pc = "none"
  BY DEF Usage!NoCompensation, Compensation, Usage!CompStep
<1>2. /\ comp' \in [Callers -> Compensation]
      /\ comp'[c].pc = "none"
      /\ \A d \in Callers \ {c} : comp'[d] = comp[d]
  BY <1>1 DEF OthersTypeOK
<1> QED
  BY <1>2 DEF OthersTypeOK, CompensationFits, Ended

\* Every step of one writes its row only, which exists, and never back to
\* RESERVED or SETTLED.
LEMMA CompensationMoves ==
  ASSUME GapInvariant, NEW c \in Callers,
         Usage!CompensationStep(c) \/ Usage!CompensationFault(c)
  PROVE  /\ comp[c].pc # "none"
         /\ comp' \in [Callers -> Compensation]
         /\ comp'[c].key = comp[c].key /\ comp'[c].pc # "none"
         /\ CompensationFits(c)'
         /\ \A d \in Callers \ {c} : comp'[d] = comp[d]
         /\ \A d \in Callers : comp'[d].pc \notin Ended => comp'[d].key \in Identities
         /\ QuietLedger
         /\ counter' \in Counters /\ marker' \subseteq Identities
         /\ refunds' \in [Identities -> Nat] /\ faults' \in 0 .. MaxFaults
<1> USE DEF Usage!CompensationStep, Usage!CompensationFault, Usage!CompensateTrial,
            Usage!CompensateUnlimited, Usage!ClaimCompensation, Usage!Refund,
            Usage!Release, Usage!PostponeCompensation, Usage!RefundFails,
            Usage!StatementFails
<1>1. RecordsTypeOK /\ OthersTypeOK /\ counter \in Counters
  BY TypesOfInvariant DEF OthersTypeOK, Counters
<1>2. comp[c].pc \notin Ended
  BY DEF Ended, Usage!Results
<1>3. PICK k \in Identities : k = comp[c].key /\ ledger[k] # "ABSENT"
  BY <1>1, <1>2 DEF OthersTypeOK, GapInvariant, CompensationFits, Ended, Callers
<1>4. PICK pc \in Usage!CompStep \ {"none", "false"} : comp' = [comp EXCEPT ![c].pc = pc]
  BY DEF Usage!Step, Usage!CompStep, Usage!Results
<1>5. /\ comp' \in [Callers -> Compensation]
      /\ comp'[c].key = k /\ comp'[c].pc = pc
      /\ \A d \in Callers \ {c} : comp'[d] = comp[d]
  BY <1>1, <1>3, <1>4 DEF OthersTypeOK, Compensation
<1>6. \A d \in Callers : comp'[d].pc \notin Ended => comp'[d].key \in Identities
  BY <1>1, <1>3, <1>5 DEF OthersTypeOK
<1>7. QuietLedger
  <2>1. \/ UNCHANGED ledger
        \/ \E st \in {"RELEASED", "COMPENSATING", "COMPENSATION_PENDING"} :
             ledger' = [ledger EXCEPT ![k] = st]
    BY <1>3 DEF Usage!SetState
  <2> QED
    BY <1>1, <1>3, <2>1, UnchangedIsQuiet
       DEF QuietLedger, RecordsTypeOK, Usage!LedgerState
<1>8. CompensationFits(c)'
  <2>1. ledger'[k] # "ABSENT"
    BY <1>3, <1>7 DEF QuietLedger
  <2> QED
    BY <1>3, <1>5, <2>1 DEF CompensationFits
<1>9. counter' \in Counters
  BY <1>1, <1>3, CounterTypes DEF Usage!RefundScript
<1>10. marker' \subseteq Identities /\ refunds' \in [Identities -> Nat]
  BY <1>1, <1>3 DEF Usage!RefundScript, OthersTypeOK
<1>11. faults' \in 0 .. MaxFaults
  BY <1>1, UsageFaultType DEF OthersTypeOK
<1> QED
  BY <1>2, <1>3, <1>4, <1>5, <1>6, <1>7, <1>8, <1>9, <1>10, <1>11 DEF Ended

\* An execution whose compensation goes on is where it was.
LEMMA CompensatingExecutionFits ==
  ASSUME GapInvariant, Onward, NEW p \in Processes,
         comp[p].pc # "none", comp'[p].key = comp[p].key,
         UNCHANGED <<runner, stage>>
  PROVE  ExecutionFits(p)'
<1>1. ExecutionFits(p) /\ OthersTypeOK
  BY TypesOfInvariant DEF GapInvariant
<1>2. stage[p] = "refunding" /\ runner[p].pc = "settling"
  BY <1>1 DEF ExecutionFits
<1>3. runner[p].job \in Submissions
  BY <1>1, <1>2 DEF OthersTypeOK, Runner, Queue!Idle, Queue!Polling, Queue!Execution
<1>4. /\ comp[p].key \in Identities /\ holder[comp[p].key] = runner[p].job
      /\ runner[p].verdict \in {"CANCELLED", "DEAD_LETTERED"}
      /\ job[runner[p].job].status = runner[p].verdict
  BY <1>1, <1>2
     DEF ExecutionFits, OthersTypeOK, Compensation, Callers, Doing, Queue!Terminal
<1>5. /\ holder'[comp[p].key] = runner[p].job
      /\ job'[runner[p].job].status = runner[p].verdict
  BY <1>3, <1>4, GapAssumption DEF Onward, Queue!Terminal
<1> QED
  BY <1>2, <1>4, <1>5, GapAssumption DEF ExecutionFits, Doing

LEMMA CompensatingKeepsInvariant ==
  ASSUME GapInvariant, NEW c \in Callers, Compensating(c) \/ CompensationFails(c)
  PROVE  GapInvariant'
<1>1. RecordsTypeOK /\ OthersTypeOK
  BY TypesOfInvariant
<1>2. UNCHANGED <<analysis, objects, outbox, holder, submission, deletion, stage,
                  recovery, job, runner, claimant, expiries, stray>>
  BY DEF Compensating, CompensationFails, records, requests, execution, queueOnly
<1>3. /\ comp[c].pc # "none"
      /\ comp' \in [Callers -> Compensation]
      /\ comp'[c].key = comp[c].key /\ comp'[c].pc # "none"
      /\ CompensationFits(c)'
      /\ \A d \in Callers \ {c} : comp'[d] = comp[d]
      /\ \A d \in Callers : comp'[d].pc \notin Ended => comp'[d].key \in Identities
      /\ QuietLedger
      /\ counter' \in Counters /\ marker' \subseteq Identities
      /\ refunds' \in [Identities -> Nat] /\ faults' \in 0 .. MaxFaults
  BY CompensationMoves DEF Compensating, CompensationFails
<1>4. Quiet
  BY <1>1, <1>2, <1>3, UnchangedIsQuiet DEF Quiet
<1>5. OthersTypeOK'
  BY <1>1, <1>2, <1>3 DEF OthersTypeOK, Counters
<1>6. \A p \in Processes :
        ExecutionFits(p)' \/ UNCHANGED <<runner[p], stage[p], comp[p]>>
  BY <1>2, <1>3, <1>4, QuietIsOnward, CompensatingExecutionFits DEF Callers
<1> QED
  BY <1>2, <1>3, <1>4, <1>5, <1>6, QuietStep

\* A request's compensation begins, ends or is cut off: only the request and
\* its compensation move.
LEMMA RequestCompensationStep ==
  ASSUME GapInvariant, NEW s \in Submissions, NEW pc \in SubmissionStep,
         Proceed(s, pc), SameSide(s, pc),
         comp' \in [Callers -> Compensation], CompensationFits(s)',
         \A d \in Callers \ {s} : comp'[d] = comp[d],
         \A d \in Callers : comp'[d].pc \notin Ended => comp'[d].key \in Identities,
         faults' \in 0 .. MaxFaults,
         UNCHANGED <<analysis, objects, outbox, holder, deletion, stage, recovery,
                     job, runner, claimant, expiries, ledger, counter, marker,
                     refunds, stray>>
  PROVE  GapInvariant'
<1>1. RecordsTypeOK /\ OthersTypeOK
  BY TypesOfInvariant
<1>2. Quiet
  BY <1>1, RequestMoves, UnchangedIsQuiet DEF Quiet
<1>3. OthersTypeOK'
  BY <1>1 DEF OthersTypeOK
<1>4. \A t \in Submissions : RequestFits(t)' \/ UNCHANGED submission[t]
  BY <1>1, <1>2, RequestMoves, RequestStillOnItsSide DEF Quiet
<1>5. \A p \in Processes : UNCHANGED <<runner[p], stage[p], comp[p]>>
  BY GapAssumption DEF Callers
<1> QED
  BY <1>2, <1>3, <1>4, <1>5, QuietStep DEF Callers

LEMMA CompensateKeepsInvariant ==
  ASSUME GapInvariant, NEW s \in Submissions, Compensate(s) \/ FinishCompensation(s)
  PROVE  GapInvariant'
<1>1. RecordsTypeOK /\ OthersTypeOK
  BY TypesOfInvariant
<1>2. PICK to \in {"failed", "compensating", "rollbackFailed"} : Proceed(s, to)
  BY DEF Compensate, FinishCompensation
<1>3. /\ SameSide(s, to) /\ to \in SubmissionStep
      /\ submission[s].pc # "new"
  BY DEF Compensate, FinishCompensation, At, SameSide, Unrecorded, Recorded,
         SubmissionStep
<1>4. UNCHANGED <<analysis, objects, outbox, holder, deletion, stage, recovery,
                  job, runner, claimant, expiries, ledger, counter, marker,
                  refunds, stray, faults>>
  BY DEF Compensate, FinishCompensation, records, execution, queueOnly, usageOnly,
         Usage!BeginCompensation, Usage!EndCompensation
<1>5. /\ faults' \in 0 .. MaxFaults /\ s \in Callers
      /\ Key(s) \in Identities
  BY <1>1, <1>3, <1>4, KeyOfRequest DEF OthersTypeOK, Callers
<1>6. CASE UNCHANGED comp
  <2>1. QuietAnalyses /\ QuietJobs /\ counter' \in Counters /\ objects' \subseteq Submissions
    BY <1>1, <1>4, UnchangedIsQuiet DEF OthersTypeOK, Counters
  <2> QED
    BY <1>2, <1>3, <1>4, <1>5, <1>6, <2>1, RequestStep
<1>7. CASE Usage!BeginCompensation(s, Key(s)) /\ holder[Key(s)] # None
  <2>1. ledger[Key(s)] # "ABSENT"
    BY <1>5, <1>7 DEF GapInvariant, RowsHaveHolders
  <2>2. /\ comp' \in [Callers -> Compensation]
        /\ comp'[s].key = Key(s) /\ comp'[s].pc \notin {"none", "false"}
        /\ \A d \in Callers \ {s} : comp'[d] = comp[d]
        /\ \A d \in Callers : comp'[d].pc \notin Ended => comp'[d].key \in Identities
    BY <1>1, <1>5, <1>7, <2>1, CompensationBegins
  <2>3. CompensationFits(s)'
    BY <1>4, <2>1, <2>2 DEF CompensationFits
  <2> QED
    BY <1>2, <1>3, <1>4, <1>5, <2>2, <2>3, RequestCompensationStep
<1>8. CASE Usage!EndCompensation(s)
  BY <1>1, <1>2, <1>3, <1>4, <1>5, <1>8, CompensationEnds, RequestCompensationStep
     DEF Usage!EndCompensation
<1> QED
  BY <1>6, <1>7, <1>8 DEF Compensate, FinishCompensation, usageOnly

LEMMA RequestCrashKeepsInvariant ==
  ASSUME GapInvariant, RequestCrashes
  PROVE  GapInvariant'
<1>1. RecordsTypeOK /\ OthersTypeOK /\ faults' \in 0 .. MaxFaults
  BY TypesOfInvariant, FaultType DEF RequestCrashes
<1>2. UNCHANGED <<analysis, objects, outbox, holder, stage, recovery, job, runner,
                  claimant, expiries, ledger, counter, marker, refunds, stray>>
  BY DEF RequestCrashes, records, execution, queueOnly
<1>3. ASSUME NEW s \in Submissions, submission[s].pc # "new", Proceed(s, "failed"),
             comp' = [comp EXCEPT ![s] = Usage!NoCompensation],
             UNCHANGED deletion
      PROVE  GapInvariant'
  <2>1. SameSide(s, "failed") /\ "failed" \in SubmissionStep /\ s \in Callers
    BY <1>3 DEF SameSide, Unrecorded, Recorded, SubmissionStep, Callers
  <2> QED
    BY <1>1, <1>2, <1>3, <2>1, CompensationEnds, RequestCompensationStep
<1>4. ASSUME NEW d \in Deletions, DeletionProceeds(d, "done"),
             UNCHANGED <<submission, comp>>
      PROVE  GapInvariant'
  <2>1. Quiet
    BY <1>1, <1>2, <1>4, UnchangedIsQuiet DEF Quiet
  <2>2. OthersTypeOK'
    BY <1>1, <1>2, <1>4 DEF OthersTypeOK, DeletionProceeds
  <2>3. \A e \in Deletions : DeletionFits(e)' \/ UNCHANGED deletion[e]
    BY <1>1, <1>4 DEF OthersTypeOK, DeletionProceeds, DeletionFits
  <2> QED
    BY <1>2, <1>4, <2>1, <2>2, <2>3, QuietStep
<1> QED
  BY <1>3, <1>4 DEF RequestCrashes

-----------------------------------------------------------------------------
(* The two steps of a request that are not quiet.                          *)

\* Asking for an identity, before there is a row.
LEMMA DedupeKeepsInvariant ==
  ASSUME GapInvariant, NEW s \in Submissions, Dedupe(s)
  PROVE  GapInvariant'
<1>1. RecordsTypeOK /\ OthersTypeOK
  BY TypesOfInvariant
<1>2. ~Exists(s)
  BY DEF Dedupe, At, GapInvariant, RequestFits, Unrecorded
<1>3. PICK k \in Identities, pc \in {"reused", "check"} :
        submission' = [submission EXCEPT ![s] = [key |-> k, pc |-> pc]]
  BY DEF Dedupe
<1>4. UNCHANGED <<analysis, objects, outbox, holder, deletion, stage, recovery,
                  job, runner, claimant, expiries, ledger, counter, marker, comp,
                  refunds, stray, faults>>
  BY DEF Dedupe, records, execution, queueOnly, usageOnly
<1>5. [key |-> k, pc |-> pc] \in Request
  BY DEF Request, SubmissionStep
<1>6. /\ submission' \in [Submissions -> Request]
      /\ submission'[s].key = k /\ submission'[s].pc = pc
      /\ \A t \in Submissions \ {s} : submission'[t] = submission[t]
  BY <1>1, <1>3, <1>5 DEF RecordsTypeOK
<1>7. RecordsTypeOK' /\ OthersTypeOK'
  BY <1>1, <1>4, <1>6 DEF RecordsTypeOK, OthersTypeOK
<1>8. GapTypeOK'
  BY <1>7, TypesSplit, PTL
<1>9. RowsHaveHolders'
  BY <1>2, <1>4, <1>6 DEF GapInvariant, RowsHaveHolders, Exists, Key
<1>10. ResultIsAtomic'
  BY <1>2, <1>4, <1>6 DEF GapInvariant, ResultIsAtomic, Exists, Key
<1>11. SettledMeansCompleted'
  BY <1>4 DEF GapInvariant, SettledMeansCompleted
<1>12. \A t \in Submissions : RequestFits(t)'
  <2>1. RequestFits(s)'
    BY <1>2, <1>4, <1>6, GapAssumption
       DEF RequestFits, Key, Exists, Unrecorded, Recorded
  <2>2. \A t \in Submissions \ {s} : RequestFits(t)'
    BY <1>4, <1>6 DEF GapInvariant, RequestFits, Key, Exists
  <2> QED
    BY <2>1, <2>2
<1>13. /\ \A d \in Deletions : DeletionFits(d)'
       /\ \A p \in Processes : ExecutionFits(p)'
       /\ \A c \in Callers : CompensationFits(c)'
  BY <1>4
     DEF GapInvariant, Callers, DeletionFits, Exists, ExecutionFits, Doing,
         CompensationFits
<1> QED
  BY <1>8, <1>9, <1>10, <1>11, <1>12, <1>13 DEF GapInvariant, Callers

\* The insert of the analysis and its ledger row, whether or not the request
\* learns of it.
LEMMA InsertKeepsInvariant ==
  ASSUME GapInvariant, NEW s \in Submissions, NEW pc \in {"upload", "compensate"},
         At(s, "create"), Inserted(s), Proceed(s, pc), faults' \in 0 .. MaxFaults,
         UNCHANGED <<objects, outbox, deletion, stage, recovery, job, runner, claimant,
                     expiries, counter, marker, comp, refunds, stray>>
  PROVE  GapInvariant'
<1>0. /\ RecordsTypeOK /\ OthersTypeOK
      /\ submission[s].pc = "create" /\ Key(s) \in Identities /\ ~Exists(s)
  BY TypesOfInvariant, KeyOfRequest DEF At, GapInvariant, RequestFits, Unrecorded
<1>1. /\ SetStatus(s, "UPLOADING") /\ Usage!SetState(Key(s), "RESERVED")
      /\ holder' = [holder EXCEPT ![Key(s)] = s]
      /\ ledger[Key(s)] = "ABSENT"
  BY DEF Inserted, Refused
<1>2. holder[Key(s)] = None
  BY <1>0, <1>1 DEF GapInvariant, RowsHaveHolders
<1>3. /\ analysis' \in [Submissions -> AnalysisRow]
      /\ analysis'[s].status = "UPLOADING"
      /\ \A t \in Submissions \ {s} : analysis'[t] = analysis[t]
  BY <1>0, <1>1 DEF SetStatus, RecordsTypeOK, AnalysisRow, Active
<1>4. /\ ledger' \in [Identities -> Usage!LedgerState]
      /\ ledger'[Key(s)] = "RESERVED"
      /\ \A k \in Identities \ {Key(s)} : ledger'[k] = ledger[k]
  BY <1>0, <1>1 DEF Usage!SetState, RecordsTypeOK, Usage!LedgerState
<1>5. /\ holder' \in [Identities -> Submissions \cup {None}]
      /\ holder'[Key(s)] = s
      /\ \A k \in Identities \ {Key(s)} : holder'[k] = holder[k]
  BY <1>0, <1>1 DEF RecordsTypeOK
<1>6. /\ submission' \in [Submissions -> Request]
      /\ submission'[s].pc = pc
      /\ \A t \in Submissions : submission'[t].key = submission[t].key
      /\ \A t \in Submissions \ {s} : submission'[t] = submission[t]
  BY <1>0, <1>1, RequestMoves DEF SubmissionStep, QuietRequests
<1>7. RecordsTypeOK' /\ OthersTypeOK'
  BY <1>0, <1>3, <1>4, <1>5, <1>6 DEF RecordsTypeOK, OthersTypeOK
<1>8. GapTypeOK'
  BY <1>7, TypesSplit, PTL
<1>9. Onward
  BY <1>1, <1>2, <1>3, <1>4, <1>5 DEF Onward
<1>10. RowsHaveHolders'
  <2>1. \A k \in Identities : holder'[k] = None <=> ledger'[k] = "ABSENT"
    BY <1>4, <1>5, GapAssumption DEF GapInvariant, RowsHaveHolders
  <2>2. ASSUME NEW t \in Submissions, analysis'[t].status # "ABSENT"
        PROVE  holder'[submission'[t].key] = t
    <3>1. CASE t = s
      BY <1>5, <1>6, <3>1 DEF Key
    <3>2. CASE t # s
      <4>1. Exists(t)
        BY <1>3, <2>2, <3>2 DEF Exists
      <4>2. Key(t) \in Identities /\ holder[Key(t)] = t
        BY <4>1, KeyOfAnalysis DEF GapInvariant, RowsHaveHolders
      <4>3. Key(t) # Key(s)
        BY <1>2, <4>2, GapAssumption
      <4> QED
        BY <1>5, <1>6, <4>2, <4>3 DEF Key
    <3> QED
      BY <3>1, <3>2
  <2>3. \A t \in Submissions : job'[t].status # "ABSENT" => analysis'[t].status # "ABSENT"
    BY <1>3 DEF GapInvariant, RowsHaveHolders, Exists
  <2> QED
    BY <2>1, <2>2, <2>3 DEF RowsHaveHolders, Exists, Key
<1>11. ResultIsAtomic'
  <2> SUFFICES ASSUME NEW t \in Submissions
               PROVE  /\ analysis'[t].status = "COMPLETED" =>
                           /\ job'[t].status = "COMPLETED"
                           /\ ledger'[submission'[t].key] # "RESERVED"
                      /\ job'[t].status = "COMPLETED" =>
                           analysis'[t].status \in {"COMPLETED", "CANCELLED"}
    BY DEF ResultIsAtomic, Key
  <2>1. CASE t = s
    <3>1. job[s].status # "COMPLETED"
      BY <1>0 DEF GapInvariant, ResultIsAtomic, Exists
    <3> QED
      BY <1>3, <2>1, <3>1
  <2>2. CASE t # s
    <3>1. /\ analysis'[t] = analysis[t] /\ job'[t] = job[t]
          /\ submission'[t].key = Key(t)
      BY <1>3, <1>6, <2>2 DEF Key
    <3>2. analysis[t].status = "COMPLETED" =>
            Key(t) \in Identities /\ Key(t) # Key(s)
      BY <1>2, KeyOfAnalysis, GapAssumption DEF GapInvariant, RowsHaveHolders, Exists
    <3> QED
      BY <1>4, <3>1, <3>2 DEF GapInvariant, ResultIsAtomic
  <2> QED
    BY <2>1, <2>2
<1>12. SettledMeansCompleted'
  BY <1>4, <1>5 DEF GapInvariant, SettledMeansCompleted
<1>13. \A t \in Submissions : RequestFits(t)'
  <2>1. RequestFits(s)'
    <3>1. Key(s) # None
      BY <1>0, GapAssumption
    <3> QED
      BY <1>3, <1>6, <3>1 DEF RequestFits, Key, Exists, Unrecorded
  <2>2. \A t \in Submissions \ {s} : RequestFits(t)'
    BY <1>3, <1>6 DEF GapInvariant, RequestFits, Key, Exists
  <2> QED
    BY <2>1, <2>2
<1>14. /\ \A d \in Deletions : DeletionFits(d)'
       /\ \A p \in Processes : ExecutionFits(p)'
       /\ \A c \in Callers : CompensationFits(c)'
  BY <1>0, <1>9, DeletionStillFits, ExecutionStillFits,
     CompensationStillFits
     DEF GapInvariant, Callers
<1> QED
  BY <1>8, <1>10, <1>11, <1>12, <1>13, <1>14 DEF GapInvariant, Callers

LEMMA CreateKeepsInvariant ==
  ASSUME GapInvariant, NEW s \in Submissions,
         CreateRecord(s) \/ (SubmissionReplyLost(s) /\ At(s, "create"))
  PROVE  GapInvariant'
<1>1. /\ RecordsTypeOK /\ OthersTypeOK /\ At(s, "create")
      /\ faults' \in 0 .. MaxFaults
  BY TypesOfInvariant, FaultType DEF CreateRecord, SubmissionReplyLost, OthersTypeOK
<1>2. UNCHANGED <<objects, outbox, deletion, stage, recovery, job, runner, claimant,
                  expiries, counter, marker, comp, refunds, stray>>
  BY DEF CreateRecord, SubmissionReplyLost, execution, queueOnly
<1>3. CASE CreateRecord(s) /\ Refused(s)
  <2>1. /\ Proceed(s, "conflict") /\ UNCHANGED <<analysis, holder, ledger>>
        /\ SameSide(s, "conflict") /\ "conflict" \in SubmissionStep
    BY <1>1, <1>3
       DEF CreateRecord, Inserted, At, SameSide, Unrecorded, Recorded, SubmissionStep
  <2>2. /\ QuietAnalyses /\ QuietJobs /\ counter' \in Counters
        /\ objects' \subseteq Submissions
    BY <1>1, <1>2, <2>1, UnchangedIsQuiet DEF OthersTypeOK, Counters
  <2> QED
    BY <1>1, <1>2, <2>1, <2>2, RequestStep
<1>4. CASE \E pc \in {"upload", "compensate"} : Inserted(s) /\ Proceed(s, pc)
  BY <1>1, <1>2, <1>4, InsertKeepsInvariant
<1> QED
  BY <1>1, <1>3, <1>4 DEF CreateRecord, SubmissionReplyLost, At

-----------------------------------------------------------------------------
(* Deleting, and time.                                                     *)

\* Moves of no process and no compensation.
LEMMA RecordStep ==
  ASSUME GapInvariant, QuietAnalyses, QuietJobs,
         outbox' \subseteq Submissions, faults' \in 0 .. MaxFaults,
         deletion' \in [Deletions ->
           [pc : {"new", "revoke", "cancelJobs", "publish", "done"},
            of : Submissions \cup {None}, doc : BOOLEAN]],
         \A d \in Deletions : DeletionFits(d)' \/ UNCHANGED deletion[d],
         UNCHANGED <<objects, holder, submission, stage, recovery, runner, claimant,
                     expiries, ledger, counter, marker, comp, refunds, stray>>
  PROVE  GapInvariant'
<1>1. RecordsTypeOK /\ OthersTypeOK
  BY TypesOfInvariant
<1>2. Quiet
  BY <1>1, UnchangedIsQuiet DEF Quiet
<1>3. OthersTypeOK'
  BY <1>1 DEF OthersTypeOK
<1> QED
  BY <1>2, <1>3, QuietStep

LEMMA UnlockIsQuiet ==
  ASSUME RecordsTypeOK, NEW s \in Submissions, NEW status \in Queue!JobStatus,
         job[s].status \notin Queue!Terminal \cup {"ABSENT"}, status # "COMPLETED",
         job' = [job EXCEPT ![s] = Queue!Unlocked(job[s], status)]
  PROVE  QuietJobs /\ job'[s].status = status
<1>1. /\ Queue!Unlocked(job[s], status) \in Queue!JobRow
      /\ Queue!Unlocked(job[s], status).status = status
  BY UnlockedRow DEF RecordsTypeOK
<1> QED
  BY <1>1, RowIsQuiet

LEMMA DeletionKeepsInvariant ==
  ASSUME GapInvariant, NEW d \in Deletions, ReadForDeletion(d) \/ DeletionStep(d)
  PROVE  GapInvariant'
<1>1. RecordsTypeOK /\ OthersTypeOK /\ DeletionFits(d)
  BY TypesOfInvariant DEF GapInvariant
<1> DEFINE DeletionRow == [pc : {"new", "revoke", "cancelJobs", "publish", "done"},
                           of : Submissions \cup {None}, doc : BOOLEAN]
<1>2. deletion \in [Deletions -> DeletionRow]
  BY <1>1 DEF OthersTypeOK
<1>3. UNCHANGED <<objects, holder, submission, stage, recovery, runner, claimant,
                  expiries, ledger, counter, marker, comp, refunds, stray, faults>>
  BY DEF ReadForDeletion, DeletionStep, RevokeAnalysis, CancelJobs, PublishDeletion,
         records, execution, queueOnly, usageOnly, Queue!CancelByOwner
<1>4. faults' \in 0 .. MaxFaults
  BY <1>1, <1>3 DEF OthersTypeOK
<1>5. CASE ReadForDeletion(d)
  <2>1. PICK s \in Submissions :
          /\ Exists(s)
          /\ deletion' = [deletion EXCEPT ![d] =
                            [pc |-> "revoke", of |-> s, doc |-> analysis[s].doc]]
    BY <1>5 DEF ReadForDeletion
  <2>2. [pc |-> "revoke", of |-> s, doc |-> analysis[s].doc] \in DeletionRow
    BY <1>1 DEF RecordsTypeOK, AnalysisRow
  <2>3. /\ UNCHANGED <<analysis, outbox, job>>
        /\ QuietAnalyses /\ QuietJobs /\ outbox' \subseteq Submissions
    BY <1>1, <1>5, UnchangedIsQuiet DEF ReadForDeletion, records, queueOnly, OthersTypeOK
  <2>4. /\ deletion' \in [Deletions -> DeletionRow]
        /\ deletion'[d].of = s
        /\ \A e \in Deletions \ {d} : deletion'[e] = deletion[e]
    BY <1>2, <2>1, <2>2
  <2>5. DeletionFits(d)'
    BY <2>1, <2>3, <2>4, GapAssumption DEF DeletionFits, Exists
  <2> QED
    BY <1>3, <1>4, <2>3, <2>4, <2>5, RecordStep
<1>6. CASE DeletionStep(d)
  <2>1. PICK pc \in {"cancelJobs", "publish", "done"} : DeletionProceeds(d, pc)
    BY <1>6 DEF DeletionStep, RevokeAnalysis, CancelJobs, PublishDeletion
  <2>2. /\ deletion[d].pc \in {"revoke", "cancelJobs", "publish"}
        /\ deletion[d] \in DeletionRow
    BY <1>2, <1>6
       DEF DeletionStep, RevokeAnalysis, CancelJobs, PublishDeletion, DeletionAt
  <2>3. PICK s \in Submissions : s = deletion[d].of /\ Exists(s)
    BY <1>1, <2>2 DEF DeletionFits
  <2>4. /\ deletion' \in [Deletions -> DeletionRow]
        /\ deletion'[d].of = s
        /\ \A e \in Deletions \ {d} : deletion'[e] = deletion[e]
    BY <1>2, <2>1, <2>3 DEF DeletionProceeds
  <2>5. QuietAnalyses
    <3>1. CASE RevokeAnalysis(d)
      BY <1>1, <2>3, <3>1, StatusIsQuiet DEF RevokeAnalysis
    <3>2. CASE CancelJobs(d)
      BY <1>1, <3>2, UnchangedIsQuiet DEF CancelJobs, records
    <3>3. CASE PublishDeletion(d)
      <4> DEFINE row == [analysis[s] EXCEPT !.deleted = TRUE, !.aged = FALSE]
      <4>1. row \in AnalysisRow /\ row.status = analysis[s].status
        BY <1>1 DEF RecordsTypeOK, AnalysisRow
      <4>2. analysis' = [analysis EXCEPT ![s] = row]
        BY <1>1, <2>3, <3>3 DEF PublishDeletion, RecordsTypeOK
      <4> HIDE DEF row
      <4> QED
        BY <1>1, <4>1, <4>2, FlagsAreQuiet
    <3> QED
      BY <1>6, <3>1, <3>2, <3>3 DEF DeletionStep
  <2>6. QuietJobs
    <3>1. CASE CancelJobs(d) /\ Queue!CancelByOwner(s)
      <4>1. /\ job[s].status \notin Queue!Terminal \cup {"ABSENT"}
            /\ job' = [job EXCEPT ![s] = Queue!Unlocked(job[s], "CANCELLED")]
        BY <1>1, <3>1
           DEF Queue!CancelByOwner, Queue!Waiting, Queue!Terminal, RecordsTypeOK
      <4> QED
        BY <1>1, <4>1, UnlockIsQuiet DEF Queue!JobStatus, Queue!Terminal
    <3>2. CASE UNCHANGED job
      BY <1>1, <3>2, UnchangedIsQuiet
    <3> QED
      BY <1>6, <2>3, <3>1, <3>2
         DEF DeletionStep, RevokeAnalysis, CancelJobs, PublishDeletion, queueOnly
  <2>7. outbox' \subseteq Submissions
    BY <1>1, <1>6, <2>3
       DEF DeletionStep, RevokeAnalysis, CancelJobs, PublishDeletion, records,
           OthersTypeOK
  <2>8. DeletionFits(d)'
    <3>1. Exists(s)'
      BY <2>3, <2>5 DEF QuietAnalyses, Exists
    <3>2. s # None
      BY GapAssumption
    <3> QED
      BY <2>4, <3>1, <3>2 DEF DeletionFits, Exists
  <2> QED
    BY <1>3, <1>4, <2>4, <2>5, <2>6, <2>7, <2>8, RecordStep
<1> QED
  BY <1>5, <1>6

\* A row that keeps its status.
LEMMA JobFlagIsQuiet ==
  ASSUME RecordsTypeOK, NEW s \in Submissions, NEW due \in BOOLEAN,
         NEW stale \in BOOLEAN,
         job' = [job EXCEPT ![s] = [job[s] EXCEPT !.due = due, !.stale = stale]]
  PROVE  QuietJobs
<1> DEFINE row == [job[s] EXCEPT !.due = due, !.stale = stale]
<1>1. row \in Queue!JobRow /\ row.status = job[s].status
  BY DEF RecordsTypeOK, Queue!JobRow
<1> HIDE DEF row
<1> QED
  BY <1>1, RowIsQuiet DEF row

LEMMA StaleIsQuiet ==
  ASSUME RecordsTypeOK, NEW s \in Submissions, NEW stale \in BOOLEAN,
         job' = [job EXCEPT ![s].stale = stale]
  PROVE  QuietJobs
<1>1. /\ job[s] \in Queue!JobRow /\ job[s].due \in BOOLEAN
      /\ job' = [job EXCEPT ![s] = [job[s] EXCEPT !.due = job[s].due, !.stale = stale]]
  BY DEF RecordsTypeOK, Queue!JobRow
<1> QED
  BY <1>1, JobFlagIsQuiet

LEMMA TimeKeepsInvariant ==
  ASSUME GapInvariant,
         \/ \E s \in Submissions : AnalysisAges(s) \/ QueueTime(s) \/ QueueFault(s)
         \/ \E p \in Processes : Heartbeat(p)
  PROVE  GapInvariant'
<1>1. RecordsTypeOK /\ OthersTypeOK
  BY TypesOfInvariant
<1>2. UNCHANGED <<objects, outbox, holder, submission, deletion, stage, recovery,
                  runner, claimant, expiries, ledger, counter, marker, comp, refunds, stray>>
  BY DEF AnalysisAges, QueueTime, QueueFault, Heartbeat, records, requests,
         execution, queueOnly, usageOnly, Queue!RunAfterElapses,
         Queue!AbandonedLockExpires, Queue!HeartbeatStalls, Queue!Heartbeat
<1>3. outbox' \subseteq Submissions /\ faults' \in 0 .. MaxFaults
  <2>1. UNCHANGED faults \/ Queue!Fault("heartbeat")
    BY DEF AnalysisAges, QueueTime, QueueFault, Heartbeat, Queue!RunAfterElapses,
           Queue!AbandonedLockExpires, Queue!HeartbeatStalls, Queue!Heartbeat
  <2> QED
    BY <1>1, <1>2, <2>1, QueueFaultType DEF OthersTypeOK
<1>4. CASE \E s \in Submissions : AnalysisAges(s)
  <2>1. PICK s \in Submissions : AnalysisAges(s)
    BY <1>4
  <2> DEFINE row == [analysis[s] EXCEPT !.aged = TRUE]
  <2>2. row \in AnalysisRow /\ row.status = analysis[s].status
    BY <1>1 DEF RecordsTypeOK, AnalysisRow
  <2>3. analysis' = [analysis EXCEPT ![s] = row]
    BY <1>1, <2>1 DEF AnalysisAges, RecordsTypeOK
  <2> HIDE DEF row
  <2>4. QuietAnalyses
    BY <1>1, <2>2, <2>3, FlagsAreQuiet
  <2>5. QuietJobs /\ UNCHANGED deletion
    BY <1>1, <1>2, <2>1, UnchangedIsQuiet DEF AnalysisAges, queueOnly
  <2> QED
    BY <1>1, <1>2, <1>3, <2>4, <2>5, RecordStep DEF OthersTypeOK
<1>5. ASSUME QuietJobs, UNCHANGED analysis PROVE GapInvariant'
  BY <1>1, <1>2, <1>3, <1>5, UnchangedIsQuiet, RecordStep DEF OthersTypeOK
<1>6. CASE \E s \in Submissions : QueueTime(s) \/ QueueFault(s)
  <2>1. PICK s \in Submissions : QueueTime(s) \/ QueueFault(s)
    BY <1>6
  <2>2. UNCHANGED analysis
    BY <2>1 DEF QueueTime, QueueFault, records
  <2>3. CASE Queue!RunAfterElapses(s)
    <3>1. /\ job[s].stale \in BOOLEAN
          /\ job' = [job EXCEPT ![s] =
                       [job[s] EXCEPT !.due = TRUE, !.stale = job[s].stale]]
      BY <1>1, <2>3 DEF Queue!RunAfterElapses, RecordsTypeOK, Queue!JobRow
    <3> QED
      BY <1>1, <1>5, <2>2, <3>1, JobFlagIsQuiet
  <2>4. CASE Queue!AbandonedLockExpires(s) \/ Queue!HeartbeatStalls(s)
    BY <1>1, <1>5, <2>2, <2>4, StaleIsQuiet
       DEF Queue!AbandonedLockExpires, Queue!HeartbeatStalls
  <2> QED
    BY <2>1, <2>3, <2>4 DEF QueueTime, QueueFault
<1>7. CASE \E p \in Processes : Heartbeat(p)
  <2>1. PICK p \in Processes : Heartbeat(p)
    BY <1>7
  <2>2. runner[p].job \in Submissions
    BY <1>1, <2>1
       DEF Heartbeat, Queue!Heartbeat, OthersTypeOK, Runner, Queue!Idle,
           Queue!Polling, Queue!Execution, Queue!Executing
  <2>3. QuietJobs /\ UNCHANGED analysis
    BY <1>1, <2>1, <2>2, StaleIsQuiet DEF Heartbeat, Queue!Heartbeat, records
  <2> QED
    BY <1>5, <2>3
<1> QED
  BY <1>4, <1>6, <1>7

-----------------------------------------------------------------------------
(* Executing: steps of a runner and its handler.                           *)

LEMMA Executes ==
  ASSUME OthersTypeOK, NEW p \in Processes, runner[p].pc \in Queue!Executing
  PROVE  runner[p] \in Queue!Execution /\ Doing(p) \in Submissions
BY DEF OthersTypeOK, Runner, Queue!Idle, Queue!Polling, Queue!Execution,
       Queue!Executing, Doing

\* The part of ExecutionFits for a runner that compensates nothing.
Suited(r, at, table) ==
  /\ at # "refunding"
  /\ at \in {"refund", "done"} => r.pc = "settling"
  /\ at \notin {"none", "refund", "done"} => r.pc = "running"
  /\ r.pc \in {"completing", "verifying"} => table[r.job].status = "COMPLETED"
  /\ r.pc = "settling" /\ r.verdict \in Queue!Terminal
       => table[r.job].status = r.verdict

LEMMA RunnerMoves ==
  ASSUME GapInvariant, NEW p \in Processes, NEW r \in Runner, NEW at \in Stages,
         QuietAnalyses, QuietJobs,
         comp[p].pc = "none", Suited(r, at, job'),
         runner' = [runner EXCEPT ![p] = r], stage' = [stage EXCEPT ![p] = at],
         recovery' \in [Processes -> {NoRecovery} \cup Candidate],
         claimant' \in [Submissions -> Processes \cup {NoProcess}],
         expiries' \in [Submissions -> Nat], faults' \in 0 .. MaxFaults,
         UNCHANGED <<objects, outbox, holder, submission, deletion, ledger, counter,
                     marker, comp, refunds, stray>>
  PROVE  GapInvariant'
<1>1. RecordsTypeOK /\ OthersTypeOK
  BY TypesOfInvariant
<1>2. Quiet
  BY <1>1, UnchangedIsQuiet DEF Quiet
<1>3. /\ runner' \in [Processes -> Runner] /\ stage' \in [Processes -> Stages]
      /\ runner'[p] = r /\ stage'[p] = at
      /\ \A q \in Processes \ {p} : runner'[q] = runner[q] /\ stage'[q] = stage[q]
  BY <1>1 DEF OthersTypeOK
<1>4. OthersTypeOK'
  BY <1>1, <1>3 DEF OthersTypeOK
<1>5. ExecutionFits(p)'
  BY <1>3 DEF ExecutionFits, Suited, Doing
<1>6. \A q \in Processes :
        ExecutionFits(q)' \/ UNCHANGED <<runner[q], stage[q], comp[q]>>
  BY <1>3, <1>5
<1> QED
  BY <1>2, <1>4, <1>6, QuietStep

\* A runner whose execution is not at its refund compensates nothing.
LEMMA NothingCompensated ==
  ASSUME GapInvariant, NEW p \in Processes, stage[p] # "refunding"
  PROVE  comp[p].pc = "none"
BY DEF GapInvariant, ExecutionFits

\* The handler goes on, or ends without a result.
LEMMA HandlerMoves ==
  ASSUME GapInvariant, NEW p \in Processes, runner[p].pc = "running",
         stage[p] # "refunding",
         UNCHANGED OnlyExecution,
         \/ EndsCancelled(p) \/ EndsLeaseLost(p)
         \/ \E at \in Stages \ {"none", "refund", "refunding", "done"} :
              ContinuesAt(p, at)
  PROVE  GapInvariant'
<1>1. RecordsTypeOK /\ OthersTypeOK /\ comp[p].pc = "none"
  BY TypesOfInvariant, NothingCompensated
<1>2. /\ UNCHANGED <<analysis, objects, outbox, holder, submission, deletion,
                     recovery, job, claimant, expiries, ledger, counter, marker,
                     comp, refunds, stray, faults>>
  BY DEF OnlyExecution, records, requests, usageOnly, EndsCancelled, EndsLeaseLost,
         ContinuesAt, Queue!HandlerCancelled, Queue!ProgressFenced, queueOnly
<1>3. /\ QuietAnalyses /\ QuietJobs
      /\ recovery' \in [Processes -> {NoRecovery} \cup Candidate]
      /\ claimant' \in [Submissions -> Processes \cup {NoProcess}]
      /\ expiries' \in [Submissions -> Nat] /\ faults' \in 0 .. MaxFaults
  BY <1>1, <1>2, UnchangedIsQuiet DEF OthersTypeOK
<1>4. /\ runner[p] \in Queue!Execution
      /\ runner \in [Processes -> Runner]
  BY <1>1, Executes DEF Queue!Executing, OthersTypeOK
<1>5. PICK r \in Runner, at \in Stages :
        /\ runner' = [runner EXCEPT ![p] = r] /\ stage' = [stage EXCEPT ![p] = at]
        /\ Suited(r, at, job')
  <2>1. CASE EndsCancelled(p)
    <3> DEFINE r == [runner[p] EXCEPT !.pc = "cancelling"]
    <3>1. r \in Runner /\ r.pc = "cancelling"
      BY <1>4 DEF Runner, Queue!Execution, Queue!Executing
    <3>2. runner' = [runner EXCEPT ![p] = r] /\ stage' = [stage EXCEPT ![p] = "none"]
      BY <1>4, <2>1 DEF EndsCancelled, Queue!HandlerCancelled, Queue!Goto, Enter
    <3> HIDE DEF r
    <3> QED
      BY <3>1, <3>2 DEF Suited, Stages
  <2>2. CASE EndsLeaseLost(p)
    <3>1. Queue!Idle \in Runner /\ Queue!Idle.pc = "idle"
      BY DEF Runner, Queue!Idle
    <3>2. /\ runner' = [runner EXCEPT ![p] = Queue!Idle]
          /\ stage' = [stage EXCEPT ![p] = "none"]
      BY <2>2 DEF EndsLeaseLost, Queue!ProgressFenced, Queue!Return, Enter
    <3> QED
      BY <3>1, <3>2 DEF Suited, Stages
  <2>3. CASE \E at \in Stages \ {"none", "refund", "refunding", "done"} :
               ContinuesAt(p, at)
    <3>1. PICK at \in Stages \ {"none", "refund", "refunding", "done"} :
            stage' = [stage EXCEPT ![p] = at]
      BY <2>3 DEF ContinuesAt, Enter
    <3>2. runner' = [runner EXCEPT ![p] = runner[p]] /\ runner[p] \in Runner
      BY <1>4, <2>3 DEF ContinuesAt, queueOnly
    <3> QED
      BY <3>1, <3>2 DEF Suited
  <2> QED
    BY <2>1, <2>2, <2>3
<1> QED
  BY <1>1, <1>2, <1>3, <1>5, RunnerMoves

\* The statements of the handler that write no record.
LEMMA PipelineKeepsInvariant ==
  ASSUME GapInvariant, NEW p \in Processes,
         \/ Authorize(p) \/ Download(p) \/ ObserveRevocation(p) \/ PipelineFails(p)
  PROVE  GapInvariant'
<1>1. /\ runner[p].pc = "running" /\ stage[p] # "refunding"
      /\ UNCHANGED OnlyExecution
  BY DEF Authorize, Download, ObserveRevocation, PipelineFails, Running
<1>2. \/ EndsCancelled(p) \/ EndsLeaseLost(p)
      \/ \E at \in {"download", "extract", "recordRetryable", "recordFatal"} :
           ContinuesAt(p, at)
  BY DEF Authorize, Download, ObserveRevocation, PipelineFails
<1>3. {"download", "extract", "recordRetryable", "recordFatal"}
        \subseteq Stages \ {"none", "refund", "refunding", "done"}
  BY DEF Stages
<1> QED
  BY <1>1, <1>2, <1>3, HandlerMoves

LEMMA ClaimTakes ==
  ASSUME RecordsTypeOK, NEW p \in Processes, Claim(p)
  PROVE  \E j \in Submissions :
        /\ job[j].status \in Queue!Waiting
        /\ job' = [job EXCEPT ![j] =
             [job[j] EXCEPT !.status = "RUNNING", !.lockedBy = WorkerId[p],
                            !.attempts = job[j].attempts + 1, !.due = FALSE,
                            !.stale = FALSE]]
        /\ runner' = [runner EXCEPT ![p] =
             [pc |-> "running", job |-> j, attempt |-> job[j].attempts + 1,
              retryable |-> FALSE, verdict |-> "RUNNING"]]
        /\ claimant' = [claimant EXCEPT ![j] = p]
BY DEF Claim, Queue!ClaimNextJob, Queue!Claimable, RecordsTypeOK

LEMMA ClaimKeepsInvariant ==
  ASSUME GapInvariant, NEW p \in Processes, Claim(p)
  PROVE  GapInvariant'
<1>1. RecordsTypeOK /\ OthersTypeOK /\ ExecutionFits(p)
  BY TypesOfInvariant DEF GapInvariant
<1>2. comp[p].pc = "none"
  BY <1>1, NothingCompensated DEF Claim, Queue!ClaimNextJob, ExecutionFits
<1>3. UNCHANGED <<analysis, objects, outbox, holder, submission, deletion, recovery,
                  expiries, ledger, counter, marker, comp, refunds, stray, faults>>
  BY DEF Claim, Queue!ClaimNextJob, OnlyExecution, records, requests, usageOnly
<1>4. PICK j \in Submissions :
        /\ job[j].status \in Queue!Waiting
        /\ job' = [job EXCEPT ![j] =
             [job[j] EXCEPT !.status = "RUNNING", !.lockedBy = WorkerId[p],
                            !.attempts = job[j].attempts + 1, !.due = FALSE,
                            !.stale = FALSE]]
        /\ runner' = [runner EXCEPT ![p] =
             [pc |-> "running", job |-> j, attempt |-> job[j].attempts + 1,
              retryable |-> FALSE, verdict |-> "RUNNING"]]
        /\ claimant' = [claimant EXCEPT ![j] = p]
  BY <1>1, ClaimTakes
<1>5. job[j] \in Queue!JobRow /\ job[j].attempts + 1 \in Nat
  BY <1>1 DEF RecordsTypeOK, Queue!JobRow
<1>6. QuietJobs
  <2> DEFINE row == [job[j] EXCEPT !.status = "RUNNING", !.lockedBy = WorkerId[p],
                       !.attempts = job[j].attempts + 1, !.due = FALSE,
                       !.stale = FALSE]
  <2>1. row \in Queue!JobRow /\ row.status = "RUNNING"
    BY <1>5 DEF Queue!JobRow, Queue!JobStatus, Queue!WorkerIds
  <2>2. job[j].status \notin Queue!Terminal
    BY <1>4 DEF Queue!Waiting, Queue!Terminal
  <2>3. job[j].status # "ABSENT"
    BY <1>4 DEF Queue!Waiting
  <2> HIDE DEF row
  <2> QED
    BY <1>1, <1>4, <2>1, <2>2, <2>3, RowIsQuiet DEF row
<1>7. PICK r \in Runner :
        /\ runner' = [runner EXCEPT ![p] = r] /\ Suited(r, "authorize", job')
  <2> DEFINE r == [pc |-> "running", job |-> j, attempt |-> job[j].attempts + 1,
                   retryable |-> FALSE, verdict |-> "RUNNING"]
  <2>1. r \in Runner /\ r.pc = "running"
    BY <1>5 DEF Runner, Queue!Execution, Queue!Executing
  <2> HIDE DEF r
  <2> QED
    BY <1>4, <2>1 DEF Suited, r
<1>8. stage' = [stage EXCEPT ![p] = "authorize"] /\ "authorize" \in Stages
  BY DEF Claim, Enter, Stages
<1>9. /\ claimant' \in [Submissions -> Processes \cup {NoProcess}]
      /\ recovery' \in [Processes -> {NoRecovery} \cup Candidate]
      /\ expiries' \in [Submissions -> Nat] /\ faults' \in 0 .. MaxFaults
  BY <1>1, <1>3, <1>4 DEF OthersTypeOK
<1>10. QuietAnalyses
  BY <1>1, <1>3, UnchangedIsQuiet
<1> QED
  BY <1>2, <1>3, <1>6, <1>7, <1>8, <1>9, <1>10, RunnerMoves

\* A fenced status write of an execution.
LEMMA StatusTransactionIsQuiet ==
  ASSUME RecordsTypeOK, OthersTypeOK, NEW p \in Processes,
         runner[p].pc = "running", NEW status \in (Active \cup Concluded) \ {"COMPLETED"},
         StatusTransaction(p, status)
  PROVE  QuietAnalyses /\ QuietJobs
<1>1. Doing(p) \in Submissions
  BY Executes DEF Queue!Executing
<1> QED
  BY <1>1, StatusIsQuiet, StaleIsQuiet DEF StatusTransaction

LEMMA AdvanceKeepsInvariant ==
  ASSUME GapInvariant, NEW p \in Processes,
         Extract(p) \/ Analyze(p) \/ Complete(p)
  PROVE  GapInvariant'
<1>1. RecordsTypeOK /\ OthersTypeOK
  BY TypesOfInvariant
<1>2. PICK at \in {"extract", "analyze", "complete"},
           status \in {"EXTRACTING", "ANALYZING", "COMPLETING"},
           next \in {"analyze", "complete", "finalize"} : Advance(p, at, status, next)
  BY DEF Extract, Analyze, Complete
<1>3. /\ runner[p].pc = "running" /\ stage[p] # "refunding" /\ comp[p].pc = "none"
      /\ status \in (Active \cup Concluded) \ {"COMPLETED"} /\ next \in Stages
  BY <1>2, NothingCompensated DEF Advance, Running, Active, Concluded, Stages
<1>4. UNCHANGED <<objects, outbox, holder, submission, deletion, recovery, ledger,
                  counter, marker, comp, refunds, stray>>
  BY <1>2 DEF Advance, requests, usageOnly
<1>5. CASE StatusRefused(p)
  <2>1. /\ UNCHANGED OnlyExecution
        /\ EndsCancelled(p) \/ EndsLeaseLost(p)
    BY <1>2, <1>5 DEF Advance, StatusRefused, OnlyExecution, records
  <2> QED
    BY <1>3, <2>1, HandlerMoves
<1>6. CASE StatusTransaction(p, status) /\ Enter(p, next)
           /\ UNCHANGED <<runner, claimant, expiries, faults>>
  <2>1. QuietAnalyses /\ QuietJobs
    BY <1>1, <1>3, <1>6, StatusTransactionIsQuiet
  <2>2. runner[p] \in Runner /\ runner' = [runner EXCEPT ![p] = runner[p]]
    BY <1>1, <1>6 DEF OthersTypeOK
  <2>3. Suited(runner[p], next, job')
    BY <1>3 DEF Suited
  <2>4. /\ claimant' \in [Submissions -> Processes \cup {NoProcess}]
        /\ recovery' \in [Processes -> {NoRecovery} \cup Candidate]
        /\ expiries' \in [Submissions -> Nat] /\ faults' \in 0 .. MaxFaults
    BY <1>1, <1>4, <1>6 DEF OthersTypeOK
  <2>5. stage' = [stage EXCEPT ![p] = next]
    BY <1>6 DEF Enter
  <2> QED
    BY <1>3, <1>4, <2>1, <2>2, <2>3, <2>4, <2>5, RunnerMoves
<1> QED
  BY <1>2, <1>5, <1>6 DEF Advance

LEMMA RecordFailureKeepsInvariant ==
  ASSUME GapInvariant, NEW p \in Processes, RecordFailure(p)
  PROVE  GapInvariant'
<1>1. RecordsTypeOK /\ OthersTypeOK
  BY TypesOfInvariant
<1>2. PICK retryable \in BOOLEAN :
        /\ Running(p, IF retryable THEN "recordRetryable" ELSE "recordFatal")
        /\ \/ /\ StatusTransaction(p, "FAILED")
              /\ runner' = [runner EXCEPT ![p].pc = "failing",
                                          ![p].retryable = retryable]
              /\ Enter(p, "none")
              /\ UNCHANGED <<claimant, expiries, faults>>
           \/ StatusRefused(p)
        /\ UNCHANGED <<objects, outbox, holder, requests, recovery, usageOnly>>
  BY DEF RecordFailure
<1>3. /\ runner[p].pc = "running" /\ stage[p] # "refunding" /\ comp[p].pc = "none"
      /\ "FAILED" \in (Active \cup Concluded) \ {"COMPLETED"}
  BY <1>2, NothingCompensated DEF Running, Active, Concluded
<1>4. UNCHANGED <<objects, outbox, holder, submission, deletion, recovery, ledger,
                  counter, marker, comp, refunds, stray>>
  BY <1>2 DEF requests, usageOnly
<1>5. CASE StatusRefused(p)
  <2>1. /\ UNCHANGED OnlyExecution
        /\ EndsCancelled(p) \/ EndsLeaseLost(p)
    BY <1>2, <1>5 DEF StatusRefused, OnlyExecution, records
  <2> QED
    BY <1>3, <2>1, HandlerMoves
<1>6. CASE ~StatusRefused(p)
  <2>1. QuietAnalyses /\ QuietJobs
    BY <1>1, <1>2, <1>3, <1>6, StatusTransactionIsQuiet
  <2>2. PICK r \in Runner : /\ runner' = [runner EXCEPT ![p] = r]
                            /\ Suited(r, "none", job')
    <3> DEFINE r == [runner[p] EXCEPT !.pc = "failing", !.retryable = retryable]
    <3>1. runner[p] \in Queue!Execution
      BY <1>1, <1>3, Executes DEF Queue!Executing
    <3>2. r \in Runner /\ r.pc = "failing"
      BY <3>1 DEF Runner, Queue!Execution, Queue!Executing
    <3>3. runner' = [runner EXCEPT ![p] = r]
      BY <1>1, <1>2, <1>6 DEF OthersTypeOK
    <3> HIDE DEF r
    <3> QED
      BY <3>2, <3>3 DEF Suited
  <2>3. /\ claimant' \in [Submissions -> Processes \cup {NoProcess}]
        /\ recovery' \in [Processes -> {NoRecovery} \cup Candidate]
        /\ expiries' \in [Submissions -> Nat] /\ faults' \in 0 .. MaxFaults
    BY <1>1, <1>2, <1>4, <1>6 DEF OthersTypeOK
  <2>4. stage' = [stage EXCEPT ![p] = "none"] /\ "none" \in Stages
    BY <1>2, <1>6 DEF Enter, Stages
  <2> QED
    BY <1>3, <1>4, <2>1, <2>2, <2>3, <2>4, RunnerMoves
<1> QED
  BY <1>5, <1>6

-----------------------------------------------------------------------------
(* After the handler.                                                      *)

\* The fenced end of an execution that did not complete its job.
LEMMA EndingIsQuiet ==
  ASSUME RecordsTypeOK, OthersTypeOK, NEW p \in Processes,
         runner[p].pc \in Queue!Executing,
         NEW status \in {"RETRYING", "CANCELLED", "DEAD_LETTERED"},
         Queue!EndExecution(p, status)
  PROVE  /\ QuietJobs
         /\ \E r \in Runner : /\ runner' = [runner EXCEPT ![p] = r]
                              /\ Suited(r, "none", job')
<1>1. runner[p] \in Queue!Execution /\ Doing(p) \in Submissions
  BY Executes
<1>2. /\ job[Doing(p)].status = "RUNNING"
      /\ job' = [job EXCEPT ![Doing(p)] = Queue!Unlocked(job[Doing(p)], status)]
  BY <1>1 DEF Queue!EndExecution, Queue!LeaseHeld, Doing, RecordsTypeOK
<1>3. QuietJobs /\ job'[Doing(p)].status = status
  BY <1>1, <1>2, UnlockIsQuiet
     DEF Queue!Terminal, Queue!JobStatus, Queue!Waiting
<1> DEFINE r == [runner[p] EXCEPT !.pc = "settling", !.verdict = status]
<1>4. r \in Runner /\ r.pc = "settling" /\ r.verdict = status /\ r.job = Doing(p)
  BY <1>1 DEF Runner, Queue!Execution, Queue!Executing, Queue!Terminal, Doing
<1>5. runner' = [runner EXCEPT ![p] = r]
  BY <1>1 DEF Queue!EndExecution, OthersTypeOK
<1> HIDE DEF r
<1>6. Suited(r, "none", job')
  BY <1>3, <1>4 DEF Suited
<1> QED
  BY <1>3, <1>4, <1>5, <1>6

LEMMA RequeueIsQuiet ==
  ASSUME RecordsTypeOK, OthersTypeOK, NEW p \in Processes,
         Queue!RequeueStaleLocks(p)
  PROVE  QuietJobs /\ expiries' \in [Submissions -> Nat]
<1> DEFINE expired == {j \in Submissions : job[j].status = "RUNNING" /\ job[j].stale}
           Back(j) == [Queue!Unlocked(job[j], "RETRYING") EXCEPT !.due = TRUE]
<1>1. job' = [j \in Submissions |-> IF j \in expired THEN Back(j) ELSE job[j]]
  BY DEF Queue!RequeueStaleLocks
<1>2. \A j \in Submissions : /\ job[j] \in Queue!JobRow
                             /\ Back(j) \in Queue!JobRow /\ Back(j).status = "RETRYING"
  BY DEF RecordsTypeOK, Queue!Unlocked, Queue!JobRow, Queue!JobStatus, Queue!Waiting
<1>3. expiries' \in [Submissions -> Nat]
  BY DEF Queue!RequeueStaleLocks, OthersTypeOK
<1> HIDE DEF Back
<1> QED
  BY <1>1, <1>2, <1>3 DEF QuietJobs, Queue!Terminal

LEMMA RunnerStepKeepsInvariant ==
  ASSUME GapInvariant, NEW p \in Processes, RunnerStep(p)
  PROVE  GapInvariant'
<1>1. RecordsTypeOK /\ OthersTypeOK /\ ExecutionFits(p)
  BY TypesOfInvariant DEF GapInvariant
<1>2. UNCHANGED <<analysis, objects, outbox, holder, submission, deletion, stage,
                  recovery, claimant, ledger, counter, marker, comp, refunds, stray, faults>>
  BY DEF RunnerStep, records, requests, execution, usageOnly, Queue!MarkCompleted,
         Queue!VerifyCompletion, Queue!MarkCancelled, Queue!MarkFailed,
         Queue!RequeueStaleLocks, Queue!NothingToClaim
<1>3. /\ QuietAnalyses
      /\ claimant' \in [Submissions -> Processes \cup {NoProcess}]
      /\ recovery' \in [Processes -> {NoRecovery} \cup Candidate]
      /\ faults' \in 0 .. MaxFaults
  BY <1>1, <1>2, UnchangedIsQuiet DEF OthersTypeOK
<1>4. runner[p].pc \notin {"running", "settling"}
  BY DEF RunnerStep, Queue!MarkCompleted, Queue!VerifyCompletion,
         Queue!MarkCancelled, Queue!MarkFailed, Queue!RequeueStaleLocks,
         Queue!NothingToClaim
<1>5. stage[p] = "none" /\ comp[p].pc = "none"
  BY <1>1, <1>4 DEF ExecutionFits
<1>6. stage' = [stage EXCEPT ![p] = "none"] /\ "none" \in Stages
  BY <1>1, <1>2, <1>5 DEF OthersTypeOK, Stages
<1>7. /\ Queue!Idle \in Runner /\ Queue!Idle.pc = "idle"
      /\ Queue!Polling \in Runner /\ Queue!Polling.pc = "polling"
  BY DEF Runner, Queue!Idle, Queue!Polling
<1>8. ASSUME QuietJobs, expiries' \in [Submissions -> Nat],
             NEW r \in Runner, runner' = [runner EXCEPT ![p] = r],
             Suited(r, "none", job')
      PROVE  GapInvariant'
  BY <1>2, <1>3, <1>5, <1>6, <1>8, RunnerMoves
<1>9. UNCHANGED job => QuietJobs
  BY <1>1, UnchangedIsQuiet
<1>10. UNCHANGED expiries => expiries' \in [Submissions -> Nat]
  BY <1>1 DEF OthersTypeOK
<1>11. CASE Queue!MarkCompleted(p)
  <2>1. /\ runner[p].pc = "completing" /\ runner[p] \in Queue!Execution
        /\ job[Doing(p)].status = "COMPLETED"
    BY <1>1, <1>11, Executes DEF Queue!MarkCompleted, Queue!Executing, ExecutionFits
  <2>2. UNCHANGED <<job, expiries>> /\ Queue!Goto(p, "verifying")
    BY <1>11, <2>1 DEF Queue!MarkCompleted, Queue!EndExecution, Queue!Fenced,
                       Queue!LeaseHeld, Doing
  <2> DEFINE r == [runner[p] EXCEPT !.pc = "verifying"]
  <2>3. r \in Runner /\ r.pc = "verifying" /\ r.job = Doing(p)
    BY <2>1 DEF Runner, Queue!Execution, Queue!Executing, Doing
  <2>4. runner' = [runner EXCEPT ![p] = r]
    BY <1>1, <2>2 DEF Queue!Goto, OthersTypeOK
  <2> HIDE DEF r
  <2>5. Suited(r, "none", job')
    BY <2>1, <2>2, <2>3 DEF Suited
  <2> QED
    BY <1>8, <1>9, <1>10, <2>2, <2>3, <2>4, <2>5
<1>12. CASE Queue!VerifyCompletion(p)
  <2>1. /\ runner[p].pc = "verifying" /\ runner[p] \in Queue!Execution
        /\ job[Doing(p)].status = "COMPLETED"
        /\ UNCHANGED <<job, expiries>>
    BY <1>1, <1>12, Executes
       DEF Queue!VerifyCompletion, Queue!Executing, ExecutionFits
  <2> DEFINE r == [runner[p] EXCEPT !.pc = "settling", !.verdict = "COMPLETED"]
  <2>2. /\ r \in Runner /\ r.pc = "settling" /\ r.verdict = "COMPLETED"
        /\ r.job = Doing(p)
    BY <2>1 DEF Runner, Queue!Execution, Queue!Executing, Queue!Terminal, Doing
  <2>3. runner' = [runner EXCEPT ![p] = r] \/ runner' = [runner EXCEPT ![p] = Queue!Idle]
    BY <1>1, <1>12 DEF Queue!VerifyCompletion, Queue!Return, OthersTypeOK
  <2> HIDE DEF r
  <2>4. Suited(r, "none", job') /\ Suited(Queue!Idle, "none", job')
    BY <1>7, <2>1, <2>2 DEF Suited
  <2> QED
    BY <1>7, <1>8, <1>9, <1>10, <2>1, <2>2, <2>3, <2>4
<1>13. CASE Queue!MarkCancelled(p) \/ Queue!MarkFailed(p)
  <2>1. runner[p].pc \in Queue!Executing /\ UNCHANGED expiries
    BY <1>13 DEF Queue!MarkCancelled, Queue!MarkFailed, Queue!Executing
  <2>2. CASE \E status \in {"RETRYING", "CANCELLED", "DEAD_LETTERED"} :
               Queue!EndExecution(p, status)
    BY <1>1, <1>8, <1>10, <2>1, <2>2, EndingIsQuiet
  <2>3. CASE Queue!Fenced(p) /\ Queue!Return(p)
    BY <1>7, <1>8, <1>9, <1>10, <2>1, <2>3
       DEF Queue!Fenced, Queue!Return, Suited
  <2> QED
    BY <1>13, <2>2, <2>3 DEF Queue!MarkCancelled, Queue!MarkFailed
<1>14. CASE Queue!RequeueStaleLocks(p)
  <2>1. QuietJobs /\ expiries' \in [Submissions -> Nat]
    BY <1>1, <1>14, RequeueIsQuiet
  <2>2. runner' = [runner EXCEPT ![p] = Queue!Polling]
    BY <1>14 DEF Queue!RequeueStaleLocks
  <2> QED
    BY <1>7, <1>8, <2>1, <2>2 DEF Suited
<1>15. CASE Queue!NothingToClaim(p)
  BY <1>7, <1>8, <1>9, <1>10, <1>15 DEF Queue!NothingToClaim, Queue!Return, Suited
<1> QED
  BY <1>11, <1>12, <1>13, <1>14, <1>15 DEF RunnerStep

\* A runner goes on settling.
LEMMA SettlingMoves ==
  ASSUME GapInvariant, NEW p \in Processes,
         runner[p].pc = "settling", stage[p] # "refunding",
         NEW at \in {"refund", "done"}, Enter(p, at), QuietAnalyses,
         faults' \in 0 .. MaxFaults,
         UNCHANGED <<objects, outbox, holder, requests, recovery, queueOnly, usageOnly>>
  PROVE  GapInvariant'
<1>1. RecordsTypeOK /\ OthersTypeOK /\ ExecutionFits(p)
  BY TypesOfInvariant DEF GapInvariant
<1>2. UNCHANGED <<objects, outbox, holder, submission, deletion, recovery, job,
                  runner, claimant, expiries, ledger, counter, marker, comp, refunds, stray>>
  BY DEF requests, queueOnly, usageOnly
<1>3. /\ recovery' \in [Processes -> {NoRecovery} \cup Candidate]
      /\ claimant' \in [Submissions -> Processes \cup {NoProcess}]
      /\ expiries' \in [Submissions -> Nat] /\ QuietJobs
  BY <1>1, <1>2, UnchangedIsQuiet DEF OthersTypeOK
<1>4. runner[p] \in Runner /\ runner' = [runner EXCEPT ![p] = runner[p]]
  BY <1>1, <1>2 DEF OthersTypeOK
<1>5. Suited(runner[p], at, job')
  BY <1>1, <1>2 DEF Suited, ExecutionFits, Doing
<1>6. stage' = [stage EXCEPT ![p] = at] /\ at \in Stages /\ comp[p].pc = "none"
  BY NothingCompensated DEF Enter, Stages
<1> QED
  BY <1>2, <1>3, <1>4, <1>5, <1>6, RunnerMoves

LEMMA UpdateEntityKeepsInvariant ==
  ASSUME GapInvariant, NEW p \in Processes, UpdateEntity(p)
  PROVE  GapInvariant'
<1>1. RecordsTypeOK /\ OthersTypeOK
  BY TypesOfInvariant
<1>2. /\ runner[p].pc = "settling" /\ stage[p] = "none" /\ Doing(p) \in Submissions
  BY <1>1, Executes DEF UpdateEntity, Settling, Queue!Executing
<1>3. PICK at \in {"refund", "done"} : Enter(p, at)
  BY DEF UpdateEntity, AfterFailure
<1>4. QuietAnalyses
  <2>1. EntityStatus(runner[p].verdict) \in (Active \cup Concluded) \ {"COMPLETED"}
    BY DEF EntityStatus, Active, Concluded
  <2> QED
    BY <1>1, <1>2, <2>1, StatusIsQuiet, UnchangedIsQuiet DEF UpdateEntity
<1>5. /\ faults' \in 0 .. MaxFaults
      /\ UNCHANGED <<objects, outbox, holder, requests, recovery, queueOnly, usageOnly>>
  BY <1>1 DEF UpdateEntity, OthersTypeOK
<1> QED
  BY <1>2, <1>3, <1>4, <1>5, SettlingMoves

\* A refund begins or ends, or the runner dies in it: the process and its
\* compensation move.
LEMMA RefundMoves ==
  ASSUME GapInvariant, NEW p \in Processes, NEW r \in Runner, NEW at \in Stages,
         ExecutionFits(p)', CompensationFits(p)',
         runner' = [runner EXCEPT ![p] = r], stage' = [stage EXCEPT ![p] = at],
         recovery' \in [Processes -> {NoRecovery} \cup Candidate],
         comp' \in [Callers -> Compensation],
         \A d \in Callers \ {p} : comp'[d] = comp[d],
         \A d \in Callers : comp'[d].pc \notin Ended => comp'[d].key \in Identities,
         faults' \in 0 .. MaxFaults,
         UNCHANGED <<analysis, objects, outbox, holder, submission, deletion, job,
                     claimant, expiries, ledger, counter, marker, refunds, stray>>
  PROVE  GapInvariant'
<1>1. RecordsTypeOK /\ OthersTypeOK
  BY TypesOfInvariant
<1>2. Quiet
  BY <1>1, UnchangedIsQuiet DEF Quiet
<1>3. /\ runner' \in [Processes -> Runner] /\ stage' \in [Processes -> Stages]
      /\ \A q \in Processes \ {p} : runner'[q] = runner[q] /\ stage'[q] = stage[q]
  BY <1>1 DEF OthersTypeOK
<1>4. OthersTypeOK'
  BY <1>1, <1>3 DEF OthersTypeOK
<1>5. \A q \in Processes :
        ExecutionFits(q)' \/ UNCHANGED <<runner[q], stage[q], comp[q]>>
  BY <1>3 DEF Callers
<1>6. \A c \in Callers : CompensationFits(c)' \/ UNCHANGED comp[c]
  OBVIOUS
<1> QED
  BY <1>2, <1>4, <1>5, <1>6, QuietStep

\* A runner refunds the row of an analysis that exists.
LEMMA RefundedRow ==
  ASSUME GapInvariant, NEW p \in Processes, BeginRefund(p)
  PROVE  /\ Doing(p) \in Submissions /\ Exists(Doing(p))
         /\ Key(Doing(p)) \in Identities /\ holder[Key(Doing(p))] = Doing(p)
<1>1. OthersTypeOK /\ ExecutionFits(p)
  BY TypesOfInvariant DEF GapInvariant
<1>2. /\ runner[p].pc = "settling"
      /\ runner[p].verdict \in {"CANCELLED", "DEAD_LETTERED"}
  BY DEF BeginRefund, RefundDue, Settling
<1>3. Doing(p) \in Submissions
  BY <1>1, <1>2, Executes DEF Queue!Executing
<1>4. job[Doing(p)].status = runner[p].verdict
  BY <1>1, <1>2, <1>3 DEF ExecutionFits, Queue!Terminal
<1> QED
  BY <1>2, <1>3, <1>4, KeyOfAnalysis DEF GapInvariant, RowsHaveHolders

LEMMA BeginRefundKeepsInvariant ==
  ASSUME GapInvariant, NEW p \in Processes, BeginRefund(p)
  PROVE  GapInvariant'
<1>1. RecordsTypeOK /\ OthersTypeOK /\ ExecutionFits(p) /\ p \in Callers
  BY TypesOfInvariant DEF GapInvariant, Callers
<1>2. /\ runner[p].pc = "settling" /\ stage[p] # "refunding"
      /\ runner[p].verdict \in {"CANCELLED", "DEAD_LETTERED"}
  BY DEF BeginRefund, RefundDue, Settling
<1>3. PICK s \in Submissions : s = Doing(p)
  BY <1>1, <1>2, Executes DEF Queue!Executing
<1>4. job[s].status = runner[p].verdict
  BY <1>1, <1>2, <1>3 DEF ExecutionFits, Queue!Terminal
<1>5. Exists(s) /\ Key(s) \in Identities /\ holder[Key(s)] = s
  BY <1>3, RefundedRow
<1>6. /\ Usage!BeginCompensation(p, Key(s)) /\ Enter(p, "refunding")
      /\ UNCHANGED <<records, requests, recovery, queueOnly, stray>>
  BY <1>3, <1>5 DEF BeginRefund
<1>7. ledger[Key(s)] # "ABSENT"
  BY <1>5, GapAssumption DEF GapInvariant, RowsHaveHolders
<1>8. /\ comp' \in [Callers -> Compensation]
      /\ comp'[p].key = Key(s) /\ comp'[p].pc \notin {"none", "false"}
      /\ \A d \in Callers \ {p} : comp'[d] = comp[d]
      /\ \A d \in Callers : comp'[d].pc \notin Ended => comp'[d].key \in Identities
      /\ UNCHANGED <<ledger, counter, marker, refunds, stray, faults>>
  BY <1>1, <1>5, <1>6, <1>7, CompensationBegins
<1>9. /\ UNCHANGED <<analysis, objects, outbox, holder, submission, deletion,
                     recovery, job, runner, claimant, expiries>>
  BY <1>6 DEF records, requests, queueOnly
<1>10. /\ runner[p] \in Runner /\ runner' = [runner EXCEPT ![p] = runner[p]]
       /\ stage' = [stage EXCEPT ![p] = "refunding"] /\ "refunding" \in Stages
       /\ stage'[p] = "refunding"
       /\ recovery' \in [Processes -> {NoRecovery} \cup Candidate]
       /\ faults' \in 0 .. MaxFaults
  BY <1>1, <1>6, <1>8, <1>9 DEF OthersTypeOK, Enter, Stages
<1>11. CompensationFits(p)'
  BY <1>7, <1>8 DEF CompensationFits
<1>12. ExecutionFits(p)'
  <2>1. Key(s) # None
    BY <1>5, GapAssumption
  <2> QED
    BY <1>2, <1>3, <1>4, <1>5, <1>8, <1>9, <1>10, <2>1 DEF ExecutionFits, Doing
<1> QED
  BY <1>8, <1>9, <1>10, <1>11, <1>12, RefundMoves

LEMMA EndRefundKeepsInvariant ==
  ASSUME GapInvariant, NEW p \in Processes, EndRefund(p)
  PROVE  GapInvariant'
<1>1. RecordsTypeOK /\ OthersTypeOK /\ ExecutionFits(p) /\ p \in Callers
  BY TypesOfInvariant DEF GapInvariant, Callers
<1>2. UNCHANGED <<analysis, objects, outbox, holder, submission, deletion,
                  recovery, job, runner, claimant, expiries, ledger, counter,
                  marker, refunds, stray, faults>>
  BY DEF EndRefund, records, requests, queueOnly, Usage!EndCompensation
<1>3. /\ comp' \in [Callers -> Compensation]
      /\ comp'[p].pc = "none" /\ CompensationFits(p)'
      /\ \A d \in Callers \ {p} : comp'[d] = comp[d]
      /\ \A d \in Callers : comp'[d].pc \notin Ended => comp'[d].key \in Identities
  BY <1>1, CompensationEnds DEF EndRefund, Usage!EndCompensation
<1>4. /\ runner[p] \in Runner /\ runner' = [runner EXCEPT ![p] = runner[p]]
      /\ stage' = [stage EXCEPT ![p] = "done"] /\ "done" \in Stages
      /\ stage'[p] = "done"
      /\ recovery' \in [Processes -> {NoRecovery} \cup Candidate]
      /\ faults' \in 0 .. MaxFaults
  BY <1>1, <1>2 DEF OthersTypeOK, EndRefund, Enter, Stages
<1>5. ExecutionFits(p)'
  BY <1>1, <1>2, <1>3, <1>4 DEF EndRefund, ExecutionFits, Doing
<1> QED
  BY <1>2, <1>3, <1>4, <1>5, RefundMoves

LEMMA RunnerCrashKeepsInvariant ==
  ASSUME GapInvariant, NEW p \in Processes, RunnerCrashes(p)
  PROVE  GapInvariant'
<1>1. RecordsTypeOK /\ OthersTypeOK /\ p \in Callers
  BY TypesOfInvariant DEF Callers
<1>2. UNCHANGED <<analysis, objects, outbox, holder, submission, deletion, job,
                  claimant, expiries, ledger, counter, marker, refunds, stray>>
  BY DEF RunnerCrashes, records, requests, Queue!Crash
<1>3. /\ comp' \in [Callers -> Compensation]
      /\ comp'[p].pc = "none" /\ CompensationFits(p)'
      /\ \A d \in Callers \ {p} : comp'[d] = comp[d]
      /\ \A d \in Callers : comp'[d].pc \notin Ended => comp'[d].key \in Identities
  BY <1>1, CompensationEnds DEF RunnerCrashes
<1>4. /\ Queue!Idle \in Runner /\ Queue!Idle.pc = "idle"
      /\ runner' = [runner EXCEPT ![p] = Queue!Idle]
      /\ stage' = [stage EXCEPT ![p] = "none"] /\ "none" \in Stages
      /\ stage'[p] = "none" /\ runner'[p] = Queue!Idle
      /\ recovery' \in [Processes -> {NoRecovery} \cup Candidate]
  BY <1>1
     DEF OthersTypeOK, RunnerCrashes, Queue!Crash, Queue!Return, Queue!Idle,
         Runner, Stages
<1>5. faults' \in 0 .. MaxFaults
  BY <1>1, QueueFaultType DEF RunnerCrashes, Queue!Crash
<1>6. ExecutionFits(p)'
  BY <1>3, <1>4 DEF ExecutionFits
<1> QED
  BY <1>2, <1>3, <1>4, <1>5, <1>6, RefundMoves

\* The tick ends, or a statement of the runner or the handler fails.
LEMMA RunnerEndsKeepsInvariant ==
  ASSUME GapInvariant, NEW p \in Processes,
         FinishTick(p) \/ CompletionFails(p) \/ StatusWriteFails(p)
  PROVE  GapInvariant'
<1>1. RecordsTypeOK /\ OthersTypeOK /\ ExecutionFits(p)
  BY TypesOfInvariant DEF GapInvariant
<1>2. UNCHANGED <<analysis, objects, outbox, holder, submission, deletion, recovery,
                  claimant, expiries, ledger, counter, marker, comp, refunds, stray>>
  BY DEF FinishTick, CompletionFails, StatusWriteFails, OnlyExecution, records,
         requests, execution, usageOnly, Queue!FinishTick, Queue!CompletionFails
<1>3. faults' \in 0 .. MaxFaults
  BY <1>1, FaultType, QueueFaultType
     DEF FinishTick, CompletionFails, StatusWriteFails, Queue!FinishTick,
         Queue!CompletionFails, OthersTypeOK
<1>4. /\ runner[p].pc \in Queue!Executing /\ stage[p] # "refunding"
  BY <1>1
     DEF FinishTick, CompletionFails, StatusWriteFails, Settling, Running,
         Queue!CompletionFails, Queue!Executing, ExecutionFits
<1>5. runner[p] \in Queue!Execution /\ Doing(p) \in Submissions /\ comp[p].pc = "none"
  BY <1>1, <1>4, Executes, NothingCompensated
<1>6. UNCHANGED job
  BY <1>1, <1>5
     DEF FinishTick, CompletionFails, StatusWriteFails, Queue!FinishTick,
         Queue!CompletionFails, Queue!LeaseHeld, ExecutionFits, Doing
<1>7. /\ QuietAnalyses /\ QuietJobs
      /\ recovery' \in [Processes -> {NoRecovery} \cup Candidate]
      /\ claimant' \in [Submissions -> Processes \cup {NoProcess}]
      /\ expiries' \in [Submissions -> Nat]
  BY <1>1, <1>2, <1>6, UnchangedIsQuiet DEF OthersTypeOK
<1>8. CASE FinishTick(p)
  <2>1. /\ Queue!Idle \in Runner /\ Queue!Idle.pc = "idle"
        /\ runner' = [runner EXCEPT ![p] = Queue!Idle]
        /\ stage' = [stage EXCEPT ![p] = "none"] /\ "none" \in Stages
    BY <1>8 DEF FinishTick, Queue!FinishTick, Queue!Return, Enter, Queue!Idle,
                Runner, Stages
  <2> QED
    BY <1>2, <1>3, <1>5, <1>7, <2>1, RunnerMoves DEF Suited
<1>9. CASE \E retryable \in BOOLEAN :
             /\ runner' = [runner EXCEPT ![p].pc = "failing",
                                         ![p].retryable = retryable]
             /\ stage' = [stage EXCEPT ![p] = "none"]
  <2>1. PICK retryable \in BOOLEAN :
             /\ runner' = [runner EXCEPT ![p].pc = "failing",
                                         ![p].retryable = retryable]
             /\ stage' = [stage EXCEPT ![p] = "none"]
    BY <1>9
  <2> DEFINE r == [runner[p] EXCEPT !.pc = "failing", !.retryable = retryable]
  <2>2. r \in Runner /\ r.pc = "failing"
    BY <1>5 DEF Runner, Queue!Execution, Queue!Executing
  <2>3. runner' = [runner EXCEPT ![p] = r]
    BY <1>1, <2>1 DEF OthersTypeOK
  <2> HIDE DEF r
  <2>4. Suited(r, "none", job') /\ "none" \in Stages
    BY <2>2 DEF Suited, Stages
  <2> QED
    BY <1>2, <1>3, <1>5, <1>7, <2>1, <2>2, <2>3, <2>4, RunnerMoves
<1>10. CASE CompletionFails(p)
  <2>1. stage[p] = "none" /\ UNCHANGED stage
    BY <1>1, <1>10
       DEF CompletionFails, Queue!CompletionFails, ExecutionFits, execution
  <2>2. stage' = [stage EXCEPT ![p] = "none"]
    BY <1>1, <2>1 DEF OthersTypeOK
  <2> QED
    BY <1>9, <1>10, <2>2 DEF CompletionFails, Queue!CompletionFails
<1>11. CASE StatusWriteFails(p) /\ UNCHANGED runner
  <2>1. PICK at \in {"analyze", "complete", "finalize", "refund", "done"} :
          /\ Enter(p, at)
          /\ at \in {"refund", "done"} => runner[p].pc = "settling"
          /\ at \notin {"refund", "done"} => runner[p].pc = "running"
    <3>1. \/ /\ runner[p].pc = "running"
             /\ \E step \in {<<"extract", "analyze">>, <<"analyze", "complete">>,
                             <<"complete", "finalize">>} : Enter(p, step[2])
          \/ \E retryable \in BOOLEAN :
               /\ runner[p].pc = "running"
               /\ runner' = [runner EXCEPT ![p].pc = "failing",
                                           ![p].retryable = retryable]
          \/ runner[p].pc = "settling" /\ Enter(p, AfterFailure(p))
      BY <1>11 DEF StatusWriteFails, Settling, Running
    <3>2. ASSUME NEW retryable \in BOOLEAN, runner[p].pc = "running",
                 runner' = [runner EXCEPT ![p].pc = "failing",
                                          ![p].retryable = retryable]
          PROVE  FALSE
      <4>1. runner'[p].pc = "failing"
        BY <1>1, <1>5, <3>2 DEF OthersTypeOK, Queue!Execution
      <4> QED
        BY <1>11, <3>2, <4>1
    <3>3. AfterFailure(p) \in {"refund", "done"}
      BY DEF AfterFailure
    <3> QED
      BY <3>1, <3>2, <3>3
  <2>2. runner[p] \in Runner /\ runner' = [runner EXCEPT ![p] = runner[p]]
    BY <1>1, <1>11 DEF OthersTypeOK
  <2>3. Suited(runner[p], at, job')
    BY <1>1, <1>6, <2>1 DEF Suited, ExecutionFits, Doing
  <2>4. stage' = [stage EXCEPT ![p] = at] /\ at \in Stages
    BY <2>1 DEF Enter, Stages
  <2> QED
    BY <1>2, <1>3, <1>5, <1>7, <2>2, <2>3, <2>4, RunnerMoves
<1> QED
  BY <1>8, <1>9, <1>10, <1>11 DEF StatusWriteFails, Enter

-----------------------------------------------------------------------------
(* Recovering.                                                             *)

LEMMA RecoveryKeepsInvariant ==
  ASSUME GapInvariant, NEW p \in Processes, ReadForRecovery(p) \/ Recover(p)
  PROVE  GapInvariant'
<1>1. RecordsTypeOK /\ OthersTypeOK
  BY TypesOfInvariant
<1>2. UNCHANGED <<objects, outbox, holder, submission, deletion, stage, job, runner,
                  claimant, expiries, ledger, counter, marker, comp, refunds, stray, faults>>
  BY DEF ReadForRecovery, Recover, records, requests, queueOnly, usageOnly
<1>3. CASE ReadForRecovery(p)
  <2>1. PICK s \in Submissions :
          /\ Abandoned(s)
          /\ recovery' = [recovery EXCEPT ![p] =
               [of   |-> s,
                was  |-> analysis[s].status,
                next |-> IF job[s].status = "CANCELLED" THEN "CANCELLED" ELSE "FAILED"]]
    BY <1>3 DEF ReadForRecovery
  <2>2. [of   |-> s, was  |-> analysis[s].status,
         next |-> IF job[s].status = "CANCELLED" THEN "CANCELLED" ELSE "FAILED"]
          \in Candidate
    BY <2>1 DEF Abandoned, Live, Candidate
  <2>3. recovery' \in [Processes -> {NoRecovery} \cup Candidate]
    BY <1>1, <2>1, <2>2 DEF OthersTypeOK
  <2>4. UNCHANGED analysis
    BY <1>3 DEF ReadForRecovery, records
  <2>5. Quiet
    BY <1>1, <1>2, <2>4, UnchangedIsQuiet DEF Quiet
  <2>6. OthersTypeOK'
    BY <1>1, <1>2, <2>3 DEF OthersTypeOK
  <2> QED
    BY <1>2, <2>5, <2>6, QuietStep
<1>4. CASE Recover(p)
  <2>1. recovery[p] \in Candidate
    BY <1>1, <1>4 DEF Recover, OthersTypeOK
  <2>2. /\ recovery[p].of \in Submissions
        /\ recovery[p].next \in (Active \cup Concluded) \ {"COMPLETED"}
    BY <2>1 DEF Candidate, Active, Concluded
  <2>3. QuietAnalyses
    BY <1>1, <1>4, <2>2, StatusIsQuiet, UnchangedIsQuiet DEF Recover
  <2>4. recovery' \in [Processes -> {NoRecovery} \cup Candidate]
    BY <1>1, <1>4 DEF Recover, OthersTypeOK
  <2>5. Quiet
    BY <1>1, <1>2, <2>3, UnchangedIsQuiet DEF Quiet
  <2>6. OthersTypeOK'
    BY <1>1, <1>2, <2>4 DEF OthersTypeOK
  <2> QED
    BY <1>2, <2>5, <2>6, QuietStep
<1> QED
  BY <1>3, <1>4

-----------------------------------------------------------------------------
(* The result.                                                             *)

\* The final transaction is the only step that completes and settles: for one
\* analysis that is still active, under a lease that is still held.
LEMMA ResultStep ==
  ASSUME GapInvariant, NEW p \in Processes,
         runner[p].pc = "running", stage[p] = "finalize", FinalTransaction(p),
         NEW r \in Runner, NEW at \in Stages, Suited(r, at, job'),
         runner' = [runner EXCEPT ![p] = r], stage' = [stage EXCEPT ![p] = at],
         faults' \in 0 .. MaxFaults,
         UNCHANGED <<objects, outbox, holder, submission, deletion, recovery,
                     claimant, expiries, counter, marker, comp, refunds, stray>>
  PROVE  GapInvariant'
<1>1. RecordsTypeOK /\ OthersTypeOK /\ comp[p].pc = "none"
  BY TypesOfInvariant, NothingCompensated
<1>2. PICK s \in Submissions : s = Doing(p)
  BY <1>1, Executes DEF Queue!Executing
<1>3. /\ Live(s) /\ Exists(s) /\ job[s].status = "RUNNING"
      /\ SetStatus(s, "COMPLETED")
      /\ job' = [job EXCEPT ![s] = Queue!Unlocked(job[s], "COMPLETED")]
  BY <1>1, <1>2
     DEF FinalTransaction, Queue!LeaseHeld, Doing, Live, Exists, Active, RecordsTypeOK
<1>4. Key(s) \in Identities /\ holder[Key(s)] = s
  BY <1>3, KeyOfAnalysis DEF GapInvariant, RowsHaveHolders
<1>5. ledger' = Usage!Settled(Key(s))
  BY <1>2, <1>4 DEF FinalTransaction
<1>6. /\ analysis' \in [Submissions -> AnalysisRow]
      /\ analysis'[s].status = "COMPLETED"
      /\ \A t \in Submissions \ {s} : analysis'[t] = analysis[t]
  BY <1>1, <1>3 DEF SetStatus, RecordsTypeOK, AnalysisRow, Concluded
<1>7. /\ job' \in [Submissions -> Queue!JobRow]
      /\ job'[s].status = "COMPLETED"
      /\ \A t \in Submissions \ {s} : job'[t] = job[t]
  <2>1. /\ Queue!Unlocked(job[s], "COMPLETED") \in Queue!JobRow
        /\ Queue!Unlocked(job[s], "COMPLETED").status = "COMPLETED"
    BY <1>1, UnlockedRow DEF RecordsTypeOK, Queue!JobStatus, Queue!Terminal
  <2> QED
    BY <1>1, <1>3, <2>1 DEF RecordsTypeOK
<1>8. /\ ledger' \in [Identities -> Usage!LedgerState]
      /\ ledger'[Key(s)] # "RESERVED"
      /\ \A k \in Identities : ledger'[k] = "ABSENT" <=> ledger[k] = "ABSENT"
      /\ \A k \in Identities \ {Key(s)} : ledger'[k] = ledger[k]
  BY <1>1, <1>4, <1>5 DEF Usage!Settled, RecordsTypeOK, Usage!LedgerState
<1>9. /\ runner' \in [Processes -> Runner] /\ stage' \in [Processes -> Stages]
      /\ runner'[p] = r /\ stage'[p] = at
      /\ \A q \in Processes \ {p} : runner'[q] = runner[q] /\ stage'[q] = stage[q]
  BY <1>1 DEF OthersTypeOK
<1>10. RecordsTypeOK' /\ OthersTypeOK'
  BY <1>1, <1>6, <1>7, <1>8, <1>9 DEF RecordsTypeOK, OthersTypeOK
<1>11. GapTypeOK'
  BY <1>10, TypesSplit, PTL
<1>12. Onward
  BY <1>3, <1>6, <1>7, <1>8 DEF Onward, Queue!Terminal
<1>13. RowsHaveHolders'
  BY <1>3, <1>6, <1>7, <1>8 DEF GapInvariant, RowsHaveHolders, Exists, Key
<1>14. ResultIsAtomic'
  <2> SUFFICES ASSUME NEW t \in Submissions
               PROVE  /\ analysis'[t].status = "COMPLETED" =>
                           /\ job'[t].status = "COMPLETED"
                           /\ ledger'[Key(t)] # "RESERVED"
                      /\ job'[t].status = "COMPLETED" =>
                           analysis'[t].status \in {"COMPLETED", "CANCELLED"}
    BY DEF ResultIsAtomic, Key
  <2>1. CASE t = s
    BY <1>6, <1>7, <1>8, <2>1
  <2>2. CASE t # s
    <3>1. analysis[t].status = "COMPLETED" => Key(t) \in Identities /\ Key(t) # Key(s)
      BY <1>4, <2>2, KeyOfAnalysis DEF GapInvariant, RowsHaveHolders, Exists
    <3> QED
      BY <1>6, <1>7, <1>8, <2>2, <3>1 DEF GapInvariant, ResultIsAtomic
  <2> QED
    BY <2>1, <2>2
<1>15. SettledMeansCompleted'
  <2> SUFFICES ASSUME NEW k \in Identities, ledger'[k] = "SETTLED"
               PROVE  job'[holder[k]].status = "COMPLETED"
    BY DEF SettledMeansCompleted
  <2>1. CASE k = Key(s)
    BY <1>4, <1>7, <2>1
  <2>2. CASE k # Key(s)
    <3>1. ledger[k] = "SETTLED" /\ holder[k] \in Submissions
      BY <1>1, <1>8, <2>2 DEF GapInvariant, RowsHaveHolders, RecordsTypeOK
    <3> QED
      BY <1>7, <3>1 DEF GapInvariant, SettledMeansCompleted
  <2> QED
    BY <2>1, <2>2
<1>16. \A t \in Submissions : RequestFits(t)'
  <2>1. \A t \in Submissions : Exists(t)' <=> Exists(t)
    BY <1>3, <1>6 DEF Exists
  <2> QED
    BY <2>1, RequestStillFits DEF GapInvariant
<1>17. /\ \A d \in Deletions : DeletionFits(d)'
       /\ \A c \in Callers : CompensationFits(c)'
  BY <1>1, <1>12, DeletionStillFits, CompensationStillFits DEF GapInvariant, Callers
<1>18. \A q \in Processes : ExecutionFits(q)'
  <2>1. ExecutionFits(p)'
    BY <1>1, <1>9 DEF ExecutionFits, Suited, Doing
  <2>2. \A q \in Processes \ {p} : ExecutionFits(q)'
    BY <1>1, <1>9, <1>12, ExecutionStillFits DEF GapInvariant
  <2> QED
    BY <2>1, <2>2
<1> QED
  BY <1>11, <1>13, <1>14, <1>15, <1>16, <1>17, <1>18 DEF GapInvariant, Callers

LEMMA FinalizeKeepsInvariant ==
  ASSUME GapInvariant, NEW p \in Processes, Finalize(p) \/ FinalReplyLost(p)
  PROVE  GapInvariant'
<1>1. /\ RecordsTypeOK /\ OthersTypeOK
      /\ runner[p].pc = "running" /\ stage[p] = "finalize"
  BY TypesOfInvariant DEF Finalize, FinalReplyLost, Running
<1>2. runner[p] \in Queue!Execution /\ Doing(p) \in Submissions
  BY <1>1, Executes DEF Queue!Executing
<1>3. CASE FinalReplyLost(p)
  <2>1. UNCHANGED <<objects, outbox, holder, submission, deletion, recovery, runner,
                    claimant, expiries, counter, marker, comp, refunds, stray>>
    BY <1>3 DEF FinalReplyLost, requests
  <2>2. /\ runner[p] \in Runner /\ runner' = [runner EXCEPT ![p] = runner[p]]
        /\ stage' = [stage EXCEPT ![p] = "recordRetryable"]
        /\ "recordRetryable" \in Stages
    BY <1>1, <1>3, <2>1 DEF OthersTypeOK, FinalReplyLost, Enter, Stages
  <2>3. Suited(runner[p], "recordRetryable", job')
    BY <1>1 DEF Suited
  <2>4. FinalTransaction(p) /\ faults' \in 0 .. MaxFaults
    BY <1>1, <1>3, FaultType DEF FinalReplyLost
  <2> QED
    BY <1>1, <2>1, <2>2, <2>3, <2>4, ResultStep
<1>4. CASE Finalize(p) /\ FinalTransaction(p)
  <2>1. CASE Queue!Goto(p, "completing") /\ Enter(p, "none")
             /\ UNCHANGED <<claimant, expiries, faults>>
    <3>1. UNCHANGED <<objects, outbox, holder, submission, deletion, recovery,
                      claimant, expiries, counter, marker, comp, refunds, stray>>
      BY <1>4, <2>1 DEF Finalize, requests
    <3> DEFINE r == [runner[p] EXCEPT !.pc = "completing"]
    <3>2. r \in Runner /\ r.pc = "completing" /\ r.job = Doing(p)
      BY <1>2 DEF Runner, Queue!Execution, Queue!Executing, Doing
    <3>3. /\ runner' = [runner EXCEPT ![p] = r]
          /\ stage' = [stage EXCEPT ![p] = "none"] /\ "none" \in Stages
          /\ faults' \in 0 .. MaxFaults
      BY <1>1, <2>1 DEF OthersTypeOK, Queue!Goto, Enter, Stages
    <3>4. job'[Doing(p)].status = "COMPLETED"
      <4>1. job' = [job EXCEPT ![Doing(p)] = Queue!Unlocked(job[Doing(p)], "COMPLETED")]
        BY <1>1, <1>2, <1>4 DEF FinalTransaction, RecordsTypeOK
      <4>2. Queue!Unlocked(job[Doing(p)], "COMPLETED").status = "COMPLETED"
        BY <1>1, <1>2, UnlockedRow
           DEF RecordsTypeOK, Queue!JobStatus, Queue!Terminal
      <4> QED
        BY <1>1, <1>2, <4>1, <4>2 DEF RecordsTypeOK
    <3> HIDE DEF r
    <3>5. Suited(r, "none", job')
      BY <3>2, <3>4 DEF Suited
    <3> QED
      BY <1>1, <1>4, <3>1, <3>2, <3>3, <3>5, ResultStep
  <2>2. CASE StatusRefused(p)
    BY <1>4, <2>2 DEF FinalTransaction, StatusRefused
  <2> QED
    BY <1>4, <2>1, <2>2 DEF Finalize
<1>5. CASE Finalize(p) /\ ~FinalTransaction(p)
  <2>1. /\ UNCHANGED OnlyExecution
        /\ EndsCancelled(p) \/ EndsLeaseLost(p)
    BY <1>5 DEF Finalize, StatusRefused, OnlyExecution, records, usageOnly
  <2> QED
    BY <1>1, <2>1, HandlerMoves
<1> QED
  BY <1>3, <1>4, <1>5

-----------------------------------------------------------------------------
(* The theorems.                                                           *)

LEMMA GapInitially == Init => GapInvariant
<1> SUFFICES ASSUME Init PROVE GapInvariant
  OBVIOUS
<1> USE GapAssumption DEF Init
<1>1. RecordsTypeOK
  BY DEF RecordsTypeOK, AnalysisRow, Request, SubmissionStep, Queue!QueueInit,
         Queue!AbsentRow, Queue!JobRow, Queue!JobStatus, Usage!UsageInit,
         Usage!LedgerState
<1>2. OthersTypeOK
  BY DEF OthersTypeOK, Stages, Runner, Queue!QueueInit, Usage!UsageInit, Callers,
         Compensation, Ended, Usage!NoCompensation, Usage!CompStep, Strays
<1>3. GapTypeOK
  BY <1>1, <1>2, TypesSplit
<1>4. /\ RowsHaveHolders /\ ResultIsAtomic /\ SettledMeansCompleted
  BY DEF RowsHaveHolders, ResultIsAtomic, SettledMeansCompleted, Exists,
         Queue!QueueInit, Queue!AbsentRow, Usage!UsageInit
<1>5. /\ \A s \in Submissions : RequestFits(s)
      /\ \A d \in Deletions : DeletionFits(d)
  BY DEF RequestFits, Recorded, Exists, DeletionFits
<1>6. /\ \A p \in Processes : ExecutionFits(p)
      /\ \A c \in Submissions \cup Processes : CompensationFits(c)
  BY DEF ExecutionFits, CompensationFits, Queue!QueueInit, Queue!Idle,
         Usage!UsageInit, Usage!NoCompensation
<1> QED
  BY <1>3, <1>4, <1>5, <1>6 DEF GapInvariant

LEMMA StutteringKeepsInvariant ==
  ASSUME GapInvariant, UNCHANGED vars
  PROVE  GapInvariant'
<1>1. UNCHANGED <<analysis, objects, outbox, holder, submission, deletion, stage,
                  recovery, job, runner, claimant, expiries, ledger, counter, marker,
                  comp, refunds, stray, faults>>
  BY DEF vars, records, requests, execution, queueOnly, usageOnly
<1>2. RecordsTypeOK /\ OthersTypeOK
  BY TypesOfInvariant
<1>3. Quiet
  BY <1>1, <1>2, UnchangedIsQuiet DEF Quiet
<1>4. OthersTypeOK'
  BY <1>1, <1>2 DEF OthersTypeOK
<1> QED
  BY <1>1, <1>3, <1>4, QuietStep

LEMMA GapStepKeepsInvariant ==
  ASSUME GapInvariant, [Next]_vars
  PROVE  GapInvariant'
<1>1. ASSUME NEW s \in Submissions, SubmissionProceeds(s) PROVE GapInvariant'
  BY <1>1, DedupeKeepsInvariant, ChargingKeepsInvariant, CreateKeepsInvariant,
     StoringKeepsInvariant, CompensateKeepsInvariant DEF SubmissionProceeds
<1>2. ASSUME NEW s \in Submissions, AnalysisAges(s) \/ QueueTime(s)
      PROVE  GapInvariant'
  BY <1>2, TimeKeepsInvariant
<1>3. ASSUME NEW d \in Deletions, ReadForDeletion(d) \/ DeletionStep(d)
      PROVE  GapInvariant'
  BY <1>3, DeletionKeepsInvariant
<1>4. ASSUME NEW c \in Submissions \cup Processes, Compensating(c)
      PROVE  GapInvariant'
  BY <1>4, CompensatingKeepsInvariant DEF Callers
<1>5. ASSUME NEW p \in Processes, ExecutionStep(p) PROVE GapInvariant'
  BY <1>5, ClaimKeepsInvariant, PipelineKeepsInvariant, AdvanceKeepsInvariant,
     FinalizeKeepsInvariant, RecordFailureKeepsInvariant, RunnerStepKeepsInvariant,
     UpdateEntityKeepsInvariant, BeginRefundKeepsInvariant, EndRefundKeepsInvariant,
     RunnerEndsKeepsInvariant, RecoveryKeepsInvariant DEF ExecutionStep
<1>6. ASSUME NEW p \in Processes,
             \/ ReadForRecovery(p) \/ ObserveRevocation(p) \/ PipelineFails(p)
             \/ Heartbeat(p)
      PROVE  GapInvariant'
  BY <1>6, RecoveryKeepsInvariant, PipelineKeepsInvariant, TimeKeepsInvariant
<1>7. ASSUME FaultStep PROVE GapInvariant'
  <2>1. CASE RequestCrashes
    BY <2>1, RequestCrashKeepsInvariant
  <2>2. ASSUME NEW s \in Submissions,
               \/ QueueFault(s) \/ SubmissionStatementFails(s)
               \/ SubmissionReplyLost(s) \/ SubmissionStorageFails(s)
               \/ ChargeFails(s) \/ GivingBackFails(s)
        PROVE  GapInvariant'
    BY <2>2, TimeKeepsInvariant, SubmissionFaultsKeepInvariant,
       UpdateReplyLostKeepsInvariant, CreateKeepsInvariant, CounterFaultsKeepInvariant
  <2>3. ASSUME NEW c \in Submissions \cup Processes, CompensationFails(c)
        PROVE  GapInvariant'
    BY <2>3, CompensatingKeepsInvariant DEF Callers
  <2>4. ASSUME NEW p \in Processes,
               \/ RunnerCrashes(p) \/ CompletionFails(p)
               \/ StatusWriteFails(p) \/ FinalReplyLost(p)
        PROVE  GapInvariant'
    BY <2>4, RunnerCrashKeepsInvariant, RunnerEndsKeepsInvariant,
       FinalizeKeepsInvariant
  <2> QED
    BY <1>7, <2>1, <2>2, <2>3, <2>4 DEF FaultStep
<1>8. CASE UNCHANGED vars
  BY <1>8, StutteringKeepsInvariant
<1> QED
  BY <1>1, <1>2, <1>3, <1>4, <1>5, <1>6, <1>7, <1>8 DEF Next

\* The life cycle's invariant, for any number of requests, deletions, runners,
\* identities, units and faults (runGapAnalysis, executeGapAnalysisPipeline,
\* deleteGapAnalysis and recoverAbandonedGapAnalyses together).
THEOREM GapInvariantHolds == Spec => []GapInvariant
<1>1. Init => GapInvariant
  BY GapInitially
<1>2. GapInvariant /\ [Next]_vars => GapInvariant'
  BY GapStepKeepsInvariant
<1> QED
  BY <1>1, <1>2, PTL DEF Spec

\* The result, the end of the job and the settlement of the quota appear
\* together: finalizeGapAnalysisAttempt against every delayed or fenced worker.
THEOREM ResultAppearsAtOnce == Spec => []ResultIsAtomic
<1>1. GapInvariant => ResultIsAtomic
  BY DEF GapInvariant
<1> QED
  BY <1>1, GapInvariantHolds, PTL

LEMMA RefundsOnlyFailures == GapInvariant => WorkerRefundsOnlyFailures
<1> SUFFICES ASSUME GapInvariant, NEW p \in Processes,
                    comp[p].pc \in {"trial", "unlimited", "claim", "refund", "release"}
             PROVE  /\ job[Doing(p)].status \in {"CANCELLED", "DEAD_LETTERED"}
                    /\ ledger[comp[p].key] # "SETTLED"
  BY DEF WorkerRefundsOnlyFailures
<1>1. OthersTypeOK /\ ExecutionFits(p)
  BY TypesOfInvariant DEF GapInvariant
<1>2. comp[p].key \in Identities
  BY <1>1 DEF OthersTypeOK, Ended, Usage!Results, Callers
<1>3. stage[p] = "refunding" /\ runner[p].pc = "settling"
  BY <1>1 DEF ExecutionFits
<1>4. /\ runner[p].verdict \in {"CANCELLED", "DEAD_LETTERED"}
      /\ job[Doing(p)].status = runner[p].verdict
      /\ holder[comp[p].key] = Doing(p)
  BY <1>1, <1>3 DEF ExecutionFits, Queue!Terminal
<1>5. ledger[comp[p].key] # "SETTLED"
  BY <1>2, <1>4 DEF GapInvariant, SettledMeansCompleted
<1> QED
  BY <1>4, <1>5

\* A runner gives quota back only for an execution that ended without a result
\* and can never get one (refundGapAnalysisUsage after a fenced transition).
THEOREM RunnersRefundOnlyFailures == Spec => []WorkerRefundsOnlyFailures
BY GapInvariantHolds, RefundsOnlyFailures, PTL

LEMMA HolderIsOne == GapInvariant => OneLiveExecution
<1> SUFFICES ASSUME GapInvariant, NEW s \in Submissions, NEW t \in Submissions,
                    s # t, Key(s) = Key(t),
                    analysis[s].status \in Active \cup {"COMPLETED"},
                    analysis[t].status \in Active \cup {"COMPLETED"}
             PROVE  FALSE
  BY DEF OneLiveExecution
<1>1. Exists(s) /\ Exists(t)
  BY DEF Exists, Active
<1>2. holder[Key(s)] = s /\ holder[Key(t)] = t
  BY <1>1 DEF GapInvariant, RowsHaveHolders
<1> QED
  BY <1>2

\* Two requests for the same execution never both get one, however their
\* look-ups, inserts and failures interleave (runGapAnalysis and its P2002).
THEOREM ExecutionsAreUnique == Spec => []OneLiveExecution
BY GapInvariantHolds, HolderIsOne, PTL

-----------------------------------------------------------------------------
(* No resurrection.                                                        *)

\* A step writes at most one analysis: the status of one that is open or is
\* being created, CANCELLED, or flags only.
WritesOpen ==
  \/ UNCHANGED analysis
  \/ \E s \in Submissions, status \in Active \cup Concluded :
       /\ SetStatus(s, status)
       /\ \/ analysis[s].status \in Active
          \/ analysis[s].status # "ABSENT" /\ status = "CANCELLED"
          \/ analysis[s].status = "ABSENT" /\ submission[s].pc = "create"
  \/ \E s \in Submissions, row \in AnalysisRow :
       /\ row.status = analysis[s].status
       /\ analysis' = [analysis EXCEPT ![s] = row]

LEMMA OpenWritesResurrectNothing ==
  ASSUME RecordsTypeOK, WritesOpen, NEW s \in Submissions,
         analysis[s].status \in {"FAILED", "CANCELLED"}
  PROVE  analysis'[s].status \in {analysis[s].status, "CANCELLED"}
<1>1. CASE UNCHANGED analysis
  BY <1>1
<1>2. ASSUME NEW t \in Submissions, NEW status \in Active \cup Concluded,
             SetStatus(t, status),
             \/ analysis[t].status \in Active
             \/ analysis[t].status # "ABSENT" /\ status = "CANCELLED"
             \/ analysis[t].status = "ABSENT" /\ submission[t].pc = "create"
      PROVE  analysis'[s].status \in {analysis[s].status, "CANCELLED"}
  <2>1. /\ analysis'[t].status = status
        /\ t # s => analysis'[s] = analysis[s]
    BY <1>2 DEF SetStatus, RecordsTypeOK, AnalysisRow
  <2>2. t = s => status = "CANCELLED"
    BY <1>2 DEF Active
  <2> QED
    BY <2>1, <2>2
<1>3. ASSUME NEW t \in Submissions, NEW row \in AnalysisRow,
             row.status = analysis[t].status,
             analysis' = [analysis EXCEPT ![t] = row]
      PROVE  analysis'[s].status = analysis[s].status
  BY <1>3 DEF RecordsTypeOK
<1> QED
  BY <1>1, <1>2, <1>3 DEF WritesOpen

LEMMA RequestsWriteOpen ==
  ASSUME GapInvariant, NEW s \in Submissions,
         SubmissionProceeds(s) \/ SubmissionReplyLost(s)
  PROVE  WritesOpen
<1>1. RecordsTypeOK
  BY TypesOfInvariant
<1>2. \/ UNCHANGED analysis
      \/ At(s, "create") /\ SetStatus(s, "UPLOADING")
      \/ SetReference(s)
      \/ Live(s) /\ \E status \in {"QUEUED", "FAILED"} : SetStatus(s, status)
  BY DEF SubmissionProceeds, Dedupe, ResolveUsage, ReserveUnits, UndoOverLimit,
         CreateRecord, ResolveConflict, RollbackReused, Upload, PersistReference,
         EnqueueJob, Publish, Cleanup, MarkSubmissionFailed, Compensate,
         FinishCompensation, RollbackFailed, CounterStep, SubmissionReplyLost,
         Inserted, StillUploading, records, Live, Active
<1>3. CASE At(s, "create") /\ SetStatus(s, "UPLOADING")
  <2>1. analysis[s].status = "ABSENT"
    BY <1>3 DEF At, GapInvariant, RequestFits, Unrecorded, Exists
  <2> QED
    BY <1>3, <2>1 DEF WritesOpen, Active, At
<1>4. CASE SetReference(s)
  <2> DEFINE row == [analysis[s] EXCEPT !.doc = TRUE, !.aged = FALSE]
  <2>1. row \in AnalysisRow /\ row.status = analysis[s].status
    BY <1>1 DEF RecordsTypeOK, AnalysisRow
  <2>2. analysis' = [analysis EXCEPT ![s] = row]
    BY <1>1, <1>4 DEF SetReference, RecordsTypeOK
  <2> HIDE DEF row
  <2> QED
    BY <2>1, <2>2 DEF WritesOpen
<1>5. CASE Live(s) /\ \E status \in {"QUEUED", "FAILED"} : SetStatus(s, status)
  BY <1>5 DEF WritesOpen, Live, Active, Concluded
<1> QED
  BY <1>2, <1>3, <1>4, <1>5 DEF WritesOpen

LEMMA DeletionsWriteOpen ==
  ASSUME GapInvariant, NEW d \in Deletions, ReadForDeletion(d) \/ DeletionStep(d)
  PROVE  WritesOpen
<1>1. RecordsTypeOK
  BY TypesOfInvariant
<1>2. CASE UNCHANGED analysis
  BY <1>2 DEF WritesOpen
<1>3. CASE RevokeAnalysis(d) \/ PublishDeletion(d)
  <2>1. DeletionFits(d) /\ OthersTypeOK
    BY TypesOfInvariant DEF GapInvariant
  <2>2. PICK s \in Submissions : s = deletion[d].of /\ Exists(s)
    BY <1>3, <2>1
       DEF DeletionFits, RevokeAnalysis, PublishDeletion, DeletionAt, OthersTypeOK
  <2>3. CASE RevokeAnalysis(d)
    BY <2>2, <2>3 DEF RevokeAnalysis, WritesOpen, Concluded, Exists
  <2>4. CASE PublishDeletion(d)
    <3> DEFINE row == [analysis[s] EXCEPT !.deleted = TRUE, !.aged = FALSE]
    <3>1. row \in AnalysisRow /\ row.status = analysis[s].status
      BY <1>1 DEF RecordsTypeOK, AnalysisRow
    <3>2. analysis' = [analysis EXCEPT ![s] = row]
      BY <1>1, <2>2, <2>4 DEF PublishDeletion, RecordsTypeOK
    <3> HIDE DEF row
    <3> QED
      BY <3>1, <3>2 DEF WritesOpen
  <2> QED
    BY <1>3, <2>3, <2>4
<1> QED
  BY <1>2, <1>3 DEF ReadForDeletion, DeletionStep, CancelJobs, records

LEMMA RunnersWriteOpen ==
  ASSUME GapInvariant, NEW p \in Processes,
         \/ ExecutionStep(p) \/ ReadForRecovery(p) \/ ObserveRevocation(p)
         \/ PipelineFails(p) \/ Heartbeat(p) \/ RunnerCrashes(p)
         \/ CompletionFails(p) \/ StatusWriteFails(p) \/ FinalReplyLost(p)
  PROVE  WritesOpen
<1>1. OthersTypeOK
  BY TypesOfInvariant
<1>2. CASE UNCHANGED analysis
  BY <1>2 DEF WritesOpen
<1>3. ASSUME NEW s \in Submissions, Live(s),
             NEW status \in Active \cup Concluded, SetStatus(s, status)
      PROVE  WritesOpen
  BY <1>3 DEF WritesOpen, Live
<1>4. ASSUME runner[p].pc \in {"running", "settling"}
      PROVE  Doing(p) \in Submissions
  BY <1>1, <1>4, Executes DEF Queue!Executing
<1>5. CASE \/ Extract(p) \/ Analyze(p) \/ Complete(p) \/ Finalize(p)
           \/ RecordFailure(p) \/ FinalReplyLost(p)
  <2>1. Doing(p) \in Submissions
    BY <1>4, <1>5
       DEF Extract, Analyze, Complete, Advance, Finalize, RecordFailure,
           FinalReplyLost, Running
  <2>2. \/ UNCHANGED analysis
        \/ Live(Doing(p)) /\ \E status \in Active \cup Concluded :
                               SetStatus(Doing(p), status)
    BY <1>5
       DEF Extract, Analyze, Complete, Advance, Finalize, RecordFailure,
           FinalReplyLost, StatusTransaction, FinalTransaction, StatusRefused,
           Active, Concluded
  <2> QED
    BY <1>2, <1>3, <2>1, <2>2
<1>6. CASE UpdateEntity(p)
  <2>1. Doing(p) \in Submissions
    BY <1>4, <1>6 DEF UpdateEntity, Settling
  <2>2. EntityStatus(runner[p].verdict) \in Active \cup Concluded
    BY DEF EntityStatus, Active, Concluded
  <2> QED
    BY <1>2, <1>3, <1>6, <2>1, <2>2 DEF UpdateEntity
<1>7. CASE Recover(p)
  <2>1. recovery[p] \in Candidate
    BY <1>1, <1>7 DEF Recover, OthersTypeOK
  <2>2. recovery[p].of \in Submissions /\ recovery[p].next \in Active \cup Concluded
    BY <2>1 DEF Candidate, Concluded
  <2> QED
    BY <1>2, <1>3, <1>7, <2>2 DEF Recover
<1>8. \/ UNCHANGED analysis
      \/ \/ Extract(p) \/ Analyze(p) \/ Complete(p) \/ Finalize(p)
         \/ RecordFailure(p) \/ FinalReplyLost(p)
      \/ UpdateEntity(p) \/ Recover(p)
  BY DEF ExecutionStep, Claim, Authorize, Download, RunnerStep, BeginRefund,
         EndRefund, FinishTick, ReadForRecovery, ObserveRevocation, PipelineFails,
         Heartbeat, RunnerCrashes, CompletionFails, StatusWriteFails,
         OnlyExecution, records
<1> QED
  BY <1>2, <1>5, <1>6, <1>7, <1>8

LEMMA StepsWriteOpen ==
  ASSUME GapInvariant, [Next]_vars
  PROVE  WritesOpen
<1>1. ASSUME NEW s \in Submissions, AnalysisAges(s) PROVE WritesOpen
  <2> DEFINE row == [analysis[s] EXCEPT !.aged = TRUE]
  <2>1. analysis \in [Submissions -> AnalysisRow]
    BY TypesOfInvariant DEF RecordsTypeOK
  <2>2. row \in AnalysisRow /\ row.status = analysis[s].status
    BY <2>1 DEF AnalysisRow
  <2>3. analysis' = [analysis EXCEPT ![s] = row]
    BY <1>1, <2>1 DEF AnalysisAges
  <2> HIDE DEF row
  <2> QED
    BY <2>2, <2>3 DEF WritesOpen
<1>2. UNCHANGED analysis => WritesOpen
  BY DEF WritesOpen
<1>3. ASSUME FaultStep PROVE WritesOpen
  <2>1. \/ UNCHANGED analysis
        \/ \E s \in Submissions : SubmissionReplyLost(s)
        \/ \E p \in Processes : \/ RunnerCrashes(p) \/ CompletionFails(p)
                                \/ StatusWriteFails(p) \/ FinalReplyLost(p)
    BY <1>3
       DEF FaultStep, RequestCrashes, QueueFault, SubmissionStatementFails,
           SubmissionStorageFails, ChargeFails, GivingBackFails, CompensationFails,
           records
  <2> QED
    BY <1>2, <2>1, RequestsWriteOpen, RunnersWriteOpen
<1>4. ASSUME NEW s \in Submissions, QueueTime(s) PROVE UNCHANGED analysis
  BY <1>4 DEF QueueTime, records
<1>5. ASSUME NEW c \in Submissions \cup Processes, Compensating(c)
      PROVE  UNCHANGED analysis
  BY <1>5 DEF Compensating, records
<1>6. UNCHANGED vars => UNCHANGED analysis
  BY DEF vars, records
<1> QED
  BY <1>1, <1>2, <1>3, <1>4, <1>5, <1>6, RequestsWriteOpen, DeletionsWriteOpen,
     RunnersWriteOpen DEF Next

\* Only the insert makes an analysis exist, and nothing makes it vanish.
LEMMA AnalysesStay ==
  ASSUME RecordsTypeOK, WritesOpen, NEW t \in Submissions, submission[t].pc # "create"
  PROVE  analysis'[t].status = "ABSENT" <=> analysis[t].status = "ABSENT"
<1>1. CASE UNCHANGED analysis
  BY <1>1
<1>2. ASSUME NEW s \in Submissions, NEW status \in Active \cup Concluded,
             SetStatus(s, status),
             \/ analysis[s].status \in Active
             \/ analysis[s].status # "ABSENT" /\ status = "CANCELLED"
             \/ analysis[s].status = "ABSENT" /\ submission[s].pc = "create"
      PROVE  analysis'[t].status = "ABSENT" <=> analysis[t].status = "ABSENT"
  <2>1. /\ analysis'[s].status = status
        /\ t # s => analysis'[t] = analysis[t]
    BY <1>2 DEF SetStatus, RecordsTypeOK, AnalysisRow
  <2> QED
    BY <1>2, <2>1 DEF Active, Concluded
<1>3. ASSUME NEW s \in Submissions, NEW row \in AnalysisRow,
             row.status = analysis[s].status,
             analysis' = [analysis EXCEPT ![s] = row]
      PROVE  analysis'[t].status = analysis[t].status
  BY <1>3 DEF RecordsTypeOK
<1> QED
  BY <1>1, <1>2, <1>3 DEF WritesOpen

\* A failed or cancelled analysis stays so: no delayed status write, retry,
\* recovery or finalization of any runner brings it back.
THEOREM NothingIsResurrected == Spec => NoResurrection
<1> DEFINE Stays ==
      \A s \in Submissions :
        analysis[s].status \in {"FAILED", "CANCELLED"}
          => analysis'[s].status \in {analysis[s].status, "CANCELLED"}
<1>1. GapInvariant /\ [Next]_vars => Stays
  BY StepsWriteOpen, OpenWritesResurrectNothing, TypesOfInvariant
<1>2. GapInvariant /\ [Next]_vars => [Stays]_vars
  BY <1>1
<1> QED
  BY <1>2, GapInvariantHolds, PTL DEF Spec, NoResurrection

-----------------------------------------------------------------------------
(* The quota.  Held and Owed are what the counter has to cover: the units  *)
(* of the rows that were not given back, and those charged for a request   *)
(* that has no row yet.  A step moves one row or one request at most.      *)

HeldRows(x) == {k \in Identities : Scope[k] = x /\ Usage!Holds(k)}

Held(x)     == Cardinality(Usage!UnitsHeld(x))
Owed(x)     == Cardinality(UnitsOf(Owing(x)))
Starting(x) == Cardinality(UnitsOf(Creating(x)))

LEMMA QuotaByNumbers ==
  /\ QuotaIsCovered <=> \A x \in Paid : counter[x] + stray[x] >= Held(x) + Owed(x)
  /\ HeldWithinLimit <=> \A x \in Paid : Held(x) + Starting(x) <= Limit[x] + stray[x]
BY DEF QuotaIsCovered, HeldWithinLimit, Held, Owed, Starting

LEMMA HeldMoves ==
  ASSUME NEW x, NEW k \in Identities,
         \A i \in Identities \ {k} : Usage!Holds(i)' <=> Usage!Holds(i)
  PROVE  /\ Held(x) \in Nat /\ Held(x)' \in Nat
         /\ Scope[k] # x \/ (Usage!Holds(k)' <=> Usage!Holds(k)) => Held(x)' = Held(x)
         /\ Scope[k] = x /\ Usage!Holds(k)' /\ ~Usage!Holds(k)
              => Held(x)' = Held(x) + Units[k]
         /\ Scope[k] = x /\ ~Usage!Holds(k)' /\ Usage!Holds(k)
              => Held(x)' = Held(x) - Units[k]
<1>1. /\ Held(x) = Cardinality(Counted(HeldRows(x), Units))
      /\ Held(x)' = Cardinality(Counted(HeldRows(x)', Units))
  BY DEF Held, Usage!UnitsHeld, Counted, HeldRows
<1>2. /\ HeldRows(x) \in SUBSET Identities /\ HeldRows(x)' \in SUBSET Identities
      /\ HeldRows(x) \ {k} = HeldRows(x)' \ {k}
  BY DEF HeldRows
<1>3. /\ IsFiniteSet(HeldRows(x))
      /\ \A y \in HeldRows(x) \cup HeldRows(x)' : Units[y] \in Nat
  BY <1>2, GapAssumption, FS_Subset
<1>4. /\ k \in HeldRows(x) <=> Scope[k] = x /\ Usage!Holds(k)
      /\ k \in HeldRows(x)' <=> Scope[k] = x /\ Usage!Holds(k)'
  BY DEF HeldRows
<1> QED
  BY <1>1, <1>2, <1>3, <1>4, CountedMoves

\* Requests that owe have asked for an identity.
OwingFits(x) ==
  /\ Creating(x) \in SUBSET Owing(x)
  /\ \A t \in Owing(x) : t \in Submissions /\ Key(t) \in Identities

OwersHaveKeys == \A x \in Paid : OwingFits(x)

LEMMA OwingHasKeys == GapInvariant => OwersHaveKeys
<1> SUFFICES ASSUME GapInvariant, NEW x \in Paid PROVE OwingFits(x)
  BY DEF OwersHaveKeys
<1>1. \A t \in Owing(x) : t \in Submissions /\ Key(t) \in Identities
  BY KeyOfRequest DEF Owing, Owes
<1>2. Creating(x) \in SUBSET Owing(x)
  BY DEF Creating, Owing, Owes, At
<1> QED
  BY <1>1, <1>2 DEF OwingFits

LEMMA StartingIsOwed ==
  ASSUME NEW x, OwingFits(x)
  PROVE  /\ Owed(x) \in Nat /\ Starting(x) \in Nat /\ Starting(x) <= Owed(x)
<1> DEFINE u == [t \in Submissions |-> Units[Key(t)]]
<1>1. /\ Owed(x) = Cardinality(Counted(Owing(x), u))
      /\ Starting(x) = Cardinality(Counted(Creating(x), u))
  BY DEF Owed, Starting, UnitsOf, Counted, OwingFits
<1>2. /\ IsFiniteSet(Owing(x)) /\ IsFiniteSet(Creating(x))
      /\ \A t \in Owing(x) : u[t] \in Nat
      /\ \A t \in Creating(x) : u[t] \in Nat
      /\ Creating(x) \in SUBSET Owing(x)
  BY GapAssumption, FS_Subset DEF OwingFits
<1> HIDE DEF u
<1> QED
  BY <1>1, <1>2, CountedFinite, CountedSubset

LEMMA OwedMoves ==
  ASSUME NEW x, OwingFits(x), OwingFits(x)', NEW s \in Submissions,
         \A t \in Submissions : Key(t)' = Key(t) \/ t \notin Owing(x) \cup Owing(x)',
         \A t \in Submissions \ {s} : t \in Owing(x)' <=> t \in Owing(x),
         \A t \in Submissions \ {s} : t \in Creating(x)' <=> t \in Creating(x)
  PROVE  /\ (s \in Owing(x)' <=> s \in Owing(x)) => Owed(x)' = Owed(x)
         /\ s \in Owing(x)' /\ s \notin Owing(x) => Owed(x)' = Owed(x) + Units[Key(s)]
         /\ s \in Owing(x) /\ s \notin Owing(x)' => Owed(x)' = Owed(x) - Units[Key(s)]
         /\ (s \in Creating(x)' <=> s \in Creating(x)) => Starting(x)' = Starting(x)
         /\ s \in Creating(x) /\ s \notin Creating(x)'
              => Starting(x)' = Starting(x) - Units[Key(s)]
<1> DEFINE u == [t \in Submissions |-> Units[Key(t)]]
<1>0. /\ Creating(x) \in SUBSET Owing(x) /\ Creating(x)' \in SUBSET Owing(x)'
      /\ Owing(x) \in SUBSET Submissions /\ Owing(x)' \in SUBSET Submissions
      /\ \A t \in Owing(x) : Key(t) \in Identities
      /\ \A t \in Owing(x)' : Key(t)' = Key(t) /\ Key(t) \in Identities
  BY DEF OwingFits
<1>1. /\ Owed(x) = Cardinality(Counted(Owing(x), u))
      /\ Starting(x) = Cardinality(Counted(Creating(x), u))
  BY <1>0 DEF Owed, Starting, UnitsOf, Counted
<1>2. /\ Owed(x)' = Cardinality(Counted(Owing(x)', u))
      /\ Starting(x)' = Cardinality(Counted(Creating(x)', u))
  BY <1>0 DEF Owed, Starting, UnitsOf, Counted
<1>3. /\ IsFiniteSet(Owing(x)) /\ IsFiniteSet(Creating(x))
      /\ \A t \in Owing(x) \cup Owing(x)' : u[t] \in Nat
      /\ \A t \in Creating(x) \cup Creating(x)' : u[t] \in Nat
  BY <1>0, GapAssumption, FS_Subset
<1>4. /\ Owing(x) \ {s} = Owing(x)' \ {s}
      /\ Creating(x) \ {s} = Creating(x)' \ {s}
  BY <1>0
<1>5. u[s] = Units[Key(s)]
  OBVIOUS
<1> HIDE DEF u
<1> QED
  BY <1>1, <1>2, <1>3, <1>4, <1>5, CountedMoves

LEMMA CounterValues ==
  ASSUME counter \in Counters, NEW k \in Identities, NEW x \in Paid
  PROVE  /\ counter[x] \in Int /\ Units[k] \in Nat /\ Limit[x] \in Nat
         /\ Usage!Charged(k)[x] = IF Scope[k] = x THEN counter[x] + Units[k]
                                                  ELSE counter[x]
         /\ Usage!Uncharged(k)[x] = IF Scope[k] = x THEN counter[x] - Units[k]
                                                    ELSE counter[x]
         /\ Scope[k] = x => Usage!Refunded(k)[x] =
                              IF counter[x] > Units[k] THEN counter[x] - Units[k] ELSE 0
         /\ Scope[k] # x => Usage!Refunded(k)[x] = counter[x]
<1>1. /\ counter[x] \in Int /\ Units[k] \in Nat /\ Limit[x] \in Nat
      /\ Scope[k] \in {"REDIS", "TRIAL", "UNLIMITED"}
  BY GapAssumption DEF Counters, Paid
<1>2. /\ Usage!Charged(k)[x] = IF Scope[k] = x THEN counter[x] + Units[k]
                                                ELSE counter[x]
      /\ Usage!Uncharged(k)[x] = IF Scope[k] = x THEN counter[x] - Units[k]
                                                  ELSE counter[x]
  BY <1>1 DEF Usage!Charged, Usage!Uncharged, Counters, Paid
<1>3. /\ Scope[k] = x => Usage!Refunded(k)[x] =
                              IF counter[x] > Units[k] THEN counter[x] - Units[k] ELSE 0
      /\ Scope[k] # x => Usage!Refunded(k)[x] = counter[x]
  BY <1>1 DEF Usage!Refunded, Counters, Paid
<1> QED
  BY <1>1, <1>2, <1>3

LEMMA OwesStays ==
  ASSUME RecordsTypeOK, WritesOpen, NEW t \in Submissions,
         submission'[t] = submission[t]
  PROVE  /\ Owes(t)' <=> Owes(t)
         /\ Key(t)' = Key(t)
         /\ At(t, "create")' <=> At(t, "create")
BY AnalysesStay DEF Owes, Key, At

\* Most steps leave every number alone.
LEMMA QuotaStays ==
  ASSUME QuotaInvariant, WritesOpen, UNCHANGED <<counter, stray, submission>>,
         \A k \in Identities : Usage!Holds(k)' <=> Usage!Holds(k)
  PROVE  QuotaIsCovered' /\ HeldWithinLimit'
<1>1. \A t \in Submissions : /\ Owes(t)' <=> Owes(t)
                             /\ Key(t)' = Key(t)
                             /\ At(t, "create")' <=> At(t, "create")
  BY TypesOfInvariant, OwesStays DEF QuotaInvariant
<1>2. \A x : /\ Owing(x)' = Owing(x) /\ Creating(x)' = Creating(x)
             /\ Usage!UnitsHeld(x)' = Usage!UnitsHeld(x)
  BY <1>1 DEF Owing, Creating, Usage!UnitsHeld
<1>3. \A x : /\ UnitsOf(Owing(x))' = UnitsOf(Owing(x))
             /\ UnitsOf(Creating(x))' = UnitsOf(Creating(x))
  <2>1. \A x : Owing(x) \in SUBSET Submissions /\ Creating(x) \in SUBSET Submissions
    BY DEF Owing, Creating
  <2> QED
    BY <1>1, <1>2, <2>1 DEF UnitsOf
<1> QED
  BY <1>2, <1>3 DEF QuotaInvariant, QuotaIsCovered, HeldWithinLimit

\* What is known of the numbers when one request moves.
LEMMA RequestNumbers ==
  ASSUME QuotaInvariant, GapInvariant', WritesOpen, NEW s \in Submissions,
         submission[s].pc # "new", submission'[s].key = submission[s].key,
         \A t \in Submissions \ {s} : submission'[t] = submission[t],
         NEW x \in Paid
  PROVE  /\ Key(s) \in Identities /\ counter \in Counters
         /\ counter[x] \in Int /\ Units[Key(s)] \in Nat /\ Limit[x] \in Nat
         /\ Owed(x) \in Nat /\ Starting(x) \in Nat /\ Owed(x)' \in Nat
         /\ Starting(x)' \in Nat /\ Starting(x)' <= Owed(x)'
         /\ (Owes(s)' <=> Owes(s)) \/ Scope[Key(s)] # x => Owed(x)' = Owed(x)
         /\ Scope[Key(s)] = x /\ Owes(s)' /\ ~Owes(s)
              => Owed(x)' = Owed(x) + Units[Key(s)]
         /\ Scope[Key(s)] = x /\ Owes(s) /\ ~Owes(s)'
              => Owed(x)' = Owed(x) - Units[Key(s)]
         /\ (At(s, "create")' <=> At(s, "create")) \/ Scope[Key(s)] # x
              => Starting(x)' = Starting(x)
         /\ Scope[Key(s)] = x /\ At(s, "create") /\ ~At(s, "create")'
              => Starting(x)' = Starting(x) - Units[Key(s)]
<1>1. OwingFits(x) /\ OwingFits(x)'
  <2>1. OwersHaveKeys'
    BY OwingHasKeys, PTL
  <2> QED
    BY <2>1, OwingHasKeys DEF QuotaInvariant, OwersHaveKeys
<1>2. \A t \in Submissions \ {s} : /\ Owes(t)' <=> Owes(t)
                                   /\ At(t, "create")' <=> At(t, "create")
                                   /\ Key(t)' = Key(t)
  BY TypesOfInvariant, OwesStays DEF QuotaInvariant
<1>3. Key(s)' = Key(s)
  BY DEF Key
<1>4. \A t \in Submissions \ {s} : /\ t \in Owing(x)' <=> t \in Owing(x)
                                   /\ t \in Creating(x)' <=> t \in Creating(x)
  BY <1>2 DEF Owing, Creating
<1>5. /\ s \in Owing(x) <=> Owes(s) /\ Scope[Key(s)] = x
      /\ s \in Owing(x)' <=> Owes(s)' /\ Scope[Key(s)] = x
      /\ s \in Creating(x) <=> At(s, "create") /\ Scope[Key(s)] = x
      /\ s \in Creating(x)' <=> At(s, "create")' /\ Scope[Key(s)] = x
  BY <1>3 DEF Owing, Creating
<1>6. Key(s) \in Identities /\ counter \in Counters
  BY KeyOfRequest, TypesOfInvariant DEF QuotaInvariant, OthersTypeOK, Counters
<1>7. /\ Owed(x) \in Nat /\ Starting(x) \in Nat /\ Owed(x)' \in Nat
      /\ Starting(x)' \in Nat /\ Starting(x)' <= Owed(x)'
  <2>1. OwingFits(x) => Owed(x) \in Nat /\ Starting(x) \in Nat /\ Starting(x) <= Owed(x)
    BY StartingIsOwed
  <2>2. OwingFits(x)' => (Owed(x) \in Nat /\ Starting(x) \in Nat /\ Starting(x) <= Owed(x))'
    BY StartingIsOwed, PTL
  <2> QED
    BY <1>1, <2>1, <2>2
<1>8. /\ (s \in Owing(x)' <=> s \in Owing(x)) => Owed(x)' = Owed(x)
      /\ s \in Owing(x)' /\ s \notin Owing(x) => Owed(x)' = Owed(x) + Units[Key(s)]
      /\ s \in Owing(x) /\ s \notin Owing(x)' => Owed(x)' = Owed(x) - Units[Key(s)]
      /\ (s \in Creating(x)' <=> s \in Creating(x)) => Starting(x)' = Starting(x)
      /\ s \in Creating(x) /\ s \notin Creating(x)'
           => Starting(x)' = Starting(x) - Units[Key(s)]
  BY <1>1, <1>2, <1>3, <1>4, OwedMoves
<1>9. counter[x] \in Int /\ Units[Key(s)] \in Nat /\ Limit[x] \in Nat
  BY <1>6, CounterValues
<1> QED
  BY <1>5, <1>6, <1>7, <1>8, <1>9

\* A request that is charged, pays back, or goes on with less than before.
LEMMA RequestAccounts ==
  ASSUME QuotaInvariant, GapInvariant', WritesOpen, NEW s \in Submissions,
         submission[s].pc # "new", submission'[s].key = submission[s].key,
         \A t \in Submissions \ {s} : submission'[t] = submission[t],
         \A k \in Identities : Usage!Holds(k)' <=> Usage!Holds(k),
         \/ /\ UNCHANGED <<counter, stray>>
            /\ Owes(s)' => Owes(s)
            /\ At(s, "create")' => At(s, "create")
         \/ /\ counter' = Usage!Charged(Key(s)) /\ ~Owes(s) /\ UNCHANGED stray
            /\ At(s, "create")' => ~Exceeds(s, Usage!Charged(Key(s)))
         \/ counter' = GivenBack(s) /\ Owes(s) /\ ~Owes(s)' /\ UNCHANGED stray
         \/ /\ counter' = GivenBack(s) /\ (Owes(s)' => Owes(s)) /\ ~At(s, "create")'
            /\ Scope[Key(s)] \in Paid
            /\ stray' = [stray EXCEPT ![Scope[Key(s)]] = @ + Units[Key(s)]]
  PROVE  QuotaIsCovered' /\ HeldWithinLimit'
<1> SUFFICES ASSUME NEW x \in Paid
             PROVE  /\ counter'[x] + stray'[x] >= Held(x)' + Owed(x)'
                    /\ Held(x)' + Starting(x)' <= Limit[x] + stray'[x]
  <2>1. /\ QuotaIsCovered' <=>
              \A x \in Paid : counter'[x] + stray'[x] >= Held(x)' + Owed(x)'
        /\ HeldWithinLimit' <=>
              \A x \in Paid : Held(x)' + Starting(x)' <= Limit[x] + stray'[x]
    BY DEF QuotaIsCovered, HeldWithinLimit, Held, Owed, Starting
  <2> QED
    BY <2>1
<1> DEFINE k == Key(s)
           n == Units[k]
<1>1. /\ counter[x] + stray[x] >= Held(x) + Owed(x)
      /\ Held(x) + Starting(x) <= Limit[x] + stray[x]
      /\ stray[x] \in Nat
  BY QuotaByNumbers, TypesOfInvariant DEF QuotaInvariant, OthersTypeOK, Strays, Paid
<1>2. /\ k \in Identities /\ counter \in Counters
      /\ counter[x] \in Int /\ n \in Nat /\ Limit[x] \in Nat
      /\ Owed(x) \in Nat /\ Starting(x) \in Nat /\ Owed(x)' \in Nat
      /\ Starting(x)' \in Nat /\ Starting(x)' <= Owed(x)'
      /\ (Owes(s)' <=> Owes(s)) \/ Scope[k] # x => Owed(x)' = Owed(x)
      /\ Scope[k] = x /\ Owes(s)' /\ ~Owes(s) => Owed(x)' = Owed(x) + n
      /\ Scope[k] = x /\ Owes(s) /\ ~Owes(s)' => Owed(x)' = Owed(x) - n
      /\ (At(s, "create")' <=> At(s, "create")) \/ Scope[k] # x
           => Starting(x)' = Starting(x)
      /\ Scope[k] = x /\ At(s, "create") /\ ~At(s, "create")'
           => Starting(x)' = Starting(x) - n
  BY RequestNumbers
<1>3. Held(x) \in Nat /\ Held(x)' = Held(x)
  BY <1>2, HeldMoves
<1>4. /\ At(s, "create") => Owes(s)
      /\ At(s, "create")' => Owes(s)'
  BY DEF At, Owes
<1>5. /\ Usage!Charged(k)[x] = IF Scope[k] = x THEN counter[x] + n ELSE counter[x]
      /\ Usage!Uncharged(k)[x] = IF Scope[k] = x THEN counter[x] - n ELSE counter[x]
      /\ Scope[k] = x => Usage!Refunded(k)[x] =
                              IF counter[x] > n THEN counter[x] - n ELSE 0
      /\ Scope[k] # x => Usage!Refunded(k)[x] = counter[x]
  BY <1>2, CounterValues
<1>6. Exceeds(s, Usage!Charged(k)) <=>
        Scope[k] # "UNLIMITED" /\ Usage!Charged(k)[Scope[k]] > Limit[Scope[k]]
  BY DEF Exceeds
<1>7. GivenBack(s) = IF Scope[k] = "TRIAL" THEN Usage!Refunded(k) ELSE Usage!Uncharged(k)
  BY DEF GivenBack
<1>8. x # "UNLIMITED"
  BY DEF Paid
<1> HIDE DEF k, n
<1>9. CASE UNCHANGED <<counter, stray>> /\ (Owes(s)' => Owes(s))
           /\ (At(s, "create")' => At(s, "create"))
  <2>1. Owed(x)' <= Owed(x)
    BY <1>2, <1>9
  <2>2. Starting(x)' <= Starting(x)
    BY <1>2, <1>9
  <2> QED
    BY <1>1, <1>2, <1>3, <1>9, <2>1, <2>2
<1>10. CASE counter' = Usage!Charged(k) /\ ~Owes(s) /\ UNCHANGED stray
            /\ (At(s, "create")' => ~Exceeds(s, Usage!Charged(k)))
  <2>1. counter'[x] + stray'[x] >= Held(x)' + Owed(x)'
    BY <1>1, <1>2, <1>3, <1>5, <1>10
  <2>2. CASE Scope[k] = x /\ At(s, "create")'
    <3>1. counter'[x] <= Limit[x]
      BY <1>2, <1>5, <1>6, <1>8, <1>10, <2>2
    <3>2. counter'[x] \in Int
      BY <1>2, <1>5, <1>10
    <3> QED
      BY <1>1, <1>2, <1>3, <1>10, <2>1, <3>1, <3>2
  <2>3. CASE ~(Scope[k] = x /\ At(s, "create")')
    <3>1. Starting(x)' = Starting(x)
      BY <1>2, <1>4, <1>10, <2>3
    <3> QED
      BY <1>1, <1>3, <1>10, <2>1, <3>1
  <2> QED
    BY <2>2, <2>3
<1>11. CASE counter' = GivenBack(s) /\ Owes(s) /\ ~Owes(s)' /\ UNCHANGED stray
  <2>1. counter'[x] + stray'[x] >= Held(x)' + Owed(x)'
    BY <1>1, <1>2, <1>3, <1>5, <1>7, <1>11
  <2>2. Starting(x)' <= Starting(x)
    BY <1>2, <1>4, <1>11
  <2> QED
    BY <1>1, <1>2, <1>3, <1>11, <2>1, <2>2
<1>12. CASE /\ counter' = GivenBack(s) /\ (Owes(s)' => Owes(s)) /\ ~At(s, "create")'
            /\ Scope[k] \in Paid /\ stray' = [stray EXCEPT ![Scope[k]] = @ + n]
  <2>1. stray'[x] = IF Scope[k] = x THEN stray[x] + n ELSE stray[x]
    BY <1>12, TypesOfInvariant DEF QuotaInvariant, OthersTypeOK, Strays, Paid
  <2>2. counter'[x] + stray'[x] >= counter[x] + stray[x]
    BY <1>1, <1>2, <1>5, <1>7, <1>12, <2>1
  <2>3. /\ counter'[x] \in Int /\ stray'[x] \in Nat /\ stray'[x] >= stray[x]
    BY <1>1, <1>2, <1>5, <1>7, <1>12, <2>1
  <2>4. Owed(x)' <= Owed(x) /\ Starting(x)' <= Starting(x)
    BY <1>2, <1>4, <1>12
  <2> QED
    BY <1>1, <1>2, <1>3, <2>2, <2>3, <2>4
<1> QED
  BY <1>9, <1>10, <1>11, <1>12 DEF k, n

\* The units a request was charged become the units of its row.
LEMMA CreateAccounts ==
  ASSUME QuotaInvariant, GapInvariant', WritesOpen, NEW s \in Submissions,
         submission[s].pc = "create", submission'[s].key = submission[s].key,
         submission'[s].pc \in {"upload", "compensate"}, Exists(s)',
         \A t \in Submissions \ {s} : submission'[t] = submission[t],
         NEW k \in Identities, k = Key(s), ~Usage!Holds(k), Usage!Holds(k)',
         \A i \in Identities \ {k} : Usage!Holds(i)' <=> Usage!Holds(i),
         UNCHANGED <<counter, stray>>
  PROVE  QuotaIsCovered' /\ HeldWithinLimit'
<1> SUFFICES ASSUME NEW x \in Paid
             PROVE  /\ counter'[x] + stray'[x] >= Held(x)' + Owed(x)'
                    /\ Held(x)' + Starting(x)' <= Limit[x] + stray'[x]
  <2>1. /\ QuotaIsCovered' <=>
              \A x \in Paid : counter'[x] + stray'[x] >= Held(x)' + Owed(x)'
        /\ HeldWithinLimit' <=>
              \A x \in Paid : Held(x)' + Starting(x)' <= Limit[x] + stray'[x]
    BY DEF QuotaIsCovered, HeldWithinLimit, Held, Owed, Starting
  <2> QED
    BY <2>1
<1>1. /\ counter[x] + stray[x] >= Held(x) + Owed(x)
      /\ Held(x) + Starting(x) <= Limit[x] + stray[x]
      /\ stray[x] \in Nat
  BY QuotaByNumbers, TypesOfInvariant DEF QuotaInvariant, OthersTypeOK, Strays, Paid
<1>2. /\ Owes(s) /\ ~Owes(s)' /\ At(s, "create") /\ ~At(s, "create")'
  BY DEF Owes, At, Exists
<1>3. /\ counter[x] \in Int /\ Units[k] \in Nat /\ Limit[x] \in Nat
      /\ Owed(x) \in Nat /\ Starting(x) \in Nat
      /\ Scope[k] # x => Owed(x)' = Owed(x) /\ Starting(x)' = Starting(x)
      /\ Scope[k] = x => /\ Owed(x)' = Owed(x) - Units[k]
                         /\ Starting(x)' = Starting(x) - Units[k]
  BY <1>2, RequestNumbers
<1>4. /\ Held(x) \in Nat
      /\ Scope[k] # x => Held(x)' = Held(x)
      /\ Scope[k] = x => Held(x)' = Held(x) + Units[k]
  BY HeldMoves
<1> QED
  BY <1>1, <1>3, <1>4

\* A row gives its units back: the counter covered them.
LEMMA RefundAccounts ==
  ASSUME QuotaInvariant, WritesOpen, UNCHANGED submission,
         NEW k \in Identities, Usage!Holds(k), ~Usage!Holds(k)',
         \A i \in Identities \ {k} : Usage!Holds(i)' <=> Usage!Holds(i),
         counter' = Usage!Refunded(k), UNCHANGED stray
  PROVE  QuotaIsCovered' /\ HeldWithinLimit'
<1> SUFFICES ASSUME NEW x \in Paid
             PROVE  /\ counter'[x] + stray'[x] >= Held(x)' + Owed(x)'
                    /\ Held(x)' + Starting(x)' <= Limit[x] + stray'[x]
  <2>1. /\ QuotaIsCovered' <=>
              \A x \in Paid : counter'[x] + stray'[x] >= Held(x)' + Owed(x)'
        /\ HeldWithinLimit' <=>
              \A x \in Paid : Held(x)' + Starting(x)' <= Limit[x] + stray'[x]
    BY DEF QuotaIsCovered, HeldWithinLimit, Held, Owed, Starting
  <2> QED
    BY <2>1
<1>1. /\ counter[x] + stray[x] >= Held(x) + Owed(x)
      /\ Held(x) + Starting(x) <= Limit[x] + stray[x]
      /\ stray[x] \in Nat
  BY QuotaByNumbers, TypesOfInvariant DEF QuotaInvariant, OthersTypeOK, Strays, Paid
<1>2. Owed(x)' = Owed(x) /\ Starting(x)' = Starting(x)
  <2>1. \A t \in Submissions : /\ Owes(t)' <=> Owes(t)
                               /\ Key(t)' = Key(t)
                               /\ At(t, "create")' <=> At(t, "create")
    BY TypesOfInvariant, OwesStays DEF QuotaInvariant
  <2>2. /\ Owing(x)' = Owing(x) /\ Creating(x)' = Creating(x)
        /\ Owing(x) \in SUBSET Submissions /\ Creating(x) \in SUBSET Submissions
    BY <2>1 DEF Owing, Creating
  <2> QED
    BY <2>1, <2>2 DEF Owed, Starting, UnitsOf
<1>3. Owed(x) \in Nat /\ Starting(x) \in Nat
  BY OwingHasKeys, StartingIsOwed DEF QuotaInvariant, OwersHaveKeys
<1>4. /\ Held(x) \in Nat /\ Held(x)' \in Nat
      /\ Scope[k] # x => Held(x)' = Held(x)
      /\ Scope[k] = x => Held(x)' = Held(x) - Units[k]
  BY HeldMoves
<1>5. counter \in Counters
  BY TypesOfInvariant DEF QuotaInvariant, OthersTypeOK, Counters
<1>6. /\ counter[x] \in Int /\ Units[k] \in Nat /\ Limit[x] \in Nat
      /\ Scope[k] = x => counter'[x] =
                           IF counter[x] > Units[k] THEN counter[x] - Units[k] ELSE 0
      /\ Scope[k] # x => counter'[x] = counter[x]
  BY <1>5, CounterValues
<1> QED
  BY <1>1, <1>2, <1>3, <1>4, <1>6

\* A compensation goes on, ends, or starts on the path of its row's scope.
PaidPath == {"claim", "refund", "release", "postpone"}

PathsKept ==
  \A c \in Callers :
    \/ comp'[c] = comp[c]
    \/ comp'[c].key = comp[c].key /\ comp[c].pc \in PaidPath /\ comp'[c].pc \in PaidPath
    \/ comp'[c].pc \in Ended
    \/ comp'[c].key \in Identities /\ comp'[c].pc = Usage!PathOf[Scope[comp'[c].key]]

\* No row vanishes, and no trial row is released or taken back.
RowsKept ==
  \A k \in Identities :
    /\ ledger[k] = "ABSENT" \/ ledger'[k] # "ABSENT"
    /\ Scope[k] = "TRIAL" => (ledger'[k] = "RELEASED" <=> ledger[k] = "RELEASED")

LEMMA PathsStay ==
  ASSUME OthersTypeOK, Usage!PathsFollowScopes, PathsKept
  PROVE  Usage!PathsFollowScopes'
<1> SUFFICES ASSUME NEW c \in Callers
             PROVE  /\ comp'[c].pc = "trial"     => Scope[comp'[c].key] = "TRIAL"
                    /\ comp'[c].pc = "unlimited" => Scope[comp'[c].key] = "UNLIMITED"
                    /\ comp'[c].pc \in {"claim", "refund", "release", "postpone"}
                         => Scope[comp'[c].key] = "REDIS"
  BY DEF Usage!PathsFollowScopes, Callers
<1>1. CASE comp'[c] = comp[c]
  BY <1>1 DEF Usage!PathsFollowScopes, Callers
<1>2. CASE comp'[c].pc \in Ended
  BY <1>2 DEF Ended, Usage!Results
<1>4. CASE comp'[c].key = comp[c].key /\ comp[c].pc \in PaidPath /\ comp'[c].pc \in PaidPath
  BY <1>4 DEF PaidPath, Usage!PathsFollowScopes, Callers
<1>3. CASE /\ comp'[c].key \in Identities
           /\ comp'[c].pc = Usage!PathOf[Scope[comp'[c].key]]
  <2>1. Scope[comp'[c].key] \in {"REDIS", "TRIAL", "UNLIMITED"}
    BY <1>3, GapAssumption
  <2> QED
    BY <1>3, <2>1 DEF Usage!PathOf
<1> QED
  BY <1>1, <1>2, <1>3, <1>4 DEF PathsKept

LEMMA RefundsStay ==
  ASSUME OthersTypeOK, RefundsFit, PathsKept, RowsKept, UNCHANGED <<marker, refunds>>
  PROVE  RefundsFit'
<1>1. Usage!PathsFollowScopes'
  BY PathsStay DEF RefundsFit
<1>2. Usage!RefundsAreMarked'
  <2> SUFFICES ASSUME NEW k \in Identities
               PROVE  refunds'[k] = IF \/ Scope[k] = "REDIS" /\ k \in marker'
                                       \/ Scope[k] = "TRIAL" /\ ledger'[k] = "RELEASED"
                                    THEN 1 ELSE 0
    BY DEF Usage!RefundsAreMarked
  <2>1. Scope[k] = "TRIAL" => (ledger'[k] = "RELEASED" <=> ledger[k] = "RELEASED")
    BY DEF RowsKept
  <2>2. refunds[k] = IF \/ Scope[k] = "REDIS" /\ k \in marker
                        \/ Scope[k] = "TRIAL" /\ ledger[k] = "RELEASED"
                     THEN 1 ELSE 0
    BY DEF RefundsFit, Usage!RefundsAreMarked
  <2> QED
    BY <2>1, <2>2
<1>3. (\A k \in marker : ledger[k] # "ABSENT")'
  BY DEF RefundsFit, RowsKept, OthersTypeOK
<1> QED
  BY <1>1, <1>2, <1>3 DEF RefundsFit

\* What a step does to the ledger that gives nothing back and writes no row.
LEMMA SettlingKeepsRows ==
  ASSUME RecordsTypeOK, UNCHANGED refunds,
         \/ UNCHANGED ledger
         \/ \E k \in Identities : ledger' = Usage!Settled(k)
  PROVE  RowsKept /\ \A k \in Identities : Usage!Holds(k)' <=> Usage!Holds(k)
<1>1. \A k \in Identities :
        \/ ledger'[k] = ledger[k]
        \/ ledger[k] = "RESERVED" /\ ledger'[k] = "SETTLED"
  <2>1. ASSUME NEW i \in Identities, ledger' = Usage!Settled(i), NEW k \in Identities
        PROVE  \/ ledger'[k] = ledger[k]
               \/ ledger[k] = "RESERVED" /\ ledger'[k] = "SETTLED"
    BY <2>1 DEF RecordsTypeOK, Usage!Settled
  <2> QED
    BY <2>1
<1>2. RowsKept
  BY <1>1 DEF RowsKept
<1>3. \A k \in Identities : ledger'[k] # "ABSENT" <=> ledger[k] # "ABSENT"
  BY <1>1
<1>4. \A k \in Identities : refunds'[k] = refunds[k]
  OBVIOUS
<1> QED
  BY <1>2, <1>3, <1>4 DEF Usage!Holds

\* Most steps of runners, deletions and time.
LEMMA QuietQuota ==
  ASSUME QuotaInvariant, GapInvariant', WritesOpen, PathsKept,
         UNCHANGED <<submission, counter, marker, refunds, stray>>,
         \/ UNCHANGED ledger
         \/ \E k \in Identities : ledger' = Usage!Settled(k)
  PROVE  QuotaInvariant'
<1>1. RecordsTypeOK /\ OthersTypeOK
  BY TypesOfInvariant DEF QuotaInvariant
<1>2. RowsKept /\ \A k \in Identities : Usage!Holds(k)' <=> Usage!Holds(k)
  BY <1>1, SettlingKeepsRows
<1>3. RefundsFit'
  BY <1>1, <1>2, RefundsStay DEF QuotaInvariant
<1>4. QuotaIsCovered' /\ HeldWithinLimit'
  BY <1>2, QuotaStays
<1> QED
  BY <1>3, <1>4 DEF QuotaInvariant

\* The statements of a request that touch no row.
LEMMA RequestQuota ==
  ASSUME QuotaInvariant, GapInvariant', WritesOpen, PathsKept,
         NEW s \in Submissions, submission[s].pc # "new",
         NEW pc \in SubmissionStep, Proceed(s, pc),
         UNCHANGED <<ledger, marker, refunds>>,
         \/ /\ UNCHANGED <<counter, stray>>
            /\ Owes(s)' => Owes(s)
            /\ pc = "create" => At(s, "create")
         \/ /\ counter' = Usage!Charged(Key(s)) /\ ~Owes(s) /\ UNCHANGED stray
            /\ pc = "create" => ~Exceeds(s, Usage!Charged(Key(s)))
         \/ counter' = GivenBack(s) /\ Owes(s) /\ ~Owes(s)' /\ UNCHANGED stray
         \/ /\ counter' = GivenBack(s) /\ (Owes(s)' => Owes(s)) /\ pc # "create"
            /\ Scope[Key(s)] \in Paid
            /\ stray' = [stray EXCEPT ![Scope[Key(s)]] = @ + Units[Key(s)]]
  PROVE  QuotaInvariant'
<1>1. RecordsTypeOK /\ OthersTypeOK
  BY TypesOfInvariant DEF QuotaInvariant
<1>2. /\ submission'[s].key = submission[s].key
      /\ submission'[s].pc = pc
      /\ \A t \in Submissions \ {s} : submission'[t] = submission[t]
  BY <1>1 DEF Proceed, RecordsTypeOK, Request
<1>3. At(s, "create")' <=> pc = "create"
  BY <1>2 DEF At
<1>4. RowsKept /\ \A k \in Identities : Usage!Holds(k)' <=> Usage!Holds(k)
  BY DEF RowsKept, Usage!Holds
<1>5. RefundsFit'
  BY <1>1, <1>4, RefundsStay DEF QuotaInvariant
<1>6. QuotaIsCovered' /\ HeldWithinLimit'
  BY <1>2, <1>3, <1>4, RequestAccounts
<1> QED
  BY <1>5, <1>6 DEF QuotaInvariant

LEMMA DeletionKeepsQuota ==
  ASSUME QuotaInvariant, GapInvariant', WritesOpen, NEW d \in Deletions,
         ReadForDeletion(d) \/ DeletionStep(d)
  PROVE  QuotaInvariant'
<1>1. UNCHANGED <<submission, counter, marker, refunds, stray, ledger, comp>>
  BY DEF ReadForDeletion, DeletionStep, RevokeAnalysis, CancelJobs, PublishDeletion,
         usageOnly
<1>2. PathsKept
  BY <1>1 DEF PathsKept
<1> QED
  BY <1>1, <1>2, QuietQuota

LEMMA TimeKeepsQuota ==
  ASSUME QuotaInvariant, GapInvariant', WritesOpen,
         \/ \E s \in Submissions : AnalysisAges(s) \/ QueueTime(s) \/ QueueFault(s)
         \/ UNCHANGED vars
  PROVE  QuotaInvariant'
<1>1. UNCHANGED <<submission, counter, marker, refunds, stray, ledger, comp>>
  BY DEF AnalysisAges, QueueTime, QueueFault, requests, usageOnly, vars
<1>2. PathsKept
  BY <1>1 DEF PathsKept
<1> QED
  BY <1>1, <1>2, QuietQuota

\* A runner, but for its refunds: only the final transaction writes the ledger.
LEMMA RunnerKeepsQuota ==
  ASSUME QuotaInvariant, GapInvariant', WritesOpen, NEW p \in Processes,
         \/ ExecutionStep(p) /\ ~BeginRefund(p) /\ ~EndRefund(p)
         \/ ReadForRecovery(p) \/ ObserveRevocation(p) \/ PipelineFails(p)
         \/ Heartbeat(p) \/ CompletionFails(p) \/ StatusWriteFails(p)
         \/ FinalReplyLost(p)
  PROVE  QuotaInvariant'
<1>1. CASE Finalize(p) \/ FinalReplyLost(p)
  <2>1. UNCHANGED <<submission, counter, marker, refunds, stray, comp>>
    BY <1>1 DEF Finalize, FinalReplyLost, requests
  <2>2. Doing(p) \in Submissions
    BY <1>1, TypesOfInvariant, Executes
       DEF QuotaInvariant, Finalize, FinalReplyLost, Running, OthersTypeOK,
           Queue!Executing
  <2>3. \/ UNCHANGED ledger
        \/ Live(Doing(p)) /\ ledger' = Usage!Settled(Key(Doing(p)))
    BY <1>1 DEF Finalize, FinalReplyLost, FinalTransaction
  <2>4. Live(Doing(p)) => Key(Doing(p)) \in Identities
    BY <2>2, KeyOfAnalysis DEF QuotaInvariant, Live, Active, Exists
  <2>5. \/ UNCHANGED ledger
        \/ \E k \in Identities : ledger' = Usage!Settled(k)
    BY <2>3, <2>4
  <2>6. PathsKept
    BY <2>1 DEF PathsKept
  <2> QED
    BY <2>1, <2>5, <2>6, QuietQuota
<1>2. CASE ~(Finalize(p) \/ FinalReplyLost(p))
  <2>1. UNCHANGED <<submission, counter, marker, refunds, stray, ledger, comp>>
    BY <1>2
       DEF ExecutionStep, Claim, Authorize, Download, Extract, Analyze, Complete,
           Advance, RecordFailure, RunnerStep, UpdateEntity, FinishTick, Recover,
           ReadForRecovery, ObserveRevocation, PipelineFails, Heartbeat,
           CompletionFails, StatusWriteFails, OnlyExecution, requests, usageOnly
  <2>2. PathsKept
    BY <2>1 DEF PathsKept
  <2> QED
    BY <2>1, <2>2, QuietQuota
<1> QED
  BY <1>1, <1>2

\* Beginning a compensation takes the path of the row's scope.
LEMMA BeginningKeepsPaths ==
  ASSUME OthersTypeOK, NEW c \in Callers, NEW k \in Identities,
         Usage!BeginCompensation(c, k)
  PROVE  PathsKept
<1>1. /\ comp'[c].key = k /\ comp'[c].pc = Usage!FirstStep(k)
      /\ \A d \in Callers \ {c} : comp'[d] = comp[d]
  BY DEF Usage!BeginCompensation, OthersTypeOK
<1>2. Usage!FirstStep(k) \in Ended \/ Usage!FirstStep(k) = Usage!PathOf[Scope[k]]
  BY DEF Usage!FirstStep, Ended, Usage!Results
<1> QED
  BY <1>1, <1>2 DEF PathsKept

\* Ending one, or dropping it with its caller, leaves the caller none.
LEMMA EndingKeepsPaths ==
  ASSUME OthersTypeOK, NEW c \in Callers,
         comp' = [comp EXCEPT ![c] = Usage!NoCompensation]
  PROVE  PathsKept
<1>1. /\ comp'[c].pc = "none"
      /\ \A d \in Callers \ {c} : comp'[d] = comp[d]
  BY DEF Usage!NoCompensation, OthersTypeOK
<1> QED
  BY <1>1 DEF PathsKept, Ended

LEMMA RefundingKeepsQuota ==
  ASSUME QuotaInvariant, GapInvariant', WritesOpen, NEW p \in Processes,
         BeginRefund(p) \/ EndRefund(p) \/ RunnerCrashes(p)
  PROVE  QuotaInvariant'
<1>1. OthersTypeOK /\ p \in Callers
  BY TypesOfInvariant DEF QuotaInvariant, Callers
<1>2. UNCHANGED <<submission, counter, marker, refunds, stray, ledger>>
  BY DEF BeginRefund, EndRefund, RunnerCrashes, requests, usageOnly,
         Usage!BeginCompensation, Usage!EndCompensation
<1>3. CASE BeginRefund(p)
  <2>1. CASE UNCHANGED comp
    BY <1>2, <2>1, QuietQuota DEF PathsKept
  <2>2. CASE /\ holder[Key(Doing(p))] = Doing(p)
             /\ Usage!BeginCompensation(p, Key(Doing(p)))
    <3>1. Key(Doing(p)) \in Identities
      BY <1>3, RefundedRow DEF QuotaInvariant
    <3>2. PathsKept
      BY <1>1, <2>2, <3>1, BeginningKeepsPaths
    <3> QED
      BY <1>2, <3>2, QuietQuota
  <2> QED
    BY <1>3, <2>1, <2>2 DEF BeginRefund, usageOnly
<1>4. CASE EndRefund(p) \/ RunnerCrashes(p)
  <2>1. comp' = [comp EXCEPT ![p] = Usage!NoCompensation]
    BY <1>4 DEF EndRefund, RunnerCrashes, Usage!EndCompensation
  <2>2. PathsKept
    BY <1>1, <2>1, EndingKeepsPaths
  <2> QED
    BY <1>2, <2>2, QuietQuota
<1> QED
  BY <1>3, <1>4

-----------------------------------------------------------------------------
(* The quota and the requests.                                             *)

LEMMA OwesNext ==
  ASSUME RecordsTypeOK, WritesOpen, NEW s \in Submissions,
         NEW pc \in SubmissionStep, Proceed(s, pc),
         submission[s].pc # "create" \/ UNCHANGED analysis
  PROVE  Owes(s)' <=> \/ pc \in {"overLimit", "create", "conflict", "rollback",
                                 "rollbackFailed"}
                      \/ pc = "compensate" /\ ~Exists(s)
<1>1. submission'[s].pc = pc
  BY DEF Proceed, RecordsTypeOK, Request
<1>2. analysis'[s].status = "ABSENT" <=> analysis[s].status = "ABSENT"
  BY AnalysesStay
<1> QED
  BY <1>1, <1>2 DEF Owes, Exists

\* A new request asks for an identity, and owes nothing for it.
LEMMA DedupeKeepsQuota ==
  ASSUME QuotaInvariant, GapInvariant', WritesOpen, NEW s \in Submissions, Dedupe(s)
  PROVE  QuotaInvariant'
<1>1. RecordsTypeOK /\ OthersTypeOK
  BY TypesOfInvariant DEF QuotaInvariant
<1>2. UNCHANGED <<analysis, counter, marker, refunds, stray, ledger, comp>>
  BY DEF Dedupe, records, usageOnly
<1>3. /\ submission[s].pc = "new" /\ submission'[s].pc \in {"reused", "check"}
      /\ \A t \in Submissions \ {s} : submission'[t] = submission[t]
  BY <1>1 DEF Dedupe, At, RecordsTypeOK, Request
<1>4. RefundsFit'
  BY <1>1, <1>2, RefundsStay DEF QuotaInvariant, PathsKept, RowsKept
<1>5. /\ ~Owes(s) /\ ~Owes(s)' /\ ~At(s, "create") /\ ~At(s, "create")'
      /\ \A t \in Submissions \ {s} : /\ Owes(t)' <=> Owes(t)
                                      /\ Key(t)' = Key(t)
                                      /\ At(t, "create")' <=> At(t, "create")
  BY <1>1, <1>3, OwesStays DEF Owes, At
<1>6. \A x : /\ Owing(x)' = Owing(x) /\ Creating(x)' = Creating(x)
             /\ Owing(x) \in SUBSET (Submissions \ {s})
             /\ Creating(x) \in SUBSET (Submissions \ {s})
             /\ Usage!UnitsHeld(x)' = Usage!UnitsHeld(x)
  BY <1>2, <1>5 DEF Owing, Creating, Usage!UnitsHeld, Usage!Holds
<1>7. \A x : /\ UnitsOf(Owing(x))' = UnitsOf(Owing(x))
             /\ UnitsOf(Creating(x))' = UnitsOf(Creating(x))
  BY <1>5, <1>6 DEF UnitsOf
<1>8. QuotaIsCovered' /\ HeldWithinLimit'
  BY <1>2, <1>6, <1>7 DEF QuotaInvariant, QuotaIsCovered, HeldWithinLimit
<1> QED
  BY <1>4, <1>8 DEF QuotaInvariant

\* resolveUsageLimit, doIncrement and the ways a charge is taken back.
LEMMA ChargingKeepsQuota ==
  ASSUME QuotaInvariant, GapInvariant', WritesOpen, NEW s \in Submissions,
         \/ ResolveUsage(s) \/ ReserveUnits(s) \/ UndoOverLimit(s)
         \/ RollbackReused(s) \/ RollbackFailed(s)
  PROVE  QuotaInvariant'
<1>1. RecordsTypeOK
  BY TypesOfInvariant DEF QuotaInvariant
<1>2. UNCHANGED <<analysis, ledger, marker, refunds, stray, comp>>
  BY DEF ResolveUsage, ReserveUnits, UndoOverLimit, RollbackReused, RollbackFailed,
         CounterStep, records
<1>3. PathsKept
  BY <1>2 DEF PathsKept
<1>4. PICK to \in {"failed", "charge", "create", "overLimit", "reused"} : Proceed(s, to)
  BY DEF ResolveUsage, ReserveUnits, UndoOverLimit, RollbackReused, RollbackFailed,
         CounterStep
<1>5. to \in SubmissionStep
  BY DEF SubmissionStep
<1>6. Owes(s)' <=> to \in {"overLimit", "create"}
  BY <1>1, <1>2, <1>4, <1>5, OwesNext
<1>7. submission'[s].pc = to
  BY <1>1, <1>4 DEF Proceed, RecordsTypeOK, Request
<1>8. CASE ResolveUsage(s)
  <2>1. submission[s].pc = "check" /\ ~Owes(s)
    BY <1>8 DEF ResolveUsage, At, Owes
  <2>2. \/ UNCHANGED counter /\ to \in {"failed", "charge"}
        \/ /\ counter' = Usage!Charged(Key(s)) /\ to = "create"
           /\ ~Exceeds(s, Usage!Charged(Key(s)))
    BY <1>1, <1>7, <1>8 DEF ResolveUsage, Proceed, RecordsTypeOK, Request
  <2> QED
    BY <1>2, <1>3, <1>4, <1>5, <1>6, <2>1, <2>2, RequestQuota
<1>9. CASE ReserveUnits(s)
  <2>1. submission[s].pc = "charge" /\ ~Owes(s) /\ counter' = Usage!Charged(Key(s))
    BY <1>9 DEF ReserveUnits, CounterStep, At, Owes
  <2>2. to = "create" => ~Exceeds(s, Usage!Charged(Key(s)))
    BY <1>1, <1>7, <1>9
       DEF ReserveUnits, CounterStep, Proceed, RecordsTypeOK, Request
  <2> QED
    BY <1>2, <1>3, <1>4, <1>5, <2>1, <2>2, RequestQuota
<1>10. CASE UndoOverLimit(s) \/ RollbackReused(s) \/ RollbackFailed(s)
  <2>1. /\ submission[s].pc \in {"overLimit", "rollback", "rollbackFailed"}
        /\ counter' = GivenBack(s)
    BY <1>10 DEF UndoOverLimit, RollbackReused, RollbackFailed, CounterStep, At
  <2>2. to \in {"failed", "reused"}
    BY <1>1, <1>7, <1>10
       DEF UndoOverLimit, RollbackReused, RollbackFailed, CounterStep, Proceed,
           RecordsTypeOK, Request
  <2>3. Owes(s) /\ ~Owes(s)' /\ submission[s].pc # "new"
    BY <1>6, <2>1, <2>2 DEF Owes
  <2> QED
    BY <1>2, <1>3, <1>4, <1>5, <2>1, <2>3, RequestQuota
<1> QED
  BY <1>8, <1>9, <1>10

\* A request that goes on without charging or paying back.
LEMMA GoingOnKeepsQuota ==
  ASSUME QuotaInvariant, GapInvariant', WritesOpen, PathsKept,
         NEW s \in Submissions, submission[s].pc # "new",
         submission[s].pc # "create" \/ UNCHANGED analysis,
         NEW pc \in SubmissionStep, Proceed(s, pc), pc # "create",
         \/ Owes(s)
         \/ pc \notin {"overLimit", "conflict", "rollback", "rollbackFailed", "compensate"}
         \/ pc = "compensate" /\ Exists(s),
         UNCHANGED <<counter, ledger, marker, refunds, stray>>
  PROVE  QuotaInvariant'
<1>1. RecordsTypeOK
  BY TypesOfInvariant DEF QuotaInvariant
<1>2. Owes(s)' => Owes(s)
  BY <1>1, OwesNext
<1> QED
  BY <1>2, RequestQuota

LEMMA StoringKeepsQuota ==
  ASSUME QuotaInvariant, GapInvariant', WritesOpen, NEW s \in Submissions,
         \/ Upload(s) \/ PersistReference(s) \/ EnqueueJob(s) \/ Publish(s)
         \/ Cleanup(s) \/ MarkSubmissionFailed(s)
  PROVE  QuotaInvariant'
<1>1. PICK to \in {"persist", "enqueue", "cleanup", "publish", "done", "markFailed",
                   "compensate"} :
        Proceed(s, to)
  BY DEF Upload, PersistReference, EnqueueJob, Publish, Cleanup, MarkSubmissionFailed
<1>2. /\ submission[s].pc \in {"upload", "persist", "enqueue", "publish", "cleanup",
                               "markFailed"}
      /\ UNCHANGED <<counter, ledger, marker, refunds, stray, comp>>
  BY DEF Upload, PersistReference, EnqueueJob, Publish, Cleanup, MarkSubmissionFailed,
         At, usageOnly
<1>3. Exists(s)
  BY <1>2 DEF QuotaInvariant, GapInvariant, RequestFits, Recorded
<1>4. PathsKept /\ to \in SubmissionStep
  BY <1>2 DEF PathsKept, SubmissionStep
<1> QED
  BY <1>1, <1>2, <1>3, <1>4, GoingOnKeepsQuota

\* The row a request holds is the one its catch block finds: only a request
\* without a row rolls its charge back there.
LEMMA CompensateKeepsQuota ==
  ASSUME QuotaInvariant, GapInvariant', WritesOpen, NEW s \in Submissions,
         Compensate(s) \/ FinishCompensation(s)
  PROVE  QuotaInvariant'
<1>1. OthersTypeOK /\ s \in Callers
  BY TypesOfInvariant DEF QuotaInvariant, Callers
<1>2. PICK to \in {"failed", "compensating", "rollbackFailed"} : Proceed(s, to)
  BY DEF Compensate, FinishCompensation
<1>3. /\ submission[s].pc \in {"compensate", "compensating"}
      /\ UNCHANGED <<counter, ledger, marker, refunds, stray>>
      /\ to \in SubmissionStep
  BY DEF Compensate, FinishCompensation, At, usageOnly, Usage!BeginCompensation,
         Usage!EndCompensation, SubmissionStep
<1>4. submission'[s].pc = to
  BY <1>2, TypesOfInvariant DEF QuotaInvariant, Proceed, RecordsTypeOK, Request
<1>5. Key(s) \in Identities
  BY <1>3, KeyOfRequest DEF QuotaInvariant
<1>6. CASE Compensate(s)
  <2>1. \/ UNCHANGED comp
        \/ Usage!BeginCompensation(s, Key(s))
    BY <1>6 DEF Compensate, usageOnly
  <2>2. PathsKept
    BY <1>1, <1>5, <2>1, BeginningKeepsPaths DEF PathsKept
  <2>3. to = "rollbackFailed" => ~Exists(s)
    <3>1. SUFFICES ASSUME Exists(s), to = "rollbackFailed" PROVE FALSE
      OBVIOUS
    <3>2. holder[Key(s)] = s /\ s # None
      BY <3>1, GapAssumption DEF QuotaInvariant, GapInvariant, RowsHaveHolders
    <3> QED
      BY <1>2, <1>4, <1>6, <3>1, <3>2, TypesOfInvariant
         DEF QuotaInvariant, Compensate, Proceed, RecordsTypeOK, Request
  <2>4. to = "rollbackFailed" => Owes(s)
    BY <1>6, <2>3 DEF Compensate, At, Owes, Exists
  <2> QED
    BY <1>2, <1>3, <2>2, <2>4, GoingOnKeepsQuota
<1>7. CASE FinishCompensation(s)
  <2>1. PathsKept
    BY <1>1, <1>7, EndingKeepsPaths DEF FinishCompensation, Usage!EndCompensation
  <2>2. comp[s].pc # "false"
    BY <1>1 DEF QuotaInvariant, GapInvariant, CompensationFits, Callers
  <2>3. to = "failed"
    BY <1>2, <1>4, <1>7, <2>2, TypesOfInvariant
       DEF QuotaInvariant, FinishCompensation, Proceed, RecordsTypeOK, Request
  <2> QED
    BY <1>2, <1>3, <2>1, <2>3, GoingOnKeepsQuota
<1> QED
  BY <1>6, <1>7

\* The insert turns what a request owes into what a row holds, or leaves it.
LEMMA CreateKeepsQuota ==
  ASSUME QuotaInvariant, GapInvariant', WritesOpen, NEW s \in Submissions,
         \/ CreateRecord(s) \/ ResolveConflict(s)
         \/ (SubmissionReplyLost(s) /\ At(s, "create"))
  PROVE  QuotaInvariant'
<1>1. RecordsTypeOK /\ OthersTypeOK
  BY TypesOfInvariant DEF QuotaInvariant
<1>2. UNCHANGED <<counter, marker, refunds, stray, comp>>
  BY DEF CreateRecord, ResolveConflict, SubmissionReplyLost, usageOnly
<1>3. PathsKept
  BY <1>2 DEF PathsKept
<1>4. submission[s].pc \in {"create", "conflict"}
  BY DEF CreateRecord, ResolveConflict, At
<1>5. CASE UNCHANGED <<ledger, analysis>> /\ (Proceed(s, "conflict")
             \/ Proceed(s, "rollback") \/ Proceed(s, "compensate"))
  <2>1. Owes(s)
    BY <1>4 DEF Owes
  <2>2. {"conflict", "rollback", "compensate"} \in SUBSET SubmissionStep
    BY DEF SubmissionStep
  <2>3. PICK to \in {"conflict", "rollback", "compensate"} : Proceed(s, to)
    BY <1>5
  <2> QED
    BY <1>2, <1>3, <1>4, <1>5, <2>1, <2>2, <2>3, GoingOnKeepsQuota
<1>6. ASSUME NEW to \in {"upload", "compensate"},
             At(s, "create"), Inserted(s), Proceed(s, to)
      PROVE  QuotaInvariant'
  <2>1. PICK k \in Identities : k = Key(s)
    BY <1>4, KeyOfRequest DEF QuotaInvariant
  <2>2. /\ submission[s].pc = "create"
        /\ ledger[k] = "ABSENT" /\ ledger' = [ledger EXCEPT ![k] = "RESERVED"]
        /\ Proceed(s, to)
    BY <1>6, <2>1 DEF Inserted, Refused, At, Usage!SetState
  <2>3. /\ submission'[s].key = submission[s].key /\ submission'[s].pc = to
        /\ \A t \in Submissions \ {s} : submission'[t] = submission[t]
    BY <1>1, <2>2 DEF Proceed, RecordsTypeOK, Request
  <2>4. /\ ledger'[k] = "RESERVED"
        /\ \A i \in Identities \ {k} : ledger'[i] = ledger[i]
    BY <1>1, <2>2 DEF RecordsTypeOK
  <2>5. refunds[k] = 0
    BY <2>2 DEF QuotaInvariant, RefundsFit, Usage!RefundsAreMarked
  <2>6. ~Usage!Holds(k) /\ Usage!Holds(k)'
    BY <1>2, <2>2, <2>4, <2>5 DEF Usage!Holds
  <2>7. \A i \in Identities \ {k} : Usage!Holds(i)' <=> Usage!Holds(i)
    BY <1>2, <2>4 DEF Usage!Holds
  <2>8. Exists(s)'
    BY <1>1, <1>6 DEF Inserted, SetStatus, RecordsTypeOK, AnalysisRow, Exists
  <2>9. QuotaIsCovered' /\ HeldWithinLimit'
    BY <1>2, <2>1, <2>2, <2>3, <2>6, <2>7, <2>8, CreateAccounts
  <2>10. RowsKept
    BY <2>2, <2>4 DEF RowsKept
  <2>11. RefundsFit'
    BY <1>1, <1>2, <1>3, <2>10, RefundsStay DEF QuotaInvariant
  <2> QED
    BY <2>9, <2>11 DEF QuotaInvariant
<1>7. \/ /\ At(s, "create") /\ Inserted(s)
         /\ Proceed(s, "upload") \/ Proceed(s, "compensate")
      \/ UNCHANGED <<ledger, analysis>> /\ (Proceed(s, "conflict")
             \/ Proceed(s, "rollback") \/ Proceed(s, "compensate"))
  BY DEF CreateRecord, ResolveConflict, SubmissionReplyLost, At, records, usageOnly
<1> QED
  BY <1>5, <1>6, <1>7

LEMMA SubmissionFaultsKeepQuota ==
  ASSUME QuotaInvariant, GapInvariant', WritesOpen, NEW s \in Submissions,
         \/ SubmissionStatementFails(s) \/ SubmissionStorageFails(s)
         \/ SubmissionReplyLost(s) /\ ~At(s, "create")
  PROVE  QuotaInvariant'
<1>1. UNCHANGED <<counter, ledger, marker, refunds, stray, comp>>
  BY DEF SubmissionStatementFails, SubmissionStorageFails, SubmissionReplyLost,
         usageOnly
<1>2. PathsKept
  BY <1>1 DEF PathsKept
<1>3. \/ submission[s].pc \in {"create", "conflict"} /\ Proceed(s, "compensate")
      \/ submission[s].pc = "compensate" /\ Proceed(s, "failed")
      \/ /\ submission[s].pc \in Recorded
         /\ \E pc \in {"cleanup", "markFailed", "compensate"} : Proceed(s, pc)
  BY DEF SubmissionStatementFails, SubmissionStorageFails, SubmissionReplyLost, At,
         Recorded
<1>4. submission[s].pc = "create" => UNCHANGED analysis
  BY DEF SubmissionStatementFails, SubmissionStorageFails, SubmissionReplyLost, At,
         records
<1>5. submission[s].pc \in Recorded => Exists(s)
  BY DEF QuotaInvariant, GapInvariant, RequestFits
<1>6. submission[s].pc \in {"create", "conflict"} => Owes(s)
  BY DEF Owes
<1>7. {"cleanup", "markFailed", "compensate", "failed"} \in SUBSET SubmissionStep
  BY DEF SubmissionStep
<1>8. PICK to \in {"cleanup", "markFailed", "compensate", "failed"} :
        Proceed(s, to) /\ (to = "compensate" => Owes(s) \/ Exists(s))
  BY <1>3, <1>5, <1>6
<1>9. submission[s].pc # "new"
  BY <1>3 DEF Recorded
<1> QED
  BY <1>1, <1>2, <1>4, <1>7, <1>8, <1>9, GoingOnKeepsQuota

\* What an unanswered decrement takes twice is what strays.
LEMMA CounterFaultsKeepQuota ==
  ASSUME QuotaInvariant, GapInvariant', WritesOpen, NEW s \in Submissions,
         ChargeFails(s) \/ GivingBackFails(s)
  PROVE  QuotaInvariant'
<1>1. RecordsTypeOK
  BY TypesOfInvariant DEF QuotaInvariant
<1>2. UNCHANGED <<analysis, ledger, marker, refunds, comp>>
  BY DEF ChargeFails, GivingBackFails, records
<1>3. PathsKept
  BY <1>2 DEF PathsKept
<1>4. SentAgain(s) => Proceed(s, submission[s].pc)
  BY <1>1 DEF SentAgain, Proceed, RecordsTypeOK, Request
<1>5. CASE ChargeFails(s)
  <2>1. /\ submission[s].pc \in {"check", "charge"} /\ ~Owes(s)
        /\ UNCHANGED stray
        /\ counter' = counter \/ counter' = Usage!Charged(Key(s))
    BY <1>5 DEF ChargeFails, At, Owes
  <2>2. PICK to \in {"check", "charge", "failed"} : Proceed(s, to)
    BY <1>4, <1>5, <2>1 DEF ChargeFails
  <2>3. to \in SubmissionStep
    BY DEF SubmissionStep
  <2>4. CASE UNCHANGED counter
    BY <1>2, <1>3, <2>1, <2>2, <2>3, <2>4, GoingOnKeepsQuota
  <2>5. CASE counter' = Usage!Charged(Key(s))
    BY <1>2, <1>3, <2>1, <2>2, <2>3, <2>5, RequestQuota
  <2> QED
    BY <2>1, <2>4, <2>5
<1>6. CASE GivingBackFails(s)
  <2>1. /\ submission[s].pc \in {"overLimit", "rollback", "rollbackFailed"} /\ Owes(s)
        /\ Scope[Key(s)] \in Paid
        /\ \/ UNCHANGED <<counter, stray>>
           \/ /\ counter' = GivenBack(s)
              /\ stray' = [stray EXCEPT ![Scope[Key(s)]] = @ + Units[Key(s)]]
    <3>1. Key(s) \in Identities
      BY <1>6, KeyOfRequest DEF QuotaInvariant, GivingBackFails
    <3>2. Scope[Key(s)] \in Paid
      BY <1>6, <3>1, GapAssumption DEF GivingBackFails, CounterFault, Paid
    <3> QED
      BY <1>6, <3>2 DEF GivingBackFails, Owes
  <2>2. PICK to \in {"overLimit", "rollback", "rollbackFailed", "compensate", "failed"} :
          Proceed(s, to)
    BY <1>4, <1>6, <2>1 DEF GivingBackFails
  <2>3. to \in SubmissionStep
    BY DEF SubmissionStep
  <2> QED
    BY <1>2, <1>3, <2>1, <2>2, <2>3, RequestQuota
<1> QED
  BY <1>5, <1>6

LEMMA RequestCrashKeepsQuota ==
  ASSUME QuotaInvariant, GapInvariant', WritesOpen, RequestCrashes
  PROVE  QuotaInvariant'
<1>1. OthersTypeOK
  BY TypesOfInvariant DEF QuotaInvariant
<1>2. UNCHANGED <<analysis, counter, ledger, marker, refunds, stray>>
  BY DEF RequestCrashes, records
<1>3. CASE UNCHANGED <<submission, comp>>
  <2>1. PathsKept
    BY <1>3 DEF PathsKept
  <2> QED
    BY <1>2, <1>3, <2>1, QuietQuota
<1>4. ASSUME NEW s \in Submissions, submission[s].pc # "new", Proceed(s, "failed"),
             comp' = [comp EXCEPT ![s] = Usage!NoCompensation]
      PROVE  QuotaInvariant'
  <2>1. PathsKept
    BY <1>1, <1>4, EndingKeepsPaths DEF Callers
  <2>2. "failed" \in SubmissionStep
    BY DEF SubmissionStep
  <2> QED
    BY <1>2, <1>4, <2>1, <2>2, GoingOnKeepsQuota
<1> QED
  BY <1>3, <1>4 DEF RequestCrashes

-----------------------------------------------------------------------------
(* The quota and the compensations.                                        *)

\* A compensation that does not pay moves its row between states in which the
\* row holds the same units.
LEMMA UnpaidStep ==
  ASSUME QuotaInvariant, GapInvariant', WritesOpen,
         UNCHANGED <<submission, counter, marker, refunds, stray>>, PathsKept,
         NEW k \in Identities, ledger[k] # "ABSENT",
         \/ UNCHANGED ledger
         \/ /\ Scope[k] # "TRIAL"
            /\ \E state \in Usage!LedgerState \ {"ABSENT"} : Usage!SetState(k, state)
  PROVE  QuotaInvariant'
<1>1. RecordsTypeOK /\ OthersTypeOK
  BY TypesOfInvariant DEF QuotaInvariant
<1>2. /\ ledger'[k] # "ABSENT"
      /\ Scope[k] # "TRIAL" \/ ledger'[k] = ledger[k]
      /\ \A i \in Identities \ {k} : ledger'[i] = ledger[i]
  BY <1>1 DEF Usage!SetState, RecordsTypeOK
<1>3. RowsKept
  BY <1>2 DEF RowsKept
<1>4. \A i \in Identities : Usage!Holds(i)' <=> Usage!Holds(i)
  BY <1>2 DEF Usage!Holds
<1>5. RefundsFit'
  BY <1>1, <1>3, RefundsStay DEF QuotaInvariant
<1>6. QuotaIsCovered' /\ HeldWithinLimit'
  BY <1>4, QuotaStays
<1> QED
  BY <1>5, <1>6 DEF QuotaInvariant

\* A compensation that pays: once per row, with the mark of its scope.
LEMMA PaidStep ==
  ASSUME QuotaInvariant, GapInvariant', WritesOpen, UNCHANGED <<submission, stray>>, PathsKept,
         NEW k \in Identities, ledger[k] # "ABSENT",
         counter' = Usage!Refunded(k),
         refunds' = [refunds EXCEPT ![k] = @ + 1],
         \/ /\ Scope[k] = "REDIS" /\ k \notin marker
            /\ marker' = marker \cup {k} /\ UNCHANGED ledger
         \/ /\ Scope[k] = "TRIAL" /\ ledger[k] # "RELEASED"
            /\ Usage!SetState(k, "RELEASED") /\ UNCHANGED marker
  PROVE  QuotaInvariant'
<1>1. RecordsTypeOK /\ OthersTypeOK
  BY TypesOfInvariant DEF QuotaInvariant
<1>2. /\ ledger'[k] # "ABSENT"
      /\ \A i \in Identities \ {k} : ledger'[i] = ledger[i]
  BY <1>1 DEF Usage!SetState, RecordsTypeOK
<1>3. refunds[k] = 0
  BY DEF QuotaInvariant, RefundsFit, Usage!RefundsAreMarked
<1>4. /\ refunds'[k] = 1
      /\ \A i \in Identities \ {k} : refunds'[i] = refunds[i]
  BY <1>1, <1>3 DEF OthersTypeOK
<1>5. /\ Usage!Holds(k) /\ ~Usage!Holds(k)'
      /\ \A i \in Identities \ {k} : Usage!Holds(i)' <=> Usage!Holds(i)
  BY <1>2, <1>3, <1>4 DEF Usage!Holds
<1>6. QuotaIsCovered' /\ HeldWithinLimit'
  BY <1>5, RefundAccounts
<1>7. Usage!RefundsAreMarked'
  <2> SUFFICES ASSUME NEW i \in Identities
               PROVE  refunds'[i] = IF \/ Scope[i] = "REDIS" /\ i \in marker'
                                       \/ Scope[i] = "TRIAL" /\ ledger'[i] = "RELEASED"
                                    THEN 1 ELSE 0
    BY DEF Usage!RefundsAreMarked
  <2>1. CASE i = k
    <3>1. \/ Scope[k] = "REDIS" /\ k \in marker'
          \/ Scope[k] = "TRIAL" /\ ledger'[k] = "RELEASED"
      BY <1>1 DEF Usage!SetState, RecordsTypeOK
    <3> QED
      BY <1>4, <2>1, <3>1
  <2>2. CASE i # k
    <3>1. /\ refunds'[i] = refunds[i] /\ ledger'[i] = ledger[i]
          /\ i \in marker' <=> i \in marker
      BY <1>2, <1>4, <2>2
    <3>2. refunds[i] = IF \/ Scope[i] = "REDIS" /\ i \in marker
                          \/ Scope[i] = "TRIAL" /\ ledger[i] = "RELEASED"
                       THEN 1 ELSE 0
      BY DEF QuotaInvariant, RefundsFit, Usage!RefundsAreMarked
    <3> QED
      BY <3>1, <3>2
  <2> QED
    BY <2>1, <2>2
<1>8. (\A i \in marker : ledger[i] # "ABSENT")'
  <2> SUFFICES ASSUME NEW i \in marker' PROVE ledger'[i] # "ABSENT"
    OBVIOUS
  <2>1. i = k \/ i \in marker
    OBVIOUS
  <2> QED
    BY <1>1, <1>2, <2>1 DEF QuotaInvariant, RefundsFit, OthersTypeOK
<1>9. RefundsFit'
  BY <1>1, <1>7, <1>8, PathsStay DEF QuotaInvariant, RefundsFit
<1> QED
  BY <1>6, <1>9 DEF QuotaInvariant

LEMMA CompensatingKeepsQuota ==
  ASSUME QuotaInvariant, GapInvariant', WritesOpen, NEW c \in Callers,
         Compensating(c) \/ CompensationFails(c)
  PROVE  QuotaInvariant'
<1>1. RecordsTypeOK /\ OthersTypeOK
  BY TypesOfInvariant DEF QuotaInvariant
<1>2. UNCHANGED <<submission, stray>>
  BY DEF Compensating, CompensationFails, requests
<1>3. comp[c].pc \in {"trial", "unlimited"} \cup PaidPath
  BY DEF Compensating, CompensationFails, Usage!CompensationStep,
         Usage!CompensationFault, Usage!CompensateTrial, Usage!CompensateUnlimited,
         Usage!ClaimCompensation, Usage!Refund, Usage!Release,
         Usage!PostponeCompensation, Usage!RefundFails, Usage!StatementFails, PaidPath
<1>4. PICK k \in Identities : k = comp[c].key
  BY <1>1, <1>3 DEF OthersTypeOK, Ended, Usage!Results, PaidPath
<1>5. /\ ledger[k] # "ABSENT"
      /\ comp[c].pc = "trial" => Scope[k] = "TRIAL"
      /\ comp[c].pc = "unlimited" => Scope[k] = "UNLIMITED"
      /\ comp[c].pc \in PaidPath => Scope[k] = "REDIS"
  BY <1>3, <1>4
     DEF QuotaInvariant, GapInvariant, CompensationFits, RefundsFit,
         Usage!PathsFollowScopes, PaidPath, Usage!Results, Callers
<1>6. ASSUME NEW pc, Usage!Step(c, pc),
             pc \in Usage!Results \/ (pc \in PaidPath /\ comp[c].pc \in PaidPath)
      PROVE  PathsKept
  <2>1. /\ comp'[c].pc = pc /\ comp'[c].key = comp[c].key
        /\ \A d \in Callers \ {c} : comp'[d] = comp[d]
    BY <1>1, <1>6 DEF Usage!Step, OthersTypeOK, Compensation
  <2> QED
    BY <1>6, <2>1 DEF PathsKept, Ended
<1>7. PathsKept
  <2>1. \E pc \in Usage!Results \cup PaidPath :
          /\ Usage!Step(c, pc)
          /\ pc \in Usage!Results \/ (pc \in PaidPath /\ comp[c].pc \in PaidPath)
    BY DEF Compensating, CompensationFails, Usage!CompensationStep,
           Usage!CompensationFault, Usage!CompensateTrial, Usage!CompensateUnlimited,
           Usage!ClaimCompensation, Usage!Refund, Usage!Release,
           Usage!PostponeCompensation, Usage!RefundFails, Usage!StatementFails,
           PaidPath, Usage!Results
  <2> QED
    BY <1>6, <2>1
<1>8. CASE Usage!CompensateTrial(c)
  <2>1. Scope[k] = "TRIAL"
    BY <1>5, <1>8 DEF Usage!CompensateTrial
  <2>2. CASE UNCHANGED <<ledger, counter, refunds>>
    BY <1>2, <1>5, <1>7, <1>8, <2>2, UnpaidStep DEF Usage!CompensateTrial
  <2>3. CASE ledger[k] \in {"RESERVED", "COMPENSATION_PENDING"}
    BY <1>2, <1>4, <1>5, <1>7, <1>8, <2>1, <2>3, PaidStep DEF Usage!CompensateTrial
  <2> QED
    BY <1>4, <1>8, <2>2, <2>3 DEF Usage!CompensateTrial
<1>9. CASE Usage!Refund(c) \/ Usage!RefundFails(c)
  <2>1. /\ UNCHANGED ledger /\ comp[c].pc = "refund"
        /\ UNCHANGED <<counter, marker, refunds>> \/ Usage!RefundScript(k)
    BY <1>4, <1>9 DEF Usage!Refund, Usage!RefundFails
  <2>2. Scope[k] = "REDIS"
    BY <1>5, <2>1 DEF PaidPath
  <2>3. CASE UNCHANGED <<counter, marker, refunds>>
    BY <1>2, <1>5, <1>7, <2>1, <2>3, UnpaidStep
  <2>4. CASE Usage!RefundScript(k) /\ k \notin marker
    BY <1>2, <1>5, <1>7, <2>1, <2>2, <2>4, PaidStep DEF Usage!RefundScript
  <2> QED
    BY <2>1, <2>3, <2>4 DEF Usage!RefundScript
<1>10. CASE \/ Usage!CompensateUnlimited(c) \/ Usage!ClaimCompensation(c)
            \/ Usage!Release(c) \/ Usage!PostponeCompensation(c)
  <2>1. /\ UNCHANGED <<counter, marker, refunds>>
        /\ comp[c].pc \in {"unlimited", "claim", "release", "postpone"}
    BY <1>10 DEF Usage!CompensateUnlimited, Usage!ClaimCompensation, Usage!Release,
                 Usage!PostponeCompensation
  <2>2. Scope[k] # "TRIAL"
    BY <1>5, <2>1 DEF PaidPath
  <2>3. \/ UNCHANGED ledger
        \/ \E state \in {"RELEASED", "COMPENSATING", "COMPENSATION_PENDING"} :
             Usage!SetState(k, state)
    BY <1>4, <1>10 DEF Usage!CompensateUnlimited, Usage!ClaimCompensation,
                       Usage!Release, Usage!PostponeCompensation
  <2>4. {"RELEASED", "COMPENSATING", "COMPENSATION_PENDING"}
          \in SUBSET (Usage!LedgerState \ {"ABSENT"})
    BY DEF Usage!LedgerState
  <2> QED
    BY <1>2, <1>5, <1>7, <2>1, <2>2, <2>3, <2>4, UnpaidStep
<1>11. CASE Usage!StatementFails(c)
  <2>1. UNCHANGED <<ledger, counter, marker, refunds>>
    BY <1>11 DEF Usage!StatementFails
  <2> QED
    BY <1>2, <1>5, <1>7, <2>1, UnpaidStep
<1> QED
  BY <1>8, <1>9, <1>10, <1>11
     DEF Compensating, CompensationFails, Usage!CompensationStep,
         Usage!CompensationFault

-----------------------------------------------------------------------------
(* The quota's theorems.                                                   *)

LEMMA QuotaInitially == Init => QuotaInvariant
<1> SUFFICES ASSUME Init PROVE QuotaInvariant
  OBVIOUS
<1>1. GapInvariant
  BY GapInitially
<1>2. RefundsFit
  BY DEF Init, Usage!UsageInit, RefundsFit, Usage!RefundsAreMarked,
         Usage!PathsFollowScopes, Usage!NoCompensation
<1>3. ASSUME NEW x \in Paid
      PROVE  /\ Held(x) = 0 /\ Owed(x) = 0 /\ Starting(x) = 0
             /\ counter[x] = 0 /\ stray[x] = 0 /\ Limit[x] \in Nat
  <2>1. /\ Usage!UnitsHeld(x) = {} /\ UnitsOf(Owing(x)) = {}
        /\ UnitsOf(Creating(x)) = {}
    <3>1. \A k \in Identities : ~Usage!Holds(k)
      BY DEF Init, Usage!UsageInit, Usage!Holds
    <3>2. Owing(x) = {} /\ Creating(x) = {}
      BY DEF Init, Owing, Creating, Owes, At
    <3> QED
      BY <3>1, <3>2 DEF Usage!UnitsHeld, UnitsOf
  <2> QED
    BY <1>3, <2>1, FS_EmptySet, GapAssumption
       DEF Held, Owed, Starting, Init, Usage!UsageInit, Paid
<1>4. QuotaIsCovered /\ HeldWithinLimit
  BY <1>3, QuotaByNumbers
<1> QED
  BY <1>1, <1>2, <1>4 DEF QuotaInvariant

LEMMA QuotaStep ==
  ASSUME QuotaInvariant, [Next]_vars
  PROVE  QuotaInvariant'
<1>1. GapInvariant' /\ WritesOpen
  BY GapStepKeepsInvariant, StepsWriteOpen DEF QuotaInvariant
<1>2. ASSUME NEW s \in Submissions, SubmissionProceeds(s) PROVE QuotaInvariant'
  BY <1>1, <1>2, DedupeKeepsQuota, ChargingKeepsQuota, CreateKeepsQuota,
     StoringKeepsQuota, CompensateKeepsQuota DEF SubmissionProceeds
<1>3. ASSUME NEW s \in Submissions, AnalysisAges(s) \/ QueueTime(s)
      PROVE  QuotaInvariant'
  BY <1>1, <1>3, TimeKeepsQuota
<1>4. ASSUME NEW d \in Deletions, ReadForDeletion(d) \/ DeletionStep(d)
      PROVE  QuotaInvariant'
  BY <1>1, <1>4, DeletionKeepsQuota
<1>5. ASSUME NEW c \in Submissions \cup Processes,
             Compensating(c) \/ CompensationFails(c)
      PROVE  QuotaInvariant'
  BY <1>1, <1>5, CompensatingKeepsQuota DEF Callers
<1>6. ASSUME NEW p \in Processes,
             \/ ExecutionStep(p) \/ ReadForRecovery(p) \/ ObserveRevocation(p)
             \/ PipelineFails(p) \/ Heartbeat(p) \/ RunnerCrashes(p)
             \/ CompletionFails(p) \/ StatusWriteFails(p) \/ FinalReplyLost(p)
      PROVE  QuotaInvariant'
  BY <1>1, <1>6, RunnerKeepsQuota, RefundingKeepsQuota
<1>7. ASSUME NEW s \in Submissions,
             \/ QueueFault(s) \/ SubmissionStatementFails(s) \/ SubmissionReplyLost(s)
             \/ SubmissionStorageFails(s) \/ ChargeFails(s) \/ GivingBackFails(s)
      PROVE  QuotaInvariant'
  BY <1>1, <1>7, TimeKeepsQuota, SubmissionFaultsKeepQuota, CreateKeepsQuota,
     CounterFaultsKeepQuota
<1>8. CASE RequestCrashes
  BY <1>1, <1>8, RequestCrashKeepsQuota
<1>9. CASE UNCHANGED vars
  BY <1>1, <1>9, TimeKeepsQuota
<1> QED
  BY <1>2, <1>3, <1>4, <1>5, <1>6, <1>7, <1>8, <1>9 DEF Next, FaultStep

\* The quota's invariant, whatever requests, runners, deletions and operators
\* of the same organization do at the same time (resolveUsageLimit,
\* doIncrement, rollbackUsage and compensateGapAnalysisUsage together).
THEOREM QuotaInvariantHolds == Spec => []QuotaInvariant
<1>1. Init => QuotaInvariant
  BY QuotaInitially
<1>2. QuotaInvariant /\ [Next]_vars => QuotaInvariant'
  BY QuotaStep
<1> QED
  BY <1>1, <1>2, PTL DEF Spec

\* No rollback, refund or retry takes away units that another analysis holds or
\* another request was charged, but for those an unanswered decrement took: with
\* them the counter covers every reservation.
THEOREM CounterCoversReservations == Spec => []QuotaIsCovered
BY QuotaInvariantHolds, PTL DEF QuotaInvariant

\* The reservations that were not given back, with those about to be made, exceed
\* the plan's quota or the trial's cap by no more than unanswered decrements took.
THEOREM ReservationsRespectLimit == Spec => []HeldWithinLimit
BY QuotaInvariantHolds, PTL DEF QuotaInvariant

-----------------------------------------------------------------------------
(* The lease.  A step of the life cycle leaves the numbering of the claims *)
(* alone, unless it is a claim: the application, which the queue's own     *)
(* proofs know by its enqueues and cancellations only, writes a job's row  *)
(* in many more places here.                                               *)

KeepsJobs ==
  /\ UNCHANGED claimant
  /\ \A s \in Submissions :
       /\ job'[s].attempts = job[s].attempts
       /\ job[s].status \in Queue!Terminal => job'[s] = job[s]

KeepsRunners ==
  \A q \in Processes :
    runner'[q].pc \in Queue!Executing =>
      /\ runner[q].pc \in Queue!Executing
      /\ runner'[q].job = runner[q].job /\ runner'[q].attempt = runner[q].attempt

KeepsClaims == KeepsJobs /\ KeepsRunners

LEMMA KeptClaims ==
  ASSUME GapTypeOK, ClaimsAreNumbered, KeepsClaims
  PROVE  ClaimsAreNumbered'
<1> SUFFICES ASSUME NEW p \in Processes, runner'[p].pc \in Queue!Executing
             PROVE  /\ runner'[p].attempt <= job'[runner'[p].job].attempts
                    /\ runner'[p].attempt = job'[runner'[p].job].attempts
                         => claimant'[runner'[p].job] = p
  BY DEF ClaimsAreNumbered, Doing
<1>1. /\ runner[p].pc \in Queue!Executing
      /\ runner'[p].job = runner[p].job /\ runner'[p].attempt = runner[p].attempt
  BY DEF KeepsClaims, KeepsRunners
<1>2. runner[p].job \in Submissions
  BY <1>1, TypesSplit, Executes DEF Doing
<1> QED
  BY <1>1, <1>2 DEF ClaimsAreNumbered, Doing, KeepsClaims, KeepsJobs

\* The ways a row changes: not at all, one row that is not terminal, or those
\* whose lock is stale.
LEMMA RowKeepsJobs ==
  ASSUME RecordsTypeOK, UNCHANGED claimant,
         \/ UNCHANGED job
         \/ \E s \in Submissions : \E row :
              /\ job' = [job EXCEPT ![s] = row]
              /\ row.attempts = job[s].attempts
              /\ job[s].status \notin Queue!Terminal
  PROVE  KeepsJobs
<1>1. DOMAIN job = Submissions /\ job = [s \in Submissions |-> job[s]]
  BY DEF RecordsTypeOK
<1> QED
  BY <1>1 DEF KeepsJobs

LEMMA UnlockingKeepsAttempts ==
  ASSUME NEW row \in Queue!JobRow, NEW status
  PROVE  Queue!Unlocked(row, status).attempts = row.attempts
BY DEF Queue!JobRow, Queue!Unlocked

LEMMA FlagKeepsJobs ==
  ASSUME RecordsTypeOK, UNCHANGED claimant, NEW s \in Submissions,
         job[s].status \notin Queue!Terminal,
         \/ \E b : job' = [job EXCEPT ![s].stale = b]
         \/ \E b : job' = [job EXCEPT ![s].due = b]
         \/ \E status : job' = [job EXCEPT ![s] = Queue!Unlocked(@, status)]
  PROVE  KeepsJobs
<1>1. job[s] \in Queue!JobRow
  BY DEF RecordsTypeOK
<1>2. ASSUME NEW b, job' = [job EXCEPT ![s].stale = b] PROVE KeepsJobs
  <2> DEFINE row == [job[s] EXCEPT !.stale = b]
  <2>1. row.attempts = job[s].attempts /\ job' = [job EXCEPT ![s] = row]
    BY <1>1, <1>2 DEF Queue!JobRow
  <2> HIDE DEF row
  <2> QED
    BY <2>1, RowKeepsJobs
<1>3. ASSUME NEW b, job' = [job EXCEPT ![s].due = b] PROVE KeepsJobs
  <2> DEFINE row == [job[s] EXCEPT !.due = b]
  <2>1. row.attempts = job[s].attempts /\ job' = [job EXCEPT ![s] = row]
    BY <1>1, <1>3 DEF Queue!JobRow
  <2> HIDE DEF row
  <2> QED
    BY <2>1, RowKeepsJobs
<1>4. ASSUME NEW status, job' = [job EXCEPT ![s] = Queue!Unlocked(@, status)]
      PROVE  KeepsJobs
  <2> DEFINE row == Queue!Unlocked(job[s], status)
  <2>1. row.attempts = job[s].attempts
    BY <1>1, UnlockingKeepsAttempts
  <2>2. job' = [job EXCEPT ![s] = row]
    BY <1>4
  <2> HIDE DEF row
  <2> QED
    BY <2>1, <2>2, RowKeepsJobs
<1> QED
  BY <1>2, <1>3, <1>4

LEMMA UpsertKeepsJobs ==
  ASSUME RecordsTypeOK, UNCHANGED claimant, NEW s \in Submissions,
         job' = Queue!Upserted(s)
  PROVE  KeepsJobs
<1> DEFINE row == [job[s] EXCEPT !.status = "QUEUED", !.due = TRUE]
<1>1. row.attempts = job[s].attempts
  BY DEF RecordsTypeOK, Queue!JobRow
<1>2. \/ job' = [job EXCEPT ![s] = row] /\ job[s].status = "ABSENT"
      \/ UNCHANGED job
  BY DEF Queue!Upserted, RecordsTypeOK
<1> HIDE DEF row
<1> QED
  BY <1>1, <1>2, RowKeepsJobs DEF Queue!Terminal

LEMMA RequeueKeepsJobs ==
  ASSUME RecordsTypeOK, NEW p \in Processes, Queue!RequeueStaleLocks(p)
  PROVE  KeepsJobs
<1> DEFINE expired == {j \in Submissions : job[j].status = "RUNNING" /\ job[j].stale}
           Back(j) == [Queue!Unlocked(job[j], "RETRYING") EXCEPT !.due = TRUE]
<1>1. job' = [j \in Submissions |-> IF j \in expired THEN Back(j) ELSE job[j]]
  BY DEF Queue!RequeueStaleLocks
<1>2. \A j \in Submissions : Back(j).attempts = job[j].attempts
  BY DEF RecordsTypeOK, Queue!Unlocked, Queue!JobRow
<1>3. UNCHANGED claimant
  BY DEF Queue!RequeueStaleLocks
<1> HIDE DEF Back
<1> QED
  BY <1>1, <1>2, <1>3 DEF KeepsJobs, Queue!Terminal

\* The ways a runner's execution changes: it goes on, or is over.
LEMMA RunnerKept ==
  ASSUME OthersTypeOK, NEW p \in Processes, NEW r,
         runner' = [runner EXCEPT ![p] = r],
         r.pc \in Queue!Executing =>
           /\ runner[p].pc \in Queue!Executing
           /\ r.job = runner[p].job /\ r.attempt = runner[p].attempt
  PROVE  KeepsRunners
<1>1. runner'[p] = r /\ \A q \in Processes \ {p} : runner'[q] = runner[q]
  BY DEF OthersTypeOK
<1> QED
  BY <1>1 DEF KeepsRunners

LEMMA RunnerEnds ==
  ASSUME OthersTypeOK, NEW p \in Processes,
         \/ UNCHANGED runner
         \/ runner' = [runner EXCEPT ![p] = Queue!Idle]
         \/ runner' = [runner EXCEPT ![p] = Queue!Polling]
  PROVE  KeepsRunners
<1>1. /\ Queue!Idle.pc \notin Queue!Executing
      /\ Queue!Polling.pc \notin Queue!Executing
  BY DEF Queue!Idle, Queue!Polling, Queue!Executing
<1>2. UNCHANGED runner => KeepsRunners
  BY DEF KeepsRunners
<1> QED
  BY <1>1, <1>2, RunnerKept

LEMMA RunnerGoesOn ==
  ASSUME OthersTypeOK, NEW p \in Processes, runner[p].pc \in Queue!Executing,
         NEW pc, NEW x
  PROVE  /\ Queue!Goto(p, pc) => KeepsRunners
         /\ runner' = [runner EXCEPT ![p].pc = pc, ![p].retryable = x] => KeepsRunners
         /\ runner' = [runner EXCEPT ![p].pc = pc, ![p].verdict = x] => KeepsRunners
<1>1. runner[p] \in Queue!Execution /\ runner \in [Processes -> Runner]
  BY Executes DEF OthersTypeOK
<1> DEFINE on(r) == r.job = runner[p].job /\ r.attempt = runner[p].attempt
           moved == [runner[p] EXCEPT !.pc = pc]
           thrown == [runner[p] EXCEPT !.pc = pc, !.retryable = x]
           ended == [runner[p] EXCEPT !.pc = pc, !.verdict = x]
<1>2. on(moved) /\ on(thrown) /\ on(ended)
  BY <1>1 DEF Queue!Execution
<1>3. Queue!Goto(p, pc) => runner' = [runner EXCEPT ![p] = moved]
  BY DEF Queue!Goto
<1>4. runner' = [runner EXCEPT ![p].pc = pc, ![p].retryable = x]
        => runner' = [runner EXCEPT ![p] = thrown]
  BY <1>1
<1>5. runner' = [runner EXCEPT ![p].pc = pc, ![p].verdict = x]
        => runner' = [runner EXCEPT ![p] = ended]
  BY <1>1
<1> HIDE DEF moved, thrown, ended
<1>6. ASSUME NEW r, on(r), runner' = [runner EXCEPT ![p] = r] PROVE KeepsRunners
  BY <1>6, RunnerKept
<1> HIDE DEF on
<1>7. runner' = [runner EXCEPT ![p].pc = pc, ![p].retryable = x] => KeepsRunners
  BY <1>2, <1>4, <1>6
<1>8. runner' = [runner EXCEPT ![p].pc = pc, ![p].verdict = x] => KeepsRunners
  BY <1>2, <1>5, <1>6
<1> QED
  BY <1>2, <1>3, <1>6, <1>7, <1>8

LEMMA NothingKeepsClaims ==
  ASSUME GapTypeOK, UNCHANGED queueOnly
  PROVE  KeepsClaims
BY DEF KeepsClaims, KeepsJobs, KeepsRunners, queueOnly

LEMMA RequestsKeepClaims ==
  ASSUME GapTypeOK,
         \/ RequestCrashes
         \/ \E s \in Submissions :
              \/ SubmissionProceeds(s) \/ SubmissionStatementFails(s)
              \/ SubmissionReplyLost(s) \/ SubmissionStorageFails(s)
              \/ ChargeFails(s) \/ GivingBackFails(s)
  PROVE  KeepsClaims
<1>1. RecordsTypeOK /\ OthersTypeOK
  BY TypesSplit
<1>2. UNCHANGED queueOnly \/ \E s \in Submissions :
        UNCHANGED <<runner, claimant>> /\ (job' = Queue!Upserted(s) \/ UNCHANGED job)
  <2>1. CASE RequestCrashes
    BY <2>1 DEF RequestCrashes
  <2>2. ASSUME NEW s \in Submissions, SubmissionProceeds(s)
        PROVE  UNCHANGED queueOnly \/ EnqueueJob(s)
    BY <2>2
       DEF SubmissionProceeds, Dedupe, ResolveUsage, ReserveUnits, UndoOverLimit,
           CreateRecord, ResolveConflict, RollbackReused, Upload, PersistReference,
           Publish, Cleanup, MarkSubmissionFailed, Compensate, FinishCompensation,
           RollbackFailed, CounterStep
  <2>3. ASSUME NEW s \in Submissions,
               \/ SubmissionReplyLost(s) \/ SubmissionStorageFails(s)
               \/ ChargeFails(s) \/ GivingBackFails(s)
        PROVE  UNCHANGED queueOnly
    BY <2>3 DEF SubmissionReplyLost, SubmissionStorageFails, ChargeFails,
                GivingBackFails
  <2>4. ASSUME NEW s \in Submissions, EnqueueJob(s) \/ SubmissionStatementFails(s)
        PROVE  UNCHANGED <<runner, claimant>>
                 /\ (job' = Queue!Upserted(s) \/ UNCHANGED job)
    BY <2>4 DEF EnqueueJob, SubmissionStatementFails
  <2> QED
    BY <2>1, <2>2, <2>3, <2>4
<1>3. ASSUME NEW s \in Submissions, UNCHANGED <<runner, claimant>>,
             job' = Queue!Upserted(s) \/ UNCHANGED job
      PROVE  KeepsClaims
  <2>1. KeepsJobs
    BY <1>1, <1>3, UpsertKeepsJobs, RowKeepsJobs
  <2>2. KeepsRunners
    BY <1>3 DEF KeepsRunners
  <2> QED
    BY <2>1, <2>2 DEF KeepsClaims
<1> QED
  BY <1>2, <1>3, NothingKeepsClaims

LEMMA DeletionsKeepClaims ==
  ASSUME GapInvariant, NEW d \in Deletions, ReadForDeletion(d) \/ DeletionStep(d)
  PROVE  KeepsClaims
<1>1. RecordsTypeOK /\ OthersTypeOK /\ GapTypeOK /\ DeletionFits(d)
  BY TypesOfInvariant DEF GapInvariant
<1>2. UNCHANGED queueOnly \/ CancelJobs(d)
  BY DEF ReadForDeletion, DeletionStep, RevokeAnalysis, PublishDeletion
<1>3. CASE CancelJobs(d) /\ ~UNCHANGED queueOnly
  <2>1. deletion[d].of \in Submissions /\ Queue!CancelByOwner(deletion[d].of)
    BY <1>1, <1>3 DEF CancelJobs, DeletionAt, DeletionFits, OthersTypeOK
  <2>2. KeepsJobs
    BY <1>1, <2>1, FlagKeepsJobs
       DEF Queue!CancelByOwner, Queue!Waiting, Queue!Terminal
  <2>3. KeepsRunners
    BY <2>1 DEF KeepsRunners, Queue!CancelByOwner
  <2> QED
    BY <2>2, <2>3 DEF KeepsClaims
<1> QED
  BY <1>1, <1>2, <1>3, NothingKeepsClaims

LEMMA TimeKeepsClaims ==
  ASSUME GapTypeOK,
         \/ \E s \in Submissions : AnalysisAges(s) \/ QueueTime(s) \/ QueueFault(s)
         \/ \E p \in Processes : Heartbeat(p)
  PROVE  KeepsClaims
<1>1. RecordsTypeOK /\ OthersTypeOK
  BY TypesSplit
<1>2. UNCHANGED <<runner, claimant>>
  BY DEF AnalysisAges, QueueTime, QueueFault, Heartbeat, queueOnly,
         Queue!RunAfterElapses, Queue!AbandonedLockExpires, Queue!HeartbeatStalls,
         Queue!Heartbeat
<1>3. KeepsJobs
  <2>1. CASE \E s \in Submissions : AnalysisAges(s)
    BY <1>1, <1>2, <2>1, RowKeepsJobs DEF AnalysisAges, queueOnly
  <2>2. ASSUME NEW s \in Submissions, QueueTime(s) \/ QueueFault(s) PROVE KeepsJobs
    BY <1>1, <1>2, <2>2, FlagKeepsJobs
       DEF QueueTime, QueueFault, Queue!RunAfterElapses, Queue!AbandonedLockExpires,
           Queue!HeartbeatStalls, Queue!Terminal
  <2>3. ASSUME NEW p \in Processes, Heartbeat(p) PROVE KeepsJobs
    <3>1. Doing(p) \in Submissions
      BY <1>1, <2>3, Executes DEF Heartbeat, Queue!Heartbeat
    <3> QED
      BY <1>1, <1>2, <2>3, <3>1, FlagKeepsJobs
         DEF Heartbeat, Queue!Heartbeat, Queue!LeaseHeld, Doing, Queue!Terminal
  <2> QED
    BY <2>1, <2>2, <2>3
<1> QED
  BY <1>2, <1>3 DEF KeepsClaims, KeepsRunners

\* The writes of a worker that holds its lease.
LEMMA LeasedKeepsJobs ==
  ASSUME RecordsTypeOK, OthersTypeOK, UNCHANGED claimant,
         NEW p \in Processes, runner[p].pc \in Queue!Executing, Queue!LeaseHeld(p),
         \/ job' = [job EXCEPT ![Doing(p)].stale = FALSE]
         \/ \E status : job' = [job EXCEPT ![Doing(p)] = Queue!Unlocked(@, status)]
  PROVE  KeepsJobs
<1>1. Doing(p) \in Submissions /\ job[Doing(p)].status \notin Queue!Terminal
  BY Executes DEF Queue!LeaseHeld, Doing, Queue!Terminal
<1> QED
  BY <1>1, FlagKeepsJobs

\* A handler that goes on, ends, or finds its write refused.
LEMMA HandlersKeepClaims ==
  ASSUME GapTypeOK, NEW p \in Processes, runner[p].pc = "running",
         \/ UNCHANGED queueOnly
         \/ EndsCancelled(p) \/ EndsLeaseLost(p) \/ StatusRefused(p)
  PROVE  KeepsClaims
<1>1. RecordsTypeOK /\ OthersTypeOK /\ runner[p].pc \in Queue!Executing
  BY TypesSplit DEF Queue!Executing
<1>2. CASE Queue!HandlerCancelled(p)
  <2>1. KeepsJobs
    BY <1>1, <1>2, RowKeepsJobs DEF Queue!HandlerCancelled
  <2>2. KeepsRunners
    BY <1>1, <1>2, RunnerGoesOn DEF Queue!HandlerCancelled
  <2> QED
    BY <2>1, <2>2 DEF KeepsClaims
<1>3. CASE Queue!ProgressFenced(p)
  <2>1. KeepsJobs
    BY <1>1, <1>3, RowKeepsJobs DEF Queue!ProgressFenced
  <2>2. KeepsRunners
    BY <1>1, <1>3, RunnerEnds DEF Queue!ProgressFenced, Queue!Return
  <2> QED
    BY <2>1, <2>2 DEF KeepsClaims
<1> QED
  BY <1>2, <1>3, NothingKeepsClaims DEF EndsCancelled, EndsLeaseLost, StatusRefused

LEMMA PipelineKeepsClaims ==
  ASSUME GapTypeOK, NEW p \in Processes,
         \/ Authorize(p) \/ Download(p) \/ ObserveRevocation(p) \/ PipelineFails(p)
         \/ Extract(p) \/ Analyze(p) \/ Complete(p) \/ Finalize(p)
         \/ RecordFailure(p) \/ FinalReplyLost(p)
  PROVE  KeepsClaims
<1>1. RecordsTypeOK /\ OthersTypeOK
  BY TypesSplit
<1>2. runner[p].pc = "running" /\ runner[p].pc \in Queue!Executing
  BY DEF Authorize, Download, ObserveRevocation, PipelineFails, Extract, Analyze,
         Complete, Advance, Finalize, RecordFailure, FinalReplyLost, Running,
         Queue!Executing
<1>3. ASSUME \/ EndsCancelled(p) \/ EndsLeaseLost(p) \/ StatusRefused(p)
             \/ \E at : ContinuesAt(p, at)
      PROVE  KeepsClaims
  BY <1>2, <1>3, HandlersKeepClaims DEF ContinuesAt
<1>4. ASSUME NEW status, StatusTransaction(p, status) \/ FinalTransaction(p),
             UNCHANGED claimant
      PROVE  KeepsJobs
  BY <1>1, <1>2, <1>4, LeasedKeepsJobs DEF StatusTransaction, FinalTransaction
<1>5. CASE Authorize(p) \/ Download(p) \/ ObserveRevocation(p) \/ PipelineFails(p)
  BY <1>3, <1>5 DEF Authorize, Download, ObserveRevocation, PipelineFails
<1>6. CASE Extract(p) \/ Analyze(p) \/ Complete(p)
  <2>1. \/ StatusRefused(p)
        \/ UNCHANGED <<runner, claimant>>
             /\ \E status : StatusTransaction(p, status)
    BY <1>6 DEF Extract, Analyze, Complete, Advance
  <2>2. UNCHANGED runner => KeepsRunners
    BY <1>1, RunnerEnds
  <2> QED
    BY <1>3, <1>4, <2>1, <2>2 DEF KeepsClaims
<1>7. CASE Finalize(p)
  <2>1. \/ StatusRefused(p)
        \/ FinalTransaction(p) /\ Queue!Goto(p, "completing") /\ UNCHANGED claimant
    BY <1>7 DEF Finalize
  <2>2. Queue!Goto(p, "completing") => KeepsRunners
    BY <1>1, <1>2, RunnerGoesOn
  <2> QED
    BY <1>3, <1>4, <2>1, <2>2 DEF KeepsClaims
<1>8. CASE RecordFailure(p)
  <2>1. PICK retryable \in BOOLEAN :
          \/ StatusRefused(p)
          \/ /\ StatusTransaction(p, "FAILED") /\ UNCHANGED claimant
             /\ runner' = [runner EXCEPT ![p].pc = "failing",
                                         ![p].retryable = retryable]
    BY <1>8 DEF RecordFailure
  <2>2. CASE StatusRefused(p)
    BY <1>3, <2>2
  <2>3. CASE ~StatusRefused(p)
    <3>1. KeepsJobs
      BY <1>4, <2>1, <2>3
    <3>2. KeepsRunners
      BY <1>1, <1>2, <2>1, <2>3, RunnerGoesOn
    <3> QED
      BY <3>1, <3>2 DEF KeepsClaims
  <2> QED
    BY <2>2, <2>3
<1>9. CASE FinalReplyLost(p)
  <2>1. KeepsJobs
    BY <1>4, <1>9 DEF FinalReplyLost
  <2>2. KeepsRunners
    BY <1>1, <1>9, RunnerEnds DEF FinalReplyLost
  <2> QED
    BY <2>1, <2>2 DEF KeepsClaims
<1> QED
  BY <1>5, <1>6, <1>7, <1>8, <1>9

LEMMA EndingKeepsClaims ==
  ASSUME GapTypeOK, NEW p \in Processes, runner[p].pc \in Queue!Executing,
         UNCHANGED claimant,
         \/ \E status : Queue!EndExecution(p, status)
         \/ Queue!Fenced(p) /\ (Queue!Return(p) \/ Queue!Goto(p, "verifying"))
  PROVE  KeepsClaims
<1>1. RecordsTypeOK /\ OthersTypeOK
  BY TypesSplit
<1>2. ASSUME NEW status, Queue!EndExecution(p, status) PROVE KeepsClaims
  <2>1. KeepsJobs
    BY <1>1, <1>2, LeasedKeepsJobs DEF Queue!EndExecution, Doing
  <2>2. KeepsRunners
    BY <1>1, <1>2, RunnerGoesOn DEF Queue!EndExecution
  <2> QED
    BY <2>1, <2>2 DEF KeepsClaims
<1>3. CASE Queue!Fenced(p) /\ (Queue!Return(p) \/ Queue!Goto(p, "verifying"))
  <2>1. KeepsJobs
    BY <1>1, <1>3, RowKeepsJobs DEF Queue!Fenced
  <2>2. KeepsRunners
    BY <1>1, <1>3, RunnerGoesOn, RunnerEnds DEF Queue!Return
  <2> QED
    BY <2>1, <2>2 DEF KeepsClaims
<1> QED
  BY <1>2, <1>3

LEMMA RunnerStepKeepsClaims ==
  ASSUME GapTypeOK, NEW p \in Processes,
         RunnerStep(p) \/ CompletionFails(p)
  PROVE  KeepsClaims
<1>1. RecordsTypeOK /\ OthersTypeOK
  BY TypesSplit
<1>2. CASE Queue!MarkCompleted(p) \/ Queue!MarkCancelled(p) \/ Queue!MarkFailed(p)
  <2>1. runner[p].pc \in Queue!Executing /\ UNCHANGED claimant
    BY <1>2 DEF Queue!MarkCompleted, Queue!MarkCancelled, Queue!MarkFailed,
                Queue!Executing
  <2>2. \/ \E status : Queue!EndExecution(p, status)
        \/ Queue!Fenced(p) /\ (Queue!Return(p) \/ Queue!Goto(p, "verifying"))
    BY <1>2 DEF Queue!MarkCompleted, Queue!MarkCancelled, Queue!MarkFailed
  <2> QED
    BY <2>1, <2>2, EndingKeepsClaims
<1>3. CASE Queue!VerifyCompletion(p)
  <2>1. KeepsJobs
    BY <1>1, <1>3, RowKeepsJobs DEF Queue!VerifyCompletion
  <2>2. runner[p].pc \in Queue!Executing
    BY <1>3 DEF Queue!VerifyCompletion, Queue!Executing
  <2>3. KeepsRunners
    BY <1>1, <1>3, <2>2, RunnerGoesOn, RunnerEnds
       DEF Queue!VerifyCompletion, Queue!Return
  <2> QED
    BY <2>1, <2>3 DEF KeepsClaims
<1>4. CASE Queue!RequeueStaleLocks(p)
  BY <1>1, <1>4, RequeueKeepsJobs, RunnerEnds
     DEF KeepsClaims, Queue!RequeueStaleLocks
<1>5. CASE Queue!NothingToClaim(p)
  BY <1>1, <1>5, RowKeepsJobs, RunnerEnds
     DEF KeepsClaims, Queue!NothingToClaim, Queue!Return
<1>6. CASE Queue!CompletionFails(p)
  <2>1. runner[p].pc \in Queue!Executing
    BY <1>6 DEF Queue!CompletionFails, Queue!Executing
  <2>2. KeepsJobs
    <3>1. \/ UNCHANGED job
          \/ /\ Queue!LeaseHeld(p)
             /\ job' = [job EXCEPT ![Doing(p)] = Queue!Unlocked(@, "COMPLETED")]
      BY <1>6 DEF Queue!CompletionFails, Doing
    <3>2. UNCHANGED claimant
      BY <1>6 DEF Queue!CompletionFails
    <3> QED
      BY <1>1, <2>1, <3>1, <3>2, RowKeepsJobs, LeasedKeepsJobs
  <2>3. KeepsRunners
    BY <1>1, <1>6, <2>1, RunnerGoesOn DEF Queue!CompletionFails
  <2> QED
    BY <2>2, <2>3 DEF KeepsClaims
<1> QED
  BY <1>2, <1>3, <1>4, <1>5, <1>6 DEF RunnerStep, CompletionFails

LEMMA SettlingKeepsClaims ==
  ASSUME GapTypeOK,
         \/ \E p \in Processes :
              \/ UpdateEntity(p) \/ BeginRefund(p) \/ EndRefund(p) \/ FinishTick(p)
              \/ Recover(p) \/ ReadForRecovery(p) \/ RunnerCrashes(p)
              \/ StatusWriteFails(p)
         \/ \E c \in Submissions \cup Processes : Compensating(c) \/ CompensationFails(c)
  PROVE  KeepsClaims
<1>1. RecordsTypeOK /\ OthersTypeOK
  BY TypesSplit
<1>2. ASSUME NEW p \in Processes,
             \/ UpdateEntity(p) \/ BeginRefund(p) \/ EndRefund(p)
             \/ Recover(p) \/ ReadForRecovery(p)
      PROVE  UNCHANGED queueOnly
  BY <1>2 DEF UpdateEntity, BeginRefund, EndRefund, Recover, ReadForRecovery
<1>3. ASSUME NEW c \in Submissions \cup Processes,
             Compensating(c) \/ CompensationFails(c)
      PROVE  UNCHANGED queueOnly
  BY <1>3 DEF Compensating, CompensationFails
<1>4. ASSUME NEW p \in Processes, FinishTick(p) \/ RunnerCrashes(p) PROVE KeepsClaims
  <2>1. UNCHANGED <<job, claimant>> /\ runner' = [runner EXCEPT ![p] = Queue!Idle]
    BY <1>4 DEF FinishTick, RunnerCrashes, Queue!FinishTick, Queue!Crash,
                Queue!Return
  <2> QED
    BY <1>1, <2>1, RowKeepsJobs, RunnerEnds DEF KeepsClaims
<1>5. ASSUME NEW p \in Processes, StatusWriteFails(p) PROVE KeepsClaims
  <2>1. UNCHANGED <<job, claimant>>
    BY <1>5 DEF StatusWriteFails
  <2>2. \/ UNCHANGED runner
        \/ \E retryable \in BOOLEAN :
             /\ runner[p].pc = "running"
             /\ runner' = [runner EXCEPT ![p].pc = "failing",
                                         ![p].retryable = retryable]
    BY <1>5 DEF StatusWriteFails, Running
  <2>3. KeepsRunners
    BY <1>1, <2>2, RunnerEnds, RunnerGoesOn DEF Queue!Executing
  <2> QED
    BY <1>1, <2>1, <2>3, RowKeepsJobs DEF KeepsClaims
<1> QED
  BY <1>2, <1>3, <1>4, <1>5, NothingKeepsClaims

\* A claim gives the row the next number and makes its holder the claimant.
LEMMA ClaimNumbers ==
  ASSUME GapTypeOK, ClaimsAreNumbered, NEW p \in Processes, Claim(p)
  PROVE  /\ ClaimsAreNumbered'
         /\ \A s \in Submissions :
              job[s].status \in Queue!Terminal => job'[s] = job[s]
<1>1. RecordsTypeOK /\ OthersTypeOK
  BY TypesSplit
<1>2. PICK j \in Submissions :
        /\ job[j].status \in Queue!Waiting
        /\ job' = [job EXCEPT ![j] =
             [job[j] EXCEPT !.status = "RUNNING", !.lockedBy = WorkerId[p],
                            !.attempts = job[j].attempts + 1, !.due = FALSE,
                            !.stale = FALSE]]
        /\ runner' = [runner EXCEPT ![p] =
             [pc |-> "running", job |-> j, attempt |-> job[j].attempts + 1,
              retryable |-> FALSE, verdict |-> "RUNNING"]]
        /\ claimant' = [claimant EXCEPT ![j] = p]
  BY <1>1, ClaimTakes
<1>3. /\ job[j] \in Queue!JobRow /\ job[j].attempts \in Nat
      /\ job[j].status \notin Queue!Terminal
  BY <1>1, <1>2 DEF RecordsTypeOK, Queue!JobRow, Queue!Waiting, Queue!Terminal
<1>4. /\ job'[j].attempts = job[j].attempts + 1
      /\ \A t \in Submissions \ {j} : job'[t] = job[t]
  BY <1>1, <1>2, <1>3 DEF RecordsTypeOK, Queue!JobRow
<1>5. /\ runner'[p].job = j /\ runner'[p].attempt = job[j].attempts + 1
      /\ \A q \in Processes \ {p} : runner'[q] = runner[q]
  BY <1>1, <1>2 DEF OthersTypeOK
<1>6. claimant'[j] = p /\ \A t \in Submissions \ {j} : claimant'[t] = claimant[t]
  BY <1>1, <1>2 DEF OthersTypeOK
<1>7. ASSUME NEW q \in Processes, runner'[q].pc \in Queue!Executing
      PROVE  /\ runner'[q].attempt <= job'[runner'[q].job].attempts
             /\ runner'[q].attempt = job'[runner'[q].job].attempts
                  => claimant'[runner'[q].job] = q
  <2>1. CASE q = p
    BY <1>3, <1>4, <1>5, <1>6, <2>1
  <2>2. CASE q # p
    <3>1. runner'[q] = runner[q] /\ runner[q].pc \in Queue!Executing
      BY <1>5, <1>7, <2>2
    <3>2. runner[q].job \in Submissions /\ runner[q].attempt \in Nat
      BY <1>1, <3>1, Executes DEF Doing, Queue!Execution
    <3>3. /\ runner[q].attempt <= job[runner[q].job].attempts
          /\ runner[q].attempt = job[runner[q].job].attempts
               => claimant[runner[q].job] = q
      BY <3>1 DEF ClaimsAreNumbered, Doing
    <3> QED
      BY <1>3, <1>4, <1>6, <3>1, <3>2, <3>3
  <2> QED
    BY <2>1, <2>2
<1>8. ClaimsAreNumbered'
  BY <1>7 DEF ClaimsAreNumbered, Doing
<1> QED
  BY <1>3, <1>4, <1>8

\* Every step of the life cycle claims a job, or leaves the claims as they are.
LEMMA ClaimsOrKeeps ==
  ASSUME GapInvariant, [Next]_vars
  PROVE  KeepsClaims \/ \E p \in Processes : Claim(p)
<1>1. GapTypeOK
  BY DEF GapInvariant
<1>2. ASSUME NEW s \in Submissions,
             SubmissionProceeds(s) \/ AnalysisAges(s) \/ QueueTime(s)
      PROVE  KeepsClaims
  BY <1>1, <1>2, RequestsKeepClaims, TimeKeepsClaims
<1>3. ASSUME NEW d \in Deletions, ReadForDeletion(d) \/ DeletionStep(d)
      PROVE  KeepsClaims
  BY <1>3, DeletionsKeepClaims
<1>4. ASSUME NEW c \in Submissions \cup Processes, Compensating(c)
      PROVE  KeepsClaims
  BY <1>1, <1>4, SettlingKeepsClaims
<1>5. ASSUME NEW p \in Processes,
             \/ ExecutionStep(p) \/ ReadForRecovery(p) \/ ObserveRevocation(p)
             \/ PipelineFails(p) \/ Heartbeat(p)
      PROVE  KeepsClaims \/ Claim(p)
  BY <1>1, <1>5, PipelineKeepsClaims, RunnerStepKeepsClaims, SettlingKeepsClaims,
     TimeKeepsClaims DEF ExecutionStep
<1>6. ASSUME FaultStep PROVE KeepsClaims
  BY <1>1, <1>6, RequestsKeepClaims, TimeKeepsClaims, SettlingKeepsClaims,
     RunnerStepKeepsClaims, PipelineKeepsClaims DEF FaultStep
<1>7. UNCHANGED vars => KeepsClaims
  BY <1>1, NothingKeepsClaims DEF vars
<1> QED
  BY <1>2, <1>3, <1>4, <1>5, <1>6, <1>7 DEF Next

LEMMA AnalysisStep ==
  ASSUME AnalysisInvariant, [Next]_vars
  PROVE  AnalysisInvariant'
<1>1. QuotaInvariant' /\ GapTypeOK
  BY QuotaStep DEF AnalysisInvariant, QuotaInvariant, GapInvariant
<1>2. ClaimsAreNumbered'
  BY <1>1, ClaimsOrKeeps, KeptClaims, ClaimNumbers
     DEF AnalysisInvariant, QuotaInvariant
<1> QED
  BY <1>1, <1>2 DEF AnalysisInvariant

\* The life cycle, the quota and the lease of its jobs in one invariant: claims
\* stay numbered although requests, deletions, the final transaction and the
\* pipeline's status transactions write the job's row beside the runner.
THEOREM AnalysisInvariantHolds == Spec => []AnalysisInvariant
<1>1. Init => AnalysisInvariant
  <2>1. Init => ClaimsAreNumbered
    BY DEF Init, Queue!QueueInit, ClaimsAreNumbered, Queue!Idle, Queue!Executing
  <2> QED
    BY <2>1, QuotaInitially DEF AnalysisInvariant
<1>2. AnalysisInvariant /\ [Next]_vars => AnalysisInvariant'
  BY AnalysisStep
<1> QED
  BY <1>1, <1>2, PTL DEF Spec

\* No statement of a runner, a handler, a request, a deletion or a sweep writes
\* the row of a job that was completed, cancelled or dead-lettered.
THEOREM JobOutcomesAreFinal == Spec => JobOutcomeIsFinal
<1> DEFINE Final == \A s \in Submissions :
                      job[s].status \in Queue!Terminal => job'[s] = job[s]
<1>1. AnalysisInvariant /\ [Next]_vars => Final
  BY ClaimsOrKeeps, ClaimNumbers
     DEF AnalysisInvariant, QuotaInvariant, GapInvariant, KeepsClaims, KeepsJobs
<1>2. AnalysisInvariant /\ [Next]_vars => [Final]_vars
  BY <1>1
<1> QED
  BY <1>2, AnalysisInvariantHolds, PTL DEF Spec, JobOutcomeIsFinal

\* A step moves no analysis on and settles no row, unless it is the transaction
\* of a handler that holds its lease; that one writes its own analysis and row.
Modest ==
  /\ \A s \in Submissions :
       analysis'[s].status \in InProgress \cup {"COMPLETED"}
         => analysis'[s].status = analysis[s].status
  /\ \A k \in Identities : ledger'[k] = "SETTLED" => ledger[k] = "SETTLED"

WritesOwn(p) ==
  /\ runner[p].pc = "running" /\ Queue!LeaseHeld(p)
  /\ \A s \in Submissions \ {Doing(p)} : analysis'[s] = analysis[s]
  /\ \A k \in Identities : holder[k] # Doing(p) => ledger'[k] = ledger[k]

LEMMA ModestSuffices ==
  ASSUME RecordsTypeOK,
         \/ UNCHANGED analysis
         \/ \E s \in Submissions : \E row :
              /\ analysis' = [analysis EXCEPT ![s] = row]
              /\ \/ row.status = analysis[s].status
                 \/ row.status \notin InProgress \cup {"COMPLETED"},
         \/ UNCHANGED ledger
         \/ QuietLedger
         \/ \E k \in Identities : ledger' = [ledger EXCEPT ![k] = "RESERVED"]
  PROVE  Modest
<1>1. \A k \in Identities : ledger'[k] = "SETTLED" => ledger[k] = "SETTLED"
  BY DEF QuietLedger, RecordsTypeOK
<1>2. ASSUME NEW s \in Submissions
      PROVE  analysis'[s].status \in InProgress \cup {"COMPLETED"}
               => analysis'[s].status = analysis[s].status
  <2>1. ASSUME NEW t \in Submissions, NEW row,
               analysis' = [analysis EXCEPT ![t] = row],
               \/ row.status = analysis[t].status
               \/ row.status \notin InProgress \cup {"COMPLETED"}
        PROVE  <1>2!2
    <3>1. analysis'[t] = row /\ (s # t => analysis'[s] = analysis[s])
      BY <2>1 DEF RecordsTypeOK
    <3> QED
      BY <2>1, <3>1
  <2> QED
    BY <2>1
<1> QED
  BY <1>1, <1>2 DEF Modest

LEMMA StatusIsModest ==
  ASSUME RecordsTypeOK, NEW s \in Submissions, NEW status,
         status \notin InProgress \cup {"COMPLETED"}, SetStatus(s, status),
         \/ UNCHANGED ledger
         \/ \E k \in Identities : ledger' = [ledger EXCEPT ![k] = "RESERVED"]
  PROVE  Modest
<1> DEFINE row == [analysis[s] EXCEPT !.status = status, !.aged = FALSE]
<1>1. row.status = status /\ analysis' = [analysis EXCEPT ![s] = row]
  BY DEF RecordsTypeOK, AnalysisRow, SetStatus
<1> HIDE DEF row
<1> QED
  BY <1>1, ModestSuffices

LEMMA RequestsAreModest ==
  ASSUME GapInvariant, NEW s \in Submissions,
         SubmissionProceeds(s) \/ SubmissionReplyLost(s) \/ AnalysisAges(s) \/ QueueTime(s)
  PROVE  Modest
<1> DEFINE Creates == At(s, "create") /\ Inserted(s)
<1>1. RecordsTypeOK
  BY TypesOfInvariant
<1>2. \/ UNCHANGED analysis
      \/ Creates
      \/ SetReference(s)
      \/ AnalysisAges(s)
      \/ \E status \in {"QUEUED", "FAILED"} : SetStatus(s, status)
  BY DEF SubmissionProceeds, Dedupe, ResolveUsage, ReserveUnits, UndoOverLimit,
         CreateRecord, ResolveConflict, RollbackReused, Upload, PersistReference,
         EnqueueJob, Publish, Cleanup, MarkSubmissionFailed, Compensate,
         FinishCompensation, RollbackFailed, CounterStep, SubmissionReplyLost, records,
         QueueTime
<1>3. Creates \/ UNCHANGED ledger
  BY DEF SubmissionProceeds, Dedupe, ResolveUsage, ReserveUnits, UndoOverLimit,
         CreateRecord, SubmissionReplyLost, ResolveConflict, RollbackReused, Upload, PersistReference,
         EnqueueJob, Publish, Cleanup, MarkSubmissionFailed, Compensate,
         FinishCompensation, RollbackFailed, CounterStep, usageOnly, QueueTime,
         AnalysisAges, Usage!BeginCompensation, Usage!EndCompensation
<1>4. CASE Creates
  <2>1. Key(s) \in Identities
    BY <1>4, KeyOfRequest DEF At
  <2>2. /\ SetStatus(s, "UPLOADING")
        /\ ledger' = [ledger EXCEPT ![Key(s)] = "RESERVED"]
    BY <1>4 DEF Inserted, Usage!SetState
  <2> QED
    BY <1>1, <2>1, <2>2, StatusIsModest DEF InProgress
<1>5. CASE ~Creates /\ SetReference(s)
  <2> DEFINE row == [analysis[s] EXCEPT !.doc = TRUE, !.aged = FALSE]
  <2>1. row.status = analysis[s].status /\ analysis' = [analysis EXCEPT ![s] = row]
    BY <1>1, <1>5 DEF SetReference, RecordsTypeOK, AnalysisRow
  <2> HIDE DEF row
  <2> QED
    BY <1>1, <1>3, <1>5, <2>1, ModestSuffices
<1>6. CASE ~Creates /\ AnalysisAges(s)
  <2> DEFINE row == [analysis[s] EXCEPT !.aged = TRUE]
  <2>1. row.status = analysis[s].status /\ analysis' = [analysis EXCEPT ![s] = row]
    BY <1>1, <1>6 DEF RecordsTypeOK, AnalysisRow, AnalysisAges
  <2> HIDE DEF row
  <2> QED
    BY <1>1, <1>3, <1>6, <2>1, ModestSuffices
<1>7. CASE ~Creates /\ \E status \in {"QUEUED", "FAILED"} : SetStatus(s, status)
  BY <1>1, <1>3, <1>7, StatusIsModest DEF InProgress
<1>8. CASE ~Creates /\ UNCHANGED analysis
  BY <1>1, <1>3, <1>8, ModestSuffices
<1> QED
  BY <1>2, <1>4, <1>5, <1>6, <1>7, <1>8

LEMMA OthersAreModest ==
  ASSUME GapInvariant,
         \/ \E d \in Deletions : ReadForDeletion(d) \/ DeletionStep(d)
         \/ \E c \in Submissions \cup Processes : Compensating(c) \/ CompensationFails(c)
         \/ RequestCrashes
         \/ \E s \in Submissions :
              \/ QueueFault(s) \/ SubmissionStatementFails(s)
              \/ SubmissionStorageFails(s) \/ ChargeFails(s) \/ GivingBackFails(s)
  PROVE  Modest
<1>1. RecordsTypeOK /\ OthersTypeOK
  BY TypesOfInvariant
<1>2. ASSUME NEW d \in Deletions, ReadForDeletion(d) \/ DeletionStep(d) PROVE Modest
  <2>1. UNCHANGED ledger
    BY <1>2 DEF ReadForDeletion, DeletionStep, RevokeAnalysis, CancelJobs,
                PublishDeletion, usageOnly
  <2>2. CASE UNCHANGED analysis
    BY <1>1, <2>1, <2>2, ModestSuffices
  <2>3. CASE RevokeAnalysis(d) \/ PublishDeletion(d)
    <3>1. PICK s \in Submissions : s = deletion[d].of
      BY <1>1, <2>3 DEF GapInvariant, DeletionFits, RevokeAnalysis, PublishDeletion,
                        DeletionAt, OthersTypeOK
    <3>2. CASE RevokeAnalysis(d)
      BY <1>1, <2>1, <3>1, <3>2, StatusIsModest DEF RevokeAnalysis, InProgress
    <3>3. CASE PublishDeletion(d)
      <4> DEFINE row == [analysis[s] EXCEPT !.deleted = TRUE, !.aged = FALSE]
      <4>1. row.status = analysis[s].status
            /\ analysis' = [analysis EXCEPT ![s] = row]
        BY <1>1, <3>1, <3>3 DEF RecordsTypeOK, AnalysisRow, PublishDeletion
      <4> HIDE DEF row
      <4> QED
        BY <1>1, <2>1, <4>1, ModestSuffices
    <3> QED
      BY <2>3, <3>2, <3>3
  <2> QED
    BY <1>2, <2>2, <2>3 DEF ReadForDeletion, DeletionStep, CancelJobs, records
<1>3. ASSUME NEW c \in Submissions \cup Processes,
             Compensating(c) \/ CompensationFails(c)
      PROVE  Modest
  <2>1. UNCHANGED analysis /\ QuietLedger
    BY <1>3, CompensationMoves DEF Compensating, CompensationFails, Callers, records
  <2> QED
    BY <1>1, <2>1, ModestSuffices
<1>4. CASE \/ RequestCrashes
           \/ \E s \in Submissions :
                \/ QueueFault(s) \/ SubmissionStatementFails(s)
                \/ SubmissionStorageFails(s) \/ ChargeFails(s) \/ GivingBackFails(s)
  <2>1. UNCHANGED <<analysis, ledger>>
    BY <1>4 DEF RequestCrashes, QueueFault, SubmissionStatementFails,
                SubmissionStorageFails, ChargeFails, GivingBackFails, records, usageOnly
  <2> QED
    BY <1>1, <2>1, ModestSuffices
<1> QED
  BY <1>2, <1>3, <1>4

\* Of a runner's steps, only the status transactions and the final transaction
\* write what the lease guards.
LEMMA RunnersWriteUnderLease ==
  ASSUME GapInvariant, NEW p \in Processes,
         \/ ExecutionStep(p) \/ ReadForRecovery(p) \/ ObserveRevocation(p)
         \/ PipelineFails(p) \/ Heartbeat(p) \/ RunnerCrashes(p)
         \/ CompletionFails(p) \/ StatusWriteFails(p) \/ FinalReplyLost(p)
  PROVE  Modest \/ WritesOwn(p)
<1>1. RecordsTypeOK /\ OthersTypeOK
  BY TypesOfInvariant
<1>2. CASE UNCHANGED <<analysis, ledger>>
  BY <1>1, <1>2, ModestSuffices
<1>3. CASE \/ Extract(p) \/ Analyze(p) \/ Complete(p) \/ Finalize(p)
           \/ RecordFailure(p) \/ FinalReplyLost(p)
  <2>1. runner[p].pc = "running" /\ Doing(p) \in Submissions
    BY <1>1, <1>3, Executes
       DEF Extract, Analyze, Complete, Advance, Finalize, RecordFailure,
           FinalReplyLost, Running, Queue!Executing
  <2>2. \/ UNCHANGED <<analysis, ledger>>
        \/ /\ Queue!LeaseHeld(p)
           /\ \E status : SetStatus(Doing(p), status)
           /\ UNCHANGED ledger \/ FinalTransaction(p)
    BY <1>3
       DEF Extract, Analyze, Complete, Advance, Finalize, RecordFailure,
           FinalReplyLost, StatusTransaction, FinalTransaction, StatusRefused,
           usageOnly
  <2>3. (\E status : SetStatus(Doing(p), status))
          => \A s \in Submissions \ {Doing(p)} : analysis'[s] = analysis[s]
    BY <1>1 DEF SetStatus, RecordsTypeOK
  <2>4. FinalTransaction(p)
          => \A k \in Identities : holder[k] # Doing(p) => ledger'[k] = ledger[k]
    <3> SUFFICES ASSUME FinalTransaction(p), NEW k \in Identities,
                        holder[k] # Doing(p)
                 PROVE  ledger'[k] = ledger[k]
      OBVIOUS
    <3>1. \/ UNCHANGED ledger
          \/ /\ holder[Key(Doing(p))] = Doing(p)
             /\ ledger' = Usage!Settled(Key(Doing(p)))
      BY DEF FinalTransaction
    <3>2. holder[Key(Doing(p))] = Doing(p) => Key(Doing(p)) # k
      OBVIOUS
    <3> QED
      BY <1>1, <3>1, <3>2 DEF Usage!Settled, RecordsTypeOK
  <2> QED
    BY <1>2, <2>1, <2>2, <2>3, <2>4 DEF WritesOwn
<1>4. CASE UpdateEntity(p)
  <2>1. Doing(p) \in Submissions /\ UNCHANGED ledger
    BY <1>1, <1>4, Executes
       DEF UpdateEntity, Settling, Queue!Executing, usageOnly
  <2>2. EntityStatus(runner[p].verdict) \notin InProgress \cup {"COMPLETED"}
    BY DEF EntityStatus, InProgress
  <2> QED
    BY <1>1, <1>2, <1>4, <2>1, <2>2, StatusIsModest DEF UpdateEntity
<1>5. CASE Recover(p)
  <2>1. recovery[p] \in Candidate /\ UNCHANGED ledger
    BY <1>1, <1>5 DEF Recover, OthersTypeOK, usageOnly
  <2>2. /\ recovery[p].of \in Submissions
        /\ recovery[p].next \notin InProgress \cup {"COMPLETED"}
    BY <2>1 DEF Candidate, InProgress
  <2> QED
    BY <1>1, <1>2, <1>5, <2>1, <2>2, StatusIsModest DEF Recover
<1>6. \/ UNCHANGED <<analysis, ledger>>
      \/ \/ Extract(p) \/ Analyze(p) \/ Complete(p) \/ Finalize(p)
         \/ RecordFailure(p) \/ FinalReplyLost(p)
      \/ UpdateEntity(p) \/ Recover(p)
  BY DEF ExecutionStep, Claim, Authorize, Download, RunnerStep, BeginRefund,
         EndRefund, FinishTick, ReadForRecovery, ObserveRevocation, PipelineFails,
         Heartbeat, RunnerCrashes, CompletionFails, StatusWriteFails,
         OnlyExecution, records, usageOnly, Usage!BeginCompensation,
         Usage!EndCompensation
<1> QED
  BY <1>2, <1>3, <1>4, <1>5, <1>6

LEMMA WritesUnderLease ==
  ASSUME GapInvariant, [Next]_vars
  PROVE  Modest \/ \E p \in Processes : WritesOwn(p)
<1>1. UNCHANGED vars => Modest
  BY TypesOfInvariant, ModestSuffices DEF vars, records, usageOnly
<1> QED
  BY <1>1, RequestsAreModest, OthersAreModest, RunnersWriteUnderLease
     DEF Next, FaultStep

\* Progress, the result and the settlement are written by the execution of the
\* latest claim alone, while the row is still that claim's: a worker that lost
\* its lease to a successor, a deletion or the end of the job writes neither,
\* whatever processes share a worker id.
THEOREM OnlyTheLatestClaimWrites == Spec => OnlyLatestClaimWrites
<1> DEFINE Leased == \A s \in Submissions :
             WorkIsWritten(s) => \E p \in Processes : LatestClaimant(p, s)
<1>1. ASSUME AnalysisInvariant, [Next]_vars, NEW s \in Submissions, WorkIsWritten(s)
      PROVE  \E p \in Processes : LatestClaimant(p, s)
  <2>1. GapInvariant /\ ClaimsAreNumbered
    BY <1>1 DEF AnalysisInvariant, QuotaInvariant
  <2>2. ~Modest
    BY <1>1 DEF Modest, WorkIsWritten
  <2>3. PICK p \in Processes : WritesOwn(p)
    BY <1>1, <2>1, <2>2, WritesUnderLease
  <2>4. Doing(p) = s
    BY <1>1, <2>3 DEF WritesOwn, WorkIsWritten
  <2>5. /\ job[s].status = "RUNNING" /\ job[s].attempts = runner[p].attempt
        /\ runner[p].pc \in Queue!Executing
    BY <2>3, <2>4 DEF WritesOwn, Queue!LeaseHeld, Doing, Queue!Executing
  <2>6. claimant[s] = p
    BY <2>1, <2>4, <2>5 DEF ClaimsAreNumbered
  <2> QED
    BY <2>3, <2>4, <2>5, <2>6 DEF LatestClaimant, WritesOwn
<1>2. AnalysisInvariant /\ [Next]_vars => [Leased]_vars
  BY <1>1
<1> QED
  BY <1>2, AnalysisInvariantHolds, PTL DEF Spec, OnlyLatestClaimWrites
=============================================================================
