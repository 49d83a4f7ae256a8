------------------------ MODULE ObjectDeletionProofs ------------------------
(***************************************************************************)
(* Proofs that ObjectDeletionOutbox has the safety properties of           *)
(* ObjectDeletionProperties, and implements the safety part of             *)
(* ObjectDeletionService, for any number of objects, processes, attempts   *)
(* and faults, and for any assignment of names to processes.               *)
(***************************************************************************)
EXTENDS ObjectDeletionProperties, TLAPS

-----------------------------------------------------------------------------
(* The two shapes of a change of a row.                                    *)

LEMMA TurnRecord ==
  ASSUME OutboxTypeOK, NEW w \in Workers, worker[w].pc # "idle"
  PROVE  worker[w] \in Working
BY DEF OutboxTypeOK, Idle

\* A closing update either leaves the rows alone or takes a row that is
\* PROCESSING to the given status, and keeps the attempts of every row.
LEMMA CloseRowEffect ==
  ASSUME OutboxTypeOK, NEW w \in Workers, worker[w].pc # "idle",
         NEW status \in RowStatus, CloseRow(w, status)
  PROVE  /\ row' \in [Objects -> RowRec]
         /\ \A o \in Objects : row'[o].attempts = row[o].attempts
         /\ \A o \in Objects :
              \/ row'[o] = row[o]
              \/ /\ o = worker[w].object /\ row[o].status = "PROCESSING"
                 /\ row'[o].status = status
<1>1. worker[w] \in Working
  BY TurnRecord
<1> QED
  BY <1>1 DEF CloseRow, HoldsLock, Closed, OutboxTypeOK, RowRec, Working

\* What a turn's move to another control state leaves of the workers.
LEMMA GotoEffect ==
  ASSUME OutboxTypeOK, NEW w \in Workers, worker[w].pc # "idle",
         NEW pc \in Steps, Goto(w, pc)
  PROVE  /\ worker' \in [Workers -> {Idle} \cup Working]
         /\ worker'[w] = [worker[w] EXCEPT !.pc = pc]
         /\ worker'[w].pc = pc /\ worker'[w].object = worker[w].object
         /\ worker'[w].attempt = worker[w].attempt
         /\ \A v \in Workers \ {w} : worker'[v] = worker[v]
<1>1. worker[w] \in Working
  BY TurnRecord
<1> QED
  BY <1>1 DEF Goto, OutboxTypeOK, Working

LEMMA RestEffect ==
  ASSUME OutboxTypeOK, NEW w \in Workers, Rest(w)
  PROVE  /\ worker' \in [Workers -> {Idle} \cup Working]
         /\ worker'[w].pc = "idle"
         /\ \A v \in Workers \ {w} : worker'[v] = worker[v]
BY DEF Rest, OutboxTypeOK, Idle

LEMMA FaultEffect ==
  ASSUME OutboxTypeOK, NEW kind, Fault(kind)
  PROVE  faults' \in 0 .. MaxFaults
BY OutboxAssumption DEF Fault, OutboxTypeOK

-----------------------------------------------------------------------------
(* The invariant, one lemma per group of actions.                          *)

LEMMA OutboxInitially == OutboxInit => OutboxInvariant
BY OutboxAssumption
DEF OutboxInit, OutboxInvariant, OutboxTypeOK, TurnIsOnCourse, CompletedMeansGone,
    OnlyDeletedObjectsVanish, NoEarlyEscalation, Absent, RowRec, RowStatus, Idle

\* Deletion requests.
LEMMA OutboxRequests ==
  ASSUME OutboxInvariant, NEW o \in Objects,
         ReadForDeletion(o) \/ CommitDeletion(o)
  PROVE  OutboxInvariant'
<1> USE DEF OutboxInvariant
<1>1. CASE ReadForDeletion(o)
  BY <1>1 DEF ReadForDeletion, OutboxTypeOK, TurnIsOnCourse, CompletedMeansGone,
              OnlyDeletedObjectsVanish, NoEarlyEscalation
<1>2. CASE CommitDeletion(o)
  <2>1. row' \in [Objects -> RowRec]
    BY <1>2 DEF CommitDeletion, OutboxTypeOK, RowRec, RowStatus, Due
  <2>2. /\ \A x \in Objects : row'[x].attempts = row[x].attempts
        /\ \A x \in Objects : row'[x] = row[x] \/ row'[x].status = "PENDING"
    BY <1>2 DEF CommitDeletion, OutboxTypeOK, RowRec
  <2>3. readers' \in [Objects -> Nat]
    BY <1>2 DEF CommitDeletion, OutboxTypeOK
  <2>4. OutboxTypeOK'
    BY <1>2, <2>1, <2>3 DEF CommitDeletion, OutboxTypeOK
  <2>5. TurnIsOnCourse'
    <3>1. ASSUME NEW w \in Workers, worker[w].pc # "idle"
          PROVE  worker[w].object \in Objects
      BY <3>1, TurnRecord DEF Working
    <3> QED
      BY <1>2, <2>2, <3>1 DEF CommitDeletion, TurnIsOnCourse
  <2>6. CompletedMeansGone' /\ OnlyDeletedObjectsVanish'
    BY <1>2, <2>2 DEF CommitDeletion, CompletedMeansGone, OnlyDeletedObjectsVanish
  <2>7. NoEarlyEscalation'
    BY <1>2, <2>2, OutboxAssumption DEF CommitDeletion, NoEarlyEscalation
  <2> QED
    BY <2>4, <2>5, <2>6, <2>7
<1> QED
  BY <1>1, <1>2

\* A claim, answered or not.
LEMMA OutboxClaims ==
  ASSUME OutboxInvariant, NEW w \in Workers, NEW o \in Objects,
         ClaimNextDeletion(w, o) \/ ClaimReplyLost(w, o)
  PROVE  OutboxInvariant'
<1> USE DEF OutboxInvariant
<1>1. row[o] \in RowRec /\ row[o].status \in Due /\ worker[w].pc = "idle"
  BY DEF ClaimNextDeletion, ClaimReplyLost, OutboxTypeOK
<1>2. row' = Locked(w, o)
  BY DEF ClaimNextDeletion, ClaimReplyLost
<1>3. row' \in [Objects -> RowRec]
  BY <1>1, <1>2, OutboxAssumption DEF Locked, OutboxTypeOK, RowRec, RowStatus, Names
<1>4. /\ row'[o].status = "PROCESSING" /\ row'[o].attempts = row[o].attempts + 1
      /\ \A x \in Objects \ {o} : row'[x] = row[x]
  BY <1>1, <1>2 DEF Locked, OutboxTypeOK, RowRec
<1>5. storage' = storage /\ readers' = readers
  BY DEF ClaimNextDeletion, ClaimReplyLost
<1>6. CompletedMeansGone' /\ OnlyDeletedObjectsVanish' /\ NoEarlyEscalation'
  BY <1>1, <1>4, <1>5, OutboxAssumption
  DEF CompletedMeansGone, OnlyDeletedObjectsVanish, NoEarlyEscalation, Due
<1>7. /\ \A x \in Objects : row'[x].attempts \in Nat /\ row[x].attempts \in Nat
      /\ \A x \in Objects : row'[x].attempts >= row[x].attempts
      /\ \A x \in Objects : row[x].status # "ABSENT" => row'[x].status # "ABSENT"
  BY <1>3, <1>4 DEF OutboxTypeOK, RowRec
<1>8. ASSUME NEW v \in Workers, worker[v].pc # "idle"
      PROVE  worker[v] \in Working
  BY <1>8, TurnRecord
<1>9. CASE ClaimNextDeletion(w, o)
  <2> DEFINE turn == [pc |-> "validate", object |-> o, attempt |-> row[o].attempts + 1]
  <2>1. turn \in Working /\ worker' = [worker EXCEPT ![w] = turn]
    BY <1>7, <1>9 DEF ClaimNextDeletion, Working, Steps
  <2>2. OutboxTypeOK'
    BY <1>3, <1>5, <1>9, <2>1 DEF ClaimNextDeletion, OutboxTypeOK
  <2>3. ASSUME NEW v \in Workers, worker'[v].pc # "idle"
        PROVE  TurnIsOnCourse!(v)'
    <3>1. CASE v = w
      BY <1>4, <1>7, <2>1, <3>1 DEF OutboxTypeOK
    <3>2. CASE v # w
      <4>1. worker'[v] = worker[v]
        BY <2>1, <3>2 DEF OutboxTypeOK
      <4>2. worker[v] \in Working
        BY <1>8, <2>3, <4>1
      <4> QED
        BY <1>5, <1>7, <2>3, <4>1, <4>2 DEF TurnIsOnCourse, Working
    <3> QED
      BY <3>1, <3>2
  <2> QED
    BY <1>6, <2>2, <2>3 DEF TurnIsOnCourse
<1>10. CASE ClaimReplyLost(w, o)
  <2>1. OutboxTypeOK'
    BY <1>3, <1>5, <1>10, FaultEffect DEF ClaimReplyLost, OutboxTypeOK
  <2>2. TurnIsOnCourse'
    BY <1>5, <1>7, <1>8, <1>10 DEF ClaimReplyLost, TurnIsOnCourse, Working
  <2> QED
    BY <1>6, <2>1, <2>2
<1> QED
  BY <1>9, <1>10

\* Whatever closes a row, the other turns stay on their course.
LEMMA ClosingKeepsCourse ==
  ASSUME OutboxInvariant, NEW w \in Workers, worker[w].pc # "idle",
         NEW status \in RowStatus \ {"ABSENT"}, CloseRow(w, status),
         storage' = storage,
         NEW v \in Workers, worker[v].pc # "idle"
  PROVE  LET o == worker[v].object
         IN  /\ row'[o].status # "ABSENT" /\ worker[v].attempt <= row'[o].attempts
             /\ worker[v].pc = "refuse" => o \notin Owned
             /\ worker[v].pc \in {"remove", "complete"} => o \in Owned
             /\ worker[v].pc = "complete" => o \notin storage'
<1>1. worker[v] \in Working
  BY TurnRecord DEF OutboxInvariant
<1> QED
  BY <1>1, CloseRowEffect DEF OutboxInvariant, TurnIsOnCourse, Working

\* Statuses a row may be closed with: what each of them asserts.
LEMMA ClosingKeepsFacts ==
  ASSUME OutboxInvariant, NEW w \in Workers, worker[w].pc # "idle",
         NEW status \in {"RETRYING", "COMPLETED", "ESCALATED"},
         CloseRow(w, status), storage' = storage,
         status = "COMPLETED" => worker[w].object \notin storage,
         status = "ESCALATED" => \/ worker[w].object \notin Owned
                                 \/ worker[w].attempt >= MaxAttempts
  PROVE  /\ row' \in [Objects -> RowRec]
         /\ CompletedMeansGone' /\ OnlyDeletedObjectsVanish' /\ NoEarlyEscalation'
<1>1. worker[w] \in Working /\ status \in RowStatus
  BY TurnRecord DEF OutboxInvariant, RowStatus, Due, Final
<1>2. worker[w].attempt <= row[worker[w].object].attempts
  BY DEF OutboxInvariant, TurnIsOnCourse
<1>3. worker[w].attempt \in Nat /\ MaxAttempts \in Nat
      /\ worker[w].object \in Objects
      /\ \A o \in Objects : row[o].attempts \in Nat
  BY <1>1, OutboxAssumption DEF Working, OutboxInvariant, OutboxTypeOK, RowRec
<1>4. /\ row' \in [Objects -> RowRec]
      /\ \A o \in Objects : row'[o].attempts = row[o].attempts
      /\ \A o \in Objects :
           \/ row'[o] = row[o]
           \/ /\ o = worker[w].object /\ row[o].status = "PROCESSING"
              /\ row'[o].status = status
  BY <1>1, CloseRowEffect DEF OutboxInvariant
<1>5. CompletedMeansGone' /\ OnlyDeletedObjectsVanish'
  BY <1>4 DEF OutboxInvariant, CompletedMeansGone, OnlyDeletedObjectsVanish
<1>6. NoEarlyEscalation'
  BY <1>2, <1>3, <1>4, OutboxAssumption DEF OutboxInvariant, NoEarlyEscalation
<1> QED
  BY <1>4, <1>5, <1>6

\* The three closing updates end a turn.
LEMMA OutboxClosings ==
  ASSUME OutboxInvariant, NEW w \in Workers,
         Refuse(w) \/ CompleteDeletion(w) \/ FailDeletion(w)
  PROVE  OutboxInvariant'
<1>1. worker[w].pc # "idle" /\ storage' = storage /\ Rest(w)
      /\ readers' = readers /\ faults' = faults
  BY DEF Refuse, CompleteDeletion, FailDeletion
<1>2. PICK status \in {"RETRYING", "COMPLETED", "ESCALATED"} :
        /\ CloseRow(w, status)
        /\ status = "COMPLETED" => worker[w].object \notin storage
        /\ status = "ESCALATED" => \/ worker[w].object \notin Owned
                                   \/ worker[w].attempt >= MaxAttempts
  BY DEF Refuse, CompleteDeletion, FailDeletion, OutboxInvariant, TurnIsOnCourse
<1>3. status \in RowStatus \ {"ABSENT"}
  BY DEF RowStatus, Due, Final
<1>4. /\ row' \in [Objects -> RowRec]
      /\ CompletedMeansGone' /\ OnlyDeletedObjectsVanish' /\ NoEarlyEscalation'
  BY <1>1, <1>2, ClosingKeepsFacts
<1>5. /\ worker' \in [Workers -> {Idle} \cup Working]
      /\ worker'[w].pc = "idle"
      /\ \A v \in Workers \ {w} : worker'[v] = worker[v]
  BY <1>1, RestEffect DEF OutboxInvariant
<1>6. OutboxTypeOK'
  BY <1>1, <1>4, <1>5 DEF OutboxInvariant, OutboxTypeOK
<1>7. ASSUME NEW v \in Workers, worker'[v].pc # "idle"
      PROVE  TurnIsOnCourse!(v)'
  BY <1>1, <1>2, <1>3, <1>5, <1>7, ClosingKeepsCourse
<1> QED
  BY <1>4, <1>6, <1>7 DEF OutboxInvariant, TurnIsOnCourse

\* Steps that move a turn along and change no row.
LEMMA OutboxMoves ==
  ASSUME OutboxInvariant, NEW w \in Workers,
         Validate(w) \/ RemoveObject(w) \/ StorageFails(w)
  PROVE  OutboxInvariant'
<1> USE DEF OutboxInvariant
<1>1. /\ worker[w].pc # "idle" /\ row' = row /\ readers' = readers
      /\ faults' \in 0 .. MaxFaults
  BY FaultEffect DEF Validate, RemoveObject, StorageFails, OutboxTypeOK
<1>2. /\ worker[w] \in Working
      /\ row[worker[w].object].status # "ABSENT"
      /\ worker[w].pc = "remove" => worker[w].object \in Owned
  BY <1>1, TurnRecord DEF TurnIsOnCourse
<1>3. PICK pc \in Steps :
        /\ Goto(w, pc)
        /\ \/ storage' = storage
           \/ worker[w].object \in Owned /\ storage' = storage \ {worker[w].object}
        /\ pc = "refuse" => worker[w].object \notin Owned
        /\ pc = "remove" => worker[w].object \in Owned
        /\ pc = "complete" => /\ worker[w].object \in Owned
                              /\ worker[w].object \notin storage'
  BY <1>2 DEF Validate, RemoveObject, StorageFails, Steps
<1>4. /\ worker' \in [Workers -> {Idle} \cup Working]
      /\ worker'[w].pc = pc /\ worker'[w].object = worker[w].object
      /\ worker'[w].attempt = worker[w].attempt
      /\ \A v \in Workers \ {w} : worker'[v] = worker[v]
  BY <1>1, <1>3, GotoEffect
<1>5. OutboxTypeOK'
  BY <1>1, <1>3, <1>4 DEF OutboxTypeOK
<1>6. ASSUME NEW v \in Workers, worker'[v].pc # "idle"
      PROVE  TurnIsOnCourse!(v)'
  <2>1. CASE v = w
    BY <1>1, <1>3, <1>4, <2>1 DEF TurnIsOnCourse
  <2>2. CASE v # w
    BY <1>1, <1>3, <1>4, <1>6, <2>2 DEF TurnIsOnCourse
  <2> QED
    BY <2>1, <2>2
<1>7. CompletedMeansGone' /\ OnlyDeletedObjectsVanish' /\ NoEarlyEscalation'
  BY <1>1, <1>2, <1>3
  DEF CompletedMeansGone, OnlyDeletedObjectsVanish, NoEarlyEscalation
<1> QED
  BY <1>5, <1>6, <1>7 DEF TurnIsOnCourse

\* A database error, with or without the effect of its statement.
LEMMA OutboxDatabaseFails ==
  ASSUME OutboxInvariant, NEW w \in Workers, DatabaseFails(w)
  PROVE  OutboxInvariant'
<1>1. /\ worker[w].pc # "idle" /\ storage' = storage /\ readers' = readers
      /\ faults' \in 0 .. MaxFaults
  BY FaultEffect DEF DatabaseFails, OutboxInvariant
<1>2. worker[w] \in Working
  BY <1>1, TurnRecord DEF OutboxInvariant
<1>3. /\ worker' \in [Workers -> {Idle} \cup Working]
      /\ worker'[w].pc = "idle"
           \/ (worker'[w].pc = "fail" /\ worker'[w].object = worker[w].object
               /\ worker'[w].attempt = worker[w].attempt)
      /\ \A v \in Workers \ {w} : worker'[v] = worker[v]
  <2>1. CASE Rest(w)
    BY <2>1, RestEffect DEF OutboxInvariant
  <2>2. CASE Goto(w, "fail")
    BY <1>1, <2>2, GotoEffect DEF OutboxInvariant, Steps
  <2> QED
    BY <2>1, <2>2 DEF DatabaseFails
<1>4. /\ row' \in [Objects -> RowRec]
      /\ CompletedMeansGone' /\ OnlyDeletedObjectsVanish' /\ NoEarlyEscalation'
      /\ \A v \in Workers : worker[v].pc # "idle" =>
           LET o == worker[v].object
           IN  /\ row'[o].status # "ABSENT" /\ worker[v].attempt <= row'[o].attempts
               /\ worker[v].pc = "refuse" => o \notin Owned
               /\ worker[v].pc \in {"remove", "complete"} => o \in Owned
               /\ worker[v].pc = "complete" => o \notin storage'
  <2>1. CASE row' = row
    BY <1>1, <2>1 DEF OutboxInvariant, OutboxTypeOK, TurnIsOnCourse, CompletedMeansGone,
                      OnlyDeletedObjectsVanish, NoEarlyEscalation
  <2>2. CASE worker[w].pc = "refuse" /\ CloseRow(w, "ESCALATED")
    <3>1. worker[w].object \notin Owned
      BY <1>1, <2>2 DEF OutboxInvariant, TurnIsOnCourse
    <3>2. "ESCALATED" \in RowStatus \ {"ABSENT"}
      BY DEF RowStatus, Final
    <3> QED
      BY <1>1, <2>2, <3>1, <3>2, ClosingKeepsFacts, ClosingKeepsCourse
  <2>3. CASE worker[w].pc = "complete" /\ CloseRow(w, "COMPLETED")
    <3>1. worker[w].object \notin storage
      BY <1>1, <2>3 DEF OutboxInvariant, TurnIsOnCourse
    <3>2. "COMPLETED" \in RowStatus \ {"ABSENT"}
      BY DEF RowStatus, Final
    <3> QED
      BY <1>1, <2>3, <3>1, <3>2, ClosingKeepsFacts, ClosingKeepsCourse
  <2> QED
    BY <2>1, <2>2, <2>3 DEF DatabaseFails
<1>5. OutboxTypeOK'
  BY <1>1, <1>3, <1>4 DEF OutboxInvariant, OutboxTypeOK
<1>6. ASSUME NEW v \in Workers, worker'[v].pc # "idle"
      PROVE  TurnIsOnCourse!(v)'
  <2>1. CASE v = w
    BY <1>1, <1>3, <1>4, <1>6, <2>1
  <2>2. CASE v # w
    BY <1>3, <1>4, <1>6, <2>2
  <2> QED
    BY <2>1, <2>2
<1> QED
  BY <1>4, <1>5, <1>6 DEF OutboxInvariant, TurnIsOnCourse

\* The death of a process, and the return of a claim.
LEMMA OutboxCrash ==
  ASSUME OutboxInvariant, NEW w \in Workers, Crash(w)
  PROVE  OutboxInvariant'
<1>1. /\ worker' \in [Workers -> {Idle} \cup Working]
      /\ worker'[w].pc = "idle"
      /\ \A v \in Workers \ {w} : worker'[v] = worker[v]
      /\ faults' \in 0 .. MaxFaults
  BY RestEffect, FaultEffect DEF Crash, OutboxInvariant
<1> QED
  BY <1>1 DEF Crash, OutboxInvariant, OutboxTypeOK, TurnIsOnCourse, CompletedMeansGone,
              OnlyDeletedObjectsVanish, NoEarlyEscalation

LEMMA OutboxRecovery ==
  ASSUME OutboxInvariant, NEW o \in Objects,
         RecoverAbandonedClaim(o) \/ RecoverStalledClaim(o)
  PROVE  OutboxInvariant'
<1> USE DEF OutboxInvariant
<1>1. /\ row' = Requeued(o) /\ row[o].status = "PROCESSING"
      /\ readers' = readers /\ storage' = storage /\ worker' = worker
      /\ faults' \in 0 .. MaxFaults
  BY FaultEffect DEF RecoverAbandonedClaim, RecoverStalledClaim, OutboxTypeOK
<1>2. /\ row' \in [Objects -> RowRec]
      /\ \A x \in Objects : row'[x].attempts = row[x].attempts
      /\ \A x \in Objects : row'[x] = row[x] \/ row'[x].status = "RETRYING"
  BY <1>1 DEF Requeued, Closed, OutboxTypeOK, RowRec, RowStatus, Due
<1>3. TurnIsOnCourse'
  <2>1. ASSUME NEW w \in Workers, worker[w].pc # "idle"
        PROVE  worker[w].object \in Objects
    BY <2>1, TurnRecord DEF Working
  <2> QED
    BY <1>1, <1>2, <2>1 DEF TurnIsOnCourse
<1>4. CompletedMeansGone' /\ OnlyDeletedObjectsVanish' /\ NoEarlyEscalation'
  BY <1>1, <1>2, OutboxAssumption
  DEF CompletedMeansGone, OnlyDeletedObjectsVanish, NoEarlyEscalation
<1> QED
  BY <1>1, <1>2, <1>3, <1>4 DEF OutboxTypeOK

LEMMA OutboxStep == OutboxInvariant /\ [OutboxNext]_outboxVars => OutboxInvariant'
<1> SUFFICES ASSUME OutboxInvariant, [OutboxNext]_outboxVars
             PROVE  OutboxInvariant'
  OBVIOUS
<1>1. ASSUME NEW o \in Objects, ReadForDeletion(o) \/ CommitDeletion(o)
      PROVE  OutboxInvariant'
  BY <1>1, OutboxRequests
<1>2. ASSUME NEW o \in Objects, RecoverAbandonedClaim(o) \/ RecoverStalledClaim(o)
      PROVE  OutboxInvariant'
  BY <1>2, OutboxRecovery
<1>3. ASSUME NEW w \in Workers, WorkStep(w) \/ StorageFails(w)
      PROVE  OutboxInvariant'
  BY <1>3, OutboxMoves, OutboxClosings DEF WorkStep
<1>4. ASSUME NEW w \in Workers, DatabaseFails(w) \/ Crash(w)
      PROVE  OutboxInvariant'
  BY <1>4, OutboxDatabaseFails, OutboxCrash
<1>5. ASSUME NEW w \in Workers, NEW o \in Objects,
             ClaimNextDeletion(w, o) \/ ClaimReplyLost(w, o)
      PROVE  OutboxInvariant'
  BY <1>5, OutboxClaims
<1>6. CASE UNCHANGED outboxVars
  BY <1>6 DEF outboxVars, OutboxInvariant, OutboxTypeOK, TurnIsOnCourse,
              CompletedMeansGone, OnlyDeletedObjectsVanish, NoEarlyEscalation
<1> QED
  BY <1>1, <1>2, <1>3, <1>4, <1>5, <1>6 DEF OutboxNext

\* The outbox keeps its invariant: turns stay on their course
\* (gap-analysis-object-deletion.ts:178-238).
THEOREM OutboxIsSafe == OutboxSpec => []OutboxInvariant
<1>1. OutboxInvariant /\ [OutboxNext]_outboxVars => OutboxInvariant'
  BY OutboxStep
<1> QED
  BY OutboxInitially, <1>1, PTL DEF OutboxSpec

\* A row is closed as COMPLETED only when its object is gone, although it may
\* have changed hands since the removal (completeDeletion).
THEOREM CompletionIsHonest == OutboxSpec => []CompletedMeansGone
<1>1. OutboxInvariant => CompletedMeansGone
  BY DEF OutboxInvariant
<1> QED
  BY OutboxIsSafe, <1>1, PTL

\* An object leaves the bucket only if it is owned and the deletion of its
\* analysis was committed, however late the worker that removes it.
THEOREM DeletionsAreOwed == OutboxSpec => []OnlyDeletedObjectsVanish
<1>1. OutboxInvariant => OnlyDeletedObjectsVanish
  BY DEF OutboxInvariant
<1> QED
  BY OutboxIsSafe, <1>1, PTL

\* An owned object is handed to an operator only after maxAttempts claims of
\* it, however late a failure is recorded (failDeletion).
THEOREM EscalationsAreLate == OutboxSpec => []NoEarlyEscalation
<1>1. OutboxInvariant => NoEarlyEscalation
  BY DEF OutboxInvariant
<1> QED
  BY OutboxIsSafe, <1>1, PTL

-----------------------------------------------------------------------------
(* The refinement.                                                         *)

\* A step that leaves every request and the bucket alone is a stutter.
LEMMA QuietStep ==
  ASSUME storage' = storage,
         \A o \in Objects : RequestOf(row'[o].status) = RequestOf(row[o].status)
  PROVE  UNCHANGED Deletion!deletionVars
BY DEF Deletion!deletionVars, requestBar

\* A step that settles one request, or opens it.
LEMMA SettlingStep ==
  ASSUME NEW o \in Objects, NEW outcome,
         \A x \in Objects : x # o => row'[x] = row[x],
         RequestOf(row'[o].status) = outcome
  PROVE  Deletion!Settle(o, outcome)
BY DEF Deletion!Settle, requestBar

\* A closing update confirms, abandons, or goes unnoticed.
LEMMA ClosingRefines ==
  ASSUME OutboxInvariant, NEW w \in Workers, worker[w].pc # "idle",
         NEW status \in {"RETRYING", "COMPLETED", "ESCALATED"},
         CloseRow(w, status), storage' = storage,
         status = "COMPLETED" => worker[w].object \notin storage
  PROVE  [Deletion!DeletionNext]_(Deletion!deletionVars)
<1> DEFINE o == worker[w].object
<1>1. o \in Objects /\ status \in RowStatus
  BY TurnRecord DEF OutboxInvariant, Working, RowStatus, Due, Final
<1>2. \A x \in Objects :
        \/ row'[x] = row[x]
        \/ x = o /\ row[x].status = "PROCESSING" /\ row'[x].status = status
  BY <1>1, CloseRowEffect DEF OutboxInvariant
<1>3. CASE row'[o] = row[o] \/ status = "RETRYING"
  <2>1. \A x \in Objects : RequestOf(row'[x].status) = RequestOf(row[x].status)
    BY <1>2, <1>3 DEF RequestOf
  <2> QED
    BY <2>1, QuietStep
<1>4. CASE row'[o] # row[o] /\ status # "RETRYING"
  <2>1. /\ row[o].status = "PROCESSING" /\ row'[o].status = status
        /\ \A x \in Objects : x # o => row'[x] = row[x]
    BY <1>1, <1>2, <1>4
  <2>2. requestBar[o] = "open"
    BY <1>1, <2>1 DEF requestBar, RequestOf
  <2>3. CASE status = "COMPLETED"
    <3>1. Deletion!Settle(o, "done")
      BY <1>1, <2>1, <2>3, SettlingStep DEF RequestOf
    <3> QED
      BY <1>1, <2>2, <2>3, <3>1 DEF Deletion!DeletionNext, Deletion!Confirm
  <2>4. CASE status = "ESCALATED"
    <3>1. Deletion!Settle(o, "escalated")
      BY <1>1, <2>1, <2>4, SettlingStep DEF RequestOf
    <3> QED
      BY <1>1, <2>2, <3>1 DEF Deletion!DeletionNext, Deletion!Abandon
  <2> QED
    BY <1>4, <2>3, <2>4
<1> QED
  BY <1>3, <1>4

\* The removal of an object, reported or not.
LEMMA RemovalRefines ==
  ASSUME OutboxInvariant, NEW w \in Workers, worker[w].pc = "remove", row' = row,
         storage' \in {storage, storage \ {worker[w].object}}
  PROVE  [Deletion!DeletionNext]_(Deletion!deletionVars)
<1> DEFINE o == worker[w].object
<1>1. o \in Objects /\ o \in Owned /\ row[o].status # "ABSENT"
  BY TurnRecord DEF OutboxInvariant, TurnIsOnCourse, Working
<1>2. requestBar' = requestBar /\ requestBar[o] # "none"
  BY <1>1 DEF requestBar, RequestOf
<1>3. CASE storage' = storage
  BY <1>2, <1>3 DEF Deletion!deletionVars
<1>4. CASE storage' = storage \ {o}
  BY <1>1, <1>2, <1>4 DEF Deletion!DeletionNext, Deletion!Erase
<1> QED
  BY <1>3, <1>4

\* Requests, claims and recoveries.
LEMMA RowStepRefines ==
  ASSUME OutboxInvariant, NEW o \in Objects,
         \/ ReadForDeletion(o) \/ CommitDeletion(o)
         \/ RecoverAbandonedClaim(o) \/ RecoverStalledClaim(o)
         \/ \E w \in Workers : ClaimNextDeletion(w, o) \/ ClaimReplyLost(w, o)
  PROVE  [Deletion!DeletionNext]_(Deletion!deletionVars)
<1>1. row[o] \in RowRec
  BY DEF OutboxInvariant, OutboxTypeOK
<1>2. CASE CommitDeletion(o) /\ row[o].status = "ABSENT"
  <2>1. /\ row'[o].status = "PENDING" /\ \A x \in Objects : x # o => row'[x] = row[x]
        /\ storage' = storage
    BY <1>1, <1>2 DEF CommitDeletion, OutboxInvariant, OutboxTypeOK, RowRec
  <2>2. requestBar[o] = "none"
    BY <1>2 DEF requestBar, RequestOf
  <2>3. Deletion!Settle(o, "open")
    BY <2>1, SettlingStep DEF RequestOf
  <2> QED
    BY <2>1, <2>2, <2>3 DEF Deletion!DeletionNext, Deletion!Ask
<1>3. CASE ~(CommitDeletion(o) /\ row[o].status = "ABSENT")
  <2>1. storage' = storage
    BY DEF ReadForDeletion, CommitDeletion, RecoverAbandonedClaim, RecoverStalledClaim,
           ClaimNextDeletion, ClaimReplyLost
  <2>2. \/ row' = row
        \/ row[o].status = "PROCESSING" /\ row' = Requeued(o)
        \/ \E w \in Workers : row[o].status \in Due /\ row' = Locked(w, o)
    BY <1>3 DEF ReadForDeletion, CommitDeletion, RecoverAbandonedClaim,
                RecoverStalledClaim, ClaimNextDeletion, ClaimReplyLost
  <2>3. \A x \in Objects :
          \/ row'[x] = row[x]
          \/ row[x].status \in Due \cup {"PROCESSING"}
             /\ row'[x].status \in {"PROCESSING", "RETRYING"}
    <3>1. CASE row' = Requeued(o) /\ row[o].status = "PROCESSING"
      BY <1>1, <3>1 DEF Requeued, Closed, OutboxInvariant, OutboxTypeOK, RowRec
    <3>2. ASSUME NEW w \in Workers, row[o].status \in Due, row' = Locked(w, o)
          PROVE  \A x \in Objects : \/ row'[x] = row[x]
                                    \/ x = o /\ row'[x].status = "PROCESSING"
      BY <1>1, <3>2 DEF Locked, OutboxInvariant, OutboxTypeOK, RowRec
    <3> QED
      BY <2>2, <3>1, <3>2
  <2>4. \A x \in Objects : RequestOf(row'[x].status) = RequestOf(row[x].status)
    BY <2>3 DEF RequestOf, Due
  <2> QED
    BY <2>1, <2>4, QuietStep
<1> QED
  BY <1>2, <1>3

LEMMA TurnStepRefines ==
  ASSUME OutboxInvariant, NEW w \in Workers,
         WorkStep(w) \/ StorageFails(w) \/ DatabaseFails(w) \/ Crash(w)
  PROVE  [Deletion!DeletionNext]_(Deletion!deletionVars)
<1>1. CASE Validate(w) \/ Crash(w)
  BY <1>1, QuietStep DEF Validate, Crash
<1>2. CASE RemoveObject(w) \/ StorageFails(w)
  BY <1>2, RemovalRefines DEF RemoveObject, StorageFails
<1>3. CASE Refuse(w) \/ CompleteDeletion(w) \/ FailDeletion(w)
  <2>1. worker[w].pc # "idle" /\ storage' = storage
    BY <1>3 DEF Refuse, CompleteDeletion, FailDeletion
  <2>2. PICK status \in {"RETRYING", "COMPLETED", "ESCALATED"} :
          /\ CloseRow(w, status)
          /\ status = "COMPLETED" => worker[w].object \notin storage
    BY <1>3 DEF Refuse, CompleteDeletion, FailDeletion, OutboxInvariant, TurnIsOnCourse
  <2> QED
    BY <2>1, <2>2, ClosingRefines
<1>4. CASE DatabaseFails(w)
  <2>1. worker[w].pc # "idle" /\ storage' = storage
    BY <1>4 DEF DatabaseFails
  <2>2. CASE row' = row
    BY <2>1, <2>2, QuietStep
  <2>3. CASE row' # row
    <3>1. PICK status \in {"COMPLETED", "ESCALATED"} :
            /\ CloseRow(w, status)
            /\ status = "COMPLETED" => worker[w].object \notin storage
      BY <1>4, <2>3 DEF DatabaseFails, OutboxInvariant, TurnIsOnCourse
    <3> QED
      BY <2>1, <3>1, ClosingRefines
  <2> QED
    BY <2>2, <2>3
<1> QED
  BY <1>1, <1>2, <1>3, <1>4 DEF WorkStep

\* The outbox implements the safety part of the promise in
\* ObjectDeletionService: objects go only for a request, a request is settled
\* once, and as done only when its object is gone.
THEOREM OutboxImplementsDeletion == OutboxSpec => Deletion!DeletionSafety
<1>1. OutboxInit => Deletion!RequestInit
  BY DEF OutboxInit, Deletion!RequestInit, requestBar, RequestOf, Absent
<1>2. OutboxInvariant /\ [OutboxNext]_outboxVars
        => [Deletion!DeletionNext]_(Deletion!deletionVars)
  <2> SUFFICES ASSUME OutboxInvariant, [OutboxNext]_outboxVars
               PROVE  [Deletion!DeletionNext]_(Deletion!deletionVars)
    OBVIOUS
  <2>1. CASE UNCHANGED outboxVars
    BY <2>1, QuietStep DEF outboxVars
  <2>2. CASE OutboxNext
    BY <2>2, RowStepRefines, TurnStepRefines DEF OutboxNext
  <2> QED
    BY <2>1, <2>2
<1> QED
  BY <1>1, <1>2, OutboxIsSafe, PTL DEF OutboxSpec, Deletion!DeletionSafety
=============================================================================
