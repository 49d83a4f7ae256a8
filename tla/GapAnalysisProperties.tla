----------------------- MODULE GapAnalysisProperties -----------------------
(***************************************************************************)
(* What the Gap Analysis life cycle must guarantee, and what its comments  *)
(* and tests say of it, stated over GapAnalysis.                           *)
(***************************************************************************)
EXTENDS GapAnalysis

Paid == {"REDIS", "TRIAL"}

\* Requests that were charged and have no ledger row for it yet, nor gave the
\* units back: from the increment to the insert, and on the ways out of both.
Owes(t) ==
  \/ submission[t].pc \in {"overLimit", "create", "conflict", "rollback",
                           "rollbackFailed"}
  \/ submission[t].pc = "compensate" /\ analysis[t].status = "ABSENT"

UnitsOf(callers) == UNION {{t} \X (1 .. Units[Key(t)]) : t \in callers}

Owing(s)    == {t \in Submissions : Owes(t) /\ Scope[Key(t)] = s}
Creating(s) == {t \in Submissions : At(t, "create") /\ Scope[Key(t)] = s}

-----------------------------------------------------------------------------
(* Safety.                                                                 *)

\* finalizeGapAnalysisAttempt: the result a customer sees, the end of the job
\* and the settlement of the quota appear together, whichever worker, fenced or
\* not, tried to write them.
ResultIsAtomic ==
  \A s \in Submissions :
    /\ analysis[s].status = "COMPLETED" =>
         job[s].status = "COMPLETED" /\ ledger[Key(s)] # "RESERVED"
    /\ job[s].status = "COMPLETED" => analysis[s].status \in {"COMPLETED", "CANCELLED"}

\* A failed or cancelled analysis stays so: no delayed status write, retry or
\* finalization of a worker brings it back.
NoResurrection ==
  [][\A s \in Submissions :
       analysis[s].status \in {"FAILED", "CANCELLED"}
         => analysis'[s].status \in {analysis[s].status, "CANCELLED"}]_vars

\* Two requests for the same execution never both get one, however their
\* look-ups, inserts and failures interleave.
OneLiveExecution ==
  \A s, t \in Submissions :
    /\ s # t /\ Key(s) = Key(t)
    /\ ~analysis[s].deleted /\ analysis[s].status \in Active \cup {"COMPLETED"}
    => analysis[t].status \notin Active \cup {"COMPLETED"} \/ analysis[t].deleted

\* Reservations that were not given back, with those about to be made, exceed
\* the plan's quota by no more than what unanswered decrements took twice,
\* although every request checks and increments the counter on its own.  While
\* every decrement is answered, they never exceed it.
HeldWithinLimit ==
  \A s \in Paid :
    Cardinality(Usage!UnitsHeld(s)) + Cardinality(UnitsOf(Creating(s)))
      <= Limit[s] + stray[s]

\* No rollback, refund or retry takes away units another analysis holds or
\* another request was charged, except a decrement that had taken effect and is
\* repeated because its reply was lost: but for those units the counter the
\* limit is enforced on covers every reservation.
QuotaIsCovered ==
  \A s \in Paid :
    counter[s] + stray[s]
      >= Cardinality(Usage!UnitsHeld(s)) + Cardinality(UnitsOf(Owing(s)))

\* A runner gives quota back only for an execution whose settlement can no
\* longer happen: the row it is compensating is not and will not be settled.
WorkerRefundsOnlyFailures ==
  \A p \in Processes :
    comp[p].pc \in {"trial", "unlimited", "claim", "refund", "release"} =>
      /\ job[Doing(p)].status \in {"CANCELLED", "DEAD_LETTERED"}
      /\ ledger[comp[p].key] # "SETTLED"

\* What the invariants above rest on.  A request has a row from the transaction
\* that creates it on, and only then; a deletion works on a row that exists.
Unrecorded == {"new", "check", "charge", "overLimit", "create", "conflict",
               "rollback"}
Recorded   == {"upload", "persist", "enqueue", "publish", "cleanup", "markFailed",
               "done"}

RequestFits(s) ==
  /\ submission[s].pc # "new"       => Key(s) # None
  /\ submission[s].pc \in Unrecorded => ~Exists(s)
  /\ submission[s].pc \in Recorded   => Exists(s)

DeletionFits(d) ==
  deletion[d].pc \in {"revoke", "cancelJobs", "publish"}
    => deletion[d].of # None /\ Exists(deletion[d].of)

\* A ledger row, once written, belongs to one analysis for ever, each analysis
\* has the row of its identity, a job has its analysis, and a compensation works
\* on a row that exists.
RowsHaveHolders ==
  /\ \A k \in Identities : holder[k] = None <=> ledger[k] = "ABSENT"
  /\ \A s \in Submissions : Exists(s) => holder[Key(s)] = s
  /\ \A s \in Submissions : job[s].status # "ABSENT" => Exists(s)

CompensationFits(c) ==
  /\ comp[c].pc # "false"
  /\ comp[c].pc \notin {"none"} \cup Usage!Results => ledger[comp[c].key] # "ABSENT"

SettledMeansCompleted ==
  \A k \in Identities :
    ledger[k] = "SETTLED" => job[holder[k]].status = "COMPLETED"

\* The stage of an execution fits the runner's control state, what a runner
\* believes of its job is true, and it compensates the row of its own job.
ExecutionFits(p) ==
  /\ stage[p] \in {"refund", "refunding", "done"} => runner[p].pc = "settling"
  /\ stage[p] \notin {"none", "refund", "refunding", "done"}
       => runner[p].pc = "running"
  /\ runner[p].pc \in {"completing", "verifying"}
       => job[Doing(p)].status = "COMPLETED"
  /\ runner[p].pc = "settling" /\ runner[p].verdict \in Queue!Terminal
       => job[Doing(p)].status = runner[p].verdict
  /\ comp[p].pc # "none" => stage[p] = "refunding"
  /\ stage[p] = "refunding" =>
       /\ runner[p].verdict \in {"CANCELLED", "DEAD_LETTERED"}
       /\ comp[p].key # None /\ holder[comp[p].key] = Doing(p)

\* The inductive invariant of the life cycle.
GapInvariant ==
  /\ GapTypeOK /\ RowsHaveHolders /\ ResultIsAtomic /\ SettledMeansCompleted
  /\ \A s \in Submissions : RequestFits(s)
  /\ \A d \in Deletions : DeletionFits(d)
  /\ \A p \in Processes : ExecutionFits(p)
  /\ \A c \in Submissions \cup Processes : CompensationFits(c)

\* What is known of refunds: a row's units were given back exactly when its
\* marker (paid) or its state (trial) says so, a compensation is on the path of
\* its row's scope, and only rows that were written are marked.
RefundsFit ==
  /\ Usage!RefundsAreMarked /\ Usage!PathsFollowScopes
  /\ \A k \in marker : ledger[k] # "ABSENT"

\* The inductive invariant of the quota.
QuotaInvariant == GapInvariant /\ RefundsFit /\ QuotaIsCovered /\ HeldWithinLimit

\* The lease within the life cycle: claims of a job are numbered by its attempts,
\* whatever the application does to the job (see AiJobQueueProperties).
ClaimsAreNumbered ==
  \A p \in Processes :
    runner[p].pc \in Queue!Executing =>
      /\ runner[p].attempt <= job[Doing(p)].attempts
      /\ runner[p].attempt = job[Doing(p)].attempts => claimant[Doing(p)] = p

\* The inductive invariant of the whole: life cycle, quota and lease.
AnalysisInvariant == QuotaInvariant /\ ClaimsAreNumbered

\* The statuses only a worker gives.
InProgress == {"EXTRACTING", "ANALYZING", "COMPLETING"}

\* An analysis moves on, completes, and its quota is settled only by the worker
\* that made the latest claim of its job, whose row is still that claim's: one
\* that was taken over, or whose job was cancelled or concluded, writes neither.
LatestClaimant(p, s) ==
  /\ runner[p].pc = "running" /\ Doing(p) = s /\ claimant[s] = p
  /\ job[s].status = "RUNNING" /\ job[s].attempts = runner[p].attempt

WorkIsWritten(s) ==
  \/ /\ analysis'[s].status \in InProgress \cup {"COMPLETED"}
     /\ analysis'[s].status # analysis[s].status
  \/ \E k \in Identities : /\ holder[k] = s
                           /\ ledger[k] # "SETTLED" /\ ledger'[k] = "SETTLED"

OnlyLatestClaimWrites ==
  [][\A s \in Submissions :
       WorkIsWritten(s) => \E p \in Processes : LatestClaimant(p, s)]_vars

\* No statement of a runner, a handler, a request or a sweep changes the row of a
\* job that was completed, cancelled or dead-lettered.
JobOutcomeIsFinal ==
  [][\A s \in Submissions :
       job[s].status \in Queue!Terminal => job'[s] = job[s]]_vars

-----------------------------------------------------------------------------
(* Liveness.                                                               *)

\* No analysis stays in progress for ever: its worker, a retry, or the recovery
\* sweep concludes it, or its owner deletes it.
EveryAnalysisConcludes ==
  \A s \in Submissions :
    analysis[s].status = "UPLOADING" ~> analysis[s].status \in Concluded

\* A runner that dead-lettered a job gives its units back, or leaves them to the
\* reconciliation, from every point of that at which nothing fails any more;
\* what failed before is made good, unless it ended the compensation.
OwesRefund(p, s) ==
  /\ Settling(p, {"DEAD_LETTERED"}, stage[p]) /\ Doing(p) = s
  /\ stage[p] # "done" /\ comp[p].pc # "error"

DeadLetterIsRefunded ==
  \A s \in Submissions, p \in Processes, f \in 0 .. MaxFaults :
    OwesRefund(p, s) /\ faults = f
      ~> \/ faults > f
         \/ \E k \in Identities :
              Key(s) = k /\ ledger[k] \in {"RELEASED", "COMPENSATION_PENDING"}

-----------------------------------------------------------------------------
(* What comments and messages of the code say, and the code does not do.   *)

\* "Retry scheduled": a job waiting for a retry has an analysis it can go on
\* with.
RetryCanProceed ==
  \A s \in Submissions :
    /\ job[s].status = "RETRYING"
    /\ \A p \in Processes : ~(runner[p].pc = "settling" /\ Doing(p) = s)
    => analysis[s].status # "FAILED"
=============================================================================
