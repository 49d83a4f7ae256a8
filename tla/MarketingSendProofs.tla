------------------------ MODULE MarketingSendProofs ------------------------
(***************************************************************************)
(* Proofs that MarketingSend has the properties of MarketingSendProperties *)
(* for any number of contacts, executions and cron runs, any batch size    *)
(* and any number of faults.                                               *)
(***************************************************************************)
EXTENDS MarketingSendProperties, FiniteSetTheorems, TLAPS

-----------------------------------------------------------------------------
(* Sequences.                                                              *)

LEMMA Split ==
  ASSUME NEW S, NEW q \in Seq(S), NEW n \in 0 .. Len(q)
  PROVE  /\ SubSeq(q, 1, n) \in Seq(S) /\ Len(SubSeq(q, 1, n)) = n
         /\ SubSeq(q, n + 1, Len(q)) \in Seq(S)
         /\ \A c \in ToSet(q) : \/ c \in ToSet(SubSeq(q, 1, n))
                                \/ c \in ToSet(SubSeq(q, n + 1, Len(q)))
<1>1. /\ SubSeq(q, 1, n) \in Seq(S) /\ Len(SubSeq(q, 1, n)) = n
      /\ \A i \in 1 .. n : SubSeq(q, 1, n)[i] = q[i]
  OBVIOUS
<1>2. /\ SubSeq(q, n + 1, Len(q)) \in Seq(S)
      /\ Len(SubSeq(q, n + 1, Len(q))) = Len(q) - n
      /\ \A i \in 1 .. Len(q) - n : SubSeq(q, n + 1, Len(q))[i] = q[i + n]
  OBVIOUS
<1>3. ASSUME NEW c \in ToSet(q)
      PROVE  c \in ToSet(SubSeq(q, 1, n)) \/ c \in ToSet(SubSeq(q, n + 1, Len(q)))
  <2>1. PICK i \in 1 .. Len(q) : c = q[i]
    BY DEF ToSet
  <2>2. CASE i <= n
    BY <1>1, <2>1, <2>2 DEF ToSet
  <2>3. CASE i > n
    <3> DEFINE k == i - n
    <3>1. k \in 1 .. Len(q) - n /\ c = q[k + n]
      BY <2>1, <2>3
    <3>2. k \in DOMAIN SubSeq(q, n + 1, Len(q)) /\ c = SubSeq(q, n + 1, Len(q))[k]
      BY <1>2, <3>1
    <3> QED
      BY <3>2 DEF ToSet
  <2> QED
    BY <2>1, <2>2, <2>3
<1> QED
  BY <1>1, <1>2, <1>3

LEMMA SplitPlaces ==
  ASSUME NEW S, NEW q \in Seq(S), NEW n \in 0 .. Len(q)
  PROVE  /\ DOMAIN q = 1 .. Len(q)
         /\ DOMAIN SubSeq(q, 1, n) = 1 .. n
         /\ \A i \in 1 .. n : SubSeq(q, 1, n)[i] = q[i]
         /\ DOMAIN SubSeq(q, n + 1, Len(q)) = 1 .. Len(q) - n
         /\ \A i \in 1 .. Len(q) - n : SubSeq(q, n + 1, Len(q))[i] = q[i + n]
<1>1. /\ DOMAIN SubSeq(q, 1, n) = 1 .. n
      /\ \A i \in 1 .. n : SubSeq(q, 1, n)[i] = q[i]
  OBVIOUS
<1>2. /\ DOMAIN SubSeq(q, n + 1, Len(q)) = 1 .. Len(q) - n
      /\ \A i \in 1 .. Len(q) - n : SubSeq(q, n + 1, Len(q))[i] = q[i + n]
  OBVIOUS
<1> QED
  BY <1>1, <1>2

LEMMA Joined ==
  ASSUME NEW S, NEW q \in Seq(S), NEW t \in Seq(S)
  PROVE  q \o t \in Seq(S) /\ ToSet(q \o t) = ToSet(q) \cup ToSet(t)
<1>1. /\ q \o t \in Seq(S) /\ Len(q \o t) = Len(q) + Len(t)
      /\ \A i \in 1 .. Len(q) : (q \o t)[i] = q[i]
      /\ \A i \in 1 .. Len(t) : (q \o t)[i + Len(q)] = t[i]
  OBVIOUS
<1>2. ASSUME NEW i \in 1 .. Len(q) + Len(t)
      PROVE  (q \o t)[i] \in ToSet(q) \cup ToSet(t)
  <2>1. CASE i <= Len(q)
    BY <1>1, <2>1 DEF ToSet
  <2>2. CASE i > Len(q)
    <3>1. i - Len(q) \in 1 .. Len(t) /\ i = (i - Len(q)) + Len(q)
      BY <2>2
    <3> QED
      BY <1>1, <3>1 DEF ToSet
  <2> QED
    BY <2>1, <2>2
<1>3. ToSet(q \o t) \subseteq ToSet(q) \cup ToSet(t)
  BY <1>1, <1>2 DEF ToSet
<1>4. ToSet(q) \subseteq ToSet(q \o t)
  BY <1>1 DEF ToSet
<1>5. ASSUME NEW i \in 1 .. Len(t) PROVE t[i] \in ToSet(q \o t)
  <2>1. i + Len(q) \in 1 .. Len(q \o t)
    BY <1>1
  <2> QED
    BY <1>1, <2>1 DEF ToSet
<1>6. ToSet(t) \subseteq ToSet(q \o t)
  BY <1>5 DEF ToSet
<1> QED
  BY <1>1, <1>3, <1>4, <1>6

LEMMA FirstAndRest ==
  ASSUME NEW S, NEW s \in Seq(S), s # <<>>
  PROVE  /\ Head(s) \in S /\ Tail(s) \in Seq(S)
         /\ \A c \in ToSet(s) : c = Head(s) \/ c \in ToSet(Tail(s))
<1>1. /\ Head(s) = s[1] /\ s[1] \in S /\ Tail(s) \in Seq(S)
      /\ Len(Tail(s)) = Len(s) - 1
      /\ \A i \in 1 .. Len(s) - 1 : Tail(s)[i] = s[i + 1]
  OBVIOUS
<1>2. ASSUME NEW i \in 1 .. Len(s) PROVE s[i] = Head(s) \/ s[i] \in ToSet(Tail(s))
  <2>1. CASE i = 1
    BY <1>1, <2>1
  <2>2. CASE i > 1
    <3> DEFINE k == i - 1
    <3>1. k \in 1 .. Len(s) - 1 /\ s[i] = s[k + 1]
      BY <2>2
    <3>2. k \in DOMAIN Tail(s) /\ s[i] = Tail(s)[k]
      BY <1>1, <3>1
    <3> QED
      BY <3>2 DEF ToSet
  <2> QED
    BY <2>1, <2>2
<1> QED
  BY <1>1, <1>2 DEF ToSet

LEMMA NoElements == ToSet(<<>>) = {}
BY DEF ToSet

-----------------------------------------------------------------------------
(* Workers.                                                                *)

LEMMA MoveEffect ==
  ASSUME SendTypeOK, NEW w \in Workers, NEW r \in Working,
         worker' = [worker EXCEPT ![w] = r]
  PROVE  /\ worker' \in [Workers -> Working] /\ worker'[w] = r
         /\ \A v \in Workers \ {w} : worker'[v] = worker[v]
BY DEF SendTypeOK

LEMMA WorkerRecord ==
  ASSUME SendTypeOK, NEW w \in Workers
  PROVE  /\ worker[w] \in Working
         /\ \A pc \in ExecutionPcs \cup CronPcs : [worker[w] EXCEPT !.pc = pc] \in Working
BY DEF SendTypeOK, Working

LEMMA TwoKinds ==
  \A w \in Workers : (w \in Executions /\ w \notin CronRuns) \/ (w \in CronRuns /\ w \notin Executions)
BY SendAssumption DEF Workers

Ended == [Idle EXCEPT !.pc = "done"]

LEMMA IdleRecord ==
  /\ Idle \in Working /\ Idle.pc = "idle" /\ Idle.todo = <<>> /\ Idle.contact = Nobody
  /\ Idle.job = 0 /\ Idle.refused = "no"
  /\ Ended \in Working /\ Ended.pc = "done" /\ Ended.todo = <<>>
  /\ Ended.contact = Nobody /\ Ended.job = 0 /\ Ended.refused = "no"
<1>1. <<>> \in Seq(Contacts) /\ {"idle", "done"} \subseteq ExecutionPcs \cup CronPcs
  BY DEF ExecutionPcs, CronPcs
<1>2. Idle \in Working
  BY <1>1 DEF Idle, Working
<1>3. Ended \in Working
  BY <1>1 DEF Ended, Idle, Working
<1>4. /\ Idle.pc = "idle" /\ Idle.todo = <<>> /\ Idle.contact = Nobody
      /\ Idle.job = 0 /\ Idle.refused = "no"
  BY DEF Idle
<1>5. /\ Ended.pc = "done" /\ Ended.todo = <<>> /\ Ended.contact = Nobody
      /\ Ended.job = 0 /\ Ended.refused = "no"
  BY DEF Ended, Idle
<1> QED
  BY <1>2, <1>3, <1>4, <1>5

\* A step of a worker that sends to nobody, before or afterwards.
LEMMA BetweenContacts ==
  ASSUME SendInvariant, NEW w \in Workers, NEW r \in Working,
         worker' = [worker EXCEPT ![w] = r],
         worker[w].contact = Nobody, r.contact = Nobody, r.pc \notin Handling,
         w \in Executions => r.pc \in ExecutionPcs,
         w \in CronRuns => /\ r.pc \in CronPcs /\ worker[w].todo = <<>>
                           /\ r.pc # "next" => r.todo = <<>>
                           /\ r.pc # "idle" => r.job # 0,
         r.pc \in {"push", "queued"} => r.job # 0,
         jobs' \in Seq({"QUEUED", "RUNNING", "DONE"}),
         Len(jobs) <= Len(jobs'), r.job <= Len(jobs'),
         \A c \in ToSet(queue) : c \in ToSet(queue') \/ (w \in CronRuns /\ c \in ToSet(r.todo)),
         w \in Executions /\ r.pc \in {"queued", "done"} /\ r.job # 0
           => \A c \in ToSet(r.todo) :
                \/ c \in ToSet(queue')
                \/ /\ worker[w].pc = "queued" /\ worker[w].job # 0
                   /\ c \in ToSet(worker[w].todo),
         UNCHANGED <<sendLock, row, mailed, suppressed, raced, lost>>
  PROVE  /\ worker' \in [Workers -> Working]
         /\ HandsFollowSteps' /\ JobsExist' /\ TakenOnce' /\ QueuedIsKept'
         /\ RefusalsAreKnown'
<1> USE DEF SendInvariant
<1>1. /\ worker' \in [Workers -> Working] /\ worker'[w] = r
      /\ \A v \in Workers \ {w} : worker'[v] = worker[v]
  BY MoveEffect
<1>2. HandsFollowSteps'
  BY <1>1, TwoKinds DEF HandsFollowSteps
<1>3. JobsExist'
  <2>1. \A v \in Workers : worker[v].job \in Nat /\ r.job \in Nat
    BY DEF SendTypeOK, Working
  <2>2. Len(jobs) \in Nat /\ Len(jobs') \in Nat
    BY DEF SendTypeOK
  <2> QED
    BY <1>1, <2>1, <2>2 DEF JobsExist
<1>4. TakenOnce'
  <2>1. \A c \in Contacts : c # Nobody
    BY SendAssumption
  <2> QED
    BY <1>1, <2>1 DEF TakenOnce
<1>5. \A c : Kept(c) => Kept(c)'
  <2> SUFFICES ASSUME NEW c, Kept(c) PROVE Kept(c)'
    OBVIOUS
  <2>1. CASE c \in ToSet(queue)
    BY <1>1, <2>1 DEF Kept, InHand
  <2>2. ASSUME NEW d \in CronRuns, c \in InHand(d) PROVE Kept(c)'
    <3>1. d # w
      BY <2>2, NoElements DEF InHand
    <3>2. worker'[d] = worker[d]
      BY <1>1, <3>1 DEF Workers
    <3> QED
      BY <2>2, <3>2 DEF Kept, InHand
  <2> QED
    BY <2>1, <2>2 DEF Kept
<1>6. QueuedIsKept'
  <2> SUFFICES ASSUME NEW e \in Executions, worker'[e].pc \in {"queued", "done"},
                      worker'[e].job # 0, NEW c \in ToSet(worker'[e].todo)
               PROVE  Kept(c)'
    BY DEF QueuedIsKept
  <2>1. CASE e = w
    <3>1. c \in ToSet(queue') => Kept(c)'
      BY DEF Kept
    <3>2. worker[w].pc = "queued" /\ worker[w].job # 0 /\ c \in ToSet(worker[w].todo) => Kept(c)
      BY <2>1 DEF QueuedIsKept
    <3> QED
      BY <1>1, <1>5, <2>1, <3>1, <3>2
  <2>2. CASE e # w
    BY <1>1, <1>5, <2>2 DEF QueuedIsKept, Workers
  <2> QED
    BY <2>1, <2>2
<1>7. RefusalsAreKnown'
  BY <1>1 DEF RefusalsAreKnown, Unaware, At, Handling, Workers
<1> QED
  BY <1>1, <1>2, <1>3, <1>4, <1>6, <1>7

\* A step that leaves the queue and its jobs alone.
LEMMA JobsLeftAlone ==
  ASSUME SendInvariant, NEW w \in Workers, NEW r \in Working,
         worker' = [worker EXCEPT ![w] = r],
         r.pc \notin {"push", "queued", "finalize"},
         UNCHANGED <<jobs, queue, overtaken>>
  PROVE  JobsFollowQueue'
<1>1. /\ worker'[w] = r /\ \A v \in Workers \ {w} : worker'[v] = worker[v]
  BY MoveEffect DEF SendInvariant
<1>2. \A j : StaysActive(j) => StaysActive(j)'
  BY <1>1 DEF StaysActive, At, Active, Workers
<1> QED
  BY <1>1, <1>2 DEF JobsFollowQueue, SendInvariant, Workers

\* A step within sendToContact.
LEMMA WithinContact ==
  ASSUME SendInvariant, NEW w \in Workers, NEW r \in Working,
         worker' = [worker EXCEPT ![w] = r],
         worker[w].pc \in Handling \cup {"next"}, r.pc \in Handling \cup {"next"},
         r.contact # Nobody <=> r.pc \in Handling, r.job = worker[w].job,
         UNCHANGED <<jobs, queue, overtaken>>,
         row' \in [Contacts -> {"none", "SENT", "SKIPPED", "FAILED"}],
         \A c \in Contacts : row[c] # "none" => row'[c] # "none", lost \subseteq lost',
         \A c \in InHand(w) : \/ c \in ToSet(r.todo) \cup ({r.contact} \ {Nobody})
                              \/ row'[c] # "none" \/ c \in lost'
  PROVE  /\ worker' \in [Workers -> Working]
         /\ HandsFollowSteps' /\ JobsExist' /\ JobsFollowQueue' /\ QueuedIsKept'
<1>1. /\ worker' \in [Workers -> Working] /\ worker'[w] = r
      /\ \A v \in Workers \ {w} : worker'[v] = worker[v]
  BY MoveEffect DEF SendInvariant
<1>2. HandsFollowSteps'
  BY <1>1, TwoKinds DEF HandsFollowSteps, SendInvariant, Handling, ExecutionPcs, CronPcs
<1>3. JobsExist'
  BY <1>1 DEF JobsExist, SendInvariant, Handling
<1>4. JobsFollowQueue'
  BY JobsLeftAlone DEF Handling
<1>5. ASSUME NEW e \in Executions, worker'[e].pc \in {"queued", "done"},
             worker'[e].job # 0, NEW c \in ToSet(worker'[e].todo)
      PROVE  Kept(c)'
  <2>1. worker'[e] = worker[e]
    BY <1>1, <1>5 DEF Handling, Workers
  <2>2. Kept(c) /\ c \in Contacts
    BY <1>5, <2>1 DEF QueuedIsKept, SendInvariant, SendTypeOK, Working, ToSet, Workers
  <2>3. CASE row[c] # "none" \/ c \in lost \/ c \in ToSet(queue)
    BY <2>2, <2>3 DEF Kept
  <2>4. ASSUME NEW d \in CronRuns, c \in InHand(d) PROVE Kept(c)'
    <3>1. CASE d = w
      <4>1. InHand(w)' = ToSet(r.todo) \cup ({r.contact} \ {Nobody})
        BY <1>1 DEF InHand
      <4> QED
        BY <2>4, <3>1, <4>1 DEF Kept
    <3>2. CASE d # w
      BY <1>1, <2>4, <3>2 DEF Kept, InHand, Workers
    <3> QED
      BY <3>1, <3>2
  <2> QED
    BY <2>2, <2>3, <2>4 DEF Kept
<1>6. QueuedIsKept'
  BY <1>5 DEF QueuedIsKept
<1> QED
  BY <1>1, <1>2, <1>3, <1>4, <1>6

\* What the invariant says, types apart.
Core ==
  /\ HandsFollowSteps /\ JobsExist /\ TakenOnce
  /\ JobsFollowQueue /\ QueuedIsKept /\ RefusalsAreKnown

LEMMA NothingInHand ==
  ASSUME SendInvariant, NEW w \in Workers, worker[w].pc \notin Handling
  PROVE  /\ worker[w].contact = Nobody
         /\ w \in CronRuns /\ worker[w].pc # "next" => worker[w].todo = <<>>
         /\ worker[w].job \in Nat /\ worker[w].job <= Len(jobs)
BY DEF SendInvariant, HandsFollowSteps, JobsExist, SendTypeOK, Working

\* A worker that goes to another step and leaves everything else alone.
LEMMA GotoStep ==
  ASSUME SendInvariant, NEW w \in Workers, NEW pc \in ExecutionPcs \cup CronPcs,
         Goto(w, pc), worker[w].pc \notin Handling,
         pc \notin Handling \cup {"push", "queued", "finalize", "idle"},
         w \in Executions => /\ pc \in ExecutionPcs
                             /\ pc = "done" => worker[w].pc = "queued" \/ worker[w].todo = <<>>,
         w \in CronRuns => /\ pc \in CronPcs /\ worker[w].todo = <<>>
                           /\ worker[w].pc # "idle",
         UNCHANGED <<jobs, queue, overtaken, sendLock, row, mailed, suppressed, raced, lost>>
  PROVE  worker' \in [Workers -> Working] /\ Core'
<1> DEFINE r == [worker[w] EXCEPT !.pc = pc]
<1>1. /\ r \in Working /\ r.pc = pc /\ r.todo = worker[w].todo
      /\ r.contact = worker[w].contact /\ r.job = worker[w].job
  BY WorkerRecord DEF SendInvariant, Working
<1>2. worker' = [worker EXCEPT ![w] = r]
  BY DEF Goto, SendInvariant, SendTypeOK
<1>3. JobsFollowQueue'
  BY <1>1, <1>2, JobsLeftAlone
<1>4. jobs' \in Seq({"QUEUED", "RUNNING", "DONE"}) /\ Len(jobs) <= Len(jobs')
  BY DEF SendInvariant, SendTypeOK
<1>5. w \in CronRuns => r.job # 0
  BY <1>1 DEF SendInvariant, JobsExist
<1>6. w \in Executions /\ r.pc \in {"queued", "done"} /\ r.job # 0
        => \A c \in ToSet(r.todo) :
             \/ c \in ToSet(queue')
             \/ worker[w].pc = "queued" /\ worker[w].job # 0 /\ c \in ToSet(worker[w].todo)
  BY <1>1, NoElements
<1> HIDE DEF r
<1>7. /\ worker' \in [Workers -> Working]
      /\ HandsFollowSteps' /\ JobsExist' /\ TakenOnce' /\ QueuedIsKept' /\ RefusalsAreKnown'
  <2>1. worker[w].contact = Nobody /\ r.job <= Len(jobs')
    BY <1>1, NothingInHand
  <2>2. r.pc \notin Handling \cup {"push", "queued"}
    BY <1>1
  <2> QED
    BY <1>1, <1>2, <1>4, <1>5, <1>6, <2>1, <2>2, BetweenContacts
<1> QED
  BY <1>3, <1>7 DEF Core

-----------------------------------------------------------------------------
(* The steps of an execution.                                              *)

LEMMA ValidateKeeps ==
  ASSUME SendInvariant, NEW e \in Executions, Validate(e)
  PROVE  SendInvariant'
<1> DEFINE r == [worker[e] EXCEPT !.pc = "validated", !.count = token]
<1>1. e \in Workers /\ e \notin CronRuns /\ worker[e] \in Working
  BY TwoKinds, WorkerRecord DEF Workers, SendInvariant
<1>2. /\ r \in Working /\ r.pc = "validated" /\ r.contact = worker[e].contact
      /\ r.job = worker[e].job
  <2>1. token \in Nat
    BY DEF Validate, SendInvariant, SendTypeOK
  <2> QED
    BY <1>1, <2>1 DEF Working, ExecutionPcs
<1>3. worker' = [worker EXCEPT ![e] = r]
  BY <1>1 DEF Validate, SendInvariant, SendTypeOK
<1>4. worker[e].contact = Nobody /\ r.job <= Len(jobs)
  BY <1>1, <1>2, NothingInHand DEF Validate, At, Handling
<1>5. JobsFollowQueue'
  BY <1>1, <1>2, <1>3, JobsLeftAlone DEF Validate, history
<1>6. /\ worker' \in [Workers -> Working]
      /\ HandsFollowSteps' /\ JobsExist' /\ TakenOnce' /\ QueuedIsKept' /\ RefusalsAreKnown'
  <2>1. /\ r.pc \notin Handling \cup {"push", "queued", "done"} /\ r.pc \in ExecutionPcs
        /\ UNCHANGED <<jobs, queue, sendLock, row, mailed, suppressed, raced, lost>>
    BY <1>2 DEF Validate, Handling, ExecutionPcs, sending, optOut, history
  <2>2. jobs' \in Seq({"QUEUED", "RUNNING", "DONE"}) /\ Len(jobs) <= Len(jobs')
    BY <2>1 DEF SendInvariant, SendTypeOK
  <2> HIDE DEF r
  <2> QED
    BY <1>1, <1>2, <1>3, <1>4, <2>1, <2>2, BetweenContacts
<1> QED
  BY <1>5, <1>6 DEF Validate, SendInvariant, SendTypeOK, locks, sending, optOut, history

LEMMA StartSendingKeeps ==
  ASSUME SendInvariant, NEW e \in Executions, StartSending(e)
  PROVE  SendInvariant'
<1>1. worker' \in [Workers -> Working] /\ Core'
  BY TwoKinds, GotoStep
  DEF StartSending, At, Workers, ExecutionPcs, Handling, sending, optOut, history
<1>2. SendTypeOK'
  BY <1>1 DEF StartSending, SendInvariant, SendTypeOK, locks, sending, optOut, history
<1> QED
  BY <1>1, <1>2 DEF Core, SendInvariant

LEMMA SetSendingKeeps ==
  ASSUME SendInvariant, NEW e \in Executions, SetSending(e)
  PROVE  SendInvariant'
<1>1. worker' \in [Workers -> Working] /\ Core'
  BY TwoKinds, GotoStep
  DEF SetSending, At, Workers, ExecutionPcs, Handling, sending, optOut, history
<1>2. SendTypeOK'
  BY <1>1 DEF SetSending, SendInvariant, SendTypeOK, locks, sending, optOut, history
<1> QED
  BY <1>1, <1>2 DEF Core, SendInvariant

LEMMA FinishSyncKeeps ==
  ASSUME SendInvariant, NEW e \in Executions, FinishSync(e)
  PROVE  SendInvariant'
<1>1. worker' \in [Workers -> Working] /\ Core'
  BY TwoKinds, GotoStep
  DEF FinishSync, At, Workers, ExecutionPcs, Handling, sending, optOut, history
<1>2. SendTypeOK'
  BY <1>1 DEF FinishSync, SendInvariant, SendTypeOK, locks, sending, optOut, history
<1> QED
  BY <1>1, <1>2 DEF Core, SendInvariant

LEMMA RecipientLists ==
  ASSUME SendTypeOK
  PROVE  /\ Cardinality(Recipients) \in Nat
         /\ \A list \in SetToSeqs(Recipients) : list \in Seq(Contacts)
<1>1. IsFiniteSet(Recipients) /\ Recipients \subseteq Contacts
  BY SendAssumption, FS_Subset DEF Recipients
<1>2. Cardinality(Recipients) \in Nat
  BY <1>1, FS_CardinalityType
<1>3. ASSUME NEW list \in SetToSeqs(Recipients) PROVE list \in Seq(Contacts)
  <2>1. list \in [1 .. Cardinality(Recipients) -> Recipients]
    BY DEF SetToSeqs
  <2> QED
    BY <1>1, <1>2, <2>1
<1> QED
  BY <1>2, <1>3

LEMMA ResolveKeeps ==
  ASSUME SendInvariant, NEW e \in Executions, Resolve(e)
  PROVE  SendInvariant'
<1>1. /\ e \in Workers /\ e \notin CronRuns /\ worker[e] \in Working
      /\ At(e, "sending")
  BY TwoKinds, WorkerRecord DEF Resolve, Workers, SendInvariant
<1>2. PICK list \in SetToSeqs(Recipients), pc \in {"changed", "create", "next"} :
        worker' = [worker EXCEPT ![e].todo = list, ![e].count = 0, ![e].pc = pc]
  BY DEF Resolve
<1> DEFINE r == [worker[e] EXCEPT !.todo = list, !.count = 0, !.pc = pc]
<1>3. /\ r \in Working /\ r.pc = pc /\ r.contact = worker[e].contact
      /\ r.job = worker[e].job
  <2>1. list \in Seq(Contacts)
    BY RecipientLists DEF SendInvariant
  <2> QED
    BY <1>1, <2>1 DEF Working, ExecutionPcs
<1>4. worker' = [worker EXCEPT ![e] = r]
  BY <1>1, <1>2 DEF SendInvariant, SendTypeOK
<1>5. worker[e].contact = Nobody /\ r.job <= Len(jobs)
  BY <1>1, <1>3, NothingInHand DEF At, Handling
<1>6. JobsFollowQueue'
  BY <1>1, <1>3, <1>4, JobsLeftAlone DEF Resolve, history
<1>7. /\ worker' \in [Workers -> Working]
      /\ HandsFollowSteps' /\ JobsExist' /\ TakenOnce' /\ QueuedIsKept' /\ RefusalsAreKnown'
  <2>1. /\ r.pc \notin Handling \cup {"push", "queued", "done"} /\ r.pc \in ExecutionPcs
        /\ UNCHANGED <<jobs, queue, sendLock, row, mailed, suppressed, raced, lost>>
    BY <1>3 DEF Resolve, Handling, ExecutionPcs, sending, optOut, history
  <2>2. jobs' \in Seq({"QUEUED", "RUNNING", "DONE"}) /\ Len(jobs) <= Len(jobs')
    BY <2>1 DEF SendInvariant, SendTypeOK
  <2> HIDE DEF r
  <2> QED
    BY <1>1, <1>3, <1>4, <1>5, <2>1, <2>2, BetweenContacts
<1> QED
  BY <1>6, <1>7 DEF Resolve, SendInvariant, SendTypeOK, locks, sending, optOut, history

LEMMA BackToDraftKeeps ==
  ASSUME SendInvariant, NEW e \in Executions, BackToDraft(e)
  PROVE  SendInvariant'
<1> DEFINE r == [worker[e] EXCEPT !.pc = "done", !.todo = <<>>]
<1>1. e \in Workers /\ e \notin CronRuns /\ worker[e] \in Working
  BY TwoKinds, WorkerRecord DEF Workers, SendInvariant
<1>2. /\ r \in Working /\ r.pc = "done" /\ r.contact = worker[e].contact
      /\ r.job = worker[e].job /\ r.todo = <<>>
  <2>1. <<>> \in Seq(Contacts)
    OBVIOUS
  <2> QED
    BY <1>1, <2>1 DEF Working, ExecutionPcs
<1>3. worker' = [worker EXCEPT ![e] = r]
  BY <1>1 DEF BackToDraft, SendInvariant, SendTypeOK
<1>4. worker[e].contact = Nobody /\ r.job <= Len(jobs)
  BY <1>1, <1>2, NothingInHand DEF BackToDraft, At, Handling
<1>5. JobsFollowQueue'
  BY <1>1, <1>2, <1>3, JobsLeftAlone DEF BackToDraft, history
<1>6. /\ worker' \in [Workers -> Working]
      /\ HandsFollowSteps' /\ JobsExist' /\ TakenOnce' /\ QueuedIsKept' /\ RefusalsAreKnown'
  <2>1. /\ r.pc \notin Handling \cup {"push", "queued"} /\ r.pc \in ExecutionPcs
        /\ ToSet(r.todo) = {}
        /\ UNCHANGED <<jobs, queue, sendLock, row, mailed, suppressed, raced, lost>>
    BY <1>2, NoElements DEF BackToDraft, Handling, ExecutionPcs, sending, optOut, history
  <2>2. jobs' \in Seq({"QUEUED", "RUNNING", "DONE"}) /\ Len(jobs) <= Len(jobs')
    BY <2>1 DEF SendInvariant, SendTypeOK
  <2> HIDE DEF r
  <2> QED
    BY <1>1, <1>2, <1>3, <1>4, <2>1, <2>2, BetweenContacts
<1> QED
  BY <1>5, <1>6 DEF BackToDraft, SendInvariant, SendTypeOK, locks, sending, optOut, history

\* The jobs that stay active do so when a job is added.
LEMMA CreateJobKeeps ==
  ASSUME SendInvariant, NEW e \in Executions, CreateJob(e)
  PROVE  SendInvariant'
<1> DEFINE r == [worker[e] EXCEPT !.pc = "push", !.job = Len(jobs) + 1]
<1>1. e \in Workers /\ e \notin CronRuns /\ worker[e] \in Working
  BY TwoKinds, WorkerRecord DEF Workers, SendInvariant
<1>2. /\ jobs' \in Seq({"QUEUED", "RUNNING", "DONE"}) /\ Len(jobs) \in Nat
      /\ Len(jobs') = Len(jobs) + 1 /\ jobs'[Len(jobs) + 1] = "QUEUED"
      /\ \A j \in 1 .. Len(jobs) : jobs'[j] = jobs[j]
  BY DEF CreateJob, SendInvariant, SendTypeOK
<1>3. /\ r \in Working /\ r.pc = "push" /\ r.contact = worker[e].contact
      /\ r.job = Len(jobs) + 1
  <2>1. Len(jobs) + 1 \in Nat
    BY <1>2
  <2> QED
    BY <1>1, <2>1 DEF Working, ExecutionPcs
<1>4. worker' = [worker EXCEPT ![e] = r]
  BY <1>1 DEF CreateJob, SendInvariant, SendTypeOK
<1>5. worker[e].contact = Nobody
  BY <1>1, NothingInHand DEF CreateJob, At, Handling
<1> HIDE DEF r
<1>6. /\ worker' \in [Workers -> Working]
      /\ HandsFollowSteps' /\ JobsExist' /\ TakenOnce' /\ QueuedIsKept' /\ RefusalsAreKnown'
  <2>1. /\ r.pc \notin Handling \cup {"queued", "done"} /\ r.pc \in ExecutionPcs
        /\ UNCHANGED <<queue, sendLock, row, mailed, suppressed, raced, lost>>
    BY <1>3 DEF CreateJob, Handling, ExecutionPcs, sending, optOut, history
  <2>2. Len(jobs) <= Len(jobs') /\ r.job <= Len(jobs') /\ r.job # 0
    BY <1>2, <1>3
  <2> QED
    BY <1>1, <1>2, <1>3, <1>4, <1>5, <2>1, <2>2, BetweenContacts
<1>7. /\ worker'[e] = r /\ \A v \in Workers \ {e} : worker'[v] = worker[v]
  BY <1>1, <1>3, <1>4, MoveEffect DEF SendInvariant
<1>8. \A d \in CronRuns : worker'[d] = worker[d] /\ worker[d].job \in 0 .. Len(jobs)
  <2> SUFFICES ASSUME NEW d \in CronRuns
               PROVE  worker'[d] = worker[d] /\ worker[d].job \in 0 .. Len(jobs)
    OBVIOUS
  <2>1. d \in Workers /\ d # e
    BY <1>1 DEF Workers
  <2>2. worker[d].job \in Nat /\ worker[d].job <= Len(jobs)
    BY <2>1 DEF SendInvariant, JobsExist, SendTypeOK, Working
  <2> QED
    BY <1>2, <1>7, <2>1, <2>2
<1>9. \A n : n = Len(jobs) + 1 => StaysActive(n)'
  BY <1>2, <1>8 DEF StaysActive, Active, At
<1>10. \A j \in 1 .. Len(jobs) : StaysActive(j) => StaysActive(j)'
  BY <1>2, <1>8 DEF StaysActive, Active, At
<1>11. JobsFollowQueue'
  <2> SUFFICES ASSUME ~overtaken PROVE JobsFollowQueue'
    BY DEF JobsFollowQueue, CreateJob, history
  <2>1. ASSUME queue' # <<>> PROVE \E j \in DOMAIN jobs' : StaysActive(j)'
    <3>1. PICK j \in DOMAIN jobs : StaysActive(j)
      BY <2>1 DEF SendInvariant, JobsFollowQueue, CreateJob
    <3>2. j \in 1 .. Len(jobs) /\ j \in DOMAIN jobs'
      BY <1>2 DEF SendInvariant, SendTypeOK
    <3> QED
      BY <1>10, <3>1, <3>2
  <2>2. ASSUME NEW f \in Executions, worker'[f].pc \in {"push", "queued"}
        PROVE  StaysActive(worker[f].job)'
    <3>1. CASE f = e
      BY <1>3, <1>7, <1>9, <3>1
    <3>2. CASE f # e
      <4>1. worker'[f] = worker[f] /\ worker[f].job \in 1 .. Len(jobs)
        BY <1>7, <2>2, <3>2 DEF SendInvariant, JobsExist, SendTypeOK, Working, Workers
      <4> QED
        BY <1>10, <2>2, <4>1 DEF SendInvariant, JobsFollowQueue
    <3> QED
      BY <3>1, <3>2
  <2> QED
    BY <2>1, <2>2 DEF JobsFollowQueue
<1> QED
  BY <1>2, <1>6, <1>11 DEF CreateJob, SendInvariant, SendTypeOK, locks, sending, optOut, history

LEMMA PushKeeps ==
  ASSUME SendInvariant, NEW e \in Executions, Push(e)
  PROVE  SendInvariant'
<1> DEFINE r == [worker[e] EXCEPT !.pc = "queued"]
<1>1. e \in Workers /\ e \notin CronRuns /\ worker[e] \in Working /\ worker[e].pc = "push"
  BY TwoKinds, WorkerRecord DEF Workers, SendInvariant, Push, At
<1>2. /\ r \in Working /\ r.pc = "queued" /\ r.contact = worker[e].contact
      /\ r.job = worker[e].job /\ r.todo = worker[e].todo
  BY <1>1 DEF Working, ExecutionPcs
<1>3. worker' = [worker EXCEPT ![e] = r]
  BY <1>1 DEF Push, Goto, SendInvariant, SendTypeOK
<1>4. worker[e].contact = Nobody /\ r.job \in 1 .. Len(jobs)
  <2>1. worker[e].contact = Nobody /\ r.job \in Nat /\ r.job <= Len(jobs)
    BY <1>1, <1>2, NothingInHand DEF Handling
  <2>2. r.job # 0 /\ Len(jobs) \in Nat
    BY <1>1, <1>2 DEF SendInvariant, JobsExist, SendTypeOK
  <2> QED
    BY <2>1, <2>2
<1>5. queue' \in Seq(Contacts) /\ ToSet(queue') = ToSet(queue) \cup ToSet(r.todo)
  <2>1. worker[e].todo \in Seq(Contacts) /\ queue \in Seq(Contacts)
    BY <1>1 DEF Working, SendInvariant, SendTypeOK
  <2> QED
    BY <1>2, <2>1, Joined DEF Push
<1> HIDE DEF r
<1>6. /\ worker' \in [Workers -> Working]
      /\ HandsFollowSteps' /\ JobsExist' /\ TakenOnce' /\ QueuedIsKept' /\ RefusalsAreKnown'
  <2>1. /\ r.pc \notin Handling /\ r.pc \in ExecutionPcs
        /\ UNCHANGED <<jobs, sendLock, row, mailed, suppressed, raced, lost>>
    BY <1>2 DEF Push, Handling, ExecutionPcs, sending, optOut, history
  <2>2. /\ jobs' \in Seq({"QUEUED", "RUNNING", "DONE"}) /\ Len(jobs) <= Len(jobs')
        /\ r.job <= Len(jobs') /\ r.job # 0
    BY <1>4, <2>1 DEF SendInvariant, SendTypeOK
  <2> QED
    BY <1>1, <1>2, <1>3, <1>4, <1>5, <2>1, <2>2, BetweenContacts
<1>7. /\ worker'[e] = r /\ \A v \in Workers \ {e} : worker'[v] = worker[v]
  BY <1>1, <1>2, <1>3, MoveEffect DEF SendInvariant
<1>8. \A j : StaysActive(j) => StaysActive(j)'
  BY <1>1, <1>7 DEF StaysActive, Active, At, Push, Workers
<1>9. JobsFollowQueue'
  <2> SUFFICES ASSUME ~overtaken PROVE JobsFollowQueue'
    BY DEF JobsFollowQueue, Push, history
  <2>1. \A f \in Executions : worker'[f].pc \in {"push", "queued"}
                               => StaysActive(worker[f].job)'
    BY <1>1, <1>2, <1>7, <1>8 DEF SendInvariant, JobsFollowQueue, Workers
  <2>2. \A j : j = r.job => StaysActive(j)' /\ j \in DOMAIN jobs'
    BY <1>2, <1>4, <1>7, <2>1 DEF Push, SendInvariant, SendTypeOK
  <2> QED
    BY <2>1, <2>2 DEF JobsFollowQueue
<1> QED
  BY <1>5, <1>6, <1>9 DEF Push, SendInvariant, SendTypeOK, locks, sending, optOut, history

-----------------------------------------------------------------------------
(* The steps of a cron run.                                                *)

LEMMA FindJobKeeps ==
  ASSUME SendInvariant, NEW d \in CronRuns, FindJob(d)
  PROVE  SendInvariant'
<1>1. /\ d \in Workers /\ d \notin Executions /\ worker[d] \in Working
      /\ At(d, "idle")
  BY TwoKinds, WorkerRecord DEF FindJob, Workers, SendInvariant
<1>2. PICK j \in DOMAIN jobs :
        worker' = [worker EXCEPT ![d].pc = "found", ![d].job = j,
                                 ![d].fresh = jobs[j] = "QUEUED"]
  BY DEF FindJob
<1> DEFINE r == [worker[d] EXCEPT !.pc = "found", !.job = j, !.fresh = jobs[j] = "QUEUED"]
<1>3. j \in Nat /\ j # 0 /\ j <= Len(jobs)
  BY DEF SendInvariant, SendTypeOK
<1>4. /\ r \in Working /\ r.pc = "found" /\ r.contact = worker[d].contact
      /\ r.job = j /\ r.todo = worker[d].todo
  BY <1>1, <1>3 DEF Working, CronPcs
<1>5. worker' = [worker EXCEPT ![d] = r]
  BY <1>1, <1>2 DEF SendInvariant, SendTypeOK
<1>6. worker[d].contact = Nobody /\ worker[d].todo = <<>>
  BY <1>1, NothingInHand DEF At, Handling
<1>7. JobsFollowQueue'
  BY <1>1, <1>4, <1>5, JobsLeftAlone DEF FindJob, history
<1>8. /\ worker' \in [Workers -> Working]
      /\ HandsFollowSteps' /\ JobsExist' /\ TakenOnce' /\ QueuedIsKept' /\ RefusalsAreKnown'
  <2>1. /\ r.pc \notin Handling \cup {"push", "queued", "done"} /\ r.pc \in CronPcs
        /\ UNCHANGED <<jobs, queue, sendLock, row, mailed, suppressed, raced, lost>>
    BY <1>4 DEF FindJob, Handling, CronPcs, sending, optOut, history
  <2>2. jobs' \in Seq({"QUEUED", "RUNNING", "DONE"}) /\ Len(jobs) <= Len(jobs')
        /\ r.job <= Len(jobs')
    BY <1>3, <1>4, <2>1 DEF SendInvariant, SendTypeOK
  <2> HIDE DEF r
  <2> QED
    BY <1>1, <1>3, <1>4, <1>5, <1>6, <2>1, <2>2, BetweenContacts
<1> QED
  BY <1>7, <1>8 DEF FindJob, SendInvariant, SendTypeOK, locks, sending, optOut, history

LEMMA FillersHaveJobs ==
  ASSUME SendInvariant, NEW e \in Executions, worker[e].pc \in {"push", "queued"}
  PROVE  worker[e].job \in DOMAIN jobs
<1>1. e \in Workers
  BY DEF Workers
<1>2. worker[e].job \in Nat /\ worker[e].job <= Len(jobs) /\ worker[e].job # 0
  BY <1>1 DEF SendInvariant, JobsExist, SendTypeOK, Working
<1>3. DOMAIN jobs = 1 .. Len(jobs) /\ Len(jobs) \in Nat
  BY DEF SendInvariant, SendTypeOK
<1> QED
  BY <1>2, <1>3

\* A run ends a job only when the queue is empty; if an execution is filling
\* it, the job was overtaken.
LEMMA EndOfBatch ==
  ASSUME SendInvariant, NEW d \in CronRuns, NEW r \in Working,
         worker' = [worker EXCEPT ![d] = r], Ends(r.pc),
         r.pc = "finalize" => queue' = <<>>, queue = <<>> => queue' = <<>>,
         jobs' = jobs
  PROVE  JobsFollowQueue'
<1>1. d \in Workers /\ d \notin Executions
  BY TwoKinds DEF Workers
<1>2. /\ worker'[d] = r /\ \A v \in Workers \ {d} : worker'[v] = worker[v]
  BY <1>1, MoveEffect DEF SendInvariant
<1>3. \A e \in Executions : worker'[e] = worker[e]
  BY <1>1, <1>2 DEF Workers
<1>4. CASE r.pc = "finalize"
  BY <1>3, <1>4 DEF JobsFollowQueue, Ends, Filling
<1>5. CASE r.pc # "finalize"
  <2>1. \A j : StaysActive(j) => StaysActive(j)'
    BY <1>2, <1>5 DEF StaysActive, At, Active, Workers
  <2> QED
    BY <1>3, <1>5, <2>1 DEF JobsFollowQueue, SendInvariant, Ends
<1> QED
  BY <1>4, <1>5

LEMMA LockQueueKeeps ==
  ASSUME SendInvariant, NEW d \in CronRuns, LockQueue(d)
  PROVE  SendInvariant'
<1> DEFINE r == [worker[d] EXCEPT !.pc = "pop", !.fresh = FALSE]
<1>1. /\ d \in Workers /\ d \notin Executions /\ worker[d] \in Working
      /\ worker[d].pc = "found"
  BY TwoKinds, WorkerRecord DEF LockQueue, Workers, SendInvariant, At
<1>2. /\ r \in Working /\ r.pc = "pop" /\ r.contact = worker[d].contact
      /\ r.job = worker[d].job /\ r.todo = worker[d].todo
  BY <1>1 DEF Working, CronPcs
<1>3. worker' = [worker EXCEPT ![d] = r]
  BY <1>1 DEF LockQueue, SendInvariant, SendTypeOK
<1>4. /\ worker[d].contact = Nobody /\ worker[d].todo = <<>>
      /\ r.job \in Nat /\ r.job <= Len(jobs) /\ r.job # 0
  BY <1>1, <1>2, NothingInHand DEF Handling, SendInvariant, JobsExist
<1>5. /\ jobs' \in Seq({"QUEUED", "RUNNING", "DONE"}) /\ Len(jobs') = Len(jobs)
      /\ Len(jobs) \in Nat /\ \A j \in DOMAIN jobs : Active(j) => j \in DOMAIN jobs' /\ Active(j)'
  <2>1. jobs \in Seq({"QUEUED", "RUNNING", "DONE"})
    BY DEF SendInvariant, SendTypeOK
  <2>2. CASE jobs' = jobs
    BY <2>1, <2>2 DEF Active
  <2>3. CASE jobs' = [jobs EXCEPT ![worker[d].job] = "RUNNING"]
    <3>1. /\ jobs' \in Seq({"QUEUED", "RUNNING", "DONE"}) /\ Len(jobs') = Len(jobs)
          /\ \A j \in 1 .. Len(jobs) : jobs'[j] \in {"RUNNING", jobs[j]}
      <4>1. /\ jobs' \in Seq({"QUEUED", "RUNNING", "DONE"}) /\ Len(jobs') = Len(jobs)
            /\ \A j \in 1 .. Len(jobs) :
                 jobs'[j] = IF j = worker[d].job THEN "RUNNING" ELSE jobs[j]
        <5>1. Len(jobs) \in Nat /\ jobs \in [1 .. Len(jobs) -> {"QUEUED", "RUNNING", "DONE"}]
          BY <2>1
        <5>2. /\ jobs' \in [1 .. Len(jobs) -> {"QUEUED", "RUNNING", "DONE"}]
              /\ \A j \in 1 .. Len(jobs) :
                   jobs'[j] = IF j = worker[d].job THEN "RUNNING" ELSE jobs[j]
          BY <2>3, <5>1
        <5> QED
          BY <5>1, <5>2
      <4> QED
        BY <4>1
    <3> QED
      BY <2>1, <3>1 DEF Active
  <2> QED
    BY <2>2, <2>3 DEF LockQueue
<1> HIDE DEF r
<1>6. /\ worker' \in [Workers -> Working]
      /\ HandsFollowSteps' /\ JobsExist' /\ TakenOnce' /\ QueuedIsKept' /\ RefusalsAreKnown'
  <2>1. /\ r.pc \notin Handling \cup {"push", "queued", "done"} /\ r.pc \in CronPcs
        /\ UNCHANGED <<queue, sendLock, row, mailed, suppressed, raced, lost>>
    BY <1>2 DEF LockQueue, Handling, CronPcs, sending, optOut, history
  <2>2. Len(jobs) <= Len(jobs') /\ r.job <= Len(jobs')
    BY <1>4, <1>5
  <2> QED
    BY <1>1, <1>2, <1>3, <1>4, <1>5, <2>1, <2>2, BetweenContacts
<1>7. /\ worker'[d] = r /\ \A v \in Workers \ {d} : worker'[v] = worker[v]
  BY <1>1, <1>2, <1>3, MoveEffect DEF SendInvariant
<1>8. \A j \in DOMAIN jobs : StaysActive(j) => j \in DOMAIN jobs' /\ StaysActive(j)'
  BY <1>2, <1>5, <1>7 DEF StaysActive, At, Workers
<1>9. \A e \in Executions : /\ worker'[e] = worker[e]
                            /\ worker[e].pc \in {"push", "queued"} => worker[e].job \in DOMAIN jobs
  BY <1>1, <1>7, FillersHaveJobs DEF Workers
<1>10. JobsFollowQueue'
  BY <1>8, <1>9 DEF JobsFollowQueue, SendInvariant, LockQueue, history
<1> QED
  BY <1>5, <1>6, <1>10 DEF LockQueue, SendInvariant, SendTypeOK, locks, sending, optOut, history

\* A run that lets go of the campaign.
LEMMA IdleAgain ==
  ASSUME SendInvariant, NEW d \in CronRuns, worker' = [worker EXCEPT ![d] = Idle],
         worker[d].pc \in {"found", "release"},
         UNCHANGED <<jobs, queue, overtaken, sendLock, row, mailed, suppressed, raced, lost>>
  PROVE  worker' \in [Workers -> Working] /\ Core'
<1>1. d \in Workers /\ d \notin Executions
  BY TwoKinds DEF Workers
<1>2. worker[d].contact = Nobody /\ worker[d].todo = <<>>
  BY <1>1, NothingInHand DEF Handling
<1>3. JobsFollowQueue'
  BY <1>1, IdleRecord, JobsLeftAlone
<1>4. /\ worker' \in [Workers -> Working]
      /\ HandsFollowSteps' /\ JobsExist' /\ TakenOnce' /\ QueuedIsKept' /\ RefusalsAreKnown'
  <2>1. Idle.pc \notin Handling \cup {"push", "queued", "done"} /\ Idle.pc \in CronPcs
    BY IdleRecord DEF Handling, CronPcs
  <2>2. /\ jobs' \in Seq({"QUEUED", "RUNNING", "DONE"}) /\ Len(jobs) <= Len(jobs')
        /\ Idle.job <= Len(jobs')
    BY IdleRecord DEF SendInvariant, SendTypeOK
  <2> QED
    BY <1>1, <1>2, <2>1, <2>2, IdleRecord, BetweenContacts
<1> QED
  BY <1>3, <1>4 DEF Core

LEMMA QueueIsLockedKeeps ==
  ASSUME SendInvariant, NEW d \in CronRuns, QueueIsLocked(d)
  PROVE  SendInvariant'
<1>1. worker' \in [Workers -> Working] /\ Core'
  BY IdleAgain DEF QueueIsLocked, At, sending, optOut, history
<1>2. SendTypeOK'
  BY <1>1 DEF QueueIsLocked, SendInvariant, SendTypeOK, sending, optOut, history
<1> QED
  BY <1>1, <1>2 DEF Core, SendInvariant

LEMMA ReleaseKeeps ==
  ASSUME SendInvariant, NEW d \in CronRuns, Release(d)
  PROVE  SendInvariant'
<1>1. worker' \in [Workers -> Working] /\ Core'
  BY IdleAgain DEF Release, At, sending, optOut, history
<1>2. SendTypeOK'
  BY <1>1 DEF Release, SendInvariant, SendTypeOK, sending, optOut, history
<1> QED
  BY <1>1, <1>2 DEF Core, SendInvariant

LEMMA ConcludeKeeps ==
  ASSUME SendInvariant, NEW d \in CronRuns, Conclude(d)
  PROVE  SendInvariant'
<1>1. worker' \in [Workers -> Working] /\ Core'
  <2>1. d \in Workers /\ d \notin Executions /\ worker[d].pc = "conclude"
    BY TwoKinds DEF Workers, Conclude, At
  <2>2. worker[d].todo = <<>>
    BY <2>1, NothingInHand DEF Handling
  <2> QED
    BY <2>1, <2>2, GotoStep DEF Conclude, CronPcs, Handling, sending, optOut, history
<1>2. SendTypeOK'
  BY <1>1 DEF Conclude, SendInvariant, SendTypeOK, locks, sending, optOut, history
<1> QED
  BY <1>1, <1>2 DEF Core, SendInvariant

\* The other jobs stay active when one is ended by the run that is ending it.
LEMMA FinalizeJobKeeps ==
  ASSUME SendInvariant, NEW d \in CronRuns, FinalizeJob(d)
  PROVE  SendInvariant'
<1> DEFINE r == [worker[d] EXCEPT !.pc = "conclude"]
<1>1. /\ d \in Workers /\ d \notin Executions /\ worker[d] \in Working
      /\ worker[d].pc = "finalize"
  BY TwoKinds, WorkerRecord DEF FinalizeJob, Workers, SendInvariant, At
<1>2. /\ r \in Working /\ r.pc = "conclude" /\ r.contact = worker[d].contact
      /\ r.job = worker[d].job /\ r.todo = worker[d].todo
  BY <1>1 DEF Working, CronPcs
<1>3. worker' = [worker EXCEPT ![d] = r]
  BY <1>1 DEF FinalizeJob, Goto, SendInvariant, SendTypeOK
<1>4. /\ worker[d].contact = Nobody /\ worker[d].todo = <<>>
      /\ r.job \in Nat /\ r.job <= Len(jobs) /\ r.job # 0
  BY <1>1, <1>2, NothingInHand DEF Handling, SendInvariant, JobsExist
<1>5. /\ jobs' \in Seq({"QUEUED", "RUNNING", "DONE"}) /\ Len(jobs') = Len(jobs)
      /\ Len(jobs) \in Nat /\ DOMAIN jobs = 1 .. Len(jobs) /\ DOMAIN jobs' = 1 .. Len(jobs)
      /\ \A j \in 1 .. Len(jobs) : j # r.job => jobs'[j] = jobs[j]
  <2>1. jobs \in Seq({"QUEUED", "RUNNING", "DONE"})
    BY DEF SendInvariant, SendTypeOK
  <2>2. jobs' = [jobs EXCEPT ![r.job] = "DONE"]
    BY <1>2 DEF FinalizeJob
  <2> HIDE DEF r
  <2>3. /\ jobs' \in Seq({"QUEUED", "RUNNING", "DONE"}) /\ Len(jobs') = Len(jobs)
        /\ \A j \in 1 .. Len(jobs) : j # r.job => jobs'[j] = jobs[j]
    <3>1. /\ jobs' \in Seq({"QUEUED", "RUNNING", "DONE"}) /\ Len(jobs') = Len(jobs)
          /\ \A j \in 1 .. Len(jobs) : jobs'[j] = IF j = r.job THEN "DONE" ELSE jobs[j]
      <4>1. Len(jobs) \in Nat /\ jobs \in [1 .. Len(jobs) -> {"QUEUED", "RUNNING", "DONE"}]
        BY <2>1
      <4>2. /\ jobs' \in [1 .. Len(jobs) -> {"QUEUED", "RUNNING", "DONE"}]
            /\ \A j \in 1 .. Len(jobs) : jobs'[j] = IF j = r.job THEN "DONE" ELSE jobs[j]
        BY <2>2, <4>1
      <4> QED
        BY <4>1, <4>2
    <3> QED
      BY <3>1
  <2> QED
    BY <2>1, <2>3
<1> HIDE DEF r
<1>6. /\ worker' \in [Workers -> Working]
      /\ HandsFollowSteps' /\ JobsExist' /\ TakenOnce' /\ QueuedIsKept' /\ RefusalsAreKnown'
  <2>1. /\ r.pc \notin Handling \cup {"push", "queued", "done"} /\ r.pc \in CronPcs
        /\ UNCHANGED <<queue, sendLock, row, mailed, suppressed, raced, lost>>
    BY <1>2 DEF FinalizeJob, Handling, CronPcs, sending, optOut, history
  <2>2. Len(jobs) <= Len(jobs') /\ r.job <= Len(jobs')
    BY <1>4, <1>5
  <2> QED
    BY <1>1, <1>2, <1>3, <1>4, <1>5, <2>1, <2>2, BetweenContacts
<1>7. /\ worker'[d] = r /\ \A v \in Workers \ {d} : worker'[v] = worker[v]
  BY <1>1, <1>2, <1>3, MoveEffect DEF SendInvariant
<1>8. \A j \in DOMAIN jobs : StaysActive(j) => j \in DOMAIN jobs' /\ StaysActive(j)'
  <2> SUFFICES ASSUME NEW j \in DOMAIN jobs, StaysActive(j) PROVE StaysActive(j)'
    BY <1>5
  <2>1. j # r.job
    BY <1>1, <1>2 DEF StaysActive, At
  <2> QED
    BY <1>2, <1>5, <1>7, <2>1 DEF StaysActive, Active, At, Workers
<1>9. \A e \in Executions : /\ worker'[e] = worker[e]
                            /\ worker[e].pc \in {"push", "queued"} => worker[e].job \in DOMAIN jobs
  BY <1>1, <1>7, FillersHaveJobs DEF Workers
<1>10. JobsFollowQueue'
  BY <1>8, <1>9 DEF JobsFollowQueue, SendInvariant, FinalizeJob, history
<1> QED
  BY <1>5, <1>6, <1>10 DEF FinalizeJob, SendInvariant, SendTypeOK, locks, sending, optOut, history

LEMMA PopKeeps ==
  ASSUME SendInvariant, NEW d \in CronRuns, Pop(d)
  PROVE  SendInvariant'
<1> DEFINE n  == IF Len(queue) < BatchSize THEN Len(queue) ELSE BatchSize
           pc == IF n = 0 THEN "finalize" ELSE "next"
           r  == [worker[d] EXCEPT !.todo = SubSeq(queue, 1, n), !.pc = pc]
<1>1. /\ d \in Workers /\ d \notin Executions /\ worker[d] \in Working
      /\ worker[d].pc = "pop"
  BY TwoKinds, WorkerRecord DEF Pop, Workers, SendInvariant, At
<1>2. /\ queue \in Seq(Contacts) /\ n \in 0 .. Len(queue) /\ pc \in {"finalize", "next"}
      /\ pc = "finalize" => queue = <<>>
  BY SendAssumption DEF SendInvariant, SendTypeOK
<1>3. /\ SubSeq(queue, 1, n) \in Seq(Contacts) /\ Len(SubSeq(queue, 1, n)) = n
      /\ queue' = SubSeq(queue, n + 1, Len(queue)) /\ queue' \in Seq(Contacts)
      /\ \A c \in ToSet(queue) : c \in ToSet(SubSeq(queue, 1, n)) \/ c \in ToSet(queue')
  <2>1. queue' = SubSeq(queue, n + 1, Len(queue))
    BY DEF Pop, AfterPop
  <2> HIDE DEF n
  <2> QED
    BY <1>2, <2>1, Split
<1>4. /\ r \in Working /\ r.pc = pc /\ r.contact = worker[d].contact
      /\ r.job = worker[d].job /\ r.todo = SubSeq(queue, 1, n)
  <2> HIDE DEF n, pc
  <2> QED
    BY <1>1, <1>2, <1>3 DEF Working, CronPcs
<1>5. worker' = [worker EXCEPT ![d] = r]
  BY <1>1 DEF Pop, SendInvariant, SendTypeOK
<1>6. Ends(pc)
  BY DEF Pop
<1>7. /\ pc = "finalize" => r.todo = <<>> /\ queue' = <<>>
      /\ queue = <<>> => queue' = <<>>
  <2>1. queue = <<>> => pc = "finalize"
    BY SendAssumption
  <2> HIDE DEF n, pc, r
  <2>2. pc = "finalize" => r.todo = <<>> /\ queue' = <<>>
    BY <1>2, <1>3, <1>4
  <2> QED
    BY <2>1, <2>2
<1>8. /\ worker[d].contact = Nobody /\ worker[d].todo = <<>>
      /\ r.job \in Nat /\ r.job <= Len(jobs) /\ r.job # 0
  BY <1>1, <1>4, NothingInHand DEF Handling, SendInvariant, JobsExist
<1> HIDE DEF n, pc, r
<1>9. /\ worker' \in [Workers -> Working]
      /\ HandsFollowSteps' /\ JobsExist' /\ TakenOnce' /\ QueuedIsKept' /\ RefusalsAreKnown'
  <2>1. /\ r.pc \notin Handling \cup {"push", "queued", "done"} /\ r.pc \in CronPcs
        /\ r.pc # "next" => r.todo = <<>>
        /\ UNCHANGED <<jobs, sendLock, row, mailed, suppressed, raced, lost>>
    BY <1>2, <1>4, <1>7 DEF Pop, Handling, CronPcs, sending, optOut, history
  <2>2. jobs' \in Seq({"QUEUED", "RUNNING", "DONE"}) /\ Len(jobs) <= Len(jobs')
    BY <2>1 DEF SendInvariant, SendTypeOK
  <2>3. \A c \in ToSet(queue) : c \in ToSet(queue') \/ (d \in CronRuns /\ c \in ToSet(r.todo))
    BY <1>3, <1>4
  <2> QED
    BY <1>1, <1>4, <1>5, <1>8, <2>1, <2>2, <2>3, BetweenContacts
<1>10. JobsFollowQueue'
  <2>1. Ends(r.pc) /\ jobs' = jobs
    BY <1>4, <1>6 DEF Pop
  <2>2. r.pc = "finalize" => queue' = <<>>
    BY <1>4, <1>7
  <2> QED
    BY <1>4, <1>5, <1>7, <2>1, <2>2, EndOfBatch
<1> QED
  BY <1>3, <1>9, <1>10 DEF Pop, Ends, SendInvariant, SendTypeOK, locks, sending, optOut, history

LEMMA FinishBatchKeeps ==
  ASSUME SendInvariant, NEW d \in CronRuns, FinishBatch(d)
  PROVE  SendInvariant'
<1> DEFINE pc == IF BatchIsLast THEN "finalize" ELSE "release"
           r  == [worker[d] EXCEPT !.pc = pc]
<1>1. /\ d \in Workers /\ d \notin Executions /\ worker[d] \in Working
      /\ worker[d].pc = "next" /\ worker[d].todo = <<>>
  BY TwoKinds, WorkerRecord DEF FinishBatch, Workers, SendInvariant, At
<1>2. /\ r \in Working /\ r.pc = pc /\ pc \in {"finalize", "release"}
      /\ r.contact = worker[d].contact /\ r.job = worker[d].job /\ r.todo = <<>>
  BY <1>1 DEF Working, CronPcs
<1>3. worker' = [worker EXCEPT ![d] = r]
  BY <1>1 DEF FinishBatch, Goto, SendInvariant, SendTypeOK
<1>4. Ends(pc) /\ (pc = "finalize" => queue = <<>>)
  BY DEF FinishBatch, BatchIsLast
<1>5. worker[d].contact = Nobody /\ r.job \in Nat /\ r.job <= Len(jobs) /\ r.job # 0
  BY <1>1, <1>2, NothingInHand DEF Handling, SendInvariant, JobsExist
<1> HIDE DEF pc, r
<1>6. /\ worker' \in [Workers -> Working]
      /\ HandsFollowSteps' /\ JobsExist' /\ TakenOnce' /\ QueuedIsKept' /\ RefusalsAreKnown'
  <2>1. /\ r.pc \notin Handling \cup {"push", "queued", "done", "next"} /\ r.pc \in CronPcs
        /\ UNCHANGED <<jobs, queue, sendLock, row, mailed, suppressed, raced, lost>>
    BY <1>2 DEF FinishBatch, Handling, CronPcs, sending, optOut, history
  <2>2. jobs' \in Seq({"QUEUED", "RUNNING", "DONE"}) /\ Len(jobs) <= Len(jobs')
    BY <2>1 DEF SendInvariant, SendTypeOK
  <2> QED
    BY <1>1, <1>2, <1>3, <1>5, <2>1, <2>2, BetweenContacts
<1>7. queue' = queue /\ jobs' = jobs
  BY DEF FinishBatch
<1>8. JobsFollowQueue'
  BY <1>1, <1>2, <1>3, <1>4, <1>7, EndOfBatch
<1> QED
  BY <1>6, <1>8 DEF FinishBatch, Ends, SendInvariant, SendTypeOK, locks, sending, optOut, history

-----------------------------------------------------------------------------
(* Sending to one contact.                                                 *)

LEMMA InContact ==
  ASSUME SendInvariant, NEW w \in Workers, worker[w].pc \in Handling
  PROVE  /\ worker[w] \in Working /\ worker[w].contact \in Contacts
         /\ worker[w].contact # Nobody
BY WorkerRecord DEF SendInvariant, HandsFollowSteps, Working

LEMMA TakeKeeps ==
  ASSUME SendInvariant, NEW w \in Workers, Take(w)
  PROVE  SendInvariant'
<1> DEFINE c == Head(worker[w].todo)
           taken == [worker[w] EXCEPT !.pc = "check", !.todo = Tail(worker[w].todo),
                                      !.contact = c,
                                      !.consents = w \in Executions \/ c \notin revoked,
                                      !.refused = Refusal(c)]
           left  == [worker[w] EXCEPT !.todo = Tail(worker[w].todo)]
           r == IF MayTake(c) THEN taken ELSE left
<1>1. /\ worker[w] \in Working /\ worker[w].pc = "next" /\ worker[w].contact = Nobody
      /\ worker[w].todo \in Seq(Contacts) /\ worker[w].todo # <<>>
  BY WorkerRecord, NothingInHand DEF Take, At, SendInvariant, Handling, Working
<1>2. /\ c \in Contacts /\ c # Nobody /\ Tail(worker[w].todo) \in Seq(Contacts)
      /\ \A x \in ToSet(worker[w].todo) : x = c \/ x \in ToSet(Tail(worker[w].todo))
  BY <1>1, FirstAndRest, SendAssumption
<1>3. /\ worker' = [worker EXCEPT ![w] = r]
      /\ sendLock' = sendLock \cup {c}
      /\ raced' = IF c \in sendLock /\ row[c] = "none" THEN raced \cup {c} ELSE raced
  BY DEF Take, SendInvariant, SendTypeOK
<1> HIDE DEF c
<1>4. MayTake(c) => /\ r \in Working /\ r.pc = "check" /\ r.contact = c
                    /\ r.todo = Tail(worker[w].todo) /\ r.job = worker[w].job
                    /\ r.consents = (w \in Executions \/ c \notin revoked)
                    /\ r.refused = Refusal(c)
  <2>1. /\ (w \in Executions \/ c \notin revoked) \in BOOLEAN
        /\ Refusal(c) \in {"no", "revoked", "suppressed"}
    BY DEF Refusal
  <2>2. /\ taken \in Working /\ taken.pc = "check" /\ taken.contact = c
        /\ taken.todo = Tail(worker[w].todo) /\ taken.job = worker[w].job
    BY <1>1, <1>2, <2>1 DEF Working, CronPcs
  <2>3. /\ taken.consents = (w \in Executions \/ c \notin revoked)
        /\ taken.refused = Refusal(c)
    BY <1>1 DEF Working
  <2> HIDE DEF taken, left
  <2> QED
    BY <2>2, <2>3
<1>5. ~MayTake(c) => /\ r \in Working /\ r.pc = "next" /\ r.contact = Nobody
                     /\ r.todo = Tail(worker[w].todo) /\ r.job = worker[w].job
                     /\ r.refused = worker[w].refused /\ r.consents = worker[w].consents
  <2>1. /\ left \in Working /\ left.pc = "next" /\ left.contact = Nobody
        /\ left.todo = Tail(worker[w].todo) /\ left.job = worker[w].job
        /\ left.refused = worker[w].refused /\ left.consents = worker[w].consents
    BY <1>1, <1>2 DEF Working
  <2> HIDE DEF taken, left
  <2> QED
    BY <2>1
<1> HIDE DEF r
<1>6. r \in Working /\ r.job = worker[w].job /\ r.todo = Tail(worker[w].todo)
  BY <1>4, <1>5
<1>7. /\ worker' \in [Workers -> Working]
      /\ HandsFollowSteps' /\ JobsExist' /\ JobsFollowQueue' /\ QueuedIsKept'
  <2>1. r.pc \in Handling \cup {"next"} /\ (r.contact # Nobody <=> r.pc \in Handling)
    BY <1>2, <1>4, <1>5 DEF Handling
  <2>2. \A x \in InHand(w) : \/ x \in ToSet(r.todo) \cup ({r.contact} \ {Nobody})
                              \/ row'[x] # "none" \/ x \in lost'
    BY <1>1, <1>2, <1>4, <1>5, <1>6 DEF InHand, MayTake, Take
  <2>3. /\ UNCHANGED <<jobs, queue, overtaken, row, lost>>
        /\ row \in [Contacts -> {"none", "SENT", "SKIPPED", "FAILED"}]
    BY DEF Take, SendInvariant, SendTypeOK
  <2> QED
    BY <1>1, <1>3, <1>6, <2>1, <2>2, <2>3, WithinContact
<1>8. /\ worker'[w] = r /\ \A v \in Workers \ {w} : worker'[v] = worker[v]
  BY <1>3, <1>6, MoveEffect DEF SendInvariant
<1>9. TakenOnce'
  <2> SUFFICES ASSUME NEW x \in Contacts \ raced'
               PROVE  /\ mailed[x] <= 1
                      /\ mailed[x] > 0 => x \in sendLock'
                      /\ \A u \in Workers :
                           worker'[u].contact = x =>
                             /\ x \in sendLock'
                             /\ worker'[u].pc \in {"check", "mail"} => mailed[x] = 0
                             /\ \A v \in Workers : worker'[v].contact = x => v = u
    BY DEF TakenOnce, Take
  <2>1. /\ x \notin raced /\ sendLock \subseteq sendLock' /\ x # Nobody
        /\ mailed[x] \in Nat
    BY <1>3, SendAssumption DEF SendInvariant, SendTypeOK
  <2>2. /\ mailed[x] <= 1
        /\ mailed[x] > 0 => x \in sendLock
        /\ \A u \in Workers :
             worker[u].contact = x =>
               /\ x \in sendLock
               /\ worker[u].pc \in {"check", "mail"} => mailed[x] = 0
               /\ \A v \in Workers : worker[v].contact = x => v = u
    BY <2>1 DEF SendInvariant, TakenOnce
  <2>3. CASE x = c /\ MayTake(c)
    <3>1. c \notin sendLock
      BY <1>3, <2>3 DEF MayTake
    <3>2. mailed[x] = 0 /\ \A v \in Workers : worker[v].contact # x
      BY <2>1, <2>2, <2>3, <3>1
    <3> QED
      BY <1>3, <1>8, <2>1, <2>2, <2>3, <3>2
  <2>4. CASE ~(x = c /\ MayTake(c))
    <3>1. \A u \in Workers : worker'[u].contact = x => u # w /\ worker'[u] = worker[u]
      BY <1>4, <1>5, <1>8, <2>1, <2>4
    <3> QED
      BY <2>1, <2>2, <3>1
  <2> QED
    BY <2>3, <2>4
<1>10. RefusalsAreKnown'
  <2> SUFFICES ASSUME NEW u \in Workers, worker'[u].refused # "no", ~Unaware(u)'
               PROVE  /\ worker'[u].pc \notin {"mail", "persist"}
                      /\ worker'[u].pc = "check" => \/ worker'[u].contact \in suppressed
                                                   \/ ~worker'[u].consents
    BY DEF RefusalsAreKnown, Unaware, At, Take, optOut
  <2>1. (u \in Executions /\ u \notin CronRuns) \/ (u \in CronRuns /\ u \notin Executions)
    BY TwoKinds
  <2>2. CASE u # w
    BY <1>8, <2>2 DEF RefusalsAreKnown, Unaware, SendInvariant, At
  <2>3. CASE u = w /\ MayTake(c)
    BY <1>4, <1>8, <2>1, <2>3 DEF Refusal, Unaware
  <2>4. CASE u = w /\ ~MayTake(c)
    BY <1>5, <1>8, <2>4
  <2> QED
    BY <2>2, <2>3, <2>4
<1> QED
  BY <1>2, <1>3, <1>7, <1>9, <1>10 DEF Take, SendInvariant, SendTypeOK, locks, optOut

\* The contact in hand is given up, with a row or lost.
LEMMA GivenUp ==
  ASSUME SendInvariant, NEW w \in Workers, worker[w].pc \in Handling, GoOn(w),
         row' \in [Contacts -> {"none", "SENT", "SKIPPED", "FAILED"}],
         \A c \in Contacts : row[c] # "none" => row'[c] # "none", lost \subseteq lost',
         row'[worker[w].contact] # "none" \/ worker[w].contact \in lost',
         \/ mailed' = mailed
         \/ /\ mailed' = [mailed EXCEPT ![worker[w].contact] = @ + 1]
            /\ worker[w].pc = "mail",
         UNCHANGED <<jobs, queue, overtaken, sendLock, raced, suppressed>>
  PROVE  worker' \in [Workers -> Working] /\ Core' /\ mailed' \in [Contacts -> Nat]
<1> DEFINE r == [worker[w] EXCEPT !.pc = "next", !.contact = Nobody, !.consents = TRUE,
                                  !.refused = "no"]
           c == worker[w].contact
<1>1. worker[w] \in Working /\ c \in Contacts /\ c # Nobody
  BY InContact
<1>2. /\ r \in Working /\ r.pc = "next" /\ r.contact = Nobody /\ r.refused = "no"
      /\ r.todo = worker[w].todo /\ r.job = worker[w].job
  BY <1>1 DEF Working, CronPcs
<1>3. worker' = [worker EXCEPT ![w] = r]
  BY DEF GoOn, SendInvariant, SendTypeOK
<1> HIDE DEF r, c
<1>4. /\ worker' \in [Workers -> Working]
      /\ HandsFollowSteps' /\ JobsExist' /\ JobsFollowQueue' /\ QueuedIsKept'
  <2>1. r.contact # Nobody <=> r.pc \in Handling
    BY <1>2 DEF Handling
  <2>2. \A x \in InHand(w) : \/ x \in ToSet(r.todo) \cup ({r.contact} \ {Nobody})
                              \/ row'[x] # "none" \/ x \in lost'
    BY <1>2 DEF InHand, c
  <2> QED
    BY <1>2, <1>3, <2>1, <2>2, WithinContact
<1>5. /\ worker'[w] = r /\ \A v \in Workers \ {w} : worker'[v] = worker[v]
  BY <1>2, <1>3, MoveEffect DEF SendInvariant
<1>6. mailed \in [Contacts -> Nat]
  BY DEF SendInvariant, SendTypeOK
<1>7. mailed' \in [Contacts -> Nat] /\ \A x \in Contacts : x # c => mailed'[x] = mailed[x]
  BY <1>1, <1>6 DEF c
<1>8. TakenOnce'
  <2> SUFFICES ASSUME NEW x \in Contacts \ raced
               PROVE  /\ mailed'[x] <= 1
                      /\ mailed'[x] > 0 => x \in sendLock
                      /\ \A u \in Workers :
                           worker'[u].contact = x =>
                             /\ x \in sendLock
                             /\ worker'[u].pc \in {"check", "mail"} => mailed'[x] = 0
                             /\ \A v \in Workers : worker'[v].contact = x => v = u
    BY DEF TakenOnce
  <2>1. /\ mailed[x] <= 1 /\ mailed[x] \in Nat
        /\ mailed[x] > 0 => x \in sendLock
        /\ \A u \in Workers :
             worker[u].contact = x =>
               /\ x \in sendLock
               /\ worker[u].pc \in {"check", "mail"} => mailed[x] = 0
               /\ \A v \in Workers : worker[v].contact = x => v = u
    BY <1>6 DEF SendInvariant, TakenOnce
  <2>2. \A u \in Workers : worker'[u].contact = x => u # w /\ worker'[u] = worker[u]
    BY <1>2, <1>5, SendAssumption
  <2>3. CASE x = c
    <3>1. x \in sendLock /\ \A u \in Workers : worker'[u].contact # x
      BY <2>1, <2>2, <2>3 DEF c
    <3>2. mailed'[x] <= 1
      BY <1>6, <2>1, <2>3 DEF c
    <3> QED
      BY <3>1, <3>2
  <2>4. CASE x # c
    BY <1>7, <2>1, <2>2, <2>4
  <2> QED
    BY <2>3, <2>4
<1>9. RefusalsAreKnown'
  BY <1>2, <1>5 DEF RefusalsAreKnown, Unaware, SendInvariant, At, Workers
<1> QED
  BY <1>4, <1>7, <1>8, <1>9 DEF Core

LEMMA SettleKeepsRows ==
  ASSUME SendInvariant, NEW w \in Workers, worker[w].pc \in Handling,
         NEW status \in {"SENT", "SKIPPED", "FAILED"}, Settle(w, status)
  PROVE  /\ GoOn(w) /\ row' \in [Contacts -> {"none", "SENT", "SKIPPED", "FAILED"}]
         /\ \A c \in Contacts : row[c] # "none" => row'[c] # "none"
         /\ row'[worker[w].contact] # "none"
<1>1. worker[w].contact \in Contacts
  BY InContact
<1>2. row \in [Contacts -> {"none", "SENT", "SKIPPED", "FAILED"}]
  BY DEF SendInvariant, SendTypeOK
<1> QED
  BY <1>1, <1>2 DEF Settle

LEMMA PersistKeeps ==
  ASSUME SendInvariant, NEW w \in Workers, Persist(w)
  PROVE  SendInvariant'
<1>1. worker[w].pc \in Handling
  BY DEF Persist, At, Handling
<1>2. /\ GoOn(w) /\ row' \in [Contacts -> {"none", "SENT", "SKIPPED", "FAILED"}]
      /\ \A c \in Contacts : row[c] # "none" => row'[c] # "none"
      /\ row'[worker[w].contact] # "none"
  BY <1>1, SettleKeepsRows DEF Persist
<1>3. worker' \in [Workers -> Working] /\ Core' /\ mailed' \in [Contacts -> Nat]
  BY <1>1, <1>2, GivenUp DEF Persist, optOut, history
<1>4. SendTypeOK'
  BY <1>2, <1>3 DEF Persist, SendInvariant, SendTypeOK, locks, optOut, history
<1> QED
  BY <1>3, <1>4 DEF Core, SendInvariant

LEMMA MailFailsKeeps ==
  ASSUME SendInvariant, NEW w \in Workers, MailFails(w)
  PROVE  SendInvariant'
<1>1. worker[w].pc \in Handling /\ worker[w].pc = "mail"
  BY DEF MailFails, At, Handling
<1>2. /\ GoOn(w) /\ row' \in [Contacts -> {"none", "SENT", "SKIPPED", "FAILED"}]
      /\ \A c \in Contacts : row[c] # "none" => row'[c] # "none"
      /\ row'[worker[w].contact] # "none"
  BY <1>1, SettleKeepsRows DEF MailFails
<1>3. worker' \in [Workers -> Working] /\ Core' /\ mailed' \in [Contacts -> Nat]
  BY <1>1, <1>2, GivenUp DEF MailFails, optOut
<1>4. SendTypeOK'
  BY <1>2, <1>3 DEF MailFails, Fault, SendInvariant, SendTypeOK, locks, optOut
<1> QED
  BY <1>3, <1>4 DEF Core, SendInvariant

LEMMA DatabaseFailsKeeps ==
  ASSUME SendInvariant, NEW w \in Workers, DatabaseFails(w)
  PROVE  SendInvariant'
<1>1. worker[w].pc \in Handling /\ worker[w].contact \in Contacts
  BY InContact DEF DatabaseFails, Handling
<1>2. /\ GoOn(w) /\ row' \in [Contacts -> {"none", "SENT", "SKIPPED", "FAILED"}]
      /\ \A c \in Contacts : row[c] # "none" => row'[c] # "none"
      /\ row'[worker[w].contact] # "none" \/ worker[w].contact \in lost'
      /\ lost \subseteq lost' /\ lost' \subseteq Contacts
  <2>1. CASE Settle(w, "FAILED") /\ UNCHANGED lost
    BY <1>1, <2>1, SettleKeepsRows DEF SendInvariant, SendTypeOK
  <2>2. CASE GoOn(w) /\ lost' = lost \cup {worker[w].contact} /\ UNCHANGED row
    BY <1>1, <2>2 DEF SendInvariant, SendTypeOK
  <2> QED
    BY <2>1, <2>2 DEF DatabaseFails
<1>3. worker' \in [Workers -> Working] /\ Core' /\ mailed' \in [Contacts -> Nat]
  BY <1>1, <1>2, GivenUp DEF DatabaseFails, optOut
<1>4. SendTypeOK'
  BY <1>2, <1>3 DEF DatabaseFails, Fault, SendInvariant, SendTypeOK, locks, optOut
<1> QED
  BY <1>3, <1>4 DEF Core, SendInvariant

\* The next step of the contact in hand.
LEMMA NextOfContact ==
  ASSUME SendInvariant, NEW w \in Workers,
         \/ At(w, "check") /\ Goto(w, "mail") /\ MayMail(w) /\ mailed' = mailed
         \/ /\ At(w, "mail") /\ Goto(w, "persist")
            /\ mailed' = [mailed EXCEPT ![worker[w].contact] = @ + 1],
         UNCHANGED <<jobs, queue, overtaken, sendLock, raced, suppressed, row, lost>>
  PROVE  worker' \in [Workers -> Working] /\ Core' /\ mailed' \in [Contacts -> Nat]
<1>1. PICK pc \in {"mail", "persist"} :
        /\ worker' = [worker EXCEPT ![w].pc = pc]
        /\ pc = "mail" => worker[w].pc = "check" /\ MayMail(w) /\ mailed' = mailed
        /\ pc = "persist" =>
             /\ worker[w].pc = "mail"
             /\ mailed' = [mailed EXCEPT ![worker[w].contact] = @ + 1]
  BY DEF At, Goto
<1> DEFINE r == [worker[w] EXCEPT !.pc = pc]
           c == worker[w].contact
<1>2. worker[w].pc \in Handling \cup {"next"} /\ worker[w].pc \in Handling
  BY DEF At, Handling
<1>3. worker[w] \in Working /\ c \in Contacts /\ c # Nobody
  BY <1>2, InContact
<1>4. /\ r \in Working /\ r.pc = pc /\ r.contact = c /\ r.refused = worker[w].refused
      /\ r.todo = worker[w].todo /\ r.job = worker[w].job
  BY <1>3 DEF Working, CronPcs
<1>5. worker' = [worker EXCEPT ![w] = r]
  BY <1>1 DEF SendInvariant, SendTypeOK
<1> HIDE DEF r
<1>6. /\ worker' \in [Workers -> Working]
      /\ HandsFollowSteps' /\ JobsExist' /\ JobsFollowQueue' /\ QueuedIsKept'
  <2>1. /\ r.pc \in Handling \cup {"next"} /\ (r.contact # Nobody <=> r.pc \in Handling)
        /\ row \in [Contacts -> {"none", "SENT", "SKIPPED", "FAILED"}]
    BY <1>3, <1>4 DEF Handling, SendInvariant, SendTypeOK
  <2>2. \A x \in InHand(w) : x \in ToSet(r.todo) \cup ({r.contact} \ {Nobody})
    BY <1>4 DEF InHand
  <2> HIDE DEF c
  <2> QED
    BY <1>2, <1>4, <1>5, <2>1, <2>2, WithinContact
<1>7. /\ worker'[w] = r /\ \A v \in Workers \ {w} : worker'[v] = worker[v]
  BY <1>4, <1>5, MoveEffect DEF SendInvariant
<1>8. \A u \in Workers : worker'[u].contact = worker[u].contact
  BY <1>4, <1>7
<1>9. mailed \in [Contacts -> Nat]
  BY DEF SendInvariant, SendTypeOK
<1>10. mailed' \in [Contacts -> Nat] /\ \A x \in Contacts : x # c => mailed'[x] = mailed[x]
  BY <1>1, <1>3, <1>9
<1>11. TakenOnce'
  <2> SUFFICES ASSUME NEW x \in Contacts \ raced
               PROVE  /\ mailed'[x] <= 1
                      /\ mailed'[x] > 0 => x \in sendLock
                      /\ \A u \in Workers :
                           worker'[u].contact = x =>
                             /\ x \in sendLock
                             /\ worker'[u].pc \in {"check", "mail"} => mailed'[x] = 0
                             /\ \A v \in Workers : worker'[v].contact = x => v = u
    BY DEF TakenOnce
  <2>1. /\ mailed[x] <= 1 /\ mailed[x] \in Nat
        /\ mailed[x] > 0 => x \in sendLock
        /\ \A u \in Workers :
             worker[u].contact = x =>
               /\ x \in sendLock
               /\ worker[u].pc \in {"check", "mail"} => mailed[x] = 0
               /\ \A v \in Workers : worker[v].contact = x => v = u
    BY <1>9 DEF SendInvariant, TakenOnce
  <2>2. CASE x # c
    <3>1. \A u \in Workers : worker'[u].contact = x => worker'[u] = worker[u]
      BY <1>7, <1>8, <2>2
    <3> QED
      BY <1>8, <1>10, <2>1, <2>2, <3>1
  <2>3. CASE x = c
    <3>1. x \in sendLock /\ mailed[x] = 0 /\ \A u \in Workers : worker[u].contact = x => u = w
      BY <1>1, <2>1, <2>3
    <3>2. mailed'[x] <= 1 /\ (pc = "mail" => mailed'[x] = 0)
      BY <1>1, <1>9, <2>3, <3>1
    <3>3. \A u \in Workers : worker'[u].contact = x => u = w
      BY <1>8, <3>1
    <3> QED
      BY <1>4, <1>7, <3>1, <3>2, <3>3
  <2> QED
    BY <2>2, <2>3
<1>12. RefusalsAreKnown'
  <2> SUFFICES ASSUME NEW u \in Workers, worker'[u].refused # "no", ~Unaware(u)'
               PROVE  /\ worker'[u].pc \notin {"mail", "persist"}
                      /\ worker'[u].pc = "check" => \/ worker'[u].contact \in suppressed
                                                   \/ ~worker'[u].consents
    BY DEF RefusalsAreKnown, Unaware, At
  <2>1. u # w
    <3> SUFFICES ASSUME u = w PROVE FALSE
      OBVIOUS
    <3>1. worker[w].refused # "no" /\ ~Unaware(w)
      BY <1>4, <1>7 DEF Unaware
    <3> QED
      BY <1>1, <3>1 DEF RefusalsAreKnown, Unaware, SendInvariant, MayMail, At
  <2> QED
    BY <1>7, <2>1 DEF RefusalsAreKnown, Unaware, SendInvariant, At
<1> QED
  BY <1>6, <1>10, <1>11, <1>12 DEF Core

LEMMA MailKeeps ==
  ASSUME SendInvariant, NEW w \in Workers, Mail(w)
  PROVE  SendInvariant'
<1>1. worker' \in [Workers -> Working] /\ Core' /\ mailed' \in [Contacts -> Nat]
  BY NextOfContact DEF Mail, optOut, history
<1>2. SendTypeOK'
  BY <1>1 DEF Mail, SendInvariant, SendTypeOK, locks, optOut, history
<1> QED
  BY <1>1, <1>2 DEF Core, SendInvariant

LEMMA CheckKeeps ==
  ASSUME SendInvariant, NEW w \in Workers, Check(w)
  PROVE  SendInvariant'
<1>1. CASE MayMail(w)
  <2>1. worker' \in [Workers -> Working] /\ Core' /\ mailed' \in [Contacts -> Nat]
    BY <1>1, NextOfContact DEF Check, optOut, history
  <2>2. SendTypeOK'
    BY <1>1, <2>1 DEF Check, SendInvariant, SendTypeOK, locks, optOut, history
  <2> QED
    BY <2>1, <2>2 DEF Core, SendInvariant
<1>2. CASE ~MayMail(w)
  <2>1. worker[w].pc \in Handling
    BY DEF Check, At, Handling
  <2>2. /\ GoOn(w) /\ row' \in [Contacts -> {"none", "SENT", "SKIPPED", "FAILED"}]
        /\ \A c \in Contacts : row[c] # "none" => row'[c] # "none"
        /\ row'[worker[w].contact] # "none"
    BY <1>2, <2>1, SettleKeepsRows DEF Check
  <2>3. worker' \in [Workers -> Working] /\ Core' /\ mailed' \in [Contacts -> Nat]
    BY <2>1, <2>2, GivenUp DEF Check, optOut, history
  <2>4. SendTypeOK'
    BY <2>2, <2>3 DEF Check, SendInvariant, SendTypeOK, locks, optOut, history
  <2> QED
    BY <2>3, <2>4 DEF Core, SendInvariant
<1> QED
  BY <1>1, <1>2

-----------------------------------------------------------------------------
(* Steps that no worker makes.                                             *)

\* Nothing a worker relies on changes, except that the lock of a contact that
\* is counted as raced may go and that contacts join the suppression list.
LEMMA QuietStep ==
  ASSUME SendInvariant,
         UNCHANGED <<worker, jobs, queue, overtaken, row, lost, mailed>>,
         suppressed \subseteq suppressed', raced \subseteq raced',
         \A c \in Contacts \ raced' : c \in sendLock => c \in sendLock'
  PROVE  Core'
<1>1. HandsFollowSteps' /\ JobsExist'
  BY DEF SendInvariant, HandsFollowSteps, JobsExist
<1>2. TakenOnce'
  BY DEF SendInvariant, TakenOnce
<1>3. JobsFollowQueue' /\ QueuedIsKept'
  BY DEF SendInvariant, JobsFollowQueue, QueuedIsKept, StaysActive, Active, Kept, InHand, At
<1>4. RefusalsAreKnown'
  BY DEF SendInvariant, RefusalsAreKnown, Unaware, At
<1> QED
  BY <1>1, <1>2, <1>3, <1>4 DEF Core

LEMMA CancellationKeeps ==
  ASSUME SendInvariant, RequestConfirmation \/ ReadForCancel \/ CommitCancel
  PROVE  SendInvariant'
<1>1. Core'
  BY QuietStep DEF RequestConfirmation, ReadForCancel, CommitCancel, sending, optOut, history
<1>2. SendTypeOK'
  BY RecipientLists
  DEF RequestConfirmation, ReadForCancel, CommitCancel, SendInvariant, SendTypeOK,
      locks, sending, optOut, history
<1> QED
  BY <1>1, <1>2 DEF Core, SendInvariant

LEMMA OptOutKeeps ==
  ASSUME SendInvariant, NEW c \in Leavers, Suppress(c) \/ Revoke(c)
  PROVE  SendInvariant'
<1>1. Core'
  BY QuietStep DEF Suppress, Revoke, sending, history
<1>2. SendTypeOK'
  BY SendAssumption DEF Suppress, Revoke, SendInvariant, SendTypeOK, locks, sending, history
<1> QED
  BY <1>1, <1>2 DEF Core, SendInvariant

LEMMA ExpiryKeeps ==
  ASSUME SendInvariant,
         DrainLockExpires \/ CronLockExpires \/ \E c \in Contacts : SendLockExpires(c)
  PROVE  SendInvariant'
<1>1. CASE DrainLockExpires \/ CronLockExpires
  <2>1. Core'
    BY <1>1, QuietStep DEF DrainLockExpires, CronLockExpires, sending, optOut
  <2>2. faults' \in Nat
    BY <1>1 DEF DrainLockExpires, CronLockExpires, Fault, SendInvariant, SendTypeOK
  <2>3. SendTypeOK'
    BY <1>1, <2>2
    DEF DrainLockExpires, CronLockExpires, SendInvariant, SendTypeOK, sending, optOut
  <2> QED
    BY <2>1, <2>3 DEF Core, SendInvariant
<1>2. ASSUME NEW c \in Contacts, SendLockExpires(c) PROVE SendInvariant'
  <2>1. Core'
    BY <1>2, QuietStep DEF SendLockExpires, optOut
  <2>2. SendTypeOK'
    BY <1>2 DEF SendLockExpires, Fault, SendInvariant, SendTypeOK, locks, optOut
  <2> QED
    BY <2>1, <2>2 DEF Core, SendInvariant
<1> QED
  BY <1>1, <1>2

\* What a worker that dies had in hand is lost, whatever it was doing.
LEMMA CrashKeeps ==
  ASSUME SendInvariant, NEW w \in Workers, Crash(w)
  PROVE  SendInvariant'
<1> DEFINE r == IF w \in CronRuns THEN Idle ELSE Ended
<1>1. /\ r \in Working /\ r.pc \in {"idle", "done"} /\ r.contact = Nobody
      /\ r.todo = <<>> /\ r.job = 0 /\ r.refused = "no"
      /\ w \in CronRuns => r.pc = "idle"
  BY IdleRecord
<1>2. worker' = [worker EXCEPT ![w] = r]
  BY DEF Crash, Ended
<1> HIDE DEF r
<1>3. /\ worker' \in [Workers -> Working] /\ worker'[w] = r
      /\ \A v \in Workers \ {w} : worker'[v] = worker[v]
  BY <1>1, <1>2, MoveEffect DEF SendInvariant
<1>4. HandsFollowSteps'
  BY <1>1, <1>3, TwoKinds
  DEF HandsFollowSteps, SendInvariant, Handling, ExecutionPcs, CronPcs
<1>5. JobsExist'
  <2>1. jobs' = jobs /\ Len(jobs) \in Nat
    BY DEF Crash, SendInvariant, SendTypeOK
  <2> QED
    BY <1>1, <1>3, <2>1 DEF JobsExist, SendInvariant
<1>6. TakenOnce'
  <2>1. UNCHANGED <<mailed, sendLock, raced>> /\ \A c \in Contacts : c # Nobody
    BY SendAssumption DEF Crash, sending
  <2> QED
    BY <1>1, <1>3, <2>1 DEF TakenOnce, SendInvariant
<1>7. JobsFollowQueue'
  BY <1>1, <1>2, JobsLeftAlone DEF Crash
<1>8. QueuedIsKept'
  <2> SUFFICES ASSUME NEW e \in Executions, worker'[e].pc \in {"queued", "done"},
                      worker'[e].job # 0, NEW c \in ToSet(worker'[e].todo)
               PROVE  Kept(c)'
    BY DEF QueuedIsKept
  <2>1. worker'[e] = worker[e]
    BY <1>1, <1>3 DEF Workers
  <2>2. Kept(c)
    BY <2>1 DEF QueuedIsKept, SendInvariant
  <2>3. CASE row[c] # "none" \/ c \in lost \/ c \in ToSet(queue)
    BY <2>3 DEF Kept, Crash, sending
  <2>4. ASSUME NEW d \in CronRuns, c \in InHand(d) PROVE Kept(c)'
    <3>1. CASE d = w
      BY <2>4, <3>1 DEF Kept, Crash
    <3>2. CASE d # w
      BY <1>3, <2>4, <3>2 DEF Kept, InHand, Workers
    <3> QED
      BY <3>1, <3>2
  <2> QED
    BY <2>2, <2>3, <2>4 DEF Kept
<1>9. RefusalsAreKnown'
  BY <1>1, <1>3 DEF RefusalsAreKnown, Unaware, SendInvariant, At, Crash, optOut, Workers
<1>10. lost' \subseteq Contacts
  <2>1. worker[w] \in Working
    BY WorkerRecord DEF SendInvariant
  <2>2. ToSet(worker[w].todo) \subseteq Contacts
    BY <2>1 DEF Working, ToSet
  <2>3. InHand(w) \subseteq Contacts
    BY <2>1, <2>2 DEF InHand, Working
  <2> QED
    BY <2>3 DEF Crash, SendInvariant, SendTypeOK
<1>11. SendTypeOK'
  BY <1>3, <1>10 DEF Crash, Fault, SendInvariant, SendTypeOK, locks, sending, optOut
<1> QED
  BY <1>4, <1>5, <1>6, <1>7, <1>8, <1>9, <1>11 DEF SendInvariant

-----------------------------------------------------------------------------
(* Contacts move between the places from which they may be mailed.         *)

\* What a place of c is, before and after a step.
LEMMA ChanceForms ==
  ASSUME NEW c, NEW p
  PROVE  p \in Chances(c) <=>
           \/ \E i \in DOMAIN queue : queue[i] = c /\ p = <<"queue", Nobody, i>>
           \/ \E w \in Workers : \E i \in DOMAIN worker[w].todo :
                /\ worker[w].pc \notin {"queued", "done"}
                /\ worker[w].todo[i] = c /\ p = <<"list", w, i>>
           \/ \E w \in Workers :
                /\ worker[w].pc \in {"check", "mail"} /\ worker[w].contact = c
                /\ p = <<"hand", w, 0>>
           \/ \E e \in Executions :
                worker[e].pc \in {"validated", "sending"} /\ p = <<"new", e, 0>>
<1> DEFINE A == {"queue"} \X {Nobody} \X Occurrences(queue, c)
           B == UNION {{"list"} \X {w} \X Occurrences(worker[w].todo, c) : w \in Listing}
           C == {"hand"} \X Handing(c) \X {0}
           D == {"new"} \X Beginning \X {0}
           InA == \E i \in DOMAIN queue : queue[i] = c /\ p = <<"queue", Nobody, i>>
           InB == \E w \in Workers : \E i \in DOMAIN worker[w].todo :
                    /\ worker[w].pc \notin {"queued", "done"}
                    /\ worker[w].todo[i] = c /\ p = <<"list", w, i>>
           InC == \E w \in Workers :
                    /\ worker[w].pc \in {"check", "mail"} /\ worker[w].contact = c
                    /\ p = <<"hand", w, 0>>
           InD == \E e \in Executions :
                    worker[e].pc \in {"validated", "sending"} /\ p = <<"new", e, 0>>
<1>1. p \in A <=> InA
  BY DEF Occurrences
<1>2. p \in B <=> InB
  BY DEF Occurrences, Listing
<1>3. p \in C <=> InC
  BY DEF Handing
<1>4. p \in D <=> InD
  BY DEF Beginning
<1>5. Chances(c) = A \cup B \cup C \cup D
  BY DEF Chances
<1> HIDE DEF A, B, C, D
<1>6. p \in Chances(c) <=> p \in A \/ p \in B \/ p \in C \/ p \in D
  BY <1>5
<1> HIDE DEF InA, InB, InC, InD
<1>7. p \in Chances(c) <=> InA \/ InB \/ InC \/ InD
  BY <1>1, <1>2, <1>3, <1>4, <1>6
<1> QED
  BY <1>7 DEF InA, InB, InC, InD

LEMMA ChanceFormsNext ==
  ASSUME NEW c, NEW p
  PROVE  p \in Chances(c)' <=>
           \/ \E i \in DOMAIN queue' : queue'[i] = c /\ p = <<"queue", Nobody, i>>
           \/ \E w \in Workers : \E i \in DOMAIN worker'[w].todo :
                /\ worker'[w].pc \notin {"queued", "done"}
                /\ worker'[w].todo[i] = c /\ p = <<"list", w, i>>
           \/ \E w \in Workers :
                /\ worker'[w].pc \in {"check", "mail"} /\ worker'[w].contact = c
                /\ p = <<"hand", w, 0>>
           \/ \E e \in Executions :
                worker'[e].pc \in {"validated", "sending"} /\ p = <<"new", e, 0>>
<1> DEFINE A == {"queue"} \X {Nobody} \X Occurrences(queue', c)
           B == UNION {{"list"} \X {w} \X Occurrences(worker'[w].todo, c) : w \in Listing'}
           C == {"hand"} \X Handing(c)' \X {0}
           D == {"new"} \X Beginning' \X {0}
           InA == \E i \in DOMAIN queue' : queue'[i] = c /\ p = <<"queue", Nobody, i>>
           InB == \E w \in Workers : \E i \in DOMAIN worker'[w].todo :
                    /\ worker'[w].pc \notin {"queued", "done"}
                    /\ worker'[w].todo[i] = c /\ p = <<"list", w, i>>
           InC == \E w \in Workers :
                    /\ worker'[w].pc \in {"check", "mail"} /\ worker'[w].contact = c
                    /\ p = <<"hand", w, 0>>
           InD == \E e \in Executions :
                    worker'[e].pc \in {"validated", "sending"} /\ p = <<"new", e, 0>>
<1>1. p \in A <=> InA
  BY DEF Occurrences
<1>2. p \in B <=> InB
  BY DEF Occurrences, Listing
<1>3. p \in C <=> InC
  BY DEF Handing
<1>4. p \in D <=> InD
  BY DEF Beginning
<1>5. Chances(c)' = A \cup B \cup C \cup D
  BY DEF Chances
<1> HIDE DEF A, B, C, D
<1>6. p \in Chances(c)' <=> p \in A \/ p \in B \/ p \in C \/ p \in D
  BY <1>5
<1> HIDE DEF InA, InB, InC, InD
<1>7. p \in Chances(c)' <=> InA \/ InB \/ InC \/ InD
  BY <1>1, <1>2, <1>3, <1>4, <1>6
<1> QED
  BY <1>7 DEF InA, InB, InC, InD

\* A step that neither mails nor begins an execution keeps the budget when every
\* place of a contact after it comes from one of its own before.
LEMMA PlacesMove ==
  ASSUME SendTypeOK, MailsAreBudgeted, mailed' = mailed, Executed' = Executed,
         \A c \in Contacts : Injection(Chances(c)', Chances(c)) # {}
  PROVE  MailsAreBudgeted'
<1> SUFFICES ASSUME NEW c \in Contacts
             PROVE  /\ IsFiniteSet(Chances(c)')
                    /\ mailed[c] + Cardinality(Chances(c)') <= Cardinality(Executed)
  BY DEF MailsAreBudgeted
<1>1. PICK f \in Injection(Chances(c)', Chances(c)) : TRUE
  OBVIOUS
<1>2. /\ IsFiniteSet(Chances(c)) /\ IsFiniteSet(Executed)
      /\ mailed[c] + Cardinality(Chances(c)) <= Cardinality(Executed)
  BY DEF MailsAreBudgeted
<1>3. IsFiniteSet(Chances(c)') /\ Cardinality(Chances(c)') <= Cardinality(Chances(c))
  BY <1>1, <1>2, FS_Injection
<1>4. /\ Cardinality(Chances(c)) \in Nat /\ Cardinality(Chances(c)') \in Nat
      /\ Cardinality(Executed) \in Nat /\ mailed[c] \in Nat
  BY <1>2, <1>3, FS_CardinalityType DEF SendTypeOK
<1> QED
  BY <1>2, <1>3, <1>4

\* A subset is a special case.
LEMMA PlacesGo ==
  ASSUME SendTypeOK, MailsAreBudgeted, mailed' = mailed, Executed' = Executed,
         \A c \in Contacts : Chances(c)' \subseteq Chances(c)
  PROVE  MailsAreBudgeted'
<1>1. ASSUME NEW S, NEW T, S \subseteq T PROVE [x \in S |-> x] \in Injection(S, T)
  BY <1>1 DEF Injection, IsInjective
<1>2. \A c \in Contacts : Injection(Chances(c)', Chances(c)) # {}
  BY <1>1
<1> QED
  BY <1>2, PlacesMove

\* A worker that loses places, and takes none.
LEMMA WorkerLosesPlaces ==
  ASSUME SendTypeOK, NEW w \in Workers, NEW r \in Working,
         worker' = [worker EXCEPT ![w] = r], queue' = queue,
         w \in Executions => r.pc # "idle" /\ worker[w].pc # "idle",
         \/ r.todo = <<>> \/ r.pc \in {"queued", "done"}
         \/ r.todo = worker[w].todo /\ worker[w].pc \notin {"queued", "done"},
         r.pc \in {"check", "mail"}
           => worker[w].pc \in {"check", "mail"} /\ r.contact = worker[w].contact,
         w \in Executions /\ r.pc \in {"validated", "sending"}
           => worker[w].pc \in {"validated", "sending"}
  PROVE  Executed' = Executed /\ \A c \in Contacts : Chances(c)' \subseteq Chances(c)
<1>1. /\ worker'[w] = r /\ \A v \in Workers \ {w} : worker'[v] = worker[v]
  BY MoveEffect
<1>2. Executed' = Executed
  BY <1>1 DEF Executed, At, Workers
<1>3. ASSUME NEW c \in Contacts, NEW p \in Chances(c)' PROVE p \in Chances(c)
  <2>1. ASSUME NEW i \in DOMAIN queue, queue[i] = c, p = <<"queue", Nobody, i>>
        PROVE  p \in Chances(c)
    BY <2>1, ChanceForms
  <2>2. ASSUME NEW v \in Workers, NEW i \in DOMAIN worker'[v].todo,
               worker'[v].pc \notin {"queued", "done"},
               worker'[v].todo[i] = c, p = <<"list", v, i>>
        PROVE  p \in Chances(c)
    <3>1. /\ worker[v].pc \notin {"queued", "done"} /\ i \in DOMAIN worker[v].todo
          /\ worker[v].todo[i] = c
      BY <1>1, <2>2
    <3> QED
      BY <2>2, <3>1, ChanceForms
  <2>3. ASSUME NEW v \in Workers, worker'[v].pc \in {"check", "mail"},
               worker'[v].contact = c, p = <<"hand", v, 0>>
        PROVE  p \in Chances(c)
    <3>1. worker[v].pc \in {"check", "mail"} /\ worker[v].contact = c
      BY <1>1, <2>3
    <3> QED
      BY <2>3, <3>1, ChanceForms
  <2>4. ASSUME NEW e \in Executions, worker'[e].pc \in {"validated", "sending"},
               p = <<"new", e, 0>>
        PROVE  p \in Chances(c)
    <3>1. worker[e].pc \in {"validated", "sending"}
      BY <1>1, <2>4 DEF Workers
    <3> QED
      BY <2>4, <3>1, ChanceForms
  <2> QED
    BY <1>3, <2>1, <2>2, <2>3, <2>4, ChanceFormsNext
<1> QED
  BY <1>2, <1>3

\* Then the budget is kept, as long as no mail is sent.
LEMMA WorkerGoesOn ==
  ASSUME SendTypeOK, MailsAreBudgeted, NEW w \in Workers, NEW r \in Working,
         worker' = [worker EXCEPT ![w] = r], queue' = queue, mailed' = mailed,
         w \in Executions => r.pc # "idle" /\ worker[w].pc # "idle",
         \/ r.todo = <<>> \/ r.pc \in {"queued", "done"}
         \/ r.todo = worker[w].todo /\ worker[w].pc \notin {"queued", "done"},
         r.pc \in {"check", "mail"}
           => worker[w].pc \in {"check", "mail"} /\ r.contact = worker[w].contact,
         w \in Executions /\ r.pc \in {"validated", "sending"}
           => worker[w].pc \in {"validated", "sending"}
  PROVE  MailsAreBudgeted'
<1>1. Executed' = Executed /\ \A c \in Contacts : Chances(c)' \subseteq Chances(c)
  BY WorkerLosesPlaces
<1> QED
  BY <1>1, PlacesGo

\* A mail that is sent, and perhaps reported as failed, leaves the hand it was in.
LEMMA MailSpends ==
  ASSUME SendInvariant, MailsAreBudgeted, NEW w \in Workers, NEW r \in Working,
         worker' = [worker EXCEPT ![w] = r], queue' = queue, worker[w].pc = "mail",
         r.pc \in {"persist", "next"}, r.todo = worker[w].todo,
         mailed' = [mailed EXCEPT ![worker[w].contact] = @ + 1]
  PROVE  MailsAreBudgeted'
<1> DEFINE x == worker[w].contact
           hand == <<"hand", w, 0>>
<1>1. /\ worker'[w] = r /\ \A v \in Workers \ {w} : worker'[v] = worker[v]
  BY MoveEffect DEF SendInvariant
<1>2. x \in Contacts
  BY DEF SendInvariant, HandsFollowSteps, SendTypeOK, Working, Handling
<1>3. Executed' = Executed /\ \A c \in Contacts : Chances(c)' \subseteq Chances(c)
  BY WorkerLosesPlaces DEF SendInvariant
<1>4. hand \in Chances(x)
  BY ChanceForms
<1>5. \A c : hand \notin Chances(c)'
  <2> SUFFICES ASSUME NEW c, hand \in Chances(c)' PROVE FALSE
    OBVIOUS
  <2>1. worker'[w].pc \in {"check", "mail"}
    BY ChanceFormsNext
  <2> QED
    BY <1>1, <2>1
<1>6. mailed \in [Contacts -> Nat] /\ IsFiniteSet(Executed)
  BY DEF SendInvariant, SendTypeOK, MailsAreBudgeted
<1>7. ASSUME NEW c \in Contacts
      PROVE  /\ IsFiniteSet(Chances(c)')
             /\ mailed'[c] + Cardinality(Chances(c)') <= Cardinality(Executed)
  <2>1. /\ IsFiniteSet(Chances(c)) /\ Cardinality(Chances(c)) \in Nat
        /\ mailed[c] + Cardinality(Chances(c)) <= Cardinality(Executed)
        /\ Cardinality(Executed) \in Nat
    BY <1>6, FS_CardinalityType DEF MailsAreBudgeted
  <2>2. /\ IsFiniteSet(Chances(c)') /\ Cardinality(Chances(c)') \in Nat
        /\ Cardinality(Chances(c)') <= Cardinality(Chances(c))
    BY <1>3, <2>1, FS_Subset, FS_CardinalityType
  <2>3. CASE c # x
    BY <1>6, <2>1, <2>2, <2>3
  <2>4. CASE c = x
    <3> DEFINE R == Chances(c) \ {hand}
    <3>1. IsFiniteSet(R) /\ Cardinality(R) = Cardinality(Chances(c)) - 1
      BY <1>4, <2>1, <2>4, FS_RemoveElement
    <3>2. Chances(c)' \in SUBSET R
      BY <1>3, <1>5
    <3> HIDE DEF R
    <3>3. Cardinality(Chances(c)') <= Cardinality(R)
      BY <3>1, <3>2, FS_Subset
    <3>4. mailed'[c] = mailed[c] + 1 /\ mailed[c] \in Nat
      BY <1>2, <1>6, <2>4
    <3> HIDE DEF x, hand
    <3> QED
      BY <2>1, <2>2, <3>1, <3>3, <3>4
  <2> QED
    BY <2>3, <2>4
<1> QED
  BY <1>3, <1>6, <1>7 DEF MailsAreBudgeted

\* An execution that begins brings one place, and pays for it.
LEMMA BeginningPays ==
  ASSUME SendInvariant, MailsAreBudgeted, NEW e \in Executions, Validate(e)
  PROVE  MailsAreBudgeted'
<1> DEFINE r == [worker[e] EXCEPT !.pc = "validated", !.count = token]
           place == <<"new", e, 0>>
<1>1. /\ e \in Workers /\ worker[e] \in Working /\ worker[e].pc = "idle"
      /\ token \in Nat /\ worker' = [worker EXCEPT ![e] = r]
      /\ queue' = queue /\ mailed' = mailed
  BY DEF Validate, At, Workers, SendInvariant, SendTypeOK, sending
<1>2. r \in Working /\ r.pc = "validated" /\ r.todo = worker[e].todo
  BY <1>1 DEF Working, ExecutionPcs
<1> HIDE DEF r
<1>3. /\ worker'[e] = r /\ \A v \in Workers \ {e} : worker'[v] = worker[v]
  BY <1>1, <1>2, MoveEffect DEF SendInvariant
<1>4. Executed' = Executed \cup {e} /\ e \notin Executed
  BY <1>1, <1>2, <1>3 DEF Executed, At, Workers
<1>5. ASSUME NEW c \in Contacts, NEW p \in Chances(c)'
      PROVE  p \in Chances(c) \cup {place}
  <2>1. ASSUME NEW i \in DOMAIN queue, queue[i] = c, p = <<"queue", Nobody, i>>
        PROVE  p \in Chances(c)
    BY <2>1, ChanceForms
  <2>2. ASSUME NEW v \in Workers, NEW i \in DOMAIN worker'[v].todo,
               worker'[v].pc \notin {"queued", "done"},
               worker'[v].todo[i] = c, p = <<"list", v, i>>
        PROVE  p \in Chances(c)
    <3>1. /\ worker[v].pc \notin {"queued", "done"} /\ i \in DOMAIN worker[v].todo
          /\ worker[v].todo[i] = c
      BY <1>1, <1>2, <1>3, <2>2
    <3> QED
      BY <2>2, <3>1, ChanceForms
  <2>3. ASSUME NEW v \in Workers, worker'[v].pc \in {"check", "mail"},
               worker'[v].contact = c, p = <<"hand", v, 0>>
        PROVE  p \in Chances(c)
    <3>1. worker[v].pc \in {"check", "mail"} /\ worker[v].contact = c
      BY <1>2, <1>3, <2>3
    <3> QED
      BY <2>3, <3>1, ChanceForms
  <2>4. ASSUME NEW f \in Executions, worker'[f].pc \in {"validated", "sending"},
               p = <<"new", f, 0>>, f # e
        PROVE  p \in Chances(c)
    <3>1. worker[f].pc \in {"validated", "sending"}
      BY <1>3, <2>4 DEF Workers
    <3> QED
      BY <2>4, <3>1, ChanceForms
  <2> QED
    BY <1>1, <1>5, <2>1, <2>2, <2>3, <2>4, ChanceFormsNext
<1>6. IsFiniteSet(Executed) /\ mailed \in [Contacts -> Nat]
  BY DEF MailsAreBudgeted, SendInvariant, SendTypeOK
<1>7. /\ IsFiniteSet(Executed') /\ Cardinality(Executed') = Cardinality(Executed) + 1
      /\ Cardinality(Executed) \in Nat
  BY <1>4, <1>6, FS_AddElement, FS_CardinalityType
<1>8. ASSUME NEW c \in Contacts
      PROVE  /\ IsFiniteSet(Chances(c)')
             /\ mailed'[c] + Cardinality(Chances(c)') <= Cardinality(Executed')
  <2> DEFINE T == Chances(c) \cup {place}
  <2>1. /\ IsFiniteSet(Chances(c)) /\ Cardinality(Chances(c)) \in Nat
        /\ mailed[c] + Cardinality(Chances(c)) <= Cardinality(Executed)
    BY FS_CardinalityType DEF MailsAreBudgeted
  <2>2. /\ IsFiniteSet(T) /\ Cardinality(T) \in Nat
        /\ Cardinality(T) <= Cardinality(Chances(c)) + 1
    <3> HIDE DEF place
    <3>1. /\ IsFiniteSet(T)
          /\ Cardinality(T) = IF place \in Chances(c) THEN Cardinality(Chances(c))
                              ELSE Cardinality(Chances(c)) + 1
      BY <2>1, FS_AddElement
    <3> HIDE DEF T
    <3> QED
      BY <2>1, <3>1
  <2>3. Chances(c)' \in SUBSET T
    BY <1>5
  <2> HIDE DEF T
  <2>4. /\ IsFiniteSet(Chances(c)') /\ Cardinality(Chances(c)') \in Nat
        /\ Cardinality(Chances(c)') <= Cardinality(T)
    BY <2>2, <2>3, FS_Subset, FS_CardinalityType
  <2>5. mailed'[c] = mailed[c] /\ mailed[c] \in Nat
    BY <1>1, <1>6
  <2> QED
    BY <1>7, <2>1, <2>2, <2>4, <2>5
<1> QED
  BY <1>7, <1>8 DEF MailsAreBudgeted

\* A map that can be undone is an injection.
LEMMA Undoable ==
  ASSUME NEW S, NEW T, NEW f, NEW g, \A p \in S : f[p] \in T /\ g[f[p]] = p
  PROVE  Injection(S, T) # {}
<1> DEFINE h == [p \in S |-> f[p]]
<1>1. h \in [S -> T]
  OBVIOUS
<1>2. ASSUME NEW p \in S, NEW q \in S, h[p] = h[q] PROVE p = q
  <2>1. f[p] = f[q] /\ g[f[p]] = p /\ g[f[q]] = q
    BY <1>2
  <2> QED
    BY <2>1
<1>3. h \in Injection(S, T)
  BY <1>1, <1>2 DEF Injection, IsInjective
<1> QED
  BY <1>3

\* What an execution pushes leaves its list.
LEMMA PushMoves ==
  ASSUME SendInvariant, MailsAreBudgeted, NEW e \in Executions, Push(e)
  PROVE  MailsAreBudgeted'
<1> DEFINE r == [worker[e] EXCEPT !.pc = "queued"]
           n == Len(queue)
           t == worker[e].todo
<1>1. /\ e \in Workers /\ worker[e] \in Working /\ worker[e].pc = "push"
      /\ worker' = [worker EXCEPT ![e] = r] /\ mailed' = mailed /\ queue' = queue \o t
  BY DEF Push, Goto, At, Workers, SendInvariant, SendTypeOK, sending
<1>2. r \in Working /\ r.pc = "queued"
  BY <1>1 DEF Working, ExecutionPcs
<1> HIDE DEF r
<1>3. /\ worker'[e] = r /\ \A v \in Workers \ {e} : worker'[v] = worker[v]
  BY <1>1, <1>2, MoveEffect DEF SendInvariant
<1>4. /\ n \in Nat /\ Len(t) \in Nat /\ DOMAIN t = 1 .. Len(t) /\ DOMAIN queue = 1 .. n
      /\ DOMAIN queue' = 1 .. n + Len(t)
      /\ \A i \in 1 .. n : queue'[i] = queue[i]
      /\ \A i \in n + 1 .. n + Len(t) : queue'[i] = t[i - n]
  <2>1. queue \in Seq(Contacts) /\ t \in Seq(Contacts)
    BY <1>1 DEF SendInvariant, SendTypeOK, Working
  <2> HIDE DEF t
  <2> QED
    BY <1>1, <2>1
<1> HIDE DEF n, t
<1>5. ASSUME NEW c \in Contacts PROVE Injection(Chances(c)', Chances(c)) # {}
  <2> DEFINE S == Chances(c)'
             T == Chances(c)
             f == [p \in S |-> IF p[1] = "queue" /\ p[3] > n THEN <<"list", e, p[3] - n>> ELSE p]
             g == [q \in T |-> IF q[1] = "list" /\ q[2] = e THEN <<"queue", Nobody, q[3] + n>> ELSE q]
  <2>1. ASSUME NEW i \in DOMAIN queue', queue'[i] = c, NEW p, p = <<"queue", Nobody, i>>, p \in S
        PROVE  f[p] \in T /\ g[f[p]] = p
    <3>1. CASE i <= n
      <4>1. p \in T /\ f[p] = p
        BY <1>4, <2>1, <3>1, ChanceForms
      <4> QED
        BY <2>1, <4>1
    <3>2. CASE i > n
      <4>1. i - n \in DOMAIN t /\ t[i - n] = c /\ i \in Nat
        BY <1>4, <2>1, <3>2
      <4>2. <<"list", e, i - n>> \in T
        BY <1>1, <4>1, ChanceForms DEF t
      <4>3. f[p] = <<"list", e, i - n>> /\ i - n + n = i
        BY <1>4, <2>1, <3>2, <4>1
      <4> QED
        BY <2>1, <4>2, <4>3
    <3>3. i <= n \/ i > n
      BY <1>4
    <3> HIDE DEF f, g
    <3> QED
      BY <3>1, <3>2, <3>3
  <2>2. ASSUME NEW v \in Workers, NEW i \in DOMAIN worker'[v].todo,
               worker'[v].pc \notin {"queued", "done"},
               worker'[v].todo[i] = c, NEW p, p = <<"list", v, i>>, p \in S
        PROVE  f[p] \in T /\ g[f[p]] = p
    <3>1. v # e /\ worker'[v] = worker[v]
      BY <1>2, <1>3, <2>2
    <3>2. p \in T /\ f[p] = p
      BY <2>2, <3>1, ChanceForms
    <3> QED
      BY <2>2, <3>1, <3>2
  <2>3. ASSUME NEW v \in Workers, worker'[v].pc \in {"check", "mail"},
               worker'[v].contact = c, NEW p, p = <<"hand", v, 0>>, p \in S
        PROVE  f[p] \in T /\ g[f[p]] = p
    <3>1. worker'[v] = worker[v]
      BY <1>2, <1>3, <2>3
    <3>2. p \in T /\ f[p] = p
      BY <2>3, <3>1, ChanceForms
    <3> QED
      BY <2>3, <3>2
  <2>4. ASSUME NEW x \in Executions, worker'[x].pc \in {"validated", "sending"},
               NEW p, p = <<"new", x, 0>>, p \in S
        PROVE  f[p] \in T /\ g[f[p]] = p
    <3>1. worker'[x] = worker[x]
      BY <1>2, <1>3, <2>4 DEF Workers
    <3>2. p \in T /\ f[p] = p
      BY <2>4, <3>1, ChanceForms
    <3> QED
      BY <2>4, <3>2
  <2> HIDE DEF f, g
  <2>5. \A p \in S : f[p] \in T /\ g[f[p]] = p
    BY <2>1, <2>2, <2>3, <2>4, ChanceFormsNext
  <2> QED
    BY <2>5, Undoable
<1>6. Executed' = Executed
  BY <1>1, <1>2, <1>3 DEF Executed, At, Workers
<1> QED
  BY <1>1, <1>5, <1>6, PlacesMove DEF SendInvariant

\* What a cron run pops leaves the queue.
LEMMA PopMoves ==
  ASSUME SendInvariant, MailsAreBudgeted, NEW d \in CronRuns, Pop(d)
  PROVE  MailsAreBudgeted'
<1> DEFINE n == IF Len(queue) < BatchSize THEN Len(queue) ELSE BatchSize
           pc == IF n = 0 THEN "finalize" ELSE "next"
           list == SubSeq(queue, 1, n)
           r == [worker[d] EXCEPT !.todo = list, !.pc = pc]
<1>1. /\ d \in Workers /\ worker[d] \in Working /\ worker[d].pc = "pop"
      /\ worker' = [worker EXCEPT ![d] = r] /\ mailed' = mailed
      /\ queue' = SubSeq(queue, n + 1, Len(queue))
  BY DEF Pop, AfterPop, At, Workers, SendInvariant, SendTypeOK, sending
<1>2. /\ n \in 0 .. Len(queue) /\ Len(queue) \in Nat /\ queue \in Seq(Contacts)
  BY SendAssumption DEF SendInvariant, SendTypeOK
<1>3. /\ DOMAIN queue = 1 .. Len(queue)
      /\ DOMAIN list = 1 .. n /\ \A i \in 1 .. n : list[i] = queue[i]
      /\ DOMAIN queue' = 1 .. Len(queue) - n
      /\ \A i \in 1 .. Len(queue) - n : queue'[i] = queue[i + n]
      /\ list \in Seq(Contacts)
  <2> HIDE DEF n
  <2>1. list \in Seq(Contacts)
    BY <1>2, Split
  <2> QED
    BY <1>1, <1>2, <2>1, SplitPlaces
<1> HIDE DEF n, list
<1>4. r \in Working /\ r.pc \in {"finalize", "next"} /\ r.todo = list /\ r.contact = worker[d].contact
  BY <1>1, <1>3 DEF Working, CronPcs
<1> HIDE DEF r, pc
<1>5. /\ worker'[d] = r /\ \A v \in Workers \ {d} : worker'[v] = worker[v]
  BY <1>1, <1>4, MoveEffect DEF SendInvariant
<1>6. ASSUME NEW c \in Contacts PROVE Injection(Chances(c)', Chances(c)) # {}
  <2> DEFINE S == Chances(c)'
             T == Chances(c)
             f == [p \in S |-> IF p[1] = "queue" THEN <<"queue", Nobody, p[3] + n>>
                               ELSE IF p[1] = "list" /\ p[2] = d THEN <<"queue", Nobody, p[3]>>
                               ELSE p]
             g == [q \in T |-> IF q[1] # "queue" THEN q
                               ELSE IF q[3] > n THEN <<"queue", Nobody, q[3] - n>>
                               ELSE <<"list", d, q[3]>>]
  <2>1. ASSUME NEW i \in DOMAIN queue', queue'[i] = c, NEW p, p = <<"queue", Nobody, i>>, p \in S
        PROVE  f[p] \in T /\ g[f[p]] = p
    <3> DEFINE k == i + n
    <3>1. k \in DOMAIN queue /\ queue[k] = c /\ k > n /\ k - n = i
      BY <1>2, <1>3, <2>1
    <3>2. f[p] = <<"queue", Nobody, k>>
      BY <2>1
    <3> HIDE DEF k
    <3>3. <<"queue", Nobody, k>> \in T
      BY <3>1, ChanceForms
    <3>4. g[<<"queue", Nobody, k>>] = p
      BY <2>1, <3>1, <3>3
    <3> HIDE DEF f, g
    <3> QED
      BY <3>2, <3>3, <3>4
  <2>2. ASSUME NEW v \in Workers, NEW i \in DOMAIN worker'[v].todo,
               worker'[v].pc \notin {"queued", "done"},
               worker'[v].todo[i] = c, NEW p, p = <<"list", v, i>>, p \in S
        PROVE  f[p] \in T /\ g[f[p]] = p
    <3>1. CASE v = d
      <4>1. i \in DOMAIN queue /\ queue[i] = c /\ ~(i > n)
        BY <1>2, <1>3, <1>4, <1>5, <2>2, <3>1
      <4>2. <<"queue", Nobody, i>> \in T
        BY <4>1, ChanceForms
      <4>3. f[p] = <<"queue", Nobody, i>>
        BY <2>2, <3>1
      <4>4. g[<<"queue", Nobody, i>>] = p
        BY <2>2, <3>1, <4>1, <4>2
      <4> HIDE DEF f, g
      <4> QED
        BY <4>2, <4>3, <4>4
    <3>2. CASE v # d
      <4>1. worker'[v] = worker[v]
        BY <1>5, <3>2
      <4>2. p \in T /\ f[p] = p
        BY <2>2, <3>2, <4>1, ChanceForms
      <4> QED
        BY <2>2, <4>2
    <3> HIDE DEF f, g
    <3> QED
      BY <3>1, <3>2
  <2>3. ASSUME NEW v \in Workers, worker'[v].pc \in {"check", "mail"},
               worker'[v].contact = c, NEW p, p = <<"hand", v, 0>>, p \in S
        PROVE  f[p] \in T /\ g[f[p]] = p
    <3>1. worker'[v] = worker[v]
      BY <1>4, <1>5, <2>3
    <3>2. p \in T /\ f[p] = p
      BY <2>3, <3>1, ChanceForms
    <3> QED
      BY <2>3, <3>2
  <2>4. ASSUME NEW x \in Executions, worker'[x].pc \in {"validated", "sending"},
               NEW p, p = <<"new", x, 0>>, p \in S
        PROVE  f[p] \in T /\ g[f[p]] = p
    <3>1. worker'[x] = worker[x]
      BY <1>4, <1>5, <2>4 DEF Workers
    <3>2. p \in T /\ f[p] = p
      BY <2>4, <3>1, ChanceForms
    <3> QED
      BY <2>4, <3>2
  <2> HIDE DEF f, g
  <2>5. \A p \in S : f[p] \in T /\ g[f[p]] = p
    BY <2>1, <2>2, <2>3, <2>4, ChanceFormsNext
  <2> QED
    BY <2>5, Undoable
<1>7. Executed' = Executed
  <2>1. d \notin Executions
    BY TwoKinds, <1>1
  <2> QED
    BY <1>5, <2>1 DEF Executed, At, Workers
<1> QED
  BY <1>1, <1>6, <1>7, PlacesMove DEF SendInvariant

\* The contact a worker takes leaves its list, whether or not it may be sent to.
LEMMA TakeMoves ==
  ASSUME SendInvariant, MailsAreBudgeted, NEW w \in Workers, Take(w)
  PROVE  MailsAreBudgeted'
<1> DEFINE t == worker[w].todo
<1>1. /\ worker[w] \in Working /\ worker[w].pc = "next" /\ t # <<>> /\ t \in Seq(Contacts)
      /\ mailed' = mailed /\ queue' = queue
  BY WorkerRecord DEF Take, At, SendInvariant, Working
<1>2. PICK r \in Working :
        /\ worker' = [worker EXCEPT ![w] = r] /\ r.todo = Tail(t)
        /\ \/ r.pc = "check" /\ r.contact = Head(t)
           \/ r.pc = "next"
  <2> DEFINE c == Head(t)
             consents == w \in Executions \/ c \notin revoked
             refused  == Refusal(c)
             a == [worker[w] EXCEPT !.pc = "check", !.todo = Tail(t), !.contact = c,
                                    !.consents = consents, !.refused = refused]
             b == [worker[w] EXCEPT !.todo = Tail(t)]
  <2>1. c \in Contacts /\ Tail(t) \in Seq(Contacts)
    BY <1>1, FirstAndRest
  <2>2. a \in Working /\ a.todo = Tail(t) /\ a.pc = "check" /\ a.contact = Head(t)
    <3>1. consents \in BOOLEAN /\ refused \in {"no", "revoked", "suppressed"}
      BY DEF Refusal
    <3> HIDE DEF t, c, consents, refused
    <3>2. a \in Working
      BY <1>1, <2>1, <3>1 DEF Working, CronPcs
    <3>3. a.todo = Tail(t) /\ a.pc = "check" /\ a.contact = c
      BY <1>1 DEF Working
    <3> QED
      BY <3>2, <3>3 DEF c
  <2>3. b \in Working /\ b.todo = Tail(t) /\ b.pc = "next"
    BY <1>1, <2>1 DEF Working
  <2>4. worker' = [worker EXCEPT ![w] = IF MayTake(c) THEN a ELSE b]
    BY DEF Take, SendInvariant, SendTypeOK
  <2> HIDE DEF a, b
  <2> QED
    BY <2>2, <2>3, <2>4
<1>3. /\ worker'[w] = r /\ \A v \in Workers \ {w} : worker'[v] = worker[v]
  BY <1>2, MoveEffect DEF SendInvariant
<1>4. /\ Head(t) = t[1] /\ Len(t) \in Nat /\ 1 \in DOMAIN t /\ DOMAIN t = 1 .. Len(t)
      /\ DOMAIN Tail(t) = 1 .. Len(t) - 1 /\ \A i \in 1 .. Len(t) - 1 : Tail(t)[i] = t[i + 1]
  <2> HIDE DEF t
  <2> QED
    BY <1>1
<1>5. ASSUME NEW c \in Contacts PROVE Injection(Chances(c)', Chances(c)) # {}
  <2> DEFINE S == Chances(c)'
             T == Chances(c)
             f == [p \in S |-> IF p[2] # w THEN p
                               ELSE IF p[1] = "list" THEN <<"list", w, p[3] + 1>>
                               ELSE IF p[1] = "hand" THEN <<"list", w, 1>>
                               ELSE p]
             g == [q \in T |-> IF q[2] # w \/ q[1] # "list" THEN q
                               ELSE IF q[3] = 1 THEN <<"hand", w, 0>>
                               ELSE <<"list", w, q[3] - 1>>]
  <2>1. ASSUME NEW i \in DOMAIN queue', queue'[i] = c, NEW p, p = <<"queue", Nobody, i>>, p \in S
        PROVE  f[p] \in T /\ g[f[p]] = p
    <3>1. p \in T /\ f[p] = p
      BY <1>1, <2>1, ChanceForms
    <3> QED
      BY <2>1, <3>1
  <2>2. ASSUME NEW v \in Workers, NEW i \in DOMAIN worker'[v].todo,
               worker'[v].pc \notin {"queued", "done"},
               worker'[v].todo[i] = c, NEW p, p = <<"list", v, i>>, p \in S
        PROVE  f[p] \in T /\ g[f[p]] = p
    <3>1. CASE v = w
      <4> DEFINE k == i + 1
      <4>1. i \in DOMAIN Tail(t) /\ Tail(t)[i] = c
        BY <1>2, <1>3, <2>2, <3>1
      <4>2. k \in DOMAIN t /\ t[k] = c /\ k # 1 /\ k - 1 = i
        <5> HIDE DEF t
        <5> QED
          BY <1>4, <4>1
      <4>3. f[p] = <<"list", w, k>>
        BY <2>2, <3>1
      <4> HIDE DEF k
      <4>4. <<"list", w, k>> \in T
        BY <1>1, <4>2, ChanceForms
      <4>5. g[<<"list", w, k>>] = p
        BY <2>2, <3>1, <4>2, <4>4
      <4> HIDE DEF f, g
      <4> QED
        BY <4>3, <4>4, <4>5
    <3>2. CASE v # w
      <4>1. worker'[v] = worker[v]
        BY <1>3, <3>2
      <4>2. p \in T /\ f[p] = p
        BY <2>2, <3>2, <4>1, ChanceForms
      <4> QED
        BY <2>2, <3>2, <4>2
    <3> HIDE DEF f, g
    <3> QED
      BY <3>1, <3>2
  <2>3. ASSUME NEW v \in Workers, worker'[v].pc \in {"check", "mail"},
               worker'[v].contact = c, NEW p, p = <<"hand", v, 0>>, p \in S
        PROVE  f[p] \in T /\ g[f[p]] = p
    <3>1. CASE v = w
      <4>1. t[1] = c
        BY <1>2, <1>3, <1>4, <2>3, <3>1
      <4>2. <<"list", w, 1>> \in T
        BY <1>1, <1>4, <4>1, ChanceForms
      <4>3. f[p] = <<"list", w, 1>>
        BY <2>3, <3>1
      <4> QED
        BY <2>3, <3>1, <4>2, <4>3
    <3>2. CASE v # w
      <4>1. worker'[v] = worker[v]
        BY <1>3, <3>2
      <4>2. p \in T /\ f[p] = p
        BY <2>3, <3>2, <4>1, ChanceForms
      <4> QED
        BY <2>3, <3>2, <4>2
    <3> HIDE DEF f, g
    <3> QED
      BY <3>1, <3>2
  <2>4. ASSUME NEW x \in Executions, worker'[x].pc \in {"validated", "sending"},
               NEW p, p = <<"new", x, 0>>, p \in S
        PROVE  f[p] \in T /\ g[f[p]] = p
    <3>1. x # w /\ worker'[x] = worker[x]
      BY <1>2, <1>3, <2>4 DEF Workers
    <3>2. p \in T /\ f[p] = p
      BY <2>4, <3>1, ChanceForms
    <3> QED
      BY <2>4, <3>2
  <2> HIDE DEF f, g
  <2>5. \A p \in S : f[p] \in T /\ g[f[p]] = p
    BY <2>1, <2>2, <2>3, <2>4, ChanceFormsNext
  <2> QED
    BY <2>5, Undoable
<1>6. Executed' = Executed
  BY <1>1, <1>2, <1>3 DEF Executed, At, Workers
<1> QED
  BY <1>1, <1>5, <1>6, PlacesMove DEF SendInvariant

\* The list an execution resolves names a contact once: its place was the
\* execution's own.
LEMMA ResolveMoves ==
  ASSUME SendInvariant, MailsAreBudgeted, NEW e \in Executions, Resolve(e)
  PROVE  MailsAreBudgeted'
<1>1. /\ e \in Workers /\ worker[e] \in Working /\ worker[e].pc = "sending"
      /\ mailed' = mailed /\ queue' = queue
  BY WorkerRecord DEF Resolve, At, Workers, SendInvariant, sending
<1>2. PICK list \in SetToSeqs(Recipients), pc \in {"changed", "create", "next"} :
        worker' = [worker EXCEPT ![e].todo = list, ![e].count = 0, ![e].pc = pc]
  BY DEF Resolve
<1> DEFINE r == [worker[e] EXCEPT !.todo = list, !.count = 0, !.pc = pc]
<1>3. list \in Seq(Contacts) /\ \A i, j \in DOMAIN list : list[i] = list[j] => i = j
  <2>1. list \in Seq(Contacts)
    BY RecipientLists DEF SendInvariant
  <2>2. /\ list \in [1 .. Cardinality(Recipients) -> Recipients]
        /\ \A i, j \in 1 .. Cardinality(Recipients) : i # j => list[i] # list[j]
    BY DEF SetToSeqs
  <2> QED
    BY <2>1, <2>2
<1>4. r \in Working /\ r.pc = pc /\ r.todo = list /\ r.contact = worker[e].contact
  BY <1>1, <1>3 DEF Working, ExecutionPcs
<1>5. worker' = [worker EXCEPT ![e] = r]
  BY <1>1, <1>2 DEF SendInvariant, SendTypeOK
<1> HIDE DEF r
<1>6. /\ worker'[e] = r /\ \A v \in Workers \ {e} : worker'[v] = worker[v]
  BY <1>1, <1>4, <1>5, MoveEffect DEF SendInvariant
<1>7. ASSUME NEW c \in Contacts PROVE Injection(Chances(c)', Chances(c)) # {}
  <2> DEFINE S == Chances(c)'
             T == Chances(c)
             f == [p \in S |-> IF p[1] = "list" /\ p[2] = e THEN <<"new", e, 0>> ELSE p]
             first == CHOOSE i \in DOMAIN list : list[i] = c
             g == [q \in T |-> IF q[1] = "new" /\ q[2] = e THEN <<"list", e, first>> ELSE q]
  <2>1. ASSUME NEW i \in DOMAIN queue', queue'[i] = c, NEW p, p = <<"queue", Nobody, i>>, p \in S
        PROVE  f[p] \in T /\ g[f[p]] = p
    <3>1. p \in T /\ f[p] = p
      BY <1>1, <2>1, ChanceForms
    <3> QED
      BY <2>1, <3>1
  <2>2. ASSUME NEW v \in Workers, NEW i \in DOMAIN worker'[v].todo,
               worker'[v].pc \notin {"queued", "done"},
               worker'[v].todo[i] = c, NEW p, p = <<"list", v, i>>, p \in S
        PROVE  f[p] \in T /\ g[f[p]] = p
    <3>1. CASE v = e
      <4>1. i \in DOMAIN list /\ list[i] = c
        BY <1>4, <1>6, <2>2, <3>1
      <4>2. first = i
        BY <1>3, <4>1
      <4> HIDE DEF first
      <4>3. <<"new", e, 0>> \in T
        BY <1>1, ChanceForms
      <4>4. f[p] = <<"new", e, 0>>
        BY <2>2, <3>1
      <4>5. g[<<"new", e, 0>>] = p
        BY <2>2, <3>1, <4>2, <4>3
      <4> HIDE DEF f, g
      <4> QED
        BY <4>3, <4>4, <4>5
    <3>2. CASE v # e
      <4>1. worker'[v] = worker[v]
        BY <1>6, <3>2
      <4>2. p \in T /\ f[p] = p
        BY <2>2, <3>2, <4>1, ChanceForms
      <4> QED
        BY <2>2, <4>2
    <3> HIDE DEF f, g
    <3> QED
      BY <3>1, <3>2
  <2>3. ASSUME NEW v \in Workers, worker'[v].pc \in {"check", "mail"},
               worker'[v].contact = c, NEW p, p = <<"hand", v, 0>>, p \in S
        PROVE  f[p] \in T /\ g[f[p]] = p
    <3>1. worker'[v] = worker[v]
      BY <1>4, <1>6, <2>3
    <3>2. p \in T /\ f[p] = p
      BY <2>3, <3>1, ChanceForms
    <3> QED
      BY <2>3, <3>2
  <2>4. ASSUME NEW x \in Executions, worker'[x].pc \in {"validated", "sending"},
               NEW p, p = <<"new", x, 0>>, p \in S
        PROVE  f[p] \in T /\ g[f[p]] = p
    <3>1. x # e /\ worker'[x] = worker[x]
      BY <1>4, <1>6, <2>4 DEF Workers
    <3>2. p \in T /\ f[p] = p
      BY <2>4, <3>1, ChanceForms
    <3> QED
      BY <2>4, <3>1, <3>2
  <2> HIDE DEF f, g
  <2>5. \A p \in S : f[p] \in T /\ g[f[p]] = p
    BY <2>1, <2>2, <2>3, <2>4, ChanceFormsNext
  <2> QED
    BY <2>5, Undoable
<1>8. Executed' = Executed
  BY <1>1, <1>4, <1>6 DEF Executed, At, Workers
<1> QED
  BY <1>1, <1>7, <1>8, PlacesMove DEF SendInvariant

\* The other steps of an execution.
LEMMA ExecutionPays ==
  ASSUME SendInvariant, MailsAreBudgeted, NEW e \in Executions,
         \/ StartSending(e) \/ BackToDraft(e) \/ CreateJob(e)
         \/ SetSending(e) \/ FinishSync(e)
  PROVE  MailsAreBudgeted'
<1>1. /\ e \in Workers /\ worker[e] \in Working /\ queue' = queue /\ mailed' = mailed
      /\ worker \in [Workers -> Working]
  BY WorkerRecord
  DEF StartSending, BackToDraft, CreateJob, SetSending, FinishSync, Workers,
      SendInvariant, SendTypeOK, sending
<1>2. PICK r \in Working :
        /\ worker' = [worker EXCEPT ![e] = r]
        /\ worker[e].pc \in {"validated", "sending", "changed", "create", "queued", "next"}
        /\ \/ worker[e].pc = "validated" /\ r.pc = "sending" /\ r.todo = worker[e].todo
           \/ worker[e].pc = "create" /\ r.pc = "push" /\ r.todo = worker[e].todo
           \/ r.pc = "done"
  <2>1. CASE StartSending(e)
    <3> DEFINE r == [worker[e] EXCEPT !.pc = "sending"]
    <3>1. r \in Working /\ r.pc = "sending" /\ r.todo = worker[e].todo
      BY <1>1 DEF Working, ExecutionPcs
    <3>2. worker' = [worker EXCEPT ![e] = r] /\ worker[e].pc = "validated"
      BY <1>1, <2>1 DEF StartSending, Goto, At
    <3> QED
      BY <3>1, <3>2
  <2>2. CASE BackToDraft(e)
    <3> DEFINE r == [worker[e] EXCEPT !.pc = "done", !.todo = <<>>]
    <3>1. <<>> \in Seq(Contacts)
      OBVIOUS
    <3>2. r \in Working /\ r.pc = "done"
      BY <1>1, <3>1 DEF Working, ExecutionPcs
    <3>3. worker' = [worker EXCEPT ![e] = r] /\ worker[e].pc = "changed"
      BY <1>1, <2>2 DEF BackToDraft, At
    <3> QED
      BY <3>2, <3>3
  <2>3. CASE CreateJob(e)
    <3> DEFINE r == [worker[e] EXCEPT !.pc = "push", !.job = Len(jobs) + 1]
    <3>1. Len(jobs) + 1 \in Nat
      BY DEF SendInvariant, SendTypeOK
    <3>2. r \in Working /\ r.pc = "push" /\ r.todo = worker[e].todo
      BY <1>1, <3>1 DEF Working, ExecutionPcs
    <3>3. worker' = [worker EXCEPT ![e] = r] /\ worker[e].pc = "create"
      BY <1>1, <2>3 DEF CreateJob, At
    <3> QED
      BY <3>2, <3>3
  <2>4. CASE SetSending(e) \/ FinishSync(e)
    <3> DEFINE r == [worker[e] EXCEPT !.pc = "done"]
    <3>1. r \in Working /\ r.pc = "done"
      BY <1>1 DEF Working, ExecutionPcs
    <3>2. worker' = [worker EXCEPT ![e] = r] /\ worker[e].pc \in {"queued", "next"}
      BY <1>1, <2>4 DEF SetSending, FinishSync, Goto, At
    <3> QED
      BY <3>1, <3>2
  <2> QED
    BY <2>1, <2>2, <2>3, <2>4
<1> QED
  BY <1>1, <1>2, WorkerGoesOn DEF SendInvariant

\* The other steps of a cron run.
LEMMA CronPays ==
  ASSUME SendInvariant, MailsAreBudgeted, NEW d \in CronRuns,
         \/ FindJob(d) \/ LockQueue(d) \/ QueueIsLocked(d)
         \/ FinishBatch(d) \/ FinalizeJob(d) \/ Conclude(d) \/ Release(d)
  PROVE  MailsAreBudgeted'
<1>1. /\ d \in Workers /\ d \notin Executions /\ worker[d] \in Working
      /\ worker \in [Workers -> Working] /\ queue' = queue /\ mailed' = mailed
  BY WorkerRecord, TwoKinds
  DEF FindJob, LockQueue, QueueIsLocked, FinishBatch, FinalizeJob, Conclude, Release,
      Workers, SendInvariant, SendTypeOK, sending
<1>2. worker[d].pc \notin {"queued", "done"}
  BY <1>1 DEF SendInvariant, HandsFollowSteps, CronPcs
<1>3. PICK r \in Working :
        /\ worker' = [worker EXCEPT ![d] = r] /\ r.pc \notin {"check", "mail"}
        /\ r.todo = <<>> \/ r.todo = worker[d].todo
  <2>1. CASE FindJob(d)
    <3>1. PICK j \in DOMAIN jobs :
            worker' = [worker EXCEPT ![d].pc = "found", ![d].job = j,
                                     ![d].fresh = jobs[j] = "QUEUED"]
      BY <2>1 DEF FindJob
    <3> DEFINE fresh == jobs[j] = "QUEUED"
               r == [worker[d] EXCEPT !.pc = "found", !.job = j, !.fresh = fresh]
    <3>2. worker' = [worker EXCEPT ![d] = r]
      BY <1>1, <3>1
    <3>3. j \in Nat /\ fresh \in BOOLEAN
      BY DEF SendInvariant, SendTypeOK
    <3> HIDE DEF fresh
    <3>4. r \in Working /\ r.pc = "found" /\ r.todo = worker[d].todo
      BY <1>1, <3>3 DEF Working, CronPcs
    <3> QED
      BY <3>2, <3>4
  <2>2. CASE LockQueue(d)
    <3> DEFINE r == [worker[d] EXCEPT !.pc = "pop", !.fresh = FALSE]
    <3>1. r \in Working /\ r.pc = "pop" /\ r.todo = worker[d].todo
      BY <1>1 DEF Working, CronPcs
    <3>2. worker' = [worker EXCEPT ![d] = r]
      BY <1>1, <2>2 DEF LockQueue
    <3> QED
      BY <3>1, <3>2
  <2>3. CASE QueueIsLocked(d) \/ Release(d)
    BY <2>3, IdleRecord DEF QueueIsLocked, Release
  <2>4. CASE FinishBatch(d) \/ FinalizeJob(d) \/ Conclude(d)
    <3>1. PICK pc \in {"finalize", "release", "conclude"} : Goto(d, pc)
      BY <2>4 DEF FinishBatch, FinalizeJob, Conclude
    <3> DEFINE r == [worker[d] EXCEPT !.pc = pc]
    <3>2. r \in Working /\ r.pc = pc /\ r.todo = worker[d].todo
      BY <1>1 DEF Working, CronPcs
    <3>3. worker' = [worker EXCEPT ![d] = r]
      BY <1>1, <3>1 DEF Goto
    <3> QED
      BY <3>2, <3>3
  <2> QED
    BY <2>1, <2>2, <2>3, <2>4
<1> QED
  BY <1>1, <1>2, <1>3, WorkerGoesOn DEF SendInvariant

\* The other steps of sending to a contact, and a worker that dies.
LEMMA SendingPays ==
  ASSUME SendInvariant, MailsAreBudgeted, NEW w \in Workers,
         Check(w) \/ Mail(w) \/ Persist(w) \/ MailFails(w) \/ DatabaseFails(w) \/ Crash(w)
  PROVE  MailsAreBudgeted'
<1>1. worker[w] \in Working /\ worker \in [Workers -> Working] /\ queue' = queue
  BY WorkerRecord
  DEF Check, Mail, Persist, MailFails, DatabaseFails, Crash, SendInvariant, SendTypeOK
<1>2. \A pc \in {"mail", "persist"} :
        LET r == [worker[w] EXCEPT !.pc = pc] IN
        /\ r \in Working /\ r.pc = pc
        /\ r.todo = worker[w].todo /\ r.contact = worker[w].contact
        /\ Goto(w, pc) => worker' = [worker EXCEPT ![w] = r]
  BY <1>1 DEF Working, ExecutionPcs, Goto
<1>3. ASSUME GoOn(w)
      PROVE  \E r \in Working : /\ worker' = [worker EXCEPT ![w] = r]
                                /\ r.pc = "next" /\ r.todo = worker[w].todo
  <2> DEFINE r == [worker[w] EXCEPT !.pc = "next", !.contact = Nobody,
                                    !.consents = TRUE, !.refused = "no"]
  <2>1. r \in Working /\ r.pc = "next" /\ r.todo = worker[w].todo
    BY <1>1 DEF Working, ExecutionPcs
  <2>2. worker' = [worker EXCEPT ![w] = r]
    BY <1>1, <1>3 DEF GoOn
  <2> QED
    BY <2>1, <2>2
<1>4. ASSUME GoOn(w), worker[w].pc \in Handling, mailed' = mailed PROVE MailsAreBudgeted'
  BY <1>1, <1>3, <1>4, WorkerGoesOn DEF SendInvariant, Handling
<1>5. CASE Check(w)
  <2>1. worker[w].pc = "check" /\ mailed' = mailed /\ (Goto(w, "mail") \/ GoOn(w))
    BY <1>5 DEF Check, Settle, At
  <2>2. CASE Goto(w, "mail")
    BY <1>1, <1>2, <2>1, <2>2, WorkerGoesOn DEF SendInvariant
  <2> QED
    BY <1>4, <2>1, <2>2 DEF Handling
<1>6. CASE Mail(w)
  BY <1>1, <1>2, <1>6, MailSpends DEF Mail, At
<1>7. CASE Persist(w) \/ DatabaseFails(w)
  BY <1>4, <1>7 DEF Persist, DatabaseFails, Settle, At, Handling
<1>8. CASE MailFails(w)
  <2>1. GoOn(w) /\ worker[w].pc = "mail"
    BY <1>8 DEF MailFails, Settle, At
  <2>2. CASE mailed' = mailed
    BY <1>4, <2>1, <2>2 DEF Handling
  <2>3. CASE mailed' = [mailed EXCEPT ![worker[w].contact] = @ + 1]
    BY <1>1, <1>3, <2>1, <2>3, MailSpends
  <2> QED
    BY <1>8, <2>2, <2>3 DEF MailFails
<1>9. CASE Crash(w)
  <2> DEFINE r == IF w \in CronRuns THEN Idle ELSE Ended
  <2>1. /\ r \in Working /\ r.pc \in {"idle", "done"} /\ r.todo = <<>>
        /\ w \in Executions => r.pc = "done"
    BY IdleRecord, TwoKinds
  <2>2. worker' = [worker EXCEPT ![w] = r] /\ worker[w].pc # "idle" /\ mailed' = mailed
    BY <1>9 DEF Crash, Ended, sending
  <2> HIDE DEF r
  <2> QED
    BY <1>1, <2>1, <2>2, WorkerGoesOn DEF SendInvariant
<1> QED
  BY <1>5, <1>6, <1>7, <1>8, <1>9

\* A step of nobody moves no contact.
LEMMA NobodyMoves ==
  ASSUME MailsAreBudgeted, UNCHANGED <<worker, queue, mailed>>
  PROVE  MailsAreBudgeted'
<1>1. Executed' = Executed
  BY DEF Executed, At
<1>2. \A c \in Contacts : Chances(c)' = Chances(c)
  BY DEF Chances, Occurrences, Listing, Handing, Beginning
<1> QED
  BY <1>1, <1>2 DEF MailsAreBudgeted

LEMMA BudgetStarts == SendInit => MailsAreBudgeted
<1> SUFFICES ASSUME SendInit PROVE MailsAreBudgeted
  OBVIOUS
<1>1. \A w \in Workers : worker[w] = Idle
  BY DEF SendInit
<1>2. Executed = {}
  BY <1>1, IdleRecord DEF Executed, At, Workers
<1>3. ASSUME NEW c \in Contacts PROVE Chances(c) = {}
  <2>1. DOMAIN queue = {} /\ DOMAIN Idle.todo = {}
    BY IdleRecord DEF SendInit
  <2>2. \A p : p \notin Chances(c)
    BY <1>1, <2>1, IdleRecord, ChanceForms DEF Workers
  <2> QED
    BY <2>2
<1>4. IsFiniteSet({}) /\ Cardinality({}) = 0
  BY FS_EmptySet
<1>5. \A c \in Contacts : mailed[c] = 0
  BY DEF SendInit
<1> QED
  BY <1>2, <1>3, <1>4, <1>5 DEF MailsAreBudgeted

LEMMA BudgetKeeps == SendInvariant /\ MailsAreBudgeted /\ [SendNext]_vars => MailsAreBudgeted'
<1> SUFFICES ASSUME SendInvariant, MailsAreBudgeted, SendNext PROVE MailsAreBudgeted'
  BY NobodyMoves DEF vars
<1>1. CASE RequestConfirmation \/ ReadForCancel \/ CommitCancel
  BY <1>1, NobodyMoves DEF RequestConfirmation, ReadForCancel, CommitCancel, sending
<1>2. ASSUME NEW c \in Leavers, Suppress(c) \/ Revoke(c) PROVE MailsAreBudgeted'
  BY <1>2, NobodyMoves DEF Suppress, Revoke, sending
<1>3. ASSUME NEW e \in Executions, Validate(e) \/ ExecutionStep(e) PROVE MailsAreBudgeted'
  BY <1>3, BeginningPays, ResolveMoves, PushMoves, ExecutionPays DEF ExecutionStep
<1>4. ASSUME NEW d \in CronRuns, CronStep(d) PROVE MailsAreBudgeted'
  BY <1>4, PopMoves, CronPays DEF CronStep
<1>5. ASSUME NEW w \in Workers, ContactStep(w) \/ MailFails(w) \/ DatabaseFails(w) \/ Crash(w)
      PROVE  MailsAreBudgeted'
  BY <1>5, TakeMoves, SendingPays DEF ContactStep
<1>6. CASE DrainLockExpires \/ CronLockExpires \/ \E c \in Contacts : SendLockExpires(c)
  BY <1>6, NobodyMoves DEF DrainLockExpires, CronLockExpires, SendLockExpires, sending
<1> QED
  BY <1>1, <1>2, <1>3, <1>4, <1>5, <1>6 DEF SendNext

LEMMA BudgetLimitsMails == SendInvariant /\ MailsAreBudgeted => OncePerExecution
<1> SUFFICES ASSUME SendInvariant, MailsAreBudgeted, NEW c \in Contacts
             PROVE  mailed[c] <= Cardinality(Executed)
  BY DEF OncePerExecution
<1>1. /\ IsFiniteSet(Executed) /\ IsFiniteSet(Chances(c)) /\ mailed[c] \in Nat
      /\ mailed[c] + Cardinality(Chances(c)) <= Cardinality(Executed)
  BY DEF MailsAreBudgeted, SendInvariant, SendTypeOK
<1>2. Cardinality(Executed) \in Nat /\ Cardinality(Chances(c)) \in Nat
  BY <1>1, FS_CardinalityType
<1> QED
  BY <1>1, <1>2

-----------------------------------------------------------------------------
(* The theorems.                                                           *)

LEMMA SendStarts == SendInit => SendInvariant
<1> SUFFICES ASSUME SendInit PROVE SendInvariant
  OBVIOUS
<1>1. \A w \in Workers : worker[w] = Idle
  BY DEF SendInit
<1>2. SendTypeOK
  <2>1. jobs \in Seq({"QUEUED", "RUNNING", "DONE"}) /\ queue \in Seq(Contacts)
    BY DEF SendInit
  <2>2. worker \in [Workers -> Working]
    BY IdleRecord DEF SendInit
  <2> QED
    BY <2>1, <2>2, SendAssumption DEF SendInit, SendTypeOK
<1>3. HandsFollowSteps
  BY <1>1, IdleRecord DEF HandsFollowSteps, Handling, ExecutionPcs, CronPcs
<1>4. JobsExist
  <2>1. Len(jobs) = 0
    BY DEF SendInit
  <2> QED
    BY <1>1, <2>1, IdleRecord DEF JobsExist
<1>5. TakenOnce
  BY <1>1, IdleRecord, SendAssumption DEF TakenOnce, SendInit
<1>6. JobsFollowQueue /\ QueuedIsKept /\ RefusalsAreKnown
  BY <1>1, IdleRecord
  DEF JobsFollowQueue, QueuedIsKept, RefusalsAreKnown, Unaware, At, SendInit, Workers
<1> QED
  BY <1>2, <1>3, <1>4, <1>5, <1>6 DEF SendInvariant

LEMMA ExecutionKeeps ==
  ASSUME SendInvariant, NEW e \in Executions, Validate(e) \/ ExecutionStep(e)
  PROVE  SendInvariant'
BY ValidateKeeps, StartSendingKeeps, ResolveKeeps, BackToDraftKeeps, CreateJobKeeps,
   PushKeeps, SetSendingKeeps, FinishSyncKeeps
DEF ExecutionStep

LEMMA CronKeeps ==
  ASSUME SendInvariant, NEW d \in CronRuns, CronStep(d)
  PROVE  SendInvariant'
BY FindJobKeeps, LockQueueKeeps, QueueIsLockedKeeps, PopKeeps, FinishBatchKeeps,
   FinalizeJobKeeps, ConcludeKeeps, ReleaseKeeps
DEF CronStep

LEMMA StutterKeeps == SendInvariant /\ UNCHANGED vars => SendInvariant'
<1> SUFFICES ASSUME SendInvariant, UNCHANGED vars PROVE SendInvariant'
  OBVIOUS
<1>1. Core'
  BY QuietStep DEF vars
<1>2. SendTypeOK'
  BY DEF vars, SendInvariant, SendTypeOK
<1> QED
  BY <1>1, <1>2 DEF Core, SendInvariant

LEMMA SendKeeps == SendInvariant /\ [SendNext]_vars => SendInvariant'
<1> SUFFICES ASSUME SendInvariant, SendNext PROVE SendInvariant'
  BY StutterKeeps
<1>1. CASE RequestConfirmation \/ ReadForCancel \/ CommitCancel
  BY <1>1, CancellationKeeps
<1>2. ASSUME NEW c \in Leavers, Suppress(c) \/ Revoke(c) PROVE SendInvariant'
  BY <1>2, OptOutKeeps
<1>3. ASSUME NEW e \in Executions, Validate(e) \/ ExecutionStep(e) PROVE SendInvariant'
  BY <1>3, ExecutionKeeps
<1>4. ASSUME NEW d \in CronRuns, CronStep(d) PROVE SendInvariant'
  BY <1>4, CronKeeps
<1>5. ASSUME NEW w \in Workers, ContactStep(w) \/ MailFails(w) \/ DatabaseFails(w) \/ Crash(w)
      PROVE  SendInvariant'
  BY <1>5, TakeKeeps, CheckKeeps, MailKeeps, PersistKeeps, MailFailsKeeps,
     DatabaseFailsKeeps, CrashKeeps
  DEF ContactStep
<1>6. CASE DrainLockExpires \/ CronLockExpires \/ \E c \in Contacts : SendLockExpires(c)
  BY <1>6, ExpiryKeeps
<1> QED
  BY <1>1, <1>2, <1>3, <1>4, <1>5, <1>6 DEF SendNext

LEMMA InvariantPromises ==
  SendInvariant => TwiceNeedsRace /\ NothingIsForgotten /\ OptOutIsRespected
<1> SUFFICES ASSUME SendInvariant
             PROVE  TwiceNeedsRace /\ NothingIsForgotten /\ OptOutIsRespected
  OBVIOUS
<1>1. TwiceNeedsRace
  BY DEF SendInvariant, SendTypeOK, TakenOnce, TwiceNeedsRace
<1>2. ASSUME NEW e \in Executions, At(e, "done"), worker[e].job # 0,
             NEW c \in ToSet(worker[e].todo)
      PROVE  \/ row[c] # "none" \/ c \in lost \/ WillBeDrained(c)
             \/ \E w \in Workers : ~At(w, "done") /\ c \in InHand(w)
  <2>1. Kept(c)
    BY <1>2 DEF SendInvariant, QueuedIsKept, At
  <2>2. CASE c \in ToSet(queue)
    <3>1. queue # <<>>
      BY <2>2, NoElements
    <3> QED
      BY <2>2, <3>1 DEF SendInvariant, JobsFollowQueue, StaysActive, WillBeDrained
  <2>3. ASSUME NEW d \in CronRuns, c \in InHand(d) PROVE d \in Workers /\ ~At(d, "done")
    BY DEF SendInvariant, HandsFollowSteps, CronPcs, At, Workers
  <2> QED
    BY <2>1, <2>2, <2>3 DEF Kept
<1>3. NothingIsForgotten
  BY <1>2 DEF NothingIsForgotten, Queued
<1>4. OptOutIsRespected
  BY DEF SendInvariant, RefusalsAreKnown, Unaware, OptOutIsRespected, SendTypeOK, Working, At
<1> QED
  BY <1>1, <1>3, <1>4

\* Whatever crashes, stalls and opt-outs there are, workers hold jobs that
\* exist, a contact that was not raced is in one hand and mailed at most once,
\* and what is or will be in the queue has a job that no run is about to end.
THEOREM SendIsSafe == SendSpec => []SendInvariant
BY SendStarts, SendKeeps, PTL DEF SendSpec

\* A contact is mailed twice only after a race of two executions or an expired
\* lock.
THEOREM SecondMailsAreExplained == SendSpec => []TwiceNeedsRace
BY SendIsSafe, InvariantPromises, PTL

\* A queued recipient is forgotten only when its job was ended early.
THEOREM RecipientsAreRemembered == SendSpec => []NothingIsForgotten
BY SendIsSafe, InvariantPromises, PTL

\* A contact that was suppressed when its turn came is mailed by nobody, and one
\* whose consent alone was revoked at most by a request that had read it before.
THEOREM OptOutsAreRespected == SendSpec => []OptOutIsRespected
BY SendIsSafe, InvariantPromises, PTL

\* Every mail to a contact, sent or still possible, is paid for by an execution
\* of its own: crashes and overlapping runs move contacts and never copy them.
THEOREM MailsStayBudgeted == SendSpec => []MailsAreBudgeted
BY SendIsSafe, BudgetStarts, BudgetKeeps, PTL DEF SendSpec

\* An execution mails each of its recipients at most once.
THEOREM MailsAreNotRepeated == SendSpec => []OncePerExecution
BY SendIsSafe, MailsStayBudgeted, BudgetLimitsMails, PTL
=============================================================================
