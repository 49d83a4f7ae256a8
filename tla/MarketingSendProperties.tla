---------------------- MODULE MarketingSendProperties ----------------------
(***************************************************************************)
(* What sending a campaign must guarantee, stated over MarketingSend.      *)
(***************************************************************************)
EXTENDS MarketingSend

Executed == {e \in Executions : ~At(e, "idle")}

\* However often cron runs crash, stall or run side by side, an execution mails
\* each of its recipients at most once: contacts are popped, never copied.
OncePerExecution == \A c \in Contacts : mailed[c] <= Cardinality(Executed)

\* The 24-hour lock of a contact and its row keep several executions from
\* mailing it again, except when one takes it while another has the lock and
\* has not written the row, or when the lock expires.
TwiceNeedsRace == \A c \in Contacts : mailed[c] > 1 => c \in raced

\* A recipient that was queued is decided, in hand, lost by a failure that had
\* it in hand, or in the queue of a job that will be drained, unless a cron run
\* ended the job before its execution had filled the queue.
Queued == UNION {ToSet(worker[e].todo) :
                   e \in {f \in Executions : At(f, "done") /\ worker[f].job # 0}}

WillBeDrained(c) ==
  c \in ToSet(queue) /\ (overtaken \/ \E j \in DOMAIN jobs : Active(j))

NothingIsForgotten ==
  \A c \in Queued :
    \/ row[c] # "none" \/ c \in lost \/ WillBeDrained(c)
    \/ \E w \in Workers : ~At(w, "done") /\ c \in InHand(w)

\* A contact that was suppressed when its turn came is not mailed, by a request
\* or by a cron run, though the list was resolved before; nor is one that only
\* its revoked consent tells of, except by a request, which goes on with the
\* consent it read when it resolved the list.
OptOutIsRespected ==
  \A w \in Workers :
    worker[w].pc \in {"mail", "persist"} =>
      \/ worker[w].refused = "no"
      \/ worker[w].refused = "revoked" /\ w \in Executions

-----------------------------------------------------------------------------
(* What these rest on.                                                     *)

ExecutionPcs == {"idle", "validated", "sending", "changed", "create", "push",
                 "queued", "next", "done"} \cup {"check", "mail", "persist"}
CronPcs  == {"idle", "found", "pop", "next", "check", "mail", "persist",
             "finalize", "conclude", "release"}
Handling == {"check", "mail", "persist"}
Working  == [pc : ExecutionPcs \cup CronPcs, todo : Seq(Contacts),
             contact : Contacts \cup {Nobody}, consents : BOOLEAN,
             refused : {"no", "revoked", "suppressed"}, count : Nat, job : Nat, fresh : BOOLEAN]

SendTypeOK ==
  /\ campaign \in {"DRAFT", "SENDING", "FINISHED", "CANCELLED"}
  /\ token \in Nat \cup {NoToken} /\ cancelling \in BOOLEAN
  /\ jobs \in Seq({"QUEUED", "RUNNING", "DONE"}) /\ queue \in Seq(Contacts)
  /\ drainLock \in BOOLEAN /\ cronLock \in BOOLEAN
  /\ sendLock \subseteq Contacts
  /\ row \in [Contacts -> {"none", "SENT", "SKIPPED", "FAILED"}]
  /\ suppressed \subseteq Contacts /\ revoked \subseteq Contacts
  /\ worker \in [Workers -> Working]
  /\ mailed \in [Contacts -> Nat]
  /\ raced \subseteq Contacts /\ lost \subseteq Contacts
  /\ overtaken \in BOOLEAN /\ faults \in Nat

\* A worker has a contact in hand while it sends to it, and a cron run has
\* contacts between taking them from the queue and ending its batch.
HandsFollowSteps ==
  \A w \in Workers :
    /\ worker[w].contact # Nobody <=> worker[w].pc \in Handling
    /\ w \in Executions => worker[w].pc \in ExecutionPcs
    /\ w \in CronRuns =>
         /\ worker[w].pc \in CronPcs
         /\ worker[w].pc \notin Handling \cup {"next"} => worker[w].todo = <<>>

\* Workers know jobs that exist.
JobsExist ==
  \A w \in Workers :
    /\ worker[w].job <= Len(jobs)
    /\ worker[w].pc \in {"push", "queued"} => worker[w].job # 0
    /\ w \in CronRuns /\ worker[w].pc # "idle" => worker[w].job # 0

\* A contact that was never raced is taken once: whoever has it is alone with
\* it, and once it was mailed the lock keeps others off.
TakenOnce ==
  \A c \in Contacts \ raced :
    /\ mailed[c] <= 1
    /\ mailed[c] > 0 => c \in sendLock
    /\ \A w \in Workers :
         worker[w].contact = c =>
           /\ c \in sendLock
           /\ worker[w].pc \in {"check", "mail"} => mailed[c] = 0
           /\ \A v \in Workers : worker[v].contact = c => v = w

\* No cron run is about to end job j, and it is not ended yet.
StaysActive(j) ==
  Active(j) /\ \A d \in CronRuns : At(d, "finalize") => worker[d].job # j

\* Unless a job was ended early, what is or will be in the queue has a job.
JobsFollowQueue ==
  overtaken \/
    /\ queue # <<>> => \E j \in DOMAIN jobs : StaysActive(j)
    /\ \A e \in Executions :
         worker[e].pc \in {"push", "queued"} => StaysActive(worker[e].job)

Kept(c) ==
  \/ row[c] # "none" \/ c \in lost \/ c \in ToSet(queue)
  \/ \E d \in CronRuns : c \in InHand(d)

QueuedIsKept ==
  \A e \in Executions :
    worker[e].pc \in {"queued", "done"} /\ worker[e].job # 0
      => \A c \in ToSet(worker[e].todo) : Kept(c)

\* An execution that took a contact whose consent was revoked meanwhile.
Unaware(w) == w \in Executions /\ worker[w].refused = "revoked"

\* Every other worker that took a contact which had opted out will notice.
RefusalsAreKnown ==
  \A w \in Workers :
    worker[w].refused # "no" /\ ~Unaware(w) =>
      /\ worker[w].pc \notin {"mail", "persist"}
      /\ At(w, "check") => worker[w].contact \in suppressed \/ ~worker[w].consents

\* The inductive invariant.
SendInvariant ==
  /\ SendTypeOK /\ HandsFollowSteps /\ JobsExist /\ TakenOnce
  /\ JobsFollowQueue /\ QueuedIsKept /\ RefusalsAreKnown

\* Where a mail to c may still come from: a place in the queue, one in the list
\* of a worker that did not queue it, the hand of a worker that has not mailed,
\* or an execution that has no list yet.
Occurrences(s, c) == {i \in DOMAIN s : s[i] = c}
Listing   == {w \in Workers : worker[w].pc \notin {"queued", "done"}}
Handing(c) == {w \in Workers : worker[w].contact = c /\ worker[w].pc \in {"check", "mail"}}
Beginning == {e \in Executions : worker[e].pc \in {"validated", "sending"}}

Chances(c) ==
  ({"queue"} \X {Nobody} \X Occurrences(queue, c))
    \cup (UNION {{"list"} \X {w} \X Occurrences(worker[w].todo, c) : w \in Listing})
    \cup ({"hand"} \X Handing(c) \X {0})
    \cup ({"new"} \X Beginning \X {0})

\* Contacts move between these places and are not copied: every mail, sent or
\* possible, is paid for by an execution of its own.
MailsAreBudgeted ==
  /\ IsFiniteSet(Executed)
  /\ \A c \in Contacts :
       /\ IsFiniteSet(Chances(c))
       /\ mailed[c] + Cardinality(Chances(c)) <= Cardinality(Executed)
=============================================================================
