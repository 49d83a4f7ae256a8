---------------------------- MODULE AiJobService ----------------------------
(***************************************************************************)
(* What the durable job queue promises to the modules that enqueue work:   *)
(* at any time at most one execution of a job is the authoritative one,    *)
(* only that execution can decide the job's outcome, an outcome is decided *)
(* once, and an execution that lost its authority can do nothing but stop. *)
(* AiJobQueue implements this specification.                               *)
(***************************************************************************)
CONSTANTS Jobs, Processes, NoProcess, NoJob

VARIABLES
  phase,   \* where each job is in its life
  owner,   \* the process whose execution of the job is authoritative
  busy     \* the job each process is executing, authoritative or not

serviceVars == <<phase, owner, busy>>

Outcomes == {"COMPLETED", "CANCELLED", "DEAD_LETTERED"}
Phases   == {"absent", "waiting", "executing"} \cup Outcomes

ServiceInit ==
  /\ phase = [j \in Jobs |-> "absent"]
  /\ owner = [j \in Jobs |-> NoProcess]
  /\ busy  = [p \in Processes |-> NoJob]

Move(j, to, by) ==
  /\ phase' = [phase EXCEPT ![j] = to]
  /\ owner' = [owner EXCEPT ![j] = by]

Submit(j) ==
  /\ phase[j] = "absent"
  /\ Move(j, "waiting", NoProcess)
  /\ UNCHANGED busy

Start(p, j) ==
  /\ phase[j] = "waiting" /\ busy[p] = NoJob
  /\ Move(j, "executing", p)
  /\ busy' = [busy EXCEPT ![p] = j]

\* The authoritative execution ends: with an outcome, or to be tried again.
\* Its process may not know yet that it has.
Decide(p, j) ==
  /\ busy[p] = j /\ phase[j] = "executing" /\ owner[j] = p
  /\ \E to \in Outcomes \cup {"waiting"} : Move(j, to, NoProcess)
  /\ busy' \in {busy, [busy EXCEPT ![p] = NoJob]}

\* Authority is taken back from executions that stopped renewing it.
Revoke(lost) ==
  /\ \A j \in lost : phase[j] = "executing"
  /\ phase' = [j \in Jobs |-> IF j \in lost THEN "waiting" ELSE phase[j]]
  /\ owner' = [j \in Jobs |-> IF j \in lost THEN NoProcess ELSE owner[j]]
  /\ UNCHANGED busy

\* The owner of the job withdraws it.
Withdraw(j) ==
  /\ phase[j] \in {"waiting", "executing"}
  /\ Move(j, "CANCELLED", NoProcess)
  /\ UNCHANGED busy

\* A process stops executing without deciding anything.
Stop(p) ==
  /\ busy[p] # NoJob
  /\ busy' = [busy EXCEPT ![p] = NoJob]
  /\ UNCHANGED <<phase, owner>>

ServiceNext ==
  \/ \E j \in Jobs : Submit(j) \/ Withdraw(j)
  \/ \E lost \in SUBSET Jobs : Revoke(lost)
  \/ \E p \in Processes : Stop(p) \/ \E j \in Jobs : Start(p, j) \/ Decide(p, j)

ServiceSpec == ServiceInit /\ [][ServiceNext]_serviceVars
=============================================================================
