----------------------- MODULE ObjectDeletionService -----------------------
(***************************************************************************)
(* What the deletion of an analysis is promised about its stored objects:  *)
(* an object is removed only after the deletion of its analysis asked for  *)
(* it, the request is settled once, and settled as done only when the      *)
(* object is gone.  ObjectDeletionOutbox implements this specification.    *)
(***************************************************************************)
CONSTANTS Objects, Owned

VARIABLES
  request,   \* the clean-up request of each object
  stored     \* the objects that are in the bucket

deletionVars == <<request, stored>>

RequestInit ==
  /\ request = [o \in Objects |-> "none"]
  /\ stored = Objects

Settle(o, outcome) == request' = [request EXCEPT ![o] = outcome]

Ask(o) == request[o] = "none" /\ Settle(o, "open") /\ UNCHANGED stored

\* Only objects their analysis still names, under its prefix, are removed.
Erase(o) ==
  /\ request[o] # "none" /\ o \in Owned
  /\ stored' = stored \ {o}
  /\ UNCHANGED request

Confirm(o) ==
  /\ request[o] = "open" /\ o \notin stored
  /\ Settle(o, "done") /\ UNCHANGED stored

\* Left to an operator.
Abandon(o) == request[o] = "open" /\ Settle(o, "escalated") /\ UNCHANGED stored

DeletionNext == \E o \in Objects : Ask(o) \/ Erase(o) \/ Confirm(o) \/ Abandon(o)

DeletionSafety == RequestInit /\ [][DeletionNext]_deletionVars

DeletionSpec ==
  /\ DeletionSafety
  /\ \A o \in Objects : WF_deletionVars(Confirm(o) \/ Abandon(o))
=============================================================================
