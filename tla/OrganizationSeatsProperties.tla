-------------------- MODULE OrganizationSeatsProperties --------------------
(***************************************************************************)
(* What seat allocation must guarantee, stated over OrganizationSeats.     *)
(***************************************************************************)
EXTENDS OrganizationSeats

\* The advisory lock is enough for the procedures that take it: concurrent
\* invitations, additions and acceptances never go past the limit.  Only a
\* change made without the lock can have caused an organization to be over it.
OversubscriptionHasCause == causes = {} => UsedSeats <= SeatLimit

\* An expired invitation that is sent again takes a seat nobody checked, but
\* acceptance counts again: as long as nothing worse happened, members stay
\* within the limit.
MembersWithinLimit ==
  causes \subseteq {"resent"} => Cardinality(Counted) <= SeatLimit

\* "serializes duplicate email invitation creation so exactly one request wins"
\* (organization-invitation.service.test.ts): two open invitations for one
\* address exist only after an expired one was sent again.
DuplicateNeedsResend ==
  \A i, j \in Pending :
    i # j /\ invite[i].email = invite[j].email => "resent" \in causes

\* An invitation that its organization revoked admits nobody, not even a
\* registration that had already looked it up.
RevokedAdmitsNobody ==
  \A i \in Invites : ~(invite[i].used /\ invite[i].revoked = "owner")

\* What these rest on: the lock is held by whoever is past LockSeats, and the
\* check it made under the lock still covers the seat it is about to take.
LockIsHeld ==
  \A s \in Sessions : session[s].pc \in {"locked", "checked"} <=> lock = s

RoomForOne(others) ==
  /\ (causes = {} => Cardinality(Counted) + Cardinality(others) + 1 <= SeatLimit)
  /\ (causes \subseteq {"resent"} => Cardinality(Counted) + 1 <= SeatLimit)

AcceptHolds(i) ==
  /\ i \in Invites /\ ~invite[i].used /\ invite[i].revoked # "owner"
  /\ RoomForOne(Pending \ {i})

Unasked(u) == "resent" \in causes \/ \A i \in Pending : invite[i].email # u

CheckHolds(s) ==
  /\ (session[s].op \in {"invite", "add"} => RoomForOne(Pending))
  /\ (session[s].op = "invite" => Unasked(session[s].who))
  /\ (session[s].op = "accept" => AcceptHolds(session[s].inv))
  /\ (session[s].op = "revoke" => session[s].inv \in Invites /\ ~invite[session[s].inv].used)

CheckStillHolds == \A s \in Sessions : session[s].pc = "checked" => CheckHolds(s)

\* The inductive invariant.
SeatsInvariant ==
  /\ SeatsTypeOK /\ LockIsHeld /\ CheckStillHolds
  /\ OversubscriptionHasCause /\ MembersWithinLimit
  /\ DuplicateNeedsResend /\ RevokedAdmitsNobody
=============================================================================
