------------------------- MODULE OrganizationSeats -------------------------
(***************************************************************************)
(* Seats of one organization: memberships, invitations and the plan's seat *)
(* limit (organization.router.ts, auth.router.ts, admin.router.ts,         *)
(* organization-invitation.service.ts, organization-seat.service.ts and    *)
(* the seat part of intasend-finalization.service.ts).  Procedures that    *)
(* take a seat hold a PostgreSQL advisory lock for their transaction;      *)
(* those that change the status of a member, resend an invitation,         *)
(* provision a user or change the plan do not.                             *)
(*                                                                         *)
(* Transactions run at READ COMMITTED: what a transaction read may have    *)
(* changed by the time it writes, unless the advisory lock keeps others    *)
(* out.  The reads of one check, which follow each other, are one step.    *)
(***************************************************************************)
EXTENDS Integers, FiniteSets, FiniteSetsExt

CONSTANTS
  People,      \* users, known by their e-mail address
  Owner,       \* the organization's owner
  Registered,  \* those who have an account at the start
  Invites,     \* rows of Invitation
  Sessions,    \* requests being handled
  NoSession, NoInvite,
  Plans,       \* plans that can be bought
  TeamPlans,   \* those with teamCollaboration
  PlanSeats,   \* PlanSeats[p]: maxSeats of the plan
  PilotSeats   \* maxSeats of a pilot's entitlement profile

ASSUME SeatsAssumption ==
  /\ IsFiniteSet(People) /\ IsFiniteSet(Invites)
  /\ Owner \in Registered /\ Registered \subseteq People
  /\ PlanSeats \in [Plans -> Nat \ {0}] /\ PilotSeats \in Nat \ {0}
  /\ TeamPlans \subseteq Plans
  /\ NoSession \notin Sessions /\ NoInvite \notin Invites

VARIABLES
  member,   \* status of each person's OrganizationMember row
  account,  \* people with an account
  invite,   \* the invitations
  plan,     \* the organization's plan
  pilot,    \* it has an active pilot
  lock,     \* the session that holds the advisory lock
  session,  \* where each session is
  causes    \* history: how seats were taken or withdrawn without the lock

seatVars == <<member, account, invite, plan, pilot, lock, session, causes>>

MemberStatus == {"NONE", "ACTIVE", "SUSPENDED", "REMOVED"}
InviteRec    == [email : People, live : BOOLEAN, used : BOOLEAN,
                 revoked : {"no", "owner", "system"}]
NoRow        == [email |-> Owner, live |-> FALSE, used |-> TRUE, revoked |-> "no"]
Unlocked     == {"resent", "unchecked"}

LockedOps == {"invite", "add", "accept", "revoke"}
Idle      == [pc |-> "idle"]
Sitting   == [pc : {"found", "locked", "checked"}, op : LockedOps,
              who : People, inv : Invites \cup {NoInvite}]
Changing  == [pc : {"changing"}, who : People, to : {"ACTIVE", "SUSPENDED"}]
Buying    == [pc : {"buying"}, plan : Plans, cut : SUBSET People]

SeatsTypeOK ==
  /\ member \in [People -> MemberStatus] /\ account \subseteq People
  /\ invite \in [Invites -> InviteRec]
  /\ plan \in Plans /\ pilot \in BOOLEAN
  /\ lock \in Sessions \cup {NoSession}
  /\ session \in [Sessions -> {Idle} \cup Sitting \cup Changing \cup Buying]
  /\ causes \subseteq Unlocked

SeatsInit ==
  /\ member = [u \in People |-> IF u = Owner THEN "ACTIVE" ELSE "NONE"]
  /\ account = Registered
  /\ invite = [i \in Invites |-> NoRow]
  /\ plan \in Plans /\ pilot \in BOOLEAN
  /\ lock = NoSession
  /\ session = [s \in Sessions |-> Idle]
  /\ causes = {}

-----------------------------------------------------------------------------
(* getSeatUsageForOrganization.                                            *)

Counted == {u \in People : member[u] \in {"ACTIVE", "SUSPENDED"}}

Valid(i) == invite[i].live /\ ~invite[i].used /\ invite[i].revoked = "no"
Pending  == {i \in Invites : Valid(i)}

UsedSeats == Cardinality(Counted) + Cardinality(Pending)

\* A plan's maxSeats, or a pilot's when that is more.
LimitOf(p, piloting) ==
  IF piloting /\ PilotSeats > PlanSeats[p] THEN PilotSeats ELSE PlanSeats[p]
SeatLimit == LimitOf(plan, pilot)

HasSeatCapacity == UsedSeats < SeatLimit

-----------------------------------------------------------------------------
(* Transactions under the advisory lock.                                   *)

Begin(s, what) ==
  /\ session[s].pc = "idle"
  /\ session' = [session EXCEPT ![s] = what]
  /\ UNCHANGED <<member, account, invite, plan, pilot, lock, causes>>

Request(pc, op, u, i) == [pc |-> pc, op |-> op, who |-> u, inv |-> i]

\* Mutant: the transaction does not wait for the lock.
BeginUnlocked(s, op, u, i) ==
  /\ session[s].pc = "idle"
  /\ lock' = s
  /\ session' = [session EXCEPT ![s] = Request("locked", op, u, i)]
  /\ UNCHANGED <<member, account, invite, plan, pilot, causes>>

\* pg_advisory_xact_lock is the first statement of these transactions.
BeginLocked(s, op, u, i) ==
  /\ session[s].pc = "idle" /\ lock = NoSession
  /\ lock' = s
  /\ session' = [session EXCEPT ![s] = Request("locked", op, u, i)]
  /\ UNCHANGED <<member, account, invite, plan, pilot, causes>>

BeginInvite(s, u) == BeginLocked(s, "invite", u, NoInvite)

\* The right to use team seats is looked at before the transaction.
BeginAdd(s, u) ==
  /\ u \in account /\ (plan \in TeamPlans \/ pilot)
  /\ BeginLocked(s, "add", u, NoInvite)

BeginRevoke(s, i) ==
  invite[i] # NoRow /\ BeginLocked(s, "revoke", invite[i].email, i)

\* Registration has to look the invitation up by its token before it knows
\* which organization to lock.
BeginAccept(s, i) ==
  /\ Valid(i) /\ invite[i].email \notin account
  /\ Begin(s, Request("found", "accept", invite[i].email, i))

\* Mutant: registration goes on without the lock.
LockNothing(s) ==
  /\ session[s].pc = "found"
  /\ session' = [session EXCEPT ![s].pc = "locked"]
  /\ UNCHANGED <<member, account, invite, plan, pilot, lock, causes>>

LockSeats(s) ==
  /\ session[s].pc = "found" /\ lock = NoSession
  /\ lock' = s
  /\ session' = [session EXCEPT ![s].pc = "locked"]
  /\ UNCHANGED <<member, account, invite, plan, pilot, causes>>

\* Mutants: open invitations for the address are not looked for; an invitation
\* is accepted without counting again; a used invitation can be revoked.
MayInviteTwice(u) == plan \in TeamPlans /\ u \notin Counted /\ HasSeatCapacity
MayAcceptUncounted(i) == i \in Pending
MayRevokeUsed(i) == i \in Invites /\ invite[i].revoked = "no"

\* What each procedure checks under the lock.
MayInvite(u) ==
  /\ plan \in TeamPlans /\ u \notin Counted
  /\ \A i \in Pending : invite[i].email # u
  /\ HasSeatCapacity
MayAdd(u) == u \notin Counted /\ HasSeatCapacity
MayAccept(i) == i \in Pending /\ UsedSeats - 1 < SeatLimit
MayRevoke(i) == i \in Invites /\ ~invite[i].used /\ invite[i].revoked = "no"

Allowed(r) ==
  CASE r.op = "invite" -> MayInvite(r.who)
    [] r.op = "add"    -> MayAdd(r.who)
    [] r.op = "accept" -> MayAccept(r.inv)
    [] r.op = "revoke" -> MayRevoke(r.inv)

Leave(s) ==
  /\ session' = [session EXCEPT ![s] = Idle]
  /\ lock' = IF lock = s THEN NoSession ELSE lock

CheckSeats(s) ==
  /\ session[s].pc = "locked" /\ Allowed(session[s])
  /\ session' = [session EXCEPT ![s].pc = "checked"]
  /\ UNCHANGED <<member, account, invite, plan, pilot, lock, causes>>

\* A refusal, an error or the death of the process rolls back, and the lock
\* goes with the transaction.
RollBack(s) ==
  /\ session[s].pc # "idle"
  /\ Leave(s)
  /\ UNCHANGED <<member, account, invite, plan, pilot, causes>>

CommitInvite(s) ==
  /\ session[s].pc = "checked" /\ session[s].op = "invite"
  /\ \E i \in Invites :
       /\ invite[i] = NoRow
       /\ invite' = [invite EXCEPT ![i] =
            [email |-> session[s].who, live |-> TRUE, used |-> FALSE,
             revoked |-> "no"]]
  /\ Leave(s)
  /\ UNCHANGED <<member, account, plan, pilot, causes>>

CommitAdd(s) ==
  /\ session[s].pc = "checked" /\ session[s].op = "add"
  /\ member' = [member EXCEPT ![session[s].who] = "ACTIVE"]
  /\ Leave(s)
  /\ UNCHANGED <<account, invite, plan, pilot, causes>>

\* The account, the membership and the use of the invitation commit together;
\* e-mail addresses are unique.
CommitAccept(s) ==
  /\ session[s].pc = "checked" /\ session[s].op = "accept"
  /\ session[s].who \notin account
  /\ account' = account \cup {session[s].who}
  /\ member' = [member EXCEPT ![session[s].who] = "ACTIVE"]
  /\ invite' = [invite EXCEPT ![session[s].inv].used = TRUE]
  /\ Leave(s)
  /\ UNCHANGED <<plan, pilot, causes>>

CommitRevoke(s) ==
  /\ session[s].pc = "checked" /\ session[s].op = "revoke"
  /\ invite' = [invite EXCEPT ![session[s].inv].revoked = "owner"]
  /\ Leave(s)
  /\ UNCHANGED <<member, account, plan, pilot, causes>>

-----------------------------------------------------------------------------
(* Changes without the lock.                                               *)

\* removeMember is one update whatever the status was; the only owner stays.
RemoveMember(u) ==
  /\ u \in Counted \ {Owner}
  /\ member' = [member EXCEPT ![u] = "REMOVED"]
  /\ UNCHANGED <<account, invite, plan, pilot, lock, session, causes>>

\* suspendMember and reactivateMember read the status, and later write the new
\* one whatever the status is by then.
BeginChange(s, u) ==
  /\ u # Owner /\ member[u] \in {"ACTIVE", "SUSPENDED"}
  /\ Begin(s, [pc |-> "changing", who |-> u,
               to |-> IF member[u] = "ACTIVE" THEN "SUSPENDED" ELSE "ACTIVE"])

CommitChange(s) ==
  /\ session[s].pc = "changing"
  /\ member' = [member EXCEPT ![session[s].who] = session[s].to]
  /\ causes' = IF session[s].who \in Counted THEN causes
                                             ELSE causes \cup {"unchecked"}
  /\ Leave(s)
  /\ UNCHANGED <<account, invite, plan, pilot>>

InviteExpires(i) ==
  /\ Valid(i)
  /\ invite' = [invite EXCEPT ![i].live = FALSE]
  /\ UNCHANGED <<member, account, plan, pilot, lock, session, causes>>

\* resendInvitation gives any unused, unrevoked invitation a new token and a new
\* expiry, an expired one too; the old token finds nothing any more.
Holds(s, i) == /\ session[s].pc \in {"found", "locked"}
               /\ session[s].op = "accept" /\ session[s].inv = i

ResendInvitation(i) ==
  /\ ~invite[i].used /\ invite[i].revoked = "no"
  /\ invite' = [invite EXCEPT ![i].live = TRUE]
  /\ session' = [s \in Sessions |-> IF Holds(s, i) THEN [session[s] EXCEPT !.inv = NoInvite]
                                               ELSE session[s]]
  /\ causes' = IF invite[i].live THEN causes ELSE causes \cup {"resent"}
  /\ UNCHANGED <<member, account, plan, pilot, lock>>

\* createUserWithOrganization: an administrator creates a user who is a member
\* at once.
ProvisionUser(u) ==
  /\ u \notin account
  /\ account' = account \cup {u}
  /\ member' = [member EXCEPT ![u] = "ACTIVE"]
  /\ causes' = causes \cup {"unchecked"}
  /\ UNCHANGED <<invite, plan, pilot, lock, session>>

Shrinks(p, piloting) ==
  IF LimitOf(p, piloting) < SeatLimit THEN causes \cup {"unchecked"} ELSE causes

PilotEnds ==
  /\ pilot /\ pilot' = FALSE
  /\ causes' = Shrinks(plan, FALSE)
  /\ UNCHANGED <<member, account, invite, plan, lock, session>>

\* The purchase of a plan: the active members beyond the plan's seats, the owner
\* never among them, are picked from a list read earlier in the transaction.
ActiveMembers == {u \in People : member[u] = "ACTIVE"}

BeginPurchase(s, p) ==
  \E cut \in SUBSET (ActiveMembers \ {Owner}) :
    /\ Cardinality(cut) =
         Max({0, Cardinality(ActiveMembers) - PlanSeats[p]})
    /\ Begin(s, [pc |-> "buying", plan |-> p, cut |-> cut])

\* Invitations are revoked when no seat is left.
Withdrawn(i) ==
  IF ~invite[i].used /\ invite[i].revoked = "no"
    THEN [invite[i] EXCEPT !.revoked = "system"] ELSE invite[i]

CommitPurchase(s) ==
  /\ session[s].pc = "buying"
  /\ plan' = session[s].plan /\ pilot' = FALSE
  /\ member' = [u \in People |->
                  IF u \in session[s].cut THEN "REMOVED" ELSE member[u]]
  /\ invite' = IF Cardinality(Counted \ session[s].cut) >= PlanSeats[session[s].plan]
                 THEN [i \in Invites |-> Withdrawn(i)] ELSE invite
  /\ causes' = Shrinks(session[s].plan, FALSE)
  /\ Leave(s)
  /\ UNCHANGED account

-----------------------------------------------------------------------------
SeatTaking(s) ==
  \/ \E u \in People : BeginInvite(s, u) \/ BeginAdd(s, u)
  \/ \E i \in Invites : BeginRevoke(s, i) \/ BeginAccept(s, i)
  \/ LockSeats(s) \/ CheckSeats(s) \/ RollBack(s)
  \/ CommitInvite(s) \/ CommitAdd(s) \/ CommitAccept(s) \/ CommitRevoke(s)

WithoutLock(s) ==
  \/ \E u \in People : BeginChange(s, u)
  \/ CommitChange(s)
  \/ \E p \in Plans : BeginPurchase(s, p)
  \/ CommitPurchase(s)

SeatsNext ==
  \/ \E s \in Sessions : SeatTaking(s) \/ WithoutLock(s)
  \/ \E u \in People : RemoveMember(u) \/ ProvisionUser(u)
  \/ \E i \in Invites : InviteExpires(i) \/ ResendInvitation(i)
  \/ PilotEnds

SeatsSpec == SeatsInit /\ [][SeatsNext]_seatVars
=============================================================================
