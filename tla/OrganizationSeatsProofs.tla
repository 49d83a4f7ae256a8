---------------------- MODULE OrganizationSeatsProofs ----------------------
(***************************************************************************)
(* Proofs that OrganizationSeats has the properties of                     *)
(* OrganizationSeatsProperties, for any number of people, invitations and  *)
(* concurrent requests, and any plans and pilots.                          *)
(***************************************************************************)
EXTENDS OrganizationSeatsProperties, FiniteSetTheorems, TLAPS

-----------------------------------------------------------------------------
(* Sessions.                                                               *)

LEMMA SessionRecords ==
  ASSUME SeatsTypeOK, NEW s \in Sessions
  PROVE  /\ session[s].pc \in {"found", "locked", "checked"} => session[s] \in Sitting
         /\ session[s].pc = "changing" => session[s] \in Changing
         /\ session[s].pc = "buying" => session[s] \in Buying
BY DEF SeatsTypeOK, Idle, Sitting, Changing, Buying

LEMMA LeaveEffect ==
  ASSUME SeatsTypeOK, LockIsHeld, NEW s \in Sessions, Leave(s)
  PROVE  /\ session' \in [Sessions -> {Idle} \cup Sitting \cup Changing \cup Buying]
         /\ session'[s].pc = "idle"
         /\ \A t \in Sessions \ {s} : session'[t] = session[t]
         /\ lock' \in Sessions \cup {NoSession}
         /\ LockIsHeld'
<1>1. /\ session' \in [Sessions -> {Idle} \cup Sitting \cup Changing \cup Buying]
      /\ session'[s].pc = "idle"
      /\ \A t \in Sessions \ {s} : session'[t] = session[t]
  BY DEF Leave, SeatsTypeOK, Idle
<1>2. lock' \in Sessions \cup {NoSession}
  BY DEF Leave, SeatsTypeOK
<1>3. LockIsHeld'
  BY <1>1, SeatsAssumption DEF Leave, LockIsHeld
<1> QED
  BY <1>1, <1>2, <1>3

\* A session that moves to a new record, and the lock it has then.
LEMMA MoveEffect ==
  ASSUME SeatsTypeOK, NEW s \in Sessions,
         NEW what \in Sitting \cup Changing \cup Buying,
         session' = [session EXCEPT ![s] = what]
  PROVE  /\ session' \in [Sessions -> {Idle} \cup Sitting \cup Changing \cup Buying]
         /\ session'[s] = what
         /\ \A t \in Sessions \ {s} : session'[t] = session[t]
BY DEF SeatsTypeOK

LEMMA StageEffect ==
  ASSUME SeatsTypeOK, NEW s \in Sessions, NEW pc \in {"locked", "checked"},
         session[s].pc \in {"found", "locked"},
         session' = [session EXCEPT ![s].pc = pc]
  PROVE  /\ session' \in [Sessions -> {Idle} \cup Sitting \cup Changing \cup Buying]
         /\ session'[s].pc = pc /\ session'[s].op = session[s].op
         /\ session'[s].who = session[s].who /\ session'[s].inv = session[s].inv
         /\ \A t \in Sessions \ {s} : session'[t] = session[t]
<1>1. session[s] \in Sitting
  BY SessionRecords
<1>2. [session[s] EXCEPT !.pc = pc] \in Sitting
  BY <1>1 DEF Sitting
<1>3. session' = [session EXCEPT ![s] = [session[s] EXCEPT !.pc = pc]]
  BY DEF SeatsTypeOK
<1> QED
  BY <1>1, <1>2, <1>3 DEF SeatsTypeOK, Sitting

-----------------------------------------------------------------------------
(* Numbers of seats.                                                       *)

LEMMA SubsetSize ==
  ASSUME NEW S, IsFiniteSet(S), NEW T \in SUBSET S
  PROVE  /\ IsFiniteSet(T) /\ Cardinality(T) <= Cardinality(S)
         /\ Cardinality(T) \in Nat /\ Cardinality(S) \in Nat
BY FS_Subset, FS_CardinalityType

LEMMA AddedSize ==
  ASSUME NEW S, IsFiniteSet(S), NEW x, NEW T \in SUBSET (S \cup {x})
  PROVE  /\ Cardinality(S) \in Nat /\ Cardinality(T) \in Nat
         /\ Cardinality(T) <= Cardinality(S) + 1
<1>1. /\ IsFiniteSet(S \cup {x}) /\ Cardinality(S) \in Nat
      /\ Cardinality(S \cup {x}) = IF x \in S THEN Cardinality(S) ELSE Cardinality(S) + 1
  BY FS_AddElement, FS_CardinalityType
<1>2. Cardinality(T) \in Nat /\ Cardinality(T) <= Cardinality(S \cup {x})
  BY <1>1, SubsetSize
<1> QED
  BY <1>1, <1>2

LEMMA SeatsAreFinite ==
  /\ IsFiniteSet(Counted) /\ Cardinality(Counted) \in Nat
  /\ IsFiniteSet(Pending) /\ Cardinality(Pending) \in Nat
BY SeatsAssumption, SubsetSize DEF Counted, Pending

LEMMA LimitIsNatural ==
  ASSUME NEW p \in Plans, NEW piloting \in BOOLEAN
  PROVE  LimitOf(p, piloting) \in Nat
BY SeatsAssumption DEF LimitOf

\* A step that takes no seat: neither the members nor the open invitations grow,
\* and the limit does not shrink, unless the history says so.
TakesNoSeat ==
  /\ Counted' \subseteq Counted /\ Pending' \subseteq Pending
  /\ \A i \in Pending' : invite'[i].email = invite[i].email
  /\ causes \subseteq causes'
  /\ "unchecked" \in causes' \/ SeatLimit' >= SeatLimit

SeatsWithinLimit ==
  OversubscriptionHasCause /\ MembersWithinLimit /\ DuplicateNeedsResend

LEMMA TakingNoSeat ==
  ASSUME SeatsTypeOK, SeatsTypeOK', SeatsWithinLimit, TakesNoSeat
  PROVE  /\ SeatsWithinLimit'
         /\ RoomForOne(Pending) => RoomForOne(Pending)'
         /\ \A i \in Invites : RoomForOne(Pending \ {i}) => RoomForOne(Pending \ {i})'
<1> USE DEF TakesNoSeat
<1>1. /\ Cardinality(Counted) \in Nat /\ Cardinality(Counted') \in Nat
      /\ Cardinality(Counted') <= Cardinality(Counted)
  BY SeatsAreFinite, SubsetSize
<1>2. /\ Cardinality(Pending) \in Nat /\ Cardinality(Pending') \in Nat
      /\ Cardinality(Pending') <= Cardinality(Pending)
  BY SeatsAreFinite, SubsetSize
<1>3. SeatLimit \in Nat /\ SeatLimit' \in Nat
  BY LimitIsNatural DEF SeatLimit, SeatsTypeOK
<1>4. \/ causes' # {} /\ ~(causes' \subseteq {"resent"})
      \/ SeatLimit' >= SeatLimit /\ (causes' = {} => causes = {})
         /\ (causes' \subseteq {"resent"} => causes \subseteq {"resent"})
  OBVIOUS
<1>5. OversubscriptionHasCause' /\ MembersWithinLimit'
  BY <1>1, <1>2, <1>3, <1>4
  DEF SeatsWithinLimit, OversubscriptionHasCause, MembersWithinLimit, UsedSeats
<1>6. DuplicateNeedsResend'
  BY DEF SeatsWithinLimit, DuplicateNeedsResend
<1>7. RoomForOne(Pending) => RoomForOne(Pending)'
  BY <1>1, <1>2, <1>3, <1>4 DEF RoomForOne
<1>8. ASSUME NEW i \in Invites, RoomForOne(Pending \ {i})
      PROVE  RoomForOne(Pending \ {i})'
  <2>1. /\ Cardinality(Pending \ {i}) \in Nat /\ Cardinality(Pending' \ {i}) \in Nat
        /\ Cardinality(Pending' \ {i}) <= Cardinality(Pending \ {i})
    <3>1. IsFiniteSet(Pending \ {i})
      BY SeatsAreFinite, SubsetSize
    <3> QED
      BY <3>1, SubsetSize
  <2> QED
    BY <1>1, <1>3, <1>4, <1>8, <2>1 DEF RoomForOne
<1> QED
  BY <1>5, <1>6, <1>7, <1>8 DEF SeatsWithinLimit

LEMMA UnchangedSeats ==
  ASSUME SeatsTypeOK, UNCHANGED <<member, invite, plan, pilot, causes>>
  PROVE  /\ TakesNoSeat /\ Counted' = Counted /\ Pending' = Pending
         /\ SeatLimit' = SeatLimit
<1>1. SeatLimit \in Nat
  BY LimitIsNatural DEF SeatLimit, SeatsTypeOK
<1>2. Counted' = Counted /\ Pending' = Pending /\ SeatLimit' = SeatLimit
  BY DEF Counted, Pending, Valid, SeatLimit, LimitOf
<1> QED
  BY <1>1, <1>2 DEF TakesNoSeat

\* The checks that other sessions have made survive such a step.
LEMMA ChecksSurvive ==
  ASSUME SeatsTypeOK, SeatsTypeOK', SeatsWithinLimit, TakesNoSeat, CheckStillHolds,
         NEW s \in Sessions, session'[s] = session[s], session[s].pc = "checked",
         \A i \in Invites : /\ ~invite[i].used => ~invite'[i].used
                            /\ invite[i].revoked # "owner" => invite'[i].revoked # "owner"
  PROVE  CheckHolds(s)'
<1>1. CheckHolds(s)
  BY DEF CheckStillHolds
<1>2. RoomForOne(Pending) => RoomForOne(Pending)'
  BY TakingNoSeat
<1>3. ASSUME session[s].op = "invite"
      PROVE  Unasked(session[s].who)'
  BY <1>1, <1>3 DEF CheckHolds, Unasked, TakesNoSeat
<1>4. ASSUME session[s].op = "accept"
      PROVE  AcceptHolds(session[s].inv)'
  <2>1. AcceptHolds(session[s].inv)
    BY <1>1, <1>4 DEF CheckHolds
  <2> DEFINE i == session[s].inv
  <2>2. i \in Invites /\ RoomForOne(Pending \ {i})
    BY <2>1 DEF AcceptHolds
  <2>3. RoomForOne(Pending \ {i})'
    <3>1. ASSUME NEW j \in Invites, j = i
          PROVE  RoomForOne(Pending \ {j})'
      BY <2>2, <3>1, TakingNoSeat
    <3>2. i' = i
      OBVIOUS
    <3> QED
      BY <2>2, <3>1, <3>2 DEF RoomForOne
  <2> QED
    BY <2>1, <2>3 DEF AcceptHolds
<1> QED
  BY <1>1, <1>2, <1>3, <1>4 DEF CheckHolds

-----------------------------------------------------------------------------
(* The invariant, one lemma per kind of step.                              *)

LEMMA SeatsInitially == SeatsInit => SeatsInvariant
<1> SUFFICES ASSUME SeatsInit PROVE SeatsInvariant
  OBVIOUS
<1>1. SeatsTypeOK
  BY SeatsAssumption DEF SeatsInit, SeatsTypeOK, NoRow, InviteRec, MemberStatus, Unlocked
<1>2. LockIsHeld /\ CheckStillHolds /\ RevokedAdmitsNobody
  BY SeatsAssumption DEF SeatsInit, LockIsHeld, CheckStillHolds, Idle, RevokedAdmitsNobody, NoRow
<1>3. Pending = {} /\ Counted = {Owner}
  BY SeatsAssumption DEF SeatsInit, Pending, Valid, NoRow, Counted
<1>4. Cardinality(Pending) = 0 /\ Cardinality(Counted) = 1
  BY <1>3, FS_EmptySet, FS_Singleton
<1>5. SeatLimit \in Nat /\ SeatLimit >= 1
  BY SeatsAssumption DEF SeatsInit, SeatLimit, LimitOf
<1> QED
  BY <1>1, <1>2, <1>3, <1>4, <1>5
  DEF SeatsInvariant, OversubscriptionHasCause, MembersWithinLimit, UsedSeats,
      DuplicateNeedsResend

\* A step that takes no seat and leaves the checks of the others alone.
LEMMA QuietStep ==
  ASSUME SeatsInvariant, SeatsTypeOK', LockIsHeld', TakesNoSeat,
         \A i \in Invites : /\ ~invite[i].used => ~invite'[i].used
                            /\ invite[i].revoked # "owner" => invite'[i].revoked # "owner",
         \A t \in Sessions : session'[t].pc = "checked" =>
                               session'[t] = session[t] \/ CheckHolds(t)'
  PROVE  SeatsInvariant'
<1> USE DEF SeatsInvariant
<1>1. SeatsWithinLimit
  BY DEF SeatsWithinLimit
<1>2. CheckStillHolds'
  <2> SUFFICES ASSUME NEW t \in Sessions, session'[t].pc = "checked"
               PROVE  CheckHolds(t)'
    BY DEF CheckStillHolds
  <2>1. CASE session'[t] = session[t]
    BY <1>1, <2>1, ChecksSurvive
  <2> QED
    BY <2>1
<1>3. SeatsWithinLimit'
  BY <1>1, TakingNoSeat
<1>4. RevokedAdmitsNobody'
  <2> SUFFICES ASSUME NEW i \in Invites
               PROVE  ~(invite'[i].used /\ invite'[i].revoked = "owner")
    BY DEF RevokedAdmitsNobody
  <2> QED
    BY DEF RevokedAdmitsNobody, SeatsTypeOK, InviteRec
<1> QED
  BY <1>2, <1>3, <1>4 DEF SeatsWithinLimit

\* A session changes its state and nothing else changes but, maybe, the lock.
LEMMA OnlySessions ==
  ASSUME SeatsInvariant, UNCHANGED <<member, account, invite, plan, pilot, causes>>,
         session' \in [Sessions -> {Idle} \cup Sitting \cup Changing \cup Buying],
         lock' \in Sessions \cup {NoSession}, LockIsHeld',
         \A t \in Sessions : session'[t].pc = "checked" =>
                               session'[t] = session[t] \/ CheckHolds(t)'
  PROVE  SeatsInvariant'
<1>1. SeatsTypeOK'
  BY DEF SeatsInvariant, SeatsTypeOK
<1>2. TakesNoSeat
  BY UnchangedSeats DEF SeatsInvariant
<1> QED
  BY <1>1, <1>2, QuietStep

LEMMA LockingStep ==
  ASSUME SeatsInvariant, NEW s \in Sessions,
         \/ LockSeats(s)
         \/ \E op \in LockedOps, u \in People, i \in Invites \cup {NoInvite} :
              BeginLocked(s, op, u, i)
  PROVE  SeatsInvariant'
<1> USE DEF SeatsInvariant
<1>1. /\ lock = NoSession /\ lock' = s
      /\ UNCHANGED <<member, account, invite, plan, pilot, causes>>
  BY DEF LockSeats, BeginLocked
<1>2. /\ session' \in [Sessions -> {Idle} \cup Sitting \cup Changing \cup Buying]
      /\ session'[s].pc = "locked"
      /\ \A t \in Sessions \ {s} : session'[t] = session[t]
  <2>1. CASE LockSeats(s)
    BY <2>1, StageEffect DEF LockSeats
  <2>2. CASE ~LockSeats(s)
    <3>1. PICK op \in LockedOps, u \in People, i \in Invites \cup {NoInvite} :
            session' = [session EXCEPT ![s] = Request("locked", op, u, i)]
      BY <2>2 DEF BeginLocked
    <3>2. Request("locked", op, u, i) \in Sitting
      BY DEF Request, Sitting
    <3> QED
      BY <3>1, <3>2, MoveEffect DEF Request
  <2> QED
    BY <2>1, <2>2
<1>3. LockIsHeld'
  BY <1>1, <1>2, SeatsAssumption DEF LockIsHeld
<1> QED
  BY <1>1, <1>2, <1>3, OnlySessions

LEMMA BeginningStep ==
  ASSUME SeatsInvariant, NEW s \in Sessions,
         NEW what \in Sitting \cup Changing \cup Buying,
         what.pc \notin {"locked", "checked"}, Begin(s, what)
  PROVE  SeatsInvariant'
<1> USE DEF SeatsInvariant
<1>1. /\ session' \in [Sessions -> {Idle} \cup Sitting \cup Changing \cup Buying]
      /\ session'[s].pc \notin {"locked", "checked"}
      /\ \A t \in Sessions \ {s} : session'[t] = session[t]
  BY MoveEffect DEF Begin
<1>2. LockIsHeld' /\ lock' \in Sessions \cup {NoSession}
  BY <1>1 DEF LockIsHeld, Begin, SeatsTypeOK
<1> QED
  BY <1>1, <1>2, OnlySessions DEF Begin

LEMMA CheckingStep ==
  ASSUME SeatsInvariant, NEW s \in Sessions, CheckSeats(s)
  PROVE  SeatsInvariant'
<1> USE DEF SeatsInvariant
<1>1. /\ session' \in [Sessions -> {Idle} \cup Sitting \cup Changing \cup Buying]
      /\ session'[s].pc = "checked" /\ session'[s].op = session[s].op
      /\ session'[s].who = session[s].who /\ session'[s].inv = session[s].inv
      /\ \A t \in Sessions \ {s} : session'[t] = session[t]
  BY StageEffect DEF CheckSeats
<1>2. session[s] \in Sitting /\ session[s].op \in LockedOps
  BY SessionRecords DEF CheckSeats, Sitting
<1>3. LockIsHeld' /\ lock' \in Sessions \cup {NoSession}
  BY <1>1 DEF LockIsHeld, CheckSeats, SeatsTypeOK
<1>4. UNCHANGED <<member, account, invite, plan, pilot, causes>>
  BY DEF CheckSeats
<1>5. /\ Cardinality(Counted) \in Nat /\ Cardinality(Pending) \in Nat
      /\ SeatLimit \in Nat
  BY SeatsAreFinite, LimitIsNatural DEF SeatLimit, SeatsTypeOK
<1>6. CheckHolds(s)'
  <2>1. /\ Counted' = Counted /\ Pending' = Pending /\ SeatLimit' = SeatLimit
        /\ invite' = invite /\ causes' = causes
    BY <1>4, UnchangedSeats
  <2>2. ASSUME session[s].op \in {"invite", "add"}
        PROVE  HasSeatCapacity /\ RoomForOne(Pending)
    <3>1. HasSeatCapacity
      BY <2>2 DEF CheckSeats, Allowed, MayInvite, MayAdd
    <3> QED
      BY <1>5, <3>1 DEF HasSeatCapacity, UsedSeats, RoomForOne
  <2>3. ASSUME session[s].op = "invite"
        PROVE  Unasked(session[s].who)
    BY <2>3 DEF CheckSeats, Allowed, MayInvite, Unasked
  <2>4. ASSUME session[s].op = "accept"
        PROVE  AcceptHolds(session[s].inv)
    <3> DEFINE i == session[s].inv
    <3>1. i \in Pending /\ UsedSeats - 1 < SeatLimit
      BY <2>4 DEF CheckSeats, Allowed, MayAccept
    <3>2. Cardinality(Pending \ {i}) = Cardinality(Pending) - 1
      BY <3>1, SeatsAreFinite, FS_RemoveElement
    <3>3. RoomForOne(Pending \ {i})
      BY <1>5, <3>1, <3>2, SeatsAreFinite, FS_RemoveElement, FS_CardinalityType
      DEF UsedSeats, RoomForOne
    <3> QED
      BY <3>1, <3>3 DEF AcceptHolds, Pending, Valid
  <2>5. ASSUME session[s].op = "revoke"
        PROVE  session[s].inv \in Invites /\ ~invite[session[s].inv].used
    BY <2>5 DEF CheckSeats, Allowed, MayRevoke
  <2> QED
    BY <1>1, <2>1, <2>2, <2>3, <2>4, <2>5
    DEF CheckHolds, RoomForOne, Unasked, AcceptHolds
<1> QED
  BY <1>1, <1>3, <1>4, <1>6, OnlySessions

LEMMA RollingBackStep ==
  ASSUME SeatsInvariant, NEW s \in Sessions, RollBack(s)
  PROVE  SeatsInvariant'
<1> USE DEF SeatsInvariant
<1>1. /\ session' \in [Sessions -> {Idle} \cup Sitting \cup Changing \cup Buying]
      /\ session'[s].pc = "idle"
      /\ \A t \in Sessions \ {s} : session'[t] = session[t]
      /\ lock' \in Sessions \cup {NoSession} /\ LockIsHeld'
  BY LeaveEffect DEF RollBack
<1> QED
  BY <1>1, OnlySessions DEF RollBack

\* The steps that write under the lock: afterwards nobody is past a check.
LEMMA CommitEffect ==
  ASSUME SeatsInvariant, NEW s \in Sessions, session[s].pc = "checked", Leave(s)
  PROVE  /\ session' \in [Sessions -> {Idle} \cup Sitting \cup Changing \cup Buying]
         /\ lock' \in Sessions \cup {NoSession} /\ LockIsHeld' /\ CheckStillHolds'
         /\ session[s] \in Sitting /\ CheckHolds(s)
<1> USE DEF SeatsInvariant
<1>1. /\ session' \in [Sessions -> {Idle} \cup Sitting \cup Changing \cup Buying]
      /\ session'[s].pc = "idle"
      /\ \A t \in Sessions \ {s} : session'[t] = session[t]
      /\ lock' \in Sessions \cup {NoSession} /\ LockIsHeld'
  BY LeaveEffect
<1>2. CheckStillHolds'
  BY <1>1 DEF CheckStillHolds, LockIsHeld
<1>3. session[s] \in Sitting /\ CheckHolds(s)
  BY SessionRecords DEF CheckStillHolds
<1> QED
  BY <1>1, <1>2, <1>3

LEMMA InvitingStep ==
  ASSUME SeatsInvariant, NEW s \in Sessions, CommitInvite(s)
  PROVE  SeatsInvariant'
<1> USE DEF SeatsInvariant
<1>1. /\ session' \in [Sessions -> {Idle} \cup Sitting \cup Changing \cup Buying]
      /\ lock' \in Sessions \cup {NoSession} /\ LockIsHeld' /\ CheckStillHolds'
      /\ session[s] \in Sitting /\ CheckHolds(s)
  BY CommitEffect DEF CommitInvite
<1>2. PICK i \in Invites :
        /\ invite[i] = NoRow
        /\ invite' = [invite EXCEPT ![i] =
             [email |-> session[s].who, live |-> TRUE, used |-> FALSE, revoked |-> "no"]]
  BY DEF CommitInvite
<1>3. session[s].who \in People /\ invite \in [Invites -> InviteRec]
  BY <1>1 DEF Sitting, SeatsTypeOK
<1>4. invite' \in [Invites -> InviteRec]
  BY <1>2, <1>3 DEF InviteRec
<1>5. SeatsTypeOK'
  BY <1>1, <1>4 DEF CommitInvite, SeatsTypeOK
<1>6. /\ Counted' = Counted /\ SeatLimit' = SeatLimit /\ causes' = causes
      /\ Pending' = Pending \cup {i} /\ i \notin Pending
  BY <1>2, <1>3 DEF CommitInvite, Counted, SeatLimit, LimitOf, Pending, Valid, NoRow
<1>7. RoomForOne(Pending) /\ Unasked(session[s].who)
  BY <1>1 DEF CommitInvite, CheckHolds
<1>8. OversubscriptionHasCause' /\ MembersWithinLimit'
  <2>1. /\ Cardinality(Counted) \in Nat /\ Cardinality(Pending) \in Nat
        /\ Cardinality(Pending') = Cardinality(Pending) + 1
    BY <1>6, SeatsAreFinite, FS_AddElement
  <2> QED
    BY <1>6, <1>7, <2>1
    DEF RoomForOne, OversubscriptionHasCause, MembersWithinLimit, UsedSeats
<1>9. DuplicateNeedsResend'
  BY <1>2, <1>3, <1>6, <1>7 DEF DuplicateNeedsResend, Unasked
<1>10. RevokedAdmitsNobody'
  BY <1>2, <1>3 DEF RevokedAdmitsNobody
<1> QED
  BY <1>1, <1>5, <1>8, <1>9, <1>10

LEMMA AddingStep ==
  ASSUME SeatsInvariant, NEW s \in Sessions, CommitAdd(s)
  PROVE  SeatsInvariant'
<1> USE DEF SeatsInvariant
<1>1. /\ session' \in [Sessions -> {Idle} \cup Sitting \cup Changing \cup Buying]
      /\ lock' \in Sessions \cup {NoSession} /\ LockIsHeld' /\ CheckStillHolds'
      /\ session[s] \in Sitting /\ CheckHolds(s)
  BY CommitEffect DEF CommitAdd
<1>2. SeatsTypeOK'
  BY <1>1 DEF CommitAdd, SeatsTypeOK, MemberStatus
<1>3. /\ Counted' \subseteq Counted \cup {session[s].who} /\ SeatLimit' = SeatLimit
      /\ causes' = causes /\ Pending' = Pending /\ invite' = invite
  BY DEF CommitAdd, SeatsTypeOK, Counted, SeatLimit, LimitOf, Pending, Valid
<1>4. RoomForOne(Pending)
  BY <1>1 DEF CommitAdd, CheckHolds
<1>5. /\ Cardinality(Counted) \in Nat /\ Cardinality(Pending) \in Nat
      /\ Cardinality(Counted') \in Nat /\ Cardinality(Counted') <= Cardinality(Counted) + 1
  <2> HIDE DEF SeatsInvariant
  <2> QED
    BY <1>3, SeatsAreFinite, AddedSize
<1>6. OversubscriptionHasCause' /\ MembersWithinLimit'
  <2>1. SeatLimit \in Nat
    BY LimitIsNatural DEF SeatLimit, SeatsTypeOK
  <2> QED
    BY <1>3, <1>4, <1>5, <2>1
    DEF RoomForOne, OversubscriptionHasCause, MembersWithinLimit, UsedSeats
<1>7. DuplicateNeedsResend' /\ RevokedAdmitsNobody'
  BY <1>3 DEF DuplicateNeedsResend, RevokedAdmitsNobody
<1> QED
  BY <1>1, <1>2, <1>6, <1>7

LEMMA AcceptingStep ==
  ASSUME SeatsInvariant, NEW s \in Sessions, CommitAccept(s)
  PROVE  SeatsInvariant'
<1> USE DEF SeatsInvariant
<1>1. /\ session' \in [Sessions -> {Idle} \cup Sitting \cup Changing \cup Buying]
      /\ lock' \in Sessions \cup {NoSession} /\ LockIsHeld' /\ CheckStillHolds'
      /\ session[s] \in Sitting /\ CheckHolds(s)
  BY CommitEffect DEF CommitAccept
<1> DEFINE i == session[s].inv
<1>2. AcceptHolds(i)
  BY <1>1 DEF CommitAccept, CheckHolds
<1>3. session[s].who \in People /\ i \in Invites
  BY <1>1, <1>2 DEF Sitting, AcceptHolds
<1>4. /\ invite' \in [Invites -> InviteRec]
      /\ \A j \in Invites : /\ invite'[j].email = invite[j].email
                            /\ invite'[j].revoked = invite[j].revoked
                            /\ j # i => invite'[j] = invite[j]
      /\ invite'[i].used
  BY <1>3 DEF CommitAccept, SeatsTypeOK, InviteRec
<1>5. SeatsTypeOK'
  BY <1>1, <1>3, <1>4 DEF CommitAccept, SeatsTypeOK, MemberStatus
<1>6. /\ Counted' \subseteq Counted \cup {session[s].who} /\ SeatLimit' = SeatLimit
      /\ causes' = causes /\ Pending' \subseteq Pending \ {i}
  BY <1>4 DEF CommitAccept, SeatsTypeOK, Counted, SeatLimit, LimitOf, Pending, Valid
<1>7. /\ Cardinality(Counted) \in Nat /\ Cardinality(Pending \ {i}) \in Nat
      /\ Cardinality(Counted') \in Nat /\ Cardinality(Counted') <= Cardinality(Counted) + 1
      /\ Cardinality(Pending') \in Nat /\ Cardinality(Pending') <= Cardinality(Pending \ {i})
  <2>1. IsFiniteSet(Pending \ {i})
    BY SeatsAreFinite, FS_RemoveElement
  <2> HIDE DEF SeatsInvariant, i
  <2>2. /\ Cardinality(Counted) \in Nat /\ Cardinality(Counted') \in Nat
        /\ Cardinality(Counted') <= Cardinality(Counted) + 1
    BY <1>6, SeatsAreFinite, AddedSize
  <2>3. /\ Cardinality(Pending') \in Nat /\ Cardinality(Pending \ {i}) \in Nat
        /\ Cardinality(Pending') <= Cardinality(Pending \ {i})
    BY <1>6, <2>1, SubsetSize
  <2> QED
    BY <2>2, <2>3
<1>8. OversubscriptionHasCause' /\ MembersWithinLimit'
  <2>1. SeatLimit \in Nat
    BY LimitIsNatural DEF SeatLimit, SeatsTypeOK
  <2>2. RoomForOne(Pending \ {i})
    BY <1>2 DEF AcceptHolds
  <2> QED
    BY <1>6, <1>7, <2>1, <2>2
    DEF RoomForOne, OversubscriptionHasCause, MembersWithinLimit, UsedSeats
<1>9. DuplicateNeedsResend' /\ RevokedAdmitsNobody'
  BY <1>2, <1>4, <1>6 DEF DuplicateNeedsResend, RevokedAdmitsNobody, AcceptHolds, Pending
<1> QED
  BY <1>1, <1>5, <1>8, <1>9

LEMMA RevokingStep ==
  ASSUME SeatsInvariant, NEW s \in Sessions, CommitRevoke(s)
  PROVE  SeatsInvariant'
<1> USE DEF SeatsInvariant
<1>1. /\ session' \in [Sessions -> {Idle} \cup Sitting \cup Changing \cup Buying]
      /\ lock' \in Sessions \cup {NoSession} /\ LockIsHeld' /\ CheckStillHolds'
      /\ session[s] \in Sitting /\ CheckHolds(s)
  BY CommitEffect DEF CommitRevoke
<1> DEFINE i == session[s].inv
<1>2. i \in Invites /\ ~invite[i].used
  BY <1>1 DEF CommitRevoke, CheckHolds
<1>3. /\ invite' \in [Invites -> InviteRec]
      /\ \A j \in Invites \ {i} : invite'[j] = invite[j]
      /\ invite'[i].email = invite[i].email /\ ~invite'[i].used
      /\ invite'[i].revoked = "owner"
  BY <1>2 DEF CommitRevoke, SeatsTypeOK, InviteRec
<1>4. SeatsTypeOK'
  BY <1>1, <1>3 DEF CommitRevoke, SeatsTypeOK
<1>5. TakesNoSeat
  <2>1. Counted' = Counted /\ SeatLimit' = SeatLimit /\ SeatLimit \in Nat /\ causes' = causes
    BY LimitIsNatural DEF CommitRevoke, Counted, SeatLimit, LimitOf, SeatsTypeOK
  <2>2. Pending' \subseteq Pending /\ \A j \in Pending' : invite'[j].email = invite[j].email
    BY <1>3 DEF Pending, Valid
  <2> QED
    BY <2>1, <2>2 DEF TakesNoSeat
<1>6. SeatsWithinLimit'
  BY <1>4, <1>5, TakingNoSeat DEF SeatsWithinLimit
<1>7. RevokedAdmitsNobody'
  BY <1>3 DEF RevokedAdmitsNobody
<1> QED
  BY <1>1, <1>4, <1>6, <1>7 DEF SeatsWithinLimit

\* Steps without the lock.
LEMMA UnlockedStep ==
  ASSUME SeatsInvariant,
         \/ \E u \in People : RemoveMember(u)
         \/ \E i \in Invites : InviteExpires(i)
         \/ PilotEnds
  PROVE  SeatsInvariant'
<1> USE DEF SeatsInvariant
<1>1. session' = session /\ lock' = lock
  BY DEF RemoveMember, InviteExpires, PilotEnds
<1>2. LockIsHeld'
  BY <1>1 DEF LockIsHeld
<1>3. SeatLimit \in Nat
  BY LimitIsNatural DEF SeatLimit, SeatsTypeOK
<1>4. ASSUME NEW u \in People, RemoveMember(u)
      PROVE  /\ SeatsTypeOK' /\ TakesNoSeat /\ invite' = invite
  <2>1. SeatsTypeOK'
    BY <1>4 DEF RemoveMember, SeatsTypeOK, MemberStatus
  <2>2. Counted' \subseteq Counted
    BY <1>4 DEF RemoveMember, SeatsTypeOK, Counted
  <2> QED
    BY <1>3, <1>4, <2>1, <2>2
    DEF RemoveMember, TakesNoSeat, Pending, Valid, SeatLimit, LimitOf
<1>5. ASSUME NEW i \in Invites, InviteExpires(i)
      PROVE  /\ SeatsTypeOK' /\ TakesNoSeat
             /\ \A j \in Invites : /\ invite'[j].used = invite[j].used
                                   /\ invite'[j].revoked = invite[j].revoked
  <2>1. /\ invite' \in [Invites -> InviteRec]
        /\ \A j \in Invites : /\ invite'[j].used = invite[j].used
                              /\ invite'[j].revoked = invite[j].revoked
                              /\ invite'[j].email = invite[j].email
                              /\ invite'[j].live => invite[j].live
    BY <1>5 DEF InviteExpires, SeatsTypeOK, InviteRec
  <2>2. SeatsTypeOK'
    BY <1>5, <2>1 DEF InviteExpires, SeatsTypeOK
  <2>3. Pending' \subseteq Pending /\ \A j \in Pending' : invite'[j].email = invite[j].email
    BY <2>1 DEF Pending, Valid
  <2> QED
    BY <1>3, <1>5, <2>1, <2>2, <2>3
    DEF InviteExpires, TakesNoSeat, Counted, SeatLimit, LimitOf
<1>6. ASSUME PilotEnds
      PROVE  /\ SeatsTypeOK' /\ TakesNoSeat /\ invite' = invite
  <2>1. SeatsTypeOK'
    BY <1>6 DEF PilotEnds, SeatsTypeOK, Shrinks, Unlocked
  <2>2. SeatLimit' = LimitOf(plan, FALSE) /\ SeatLimit' \in Nat
    BY <1>6, LimitIsNatural DEF PilotEnds, SeatLimit, LimitOf, SeatsTypeOK
  <2> DEFINE limit == LimitOf(plan, FALSE)
  <2>3. causes' = IF limit < SeatLimit THEN causes \cup {"unchecked"} ELSE causes
    BY <1>6 DEF PilotEnds, Shrinks
  <2>4. SeatLimit' = limit /\ limit \in Nat
    BY <2>2
  <2> HIDE DEF limit
  <2>5. causes \subseteq causes' /\ ("unchecked" \in causes' \/ SeatLimit' >= SeatLimit)
    BY <1>3, <2>3, <2>4
  <2> QED
    BY <1>6, <2>1, <2>5 DEF PilotEnds, TakesNoSeat, Counted, Pending, Valid
<1>7. CASE \E u \in People : RemoveMember(u)
  BY <1>1, <1>2, <1>4, <1>7, QuietStep
<1>8. CASE \E i \in Invites : InviteExpires(i)
  BY <1>1, <1>2, <1>5, <1>8, QuietStep
<1>9. CASE PilotEnds
  BY <1>1, <1>2, <1>6, <1>9, QuietStep
<1> QED
  BY <1>7, <1>8, <1>9

\* A seat taken without a check leaves nothing to show but what the invitations
\* say, which it does not touch.
LEMMA UncheckedStep ==
  ASSUME SeatsInvariant, SeatsTypeOK', LockIsHeld', invite' = invite,
         causes' = causes \cup {"unchecked"},
         \A t \in Sessions : session'[t].pc = "checked" => session'[t] = session[t]
  PROVE  SeatsInvariant'
<1> USE DEF SeatsInvariant
<1>1. causes' # {} /\ ~(causes' \subseteq {"resent"})
  OBVIOUS
<1>2. \A S : RoomForOne(S)'
  BY <1>1 DEF RoomForOne
<1>3. Pending' = Pending
  BY DEF Pending, Valid
<1>4. CheckStillHolds'
  <2> SUFFICES ASSUME NEW t \in Sessions, session'[t].pc = "checked"
               PROVE  CheckHolds(t)'
    BY DEF CheckStillHolds
  <2>1. session'[t] = session[t] /\ CheckHolds(t)
    BY DEF CheckStillHolds
  <2>2. Unasked(session[t].who) => Unasked(session[t].who)'
    BY <1>3 DEF Unasked
  <2>3. AcceptHolds(session[t].inv) => AcceptHolds(session[t].inv)'
    BY <1>1 DEF AcceptHolds, RoomForOne
  <2>4. RoomForOne(Pending)'
    BY <1>1 DEF RoomForOne
  <2> QED
    BY <2>1, <2>2, <2>3, <2>4 DEF CheckHolds, AcceptHolds, Unasked
<1>5. OversubscriptionHasCause' /\ MembersWithinLimit' /\ DuplicateNeedsResend'
  BY <1>1, <1>3
  DEF OversubscriptionHasCause, MembersWithinLimit, DuplicateNeedsResend
<1>6. RevokedAdmitsNobody'
  BY DEF RevokedAdmitsNobody
<1> QED
  BY <1>4, <1>5, <1>6

LEMMA ProvisioningStep ==
  ASSUME SeatsInvariant, NEW u \in People, ProvisionUser(u)
  PROVE  SeatsInvariant'
<1>1. SeatsTypeOK'
  BY DEF SeatsInvariant, ProvisionUser, SeatsTypeOK, MemberStatus, Unlocked
<1>2. LockIsHeld'
  BY DEF SeatsInvariant, ProvisionUser, LockIsHeld
<1> QED
  BY <1>1, <1>2, UncheckedStep DEF ProvisionUser

LEMMA ChangingStep ==
  ASSUME SeatsInvariant, NEW s \in Sessions, CommitChange(s)
  PROVE  SeatsInvariant'
<1> USE DEF SeatsInvariant
<1>1. /\ session' \in [Sessions -> {Idle} \cup Sitting \cup Changing \cup Buying]
      /\ session'[s].pc = "idle"
      /\ \A t \in Sessions \ {s} : session'[t] = session[t]
      /\ lock' \in Sessions \cup {NoSession} /\ LockIsHeld'
  BY LeaveEffect DEF CommitChange
<1>2. session[s].who \in People /\ session[s].to \in {"ACTIVE", "SUSPENDED"}
  BY SessionRecords DEF CommitChange, Changing
<1>3. SeatsTypeOK'
  BY <1>1, <1>2 DEF CommitChange, SeatsTypeOK, MemberStatus, Unlocked
<1>4. CASE session[s].who \in Counted
  <2>1. Counted' \subseteq Counted
    BY <1>2, <1>4 DEF CommitChange, Counted, SeatsTypeOK
  <2>2. SeatLimit' = SeatLimit /\ SeatLimit \in Nat /\ Pending' = Pending
    BY LimitIsNatural DEF CommitChange, SeatLimit, LimitOf, SeatsTypeOK, Pending, Valid
  <2>3. TakesNoSeat
    BY <1>4, <2>1, <2>2 DEF CommitChange, TakesNoSeat
  <2> QED
    BY <1>1, <1>3, <2>3, QuietStep DEF CommitChange
<1>5. CASE session[s].who \notin Counted
  BY <1>1, <1>3, <1>5, UncheckedStep DEF CommitChange
<1> QED
  BY <1>4, <1>5

LEMMA PurchaseStep ==
  ASSUME SeatsInvariant, NEW s \in Sessions, CommitPurchase(s)
  PROVE  SeatsInvariant'
<1> USE DEF SeatsInvariant
<1>1. /\ session' \in [Sessions -> {Idle} \cup Sitting \cup Changing \cup Buying]
      /\ session'[s].pc = "idle"
      /\ \A t \in Sessions \ {s} : session'[t] = session[t]
      /\ lock' \in Sessions \cup {NoSession} /\ LockIsHeld'
  BY LeaveEffect DEF CommitPurchase
<1>2. session[s].plan \in Plans
  BY SessionRecords DEF CommitPurchase, Buying
<1>3. ASSUME NEW i \in Invites
      PROVE  /\ invite'[i] \in InviteRec
             /\ invite'[i].used = invite[i].used /\ invite'[i].email = invite[i].email
             /\ invite'[i].live = invite[i].live
             /\ invite'[i].revoked = invite[i].revoked
                  \/ (invite[i].revoked = "no" /\ invite'[i].revoked = "system")
  <2>1. invite[i] \in InviteRec /\ (invite'[i] = invite[i] \/ invite'[i] = Withdrawn(i))
    BY DEF CommitPurchase, SeatsTypeOK
  <2> QED
    BY <2>1 DEF Withdrawn, InviteRec
<1>4. SeatsTypeOK'
  <2>1. invite' \in [Invites -> InviteRec]
    <3>1. invite' = [i \in Invites |-> invite'[i]]
      BY DEF CommitPurchase, SeatsTypeOK
    <3> QED
      BY <1>3, <3>1
  <2>2. member' \in [People -> MemberStatus] /\ causes' \subseteq Unlocked
    BY DEF CommitPurchase, SeatsTypeOK, MemberStatus, Shrinks, Unlocked
  <2> QED
    BY <1>1, <1>2, <2>1, <2>2 DEF CommitPurchase, SeatsTypeOK
<1>5. TakesNoSeat
  <2> DEFINE limit == LimitOf(session[s].plan, FALSE)
  <2>1. causes' = IF limit < SeatLimit THEN causes \cup {"unchecked"} ELSE causes
    BY DEF CommitPurchase, Shrinks
  <2>2. SeatLimit' = limit /\ limit \in Nat /\ SeatLimit \in Nat
    BY <1>2, LimitIsNatural DEF CommitPurchase, SeatLimit, LimitOf, SeatsTypeOK
  <2> HIDE DEF limit
  <2>3. causes \subseteq causes' /\ ("unchecked" \in causes' \/ SeatLimit' >= SeatLimit)
    BY <2>1, <2>2
  <2>4. Counted' \subseteq Counted
    BY DEF CommitPurchase, Counted
  <2>5. Pending' \subseteq Pending /\ \A i \in Pending' : invite'[i].email = invite[i].email
    BY <1>3 DEF Pending, Valid
  <2> QED
    BY <2>3, <2>4, <2>5 DEF TakesNoSeat
<1> QED
  BY <1>1, <1>3, <1>4, <1>5, QuietStep

LEMMA ResendingStep ==
  ASSUME SeatsInvariant, NEW i \in Invites, ResendInvitation(i)
  PROVE  SeatsInvariant'
<1> USE DEF SeatsInvariant
<1>1. /\ invite' \in [Invites -> InviteRec]
      /\ \A j \in Invites \ {i} : invite'[j] = invite[j]
      /\ invite'[i].email = invite[i].email /\ invite'[i].used = invite[i].used
      /\ invite'[i].revoked = invite[i].revoked
      /\ invite[i].live => invite' = invite
  <2>1. invite[i] \in InviteRec /\ invite' = [invite EXCEPT ![i] = [invite[i] EXCEPT !.live = TRUE]]
    BY DEF ResendInvitation, SeatsTypeOK
  <2>2. [invite[i] EXCEPT !.live = TRUE] \in InviteRec
    BY <2>1 DEF InviteRec
  <2> DEFINE new == [invite[i] EXCEPT !.live = TRUE]
  <2>3. /\ new.email = invite[i].email /\ new.used = invite[i].used
        /\ new.revoked = invite[i].revoked /\ (invite[i].live => new = invite[i])
    BY <2>1 DEF InviteRec
  <2> HIDE DEF new
  <2> QED
    BY <2>1, <2>2, <2>3 DEF SeatsTypeOK, new
<1>2. ASSUME NEW t \in Sessions
      PROVE  /\ session'[t] \in {Idle} \cup Sitting \cup Changing \cup Buying
             /\ session'[t].pc = session[t].pc
             /\ session[t].pc = "checked" => session'[t] = session[t]
  <2>1. CASE Holds(t, i)
    <3>1. session[t] \in Sitting /\ session[t].pc \in {"found", "locked"}
      BY <2>1, SessionRecords DEF Holds
    <3>2. session'[t] = [session[t] EXCEPT !.inv = NoInvite]
      BY <2>1 DEF ResendInvitation
    <3> QED
      BY <3>1, <3>2 DEF Sitting
  <2>2. CASE ~Holds(t, i)
    BY <2>2 DEF ResendInvitation, SeatsTypeOK
  <2> QED
    BY <2>1, <2>2
<1>3. session' \in [Sessions -> {Idle} \cup Sitting \cup Changing \cup Buying]
  BY <1>2 DEF ResendInvitation
<1>4. SeatsTypeOK' /\ LockIsHeld'
  BY <1>1, <1>2, <1>3 DEF ResendInvitation, SeatsTypeOK, LockIsHeld, Unlocked
<1>5. /\ Counted' = Counted /\ SeatLimit' = SeatLimit /\ SeatLimit \in Nat
  BY LimitIsNatural DEF ResendInvitation, Counted, SeatLimit, LimitOf, SeatsTypeOK
<1>6. CASE invite[i].live
  <2>1. TakesNoSeat
    BY <1>1, <1>5, <1>6 DEF ResendInvitation, TakesNoSeat, Pending, Valid
  <2> QED
    BY <1>1, <1>2, <1>4, <1>6, <2>1, QuietStep
<1>7. CASE ~invite[i].live
  <2>1. causes' = causes \cup {"resent"}
    BY <1>7 DEF ResendInvitation
  <2>2. ASSUME causes' \subseteq {"resent"}
        PROVE  causes \subseteq {"resent"}
    BY <2>1, <2>2
  <2>3. OversubscriptionHasCause' /\ MembersWithinLimit' /\ DuplicateNeedsResend'
    BY <1>5, <2>1, <2>2
    DEF OversubscriptionHasCause, MembersWithinLimit, DuplicateNeedsResend
  <2>4. RevokedAdmitsNobody'
    BY <1>1 DEF RevokedAdmitsNobody
  <2>5. CheckStillHolds'
    <3> SUFFICES ASSUME NEW t \in Sessions, session'[t].pc = "checked"
                 PROVE  CheckHolds(t)'
      BY DEF CheckStillHolds
    <3>1. session'[t] = session[t] /\ CheckHolds(t)
      BY <1>2 DEF CheckStillHolds
    <3>2. Unasked(session[t].who)'
      BY <2>1 DEF Unasked
    <3>3. RoomForOne(Pending) => RoomForOne(Pending)'
      BY <1>5, <2>1, <2>2 DEF RoomForOne
    <3>4. ASSUME session[t].inv \in Invites
          PROVE  /\ invite'[session[t].inv].used = invite[session[t].inv].used
                 /\ invite'[session[t].inv].revoked = invite[session[t].inv].revoked
      BY <1>1, <3>4
    <3>5. AcceptHolds(session[t].inv) => AcceptHolds(session[t].inv)'
      <4>1. RoomForOne(Pending \ {session[t].inv}) => RoomForOne(Pending \ {session[t].inv})'
        BY <1>5, <2>1, <2>2 DEF RoomForOne
      <4> QED
        BY <3>1, <3>4, <4>1 DEF AcceptHolds
    <3> QED
      BY <3>1, <3>2, <3>3, <3>4, <3>5 DEF CheckHolds, AcceptHolds, Unasked
  <2> QED
    BY <1>4, <2>3, <2>4, <2>5
<1> QED
  BY <1>6, <1>7

-----------------------------------------------------------------------------
\* Whatever requests run at the same time, the procedures that take the advisory
\* lock allocate no seat that the organization does not have, admit nobody by a
\* revoked invitation and leave no two open invitations for one address; what
\* goes wrong goes wrong in a procedure without the lock.
THEOREM SeatsAreSound == SeatsSpec => []SeatsInvariant
<1>1. SeatsInvariant /\ [SeatsNext]_seatVars => SeatsInvariant'
  <2> SUFFICES ASSUME SeatsInvariant, [SeatsNext]_seatVars
               PROVE  SeatsInvariant'
    OBVIOUS
  <2> USE DEF SeatsInvariant
  <2>1. ASSUME NEW s \in Sessions, SeatTaking(s)
        PROVE  SeatsInvariant'
    <3>1. CASE \E u \in People : BeginInvite(s, u) \/ BeginAdd(s, u)
      BY <3>1, LockingStep DEF BeginInvite, BeginAdd, LockedOps
    <3>2. ASSUME NEW i \in Invites, BeginRevoke(s, i)
          PROVE  SeatsInvariant'
      <4>1. invite[i].email \in People
        BY DEF SeatsTypeOK, InviteRec
      <4> QED
        BY <3>2, <4>1, LockingStep DEF BeginRevoke, LockedOps
    <3>3. ASSUME NEW i \in Invites, BeginAccept(s, i)
          PROVE  SeatsInvariant'
      <4>1. invite[i].email \in People
        BY DEF SeatsTypeOK, InviteRec
      <4> DEFINE what == Request("found", "accept", invite[i].email, i)
      <4>2. what \in Sitting /\ what.pc = "found"
        BY <4>1 DEF Request, Sitting, LockedOps
      <4> HIDE DEF SeatsInvariant, what
      <4>3. Begin(s, what)
        BY <3>3 DEF BeginAccept, what
      <4> QED
        BY <4>2, <4>3, BeginningStep
    <3> QED
      BY <2>1, <3>1, <3>2, <3>3, LockingStep, CheckingStep, RollingBackStep, InvitingStep,
         AddingStep, AcceptingStep, RevokingStep
      DEF SeatTaking
  <2>2. ASSUME NEW s \in Sessions, WithoutLock(s)
        PROVE  SeatsInvariant'
    <3>1. ASSUME NEW u \in People, BeginChange(s, u)
          PROVE  SeatsInvariant'
      <4>1. PICK to \in {"ACTIVE", "SUSPENDED"} : Begin(s, [pc |-> "changing", who |-> u, to |-> to])
        BY <3>1 DEF BeginChange
      <4>2. [pc |-> "changing", who |-> u, to |-> to] \in Changing
        BY DEF Changing
      <4> QED
        BY <4>1, <4>2, BeginningStep
    <3>2. ASSUME NEW p \in Plans, BeginPurchase(s, p)
          PROVE  SeatsInvariant'
      <4>1. PICK cut \in SUBSET ActiveMembers : Begin(s, [pc |-> "buying", plan |-> p, cut |-> cut])
        BY <3>2 DEF BeginPurchase
      <4>2. [pc |-> "buying", plan |-> p, cut |-> cut] \in Buying
        BY DEF Buying, ActiveMembers
      <4> QED
        BY <4>1, <4>2, BeginningStep
    <3> QED
      BY <2>2, <3>1, <3>2, ChangingStep, PurchaseStep DEF WithoutLock
  <2>3. CASE UNCHANGED seatVars
    <3>1. /\ member' = member /\ account' = account /\ invite' = invite /\ plan' = plan
          /\ pilot' = pilot /\ causes' = causes /\ lock' = lock /\ session' = session
      BY <2>3 DEF seatVars
    <3>2. LockIsHeld'
      BY <3>1 DEF LockIsHeld
    <3> QED
      BY <3>1, <3>2, OnlySessions DEF SeatsTypeOK
  <2> QED
    BY <2>1, <2>2, <2>3, UnlockedStep, ProvisioningStep, ResendingStep DEF SeatsNext
<1> QED
  BY <1>1, SeatsInitially, PTL DEF SeatsSpec

\* The procedures that take the advisory lock never go past the seat limit; only
\* a change made without the lock can have caused it.
THEOREM OversubscriptionIsExplained == SeatsSpec => []OversubscriptionHasCause
<1>1. SeatsInvariant => OversubscriptionHasCause
  BY DEF SeatsInvariant
<1> QED
  BY <1>1, SeatsAreSound, PTL

\* As long as nothing worse than resending an expired invitation happened,
\* members stay within the limit: acceptance counts again.
THEOREM MembersFitLimit == SeatsSpec => []MembersWithinLimit
<1>1. SeatsInvariant => MembersWithinLimit
  BY DEF SeatsInvariant
<1> QED
  BY <1>1, SeatsAreSound, PTL

\* Two open invitations for one address come from a resend, never from two
\* invitations sent at the same time.
THEOREM DuplicatesAreExplained == SeatsSpec => []DuplicateNeedsResend
<1>1. SeatsInvariant => DuplicateNeedsResend
  BY DEF SeatsInvariant
<1> QED
  BY <1>1, SeatsAreSound, PTL

\* Nobody joins by an invitation that its organization revoked, however the
\* revocation and the acceptance interleave.
THEOREM RevocationsHold == SeatsSpec => []RevokedAdmitsNobody
<1>1. SeatsInvariant => RevokedAdmitsNobody
  BY DEF SeatsInvariant
<1> QED
  BY <1>1, SeatsAreSound, PTL
=============================================================================
