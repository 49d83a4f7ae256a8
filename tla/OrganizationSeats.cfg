SPECIFICATION SeatsSpec
CONSTANTS
  owner = owner
  starter = starter
  growth = growth
  ada = ada
  ben = ben
  People = {owner, ada, ben}
  Owner = owner
  Registered = {owner, ada}
  Invites = {i1, i2}
  Sessions = {s1, s2}
  NoSession = NoSession
  NoInvite = NoInvite
  Plans = {starter, growth}
  TeamPlans = {growth}
  PlanSeats <- MCPlanSeats
  PilotSeats = 3
SYMMETRY MCSymmetry
INVARIANTS
  SeatsInvariant
  OversubscriptionHasCause
  MembersWithinLimit
  DuplicateNeedsResend
  RevokedAdmitsNobody
