------------------------ MODULE MCOrganizationSeats ------------------------
(* An organization that has one or two seats by its plan, three on a pilot.     *)
EXTENDS OrganizationSeatsProperties, TLC

CONSTANTS owner, starter, growth, ada, ben

MCPlanSeats  == [p \in Plans |-> IF p = growth THEN 2 ELSE 1]
MCSymmetry  == Permutations(Sessions) \cup Permutations(Invites)
=============================================================================
