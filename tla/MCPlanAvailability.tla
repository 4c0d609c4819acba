------------------------ MODULE MCPlanAvailability ------------------------
(* Instances of PlanAvailability for TLC. *)
EXTENDS PlanAvailability, TLC

CONSTANTS plan1, b1, b2, norte, sur

MCOwner == plan1 :> norte

MCHome == (b1 :> norte) @@ (b2 :> norte)

MCOffered == {{}, {b2}}

MCChoices == {{b1}, {b1, b2}}
=============================================================================
