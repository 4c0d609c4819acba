\* A plan's availability and price are set while its businesses move to another
\* reseller, are deactivated, deleted and restored.
CONSTANTS
    Requests = {r1, r2}
    Users = {admin, operator}
    Superusers = {operator}
    norte = norte
    sur = sur
    Resellers = {norte, sur}
    b1 = b1
    b2 = b2
    Businesses = {b1, b2}
    plan1 = plan1
    Plans = {plan1}
    Owner <- MCOwner
    Home <- MCHome
    Offered <- MCOffered
    Choices <- MCChoices
    MaxChanges = 1
    Ops = {"set_availability", "edit_plan", "save_business", "delete_business"}
    None = None
SPECIFICATION FairSpec
INVARIANTS
    AvailabilityIsOneRequests
    EveryChoiceExplained
    EvidenceMatchesOutcome
PROPERTIES
    MovesStrandNothing
    EveryRequestAnswered
