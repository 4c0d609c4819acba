\* A grant is revoked, a reseller deactivated or a provider lost while a plan is
\* offered to other businesses or edited.
CONSTANTS
    Requests = {r1, r2}
    Users = {admin, operator}
    Superusers = {operator}
    norte = norte
    sur = sur
    Resellers = {norte, sur}
    b1 = b1
    b2 = b2
    Businesses = {b1, b2}
    plan1 = plan1
    Plans = {plan1}
    Owner <- MCOwner
    Home <- MCHome
    Offered <- MCOffered
    Choices <- MCChoices
    MaxChanges = 1
    Ops = {"set_availability", "edit_plan"}
    None = None
SPECIFICATION Spec
INVARIANTS
    RefusalsLeaveEvidence
