\* A business moves to another reseller while a plan selects it.
CONSTANTS
    Requests = {r1, r2}
    Users = {admin, operator}
    Superusers = {operator}
    norte = norte
    sur = sur
    Resellers = {norte, sur}
    b1 = b1
    b2 = b2
    Businesses = {b1, b2}
    plan1 = plan1
    Plans = {plan1}
    Owner <- MCOwner
    Home <- MCHome
    Offered <- MCOffered
    Choices <- MCChoices
    MaxChanges = 0
    Ops = {"set_availability", "save_business"}
    None = None
SPECIFICATION Spec
INVARIANTS
    SelectedWithinReseller
