\* Requests on the Polizas of two members meet each other, edits of coverage and
\* drafts of the plan's versions, and one row around them that changes.
CONSTANTS
    Requests = {r1, r2}
    Users = {admin}
    Superusers = {}
    m1 = m1
    m2 = m2
    Members = {m1, m2}
    Renewing = {m1, m2}
    plan1 = plan1
    v1 = v1
    v2 = v2
    v3 = v3
    Plans = {plan1}
    Versions = {v1, v2, v3}
    VersionTerms <- MCTerms
    Policies = {p1, p2, p3, p4}
    StartDates <- MCStarts
    ExplicitEnds = {}
    Starts <- MCHeld
    MaxYear = 2030
    MaxChanges = 1
    Ops = {"create", "renew", "transition", "add_beneficiary", "edit_coverage", "edit_draft"}
    None = None
SPECIFICATION Spec
SYMMETRY Interchangeable
INVARIANTS
    BackstopsStaySilent
    EligibilityWasSeen
    DeadlocksCrossOnePlan
    SomebodyGoesOn
PROPERTIES
    RenewalsAreCurrent
    ImplementsLifecycle
