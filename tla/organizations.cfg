\* A reseller's administrator and the operator work on a business, its contract,
\* its grants and the name of a second business.
CONSTANTS
    Requests = {r1, r2, r3}
    Users = {admin}
    Operators = {operator}
    Assignments = {a1, a2, a3}
    Texts = {t1, t2, t3}
    Edits = {t2}
    OtherKind <- MCOthers
    Forms <- MCForms
    Starts <- MCStarts
    Ops = {"edit_business", "edit_contract", "create_contract", "deactivate_contract", "add_contract", "save", "delete", "grant", "revoke"}
    None = None
SPECIFICATION Spec
SYMMETRY Interchangeable
INVARIANTS
    RepeatsOverlapped
    ErrorsAreContested
PROPERTIES
    EvidenceNamesChanges
    PortfolioActsInScope
