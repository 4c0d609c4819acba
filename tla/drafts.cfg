\* Two administrators and the platform operator draft, edit, publish and edit
\* coverage while one row around them changes.
CONSTANTS
    Requests = {r1, r2, r3}
    Users = {author, reviewer, operator}
    Superusers = {operator}
    Plans = {plan}
    VersionIds = {v1, v2}
    Contents = {t1}
    MaxServices = 1
    MaxChanges = 1
    Ops = {"create_draft", "edit_draft", "publish", "coverage"}
    None = None
SPECIFICATION Spec
SYMMETRY Interchangeable
INVARIANTS
    TwoPersonPublication
    EvidenceMatchesOutcome
    DraftsSawLiveScope
    NotesReachTheirService
    DeadlocksNeedCoverage
    SomebodyGoesOn
PROPERTIES
    ImplementsLedger
