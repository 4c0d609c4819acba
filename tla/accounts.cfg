\* Codes of every purpose, issued and used for two accounts, and the operator's
\* page.
CONSTANTS
    Requests = {r1, r2}
    ours = ours
    theirs = theirs
    fresh = fresh
    u1 = u1
    u2 = u2
    p1 = p1
    p2 = p2
    Users = {u1, u2}
    Emails = {ours, theirs, fresh}
    Proofs = {p1, p2}
    Starts <- MCStarts
    Ops = {"issue_activation", "request_password_reset", "request_email_change", "activate_account", "reset_password", "confirm_email_change", "operator_save"}
    None = None
SPECIFICATION FairSpec
INVARIANTS
    OlderProofsDie
    DeadlocksAreSiblings
PROPERTIES
    OldAddressNotified
    ImplementsLedger
    EveryRequestAnswered
