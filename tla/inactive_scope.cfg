\* A coverage edit runs after the provider was deactivated.
CONSTANTS
    Requests = {r1, r2}
    Users = {author, operator}
    Superusers = {operator}
    Plans = {plan}
    VersionIds = {v1}
    Contents = {t1}
    MaxServices = 1
    MaxChanges = 1
    Ops = {"create_draft", "coverage"}
    None = None
SPECIFICATION Spec
INVARIANTS
    LiveScopeForEveryMutation
