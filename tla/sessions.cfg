\* One account with a session, or one to be activated; every kind of request.
CONSTANTS
    Requests = {r1, r2, r3}
    k0 = k0
    k1 = k1
    k2 = k2
    Keys = {k0, k1, k2}
    Early = {k0}
    Ops = {"login", "activate", "browse", "logout", "leave", "confirm", "reset"}
    None = None
SPECIFICATION Spec
SYMMETRY Interchangeable
INVARIANTS
    SignedInWithThePassword
    InvalidatedStayOut
    SurvivorsLostTheirTrack
