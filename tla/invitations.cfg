\* Three invitations of two members with one address, and two changes by others.
CONSTANTS
    Requests = {r1, r2, r3}
    Members = {m1, m2}
    Accounts = {a1, a2, a3}
    Emails = {e1, e2}
    MaxChanges = 2
    Starts <- MCStarts
    None = None
SPECIFICATION Spec
SYMMETRY Interchangeable
INVARIANTS
    InvitedOnce
    MailedCodesAreStored
    InvitedHaveACode
