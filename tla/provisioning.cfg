\* Overlapping commands on one server while a test run creates or drops a
\* database next to the application's.
CONSTANTS
    Runs = {r1, r2}
    crm = crm
    test_postgres = test_postgres
    Others = {test_postgres, crm}
    Tolerated = {test_postgres}
    s1 = s1
    s2 = s2
    Secrets = {s1, s2}
    Urls = {s1, s2, None}
    Starts <- MCStarts
    MaxChanges = 2
    None = None
SPECIFICATION FairSpec
INVARIANTS
    SuccessIsLasting
    AdminKeepsConnect
    ErrorsAreExplained
    RefusalsAreExplained
PROPERTIES
    EveryRunEnds
