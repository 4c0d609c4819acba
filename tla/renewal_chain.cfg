\* Chains of up to 40 months with terms of one, two, twelve and thirteen months.
CONSTANTS
    MaxYear = 2102
    FirstStarts <- MCStarts
    Durations = {1, 2, 12, 13}
    MaxMonths = 40
SPECIFICATION ChainSpec
INVARIANTS
    MatchesStepping
    DriftIsBounded
CHECK_DEADLOCK FALSE
