SPECIFICATION Spec
CONSTANTS
    Null = Null
    f1 = f1
    f2 = f2
    BeforeKickoff = 1
    AfterKickoff = 7
    CatchUp = 1
    Events = {1, 2}
    Fixtures = {f1, f2}
    Dates <- ThreeDates
    Kickoffs = {3, 11}
    RefreshEvery = 2
    MaxMoves = 1
    MaxFaults = 1
    MaxClock = 17
SYMMETRY FixtureSymmetry
CHECK_DEADLOCK FALSE
INVARIANTS WindowsAreMerged MatchesArePolled
PROPERTIES Reconciled
