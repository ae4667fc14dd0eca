SPECIFICATION FairSpec
CONSTANTS
    r1 = r1
    N = 5
    Runs = {r1}
    TRIES = 2
    MaxFaults <- AllFaults
    MaxInAll = 3
INVARIANTS
    FindsTheRegression
    Logarithmic
    ReportIsSound
PROPERTIES
    EveryRunEnds
CHECK_DEADLOCK FALSE
