SPECIFICATION MCSpec
CONSTANTS
    jCi = jCi
    jBisect = jBisect
    w1 = w1
    None = None
    Jobs = {jCi, jBisect}
    Workers = {w1}
    Kind <- MCKind
    MaxFaults <- WorkerFaults
    MaxInAll = 1
    N = 3
    TRIES = 2
    Good <- MCGood
    MaxTreeFaults <- TreeFaults
    MaxTreeInAll = 1
INVARIANTS
    RowIsSound
    TreeComesBack
