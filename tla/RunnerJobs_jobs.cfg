SPECIFICATION FairSpec
CONSTANTS
    jCi = jCi
    jBisect = jBisect
    w1 = w1
    w2 = w2
    None = None
    Jobs = {jCi, jBisect}
    Workers = {w1, w2}
    Kind <- MCKind
    MaxFaults <- WorkerFaults
    MaxInAll = 2
INVARIANTS
    StuckNeedsTwoCrashes
PROPERTIES
    SettledChangesAfterStallOnly
    EveryJobSettles
    LiveRunnerIsSeen
