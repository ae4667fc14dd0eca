SPECIFICATION Spec
CONSTANTS
    k1 = k1
    k2 = k2
    r1 = r1
    r2 = r2
    Nothing = Nothing
    Requests = {r1}
    Keys = {k1, k2}
    KeyProject <- MCKeyProject
    DevProject = "dev"
    NilProject = "nil"
    Projects <- MCProjects
    JsonText <- MCJsonText
    TwoTo32 = 16
    IdLen = 2
    Ttl = 2
    RawSpans <- MCRawSpans
    Exports <- MCExports
    MaxSpans = 1
INVARIANTS
    StaleWithinTtl
    RowsAreInTheKeysProject
    SameAsBeforeTheNormalizer
    SameCallSameRow
    AttributesAreKeptOrShown
PROPERTIES
    ShutOutForGood
