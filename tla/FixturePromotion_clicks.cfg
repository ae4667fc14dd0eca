SPECIFICATION Spec
CONSTANTS
    c1 = c1
    c2 = c2
    t1 = t1
    t2 = t2
    rA = rA
    sA = sA
    Nobody = Nobody
    Clicks = {c1, c2}
    Tabs = {t1}
    RunOf <- MCRunOf
    SlugOf <- MCSlugOf
    MaxEdits = 1
    MaxWrites = 2
    MaxFaults <- AllFaults
SYMMETRY Symmetry
INVARIANTS
    SequentialClicksShare
    StoredEditsStay
    WrittenHasInvariants
    ReadyIsOnDisk
    WrittenIsNotStale
CHECK_DEADLOCK FALSE
