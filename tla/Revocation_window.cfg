CONSTANTS
    t1 = t1
    t2 = t2
    c1 = c1
    c2 = c2
    v1 = v1
    v2 = v2
    k1 = k1
    k2 = k2
    Tokens = {t1, t2}
    Confirms = {c1, c2}
    Revokers = {v1, v2}
    Keys = {k1, k2}
    Guided = {k2}
    None = None
    MaxFaults = 1
SPECIFICATION FairSpec
CHECK_DEADLOCK FALSE
INVARIANTS
    TypeOK
    NoDeadEnd
    RevokedIsCancelled
    OfferExplained
PROPERTIES
    EntriesLeave
