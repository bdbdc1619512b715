CONSTANTS
    p1 = p1
    p2 = p2
    p3 = p3
    t1 = t1
    t2 = t2
    Procs = {p1, p2}
    Tokens = {t1, t2}
    Shapes <- Mixed
    None = None
    MaxRequests = 4
SPECIFICATION Spec
CHECK_DEADLOCK FALSE
SYMMETRY Symmetry
INVARIANTS
    TypeOK
    SuccessIsEarned
    SuspensionHasToken
PROPERTIES
    CancelStops
