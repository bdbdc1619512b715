CONSTANTS
    s1 = s1
    s2 = s2
    s3 = s3
    p1 = p1
    p2 = p2
    Saves = {s1, s2, s3}
    Procs = {p1, p2}
    MaxRounds = 2
    MaxRetries = 1
    MaxFaults = 2
SPECIFICATION Spec
CHECK_DEADLOCK FALSE
SYMMETRY Symmetry
INVARIANTS
    TypeOK
    RoundsKept
