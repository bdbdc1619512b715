\* Redis statements fail, processes lose Redis or restart.
CONSTANTS
    q1 = q1
    q2 = q2
    q3 = q3
    p1 = p1
    p2 = p2
    Requests = {q1, q2, q3}
    Procs = {p1, p2}
    Free = Free
    Failing = {"lock", "read", "write", "release", "connection", "process"}
    MaxFaults = 2
    LockHolds = TRUE
SPECIFICATION Spec
CHECK_DEADLOCK FALSE
SYMMETRY Symmetry
INVARIANTS
    TypeOK
    LockExcludes
    FaultsAreBounded
