\* Operations faster than the lock, Redis reliable.
CONSTANTS
    q1 = q1
    q2 = q2
    q3 = q3
    q4 = q4
    p1 = p1
    Requests = {q1, q2, q3, q4}
    Procs = {p1}
    Free = Free
    Failing = {}
    MaxFaults = 0
    LockHolds = TRUE
SPECIFICATION Spec
CHECK_DEADLOCK FALSE
SYMMETRY Symmetry
PROPERTIES
    NoGrantAfterCancel
    IsWriteToken
