CONSTANTS
    a = a
    b = b
    r1 = r1
    r2 = r2
    r3 = r3
    i1 = i1
    i2 = i2
    Letters = {a}
    Processes = {i1, i2}
    Rounds = {r1, r2, r3}
    Home <- Overlapping
    MaxAttempts = 2
    Batch = 1
    MaxLen = 1
    MaxFaults = 1
    None = None
SPECIFICATION Spec
INVARIANTS
    LeavesSettled
    RowsExplained
