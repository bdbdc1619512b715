CONSTANTS
    a = a
    b = b
    r1 = r1
    r2 = r2
    r3 = r3
    i1 = i1
    i2 = i2
    Letters = {a, b}
    Processes = {i1}
    Rounds = {r1}
    Home <- Alone
    MaxAttempts = 2
    Batch = 1
    MaxLen = 1
    MaxFaults = 1
    None = None
SPECIFICATION FairSpec
INVARIANTS
    TypeOK
PROPERTIES
    QueuedSettles
