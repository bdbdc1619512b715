\* Three calls, two keys, executions that end before the in-flight timeout.
CONSTANTS
    c1 = c1
    c2 = c2
    c3 = c3
    k1 = k1
    k2 = k2
    Calls = {c1, c2, c3}
    Keys = {k1, k2}
    BadKey = BadKey
    None = None
    MaxRows = 2
    MaxFaults = 1
    Prompt = TRUE
SPECIFICATION Spec
SYMMETRY Symmetry
INVARIANTS
    TypeOK
    OneClaimPerRow
    SecondWriteExplained
    ReplayIsGenuine
