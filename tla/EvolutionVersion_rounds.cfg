CONSTANTS
    c1 = c1
    c2 = c2
    Clients = {c1, c2}
    MaxVersions = 2
    MaxLost = 1
    Accuracies = {0, 100}
    Batch = 2
    Cap = 1
    None = None
SPECIFICATION Spec
SYMMETRY Symmetry
INVARIANTS
    TypeOK
    OneActive
    CapKept
