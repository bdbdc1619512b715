CONSTANTS
    r1 = r1
    r2 = r2
    o1 = o1
    o2 = o2
    o3 = o3
    Runners = {r1, r2}
    Objects = {o1, o2, o3}
    Last = 2
    Shapes <- Small
    MaxSteps = 3
    MaxReviews = 2
    MaxTokens = 2
    MaxRequests = 3
    MaxFaults = 1
    None = None
SPECIFICATION FairSpec
CHECK_DEADLOCK FALSE
INVARIANTS
    TypeOK
    DoneWasConfirmed
    ReviewedFirst
    WrittenOncePerStart
PROPERTIES
    RequestsEnd
