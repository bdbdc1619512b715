\* Executions that may outlast the in-flight timeout; safety and liveness.
CONSTANTS
    c1 = c1
    c2 = c2
    c3 = c3
    k1 = k1
    Calls = {c1, c2, c3}
    Keys = {k1}
    BadKey = BadKey
    None = None
    MaxRows = 1
    MaxFaults = 1
    Prompt = FALSE
SPECIFICATION FairSpec
INVARIANTS
    DoubleClaimNeedsTimeOut
PROPERTIES
    SuccessLostOnlyLate
    ClaimsEnd
