SPECIFICATION FairSpec
CONSTANTS
    Calls = {c1, c2, c3}
    Stamps = {s1, s2, s3, s4, s5}
    Threshold = 2
    Window = 3
    Cooldown = 2
    Never = Never
INVARIANT BreakerTypeOK
INVARIANT CutOffIsJustified
INVARIANT StampsAreBounded
PROPERTY CooldownIsKept
PROPERTY TriedAgain
