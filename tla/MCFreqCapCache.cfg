CONSTANTS
    k1 = k1
    k2 = k2
    Campaigns = {1}
    Checkers = {k1, k2}
    Cap <- LooseHour
    WriteBuffer = 1
    RecorderQueue = 1
    Ceiling = 2
    Faults = {"redis", "resend", "expire"}
SPECIFICATION FairSpec
INVARIANTS
    CountsExplained
PROPERTIES
    WarmCountsGrow
    CapEventuallyHolds
