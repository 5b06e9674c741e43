CONSTANTS
    Users = {"u1"}
    r1 = r1
    r2 = r2
    Requests = {r1, r2}
    Warmup = Warmup
    Lists = {"segments"}
    Nobody = Nobody
    WarmUsers <- MCWarmUsers
    Batch = 1
    Limits = {1, 2}
    Tries = 2
    Tests = 2
    MaxFailures = 1
SPECIFICATION Spec
CHECK_DEADLOCK FALSE
INVARIANTS
    OneFetchPerUser
    ReadyIsEarned
    CleanExitDrained
PROPERTIES
    EveryRequestAnswered
    SigtermEnds
    SegmentsConverge
