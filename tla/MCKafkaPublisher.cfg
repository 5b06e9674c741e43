CONSTANTS
    p1 = p1
    p2 = p2
    Publishers = {p1, p2}
    BasePolicy = "IncidentMode"
    Capacity = 1
    Denominator = 3
    Dwell = 3
    Threshold = 1
    MaxPerTick = 3
    CanWedge = TRUE
SPECIFICATION FairSpec
INVARIANTS
    CountedOnce
PROPERTIES
    FlipsAreSustained
    OutageIsSampled
    DropWaitsForPoll
