CONSTANTS
    p1 = p1
    p2 = p2
    Publishers = {p1}
    BasePolicy = "IncidentMode"
    Capacity = 1
    Denominator = 2
    Dwell = 2
    Threshold = 1
    MaxPerTick = 3
    CanWedge = FALSE
SPECIFICATION FairSpec
PROPERTIES
    RevertsWithBroker
