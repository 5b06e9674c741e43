CONSTANTS
    c1 = c1
    c2 = c2
    c3 = c3
    Callers = {c1, c2, c3}
    Cancellable = {c1, c2, c3}
    Nominal = 5
    ShedLow = 20
    ShedHigh = 50
    MaxRequests = 2
SPECIFICATION HedgeSpec
SYMMETRY CallersAlike
INVARIANTS
    HedgeTypeOK
    HedgesBounded
    OvershootIsMissed
