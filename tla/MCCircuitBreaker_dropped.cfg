SPECIFICATION FairSpec
CONSTANTS
    c1 = c1
    c2 = c2
    NoOne = NoOne
    Callers = {c1, c2}
    Wrapped = {}
    Cancellable = {c1}
    Prompt = TRUE
    MinCalls = 2
    WindowSize = 4
    Kinds = {"error"}
    Threshold <- HalfOfCalls
    CountBound = 2
PROPERTIES
    RecoversWithRedis
