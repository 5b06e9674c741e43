CONSTANTS
    Scorers = {1}
    PoolSize = 2
    MaxStamp = 3
    MaxEvents = 2
    r1 = r1
    Requests = {r1}
    Configs <- MCConfigs
    Users <- MCUsers
    Anonymous = Anonymous
    Candidates = {1, 2, 3}
    Asked <- MCAsked
    FwScore <- MCFwScore
    MlScore <- MCMlScore
    MaxBatch = 2
SPECIFICATION Spec
CHECK_DEADLOCK FALSE
INVARIANTS
    NoPartialScore
    CascadeAdvancesBest
    ReloadNeverLost
PROPERTIES
    ModelConverges
