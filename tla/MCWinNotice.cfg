CONSTANTS
    w1 = w1
    w2 = w2
    h1 = h1
    h2 = h2
    k1 = k1
    Wins = {w1, w2}
    Anonymous = {w2}
    Exchange <- MCExchange
    Secrets = {"keyed"}
    HasDefault = FALSE
    Handlers = {h1, h2}
    Workers = {k1}
    QueueCap = 1
    MaxNotices <- MCNotices
    MaxAttempts = 2
    MaxLives = 2
    MaxCrashes = 1
    Faults = {"gone", "eval", "redis"}
SPECIFICATION FairSpec
INVARIANTS
    NeverOvercounted
    DuplicateExplained
PROPERTIES
    AtMostOnce
    RecorderDrains
CHECK_DEADLOCK FALSE
