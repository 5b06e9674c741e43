SPECIFICATION Spec
CONSTANTS
    r1 = r1
    r2 = r2
    Requests = {r1, r2}
    Imps = {1, 2}
    Campaigns = {1, 2}
    Price <- MCPrice
    DailyBudget <- MCDailyBudget
    TopK = 2
    Droppable = {r1}
    MaxReloads = 1
INVARIANTS
    OneBidOvershoot
    SettledReservations
    HandlerSeesOutcome
    BoundedDip
    LeaksExplained
PROPERTIES
    AtomicBudget
CHECK_DEADLOCK FALSE
