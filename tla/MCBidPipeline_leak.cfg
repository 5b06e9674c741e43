SPECIFICATION Spec
CONSTANTS
    r1 = r1
    r2 = r2
    Requests = {r1, r2}
    Imps = {1}
    Campaigns = {1, 2}
    Price <- MCPrice
    DailyBudget <- MCDailyBudget
    TopK = 2
    Droppable = {r1}
    MaxReloads = 0
INVARIANTS
    CountersReflectSpend
CHECK_DEADLOCK FALSE
