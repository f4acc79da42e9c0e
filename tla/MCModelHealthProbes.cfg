\* Overlapping batches of two models, a budget of one request, two days.
SPECIFICATION Spec
CONSTANTS
    m1 = m1
    m2 = m2
    p1 = p1
    p2 = p2
    Model = {m1, m2}
    Provider = {p1}
    ProviderOf <- FirstProvider
    Budget <- OneProbe
    Configs <- OneConfig
    Threshold = 2
    MaxBackoff = 1
    Cooldown = 1
    Concurrency = 1
    DayLength = 1
    MaxTime = 1
    MaxMarks = 0
    MaxDiscoveries = 1
    MaxAdmin = 0
    MaxReloads = 0
    MaxRefreshes = 0
    MaxBatches = 1
INVARIANT BudgetPerRunner
CHECK_DEADLOCK FALSE
