\* A discovery, an admin toggle and a stored change against the periodic refresh.
SPECIFICATION FairSpec
CONSTANTS
    m1 = m1
    m2 = m2
    p1 = p1
    p2 = p2
    Model = {m1}
    Provider = {p1, p2}
    ProviderOf <- FirstProvider
    Budget <- OneProbe
    Configs <- TwoConfigs
    Threshold = 2
    MaxBackoff = 1
    Cooldown = 1
    Concurrency = 1
    DayLength = 1
    MaxTime = 0
    MaxMarks = 0
    MaxDiscoveries = 1
    MaxAdmin = 1
    MaxReloads = 1
    MaxRefreshes = 0
    MaxBatches = 0
PROPERTY GatedEventually
CHECK_DEADLOCK FALSE
