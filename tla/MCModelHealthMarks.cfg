\* Marks, a discovery and an admin refresh beside the periodic one; a lagging writer.
SPECIFICATION Spec
CONSTANTS
    m1 = m1
    m2 = m2
    p1 = p1
    p2 = p2
    Model = {m1}
    Provider = {p1, p2}
    ProviderOf <- FirstProvider
    Budget <- OneProbe
    Configs <- TwoConfigs
    Threshold = 2
    MaxBackoff = 2
    Cooldown = 1
    Concurrency = 1
    DayLength = 1
    MaxTime = 0
    MaxMarks = 1
    MaxDiscoveries = 1
    MaxAdmin = 0
    MaxReloads = 0
    MaxRefreshes = 1
    MaxBatches = 0
INVARIANTS MarksInv RegistrySettles
CHECK_DEADLOCK FALSE
