\* Three models, one probe a run and cooldowns of one interval, so that models
\* leave their cooldowns faster than they can be probed.
SPECIFICATION Spec
CONSTANTS
    m1 = m1
    m2 = m2
    m3 = m3
    Null = Null
    Table <- MCTable
    Row <- MCRow
    FreeName <- MCFreeName
    Request <- MCRequest
    Traffic <- MCTraffic
    Optional = {m1}
    Fallback = m3
    StartupProbes = 1
    MaxProbes = 1
    TopStale = 2
    StaleAfter = 0
    Threshold = 1
    Cooldown = 1
    MaxBackoff = 0
    Probeable = {m1, m2, m3}
    Reloaded = {m1}
INVARIANTS RoutingInv BetterFirst ProbesInTurn
PROPERTIES ExpiredIsProbed
