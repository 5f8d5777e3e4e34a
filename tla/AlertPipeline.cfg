CONSTANTS
    w1 = w1
    m1 = m1
    m2 = m2
    k1 = k1
    t1 = t1
    Workers = {w1}
    Messages = {m1, m2}
    Keys = {k1}
    LogTypes = {t1}
    Matches <- MCMatches
    Period = 0
    MaxInMemory = 2
    MaxReceives = 2
    MaxTime = 1
    BatchSize = 2
    MaxFailures = 1
SPECIFICATION PipelineSpec
INVARIANTS
    AlertTableCatchesUp
    NotificationsMatchAlerts
PROPERTIES PipelineSettles
CHECK_DEADLOCK FALSE
