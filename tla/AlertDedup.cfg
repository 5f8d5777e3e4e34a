CONSTANTS
    w1 = w1
    w2 = w2
    m1 = m1
    m2 = m2
    k1 = k1
    t1 = t1
    t2 = t2
    Workers = {w1, w2}
    Messages = {m1, m2}
    Keys = {k1}
    LogTypes = {t1, t2}
    Matches <- MCMatches
    Period = 1
    MaxInMemory = 2
    MaxReceives = 2
    MaxTime = 3
SPECIFICATION Spec
INVARIANTS
    AlertSpacing
    StoredIsCounted
    FinishedIsStored
    CountsExact
SYMMETRY WorkerSymmetry
CHECK_DEADLOCK FALSE
