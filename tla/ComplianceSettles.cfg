SPECIFICATION FairSpec
CONSTANTS
    Analyzers = {w1}
    Reporters = {p1}
    Resources = {r1, r2}
    Verdicts <- MCAllVerdicts
    Remediable = FALSE
    Period = 0
    Timeout = 1
    MaxUpdates = 1
    MaxSuppress = 1
    MaxFailures = 1
    MaxReceives = 2
    MaxTime = 1
PROPERTY
    EverythingSettles
CHECK_DEADLOCK FALSE
