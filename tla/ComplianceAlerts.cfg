SPECIFICATION Spec
CONSTANTS
    Analyzers = {w1, w2}
    Reporters = {p1, p2}
    Resources = {r1}
    Verdicts <- MCVerdicts
    Remediable = TRUE
    Period = 2
    Timeout = 1
    MaxUpdates = 3
    MaxSuppress = 0
    MaxFailures = 1
    MaxReceives = 2
    MaxTime = 3
SYMMETRY WorkerSymmetry
INVARIANTS
    TypeOK
    AlertsSpaced
    RemediationsCovered
    FailingIsAlerted
    ForwardedPerFailure
CHECK_DEADLOCK FALSE
