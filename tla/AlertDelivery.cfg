SPECIFICATION Spec
CONSTANTS
    Containers = {c1, c2}
    Alerts = {a1}
    Invalid = {}
    Outputs = {o1, o2}
    DefaultOutputs = {o1, o2}
    OutputIDs <- MCNone
    RetryDuration = 1
    MinDelay = 1
    MaxDelay = 2
    RefreshInterval = 1
    Timeout = 1
    BatchSize = 1
    MaxReceives = 2
    MaxChanges = 1
    MaxTime = 3
INVARIANTS
    TypeOK
    RetriesKept
    DeliveredOnce
    DeletedOutputsExpire
CHECK_DEADLOCK FALSE
