SPECIFICATION FairSpec
CONSTANTS
    Containers = {c1}
    Alerts = {a1, bad}
    Invalid = {bad}
    Outputs = {o1}
    DefaultOutputs = {o1}
    OutputIDs <- MCOwn
    RetryDuration = 0
    MinDelay = 1
    MaxDelay = 3
    RefreshInterval = 1
    Timeout = 1
    BatchSize = 2
    MaxReceives = 2
    MaxChanges = 0
    MaxTime = 3
PROPERTY
    MessagesSettle
CHECK_DEADLOCK FALSE
