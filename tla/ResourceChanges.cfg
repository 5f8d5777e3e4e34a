SPECIFICATION FairSpec
CONSTANTS
    Containers = {c1}
    Pollers = {p1}
    MaxChanges = 3
    MaxBatch = 2
    MaxScans = 1
    MaxFaults = 1
INVARIANTS TypeOK TableMatches
PROPERTIES ScansRepair
CHECK_DEADLOCK FALSE
