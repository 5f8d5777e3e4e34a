SPECIFICATION FairSpec
CONSTANTS
    a1 = a1
    a2 = a2
    l1 = l1
    l2 = l2
    Callers = {c1, c2}
    Accounts = {a1, a2}
    Labels = {l1, l2}
    Sources <- MCSources
    Renames = {l1}
    MaxIds = 2
INVARIANTS PermissionMatches SourcesAreDistinct
PROPERTIES ScansRecur
CHECK_DEADLOCK FALSE
