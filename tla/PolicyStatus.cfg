SPECIFICATION FairSpec
CONSTANTS
    Analyzers = {w1}
    TypeOf <- MCTypeOf
    Patterns <- MCPatterns
    Matches <- MCMatches
    PathMatches <- MCPathMatches
    Versions <- MCVersions
    MaxCalls = 2
    MaxFaults = 1
INVARIANTS
    TypeOK
    StatusAtRest
PROPERTY StatusConverges
CHECK_DEADLOCK FALSE
