CONSTANTS
    a = a
    b = b
    Jobs = {a, b}
    NumNodes <- MCNumNodes
    MaxNodes = 2
    MaxSize = 2
    MaxClusters = 2
    MaxFaults = 1
SPECIFICATION FairSpec
INVARIANTS
    TypeOK
    LimitsKept
    NamesUnique
    JobsLostUnseenOnly
PROPERTIES
    JobsServed
CHECK_DEADLOCK FALSE
