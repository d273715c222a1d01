\* Pools and Compute Clusters of up to three nodes, runs that add one node, two failures.
CONSTANTS
    Nodes = {1, 2, 3}
    None = 0
    MaxAdd = 1
    MaxFaults = 2
SPECIFICATION FairSpec
INVARIANTS
    TypeOK
    RemovalRemembered
    LaunchesUndone
PROPERTIES
    ForgottenWhenDone
    RemovalsComplete
