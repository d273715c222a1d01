\* A creation that deletes as well, a deletion, two resizes, a name used twice:
\* for a Compute Cluster and then for a pool.
CONSTANTS
    Creators = {c1}
    Destroyers = {d1}
    Resizers = {r1, r2}
    None = None
    ComputeGens = {1}
    MaxGen = 2
    MaxADs = 2
    MaxTries = 2
    MaxKills = 1
SPECIFICATION FairSpec
INVARIANTS
    TypeOK
    ResizeExcludesDestroy
    NoOrphans
    MarkerHasOwner
PROPERTIES
    MarkerCleared
CHECK_DEADLOCK FALSE
