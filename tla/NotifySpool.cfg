\* Two events at a queue limit of one, two workers, retries up to the expiry,
\* one fault.
CONSTANTS
    Msgs = {m1, m2}
    Workers = {w1, w2}
    Topics = {t1}
    NoTopic = NoTopic
    None = None
    MaxQueued = 1
    MaxMailProgs = 2
    MaxPerRun = 1
    TTL = 3
    BaseDelay = 1
    MaxDelay = 4
    MaxDoublings = 3
    LastEvent = 0
    MaxTime = 4
    MaxFaults = 1
SPECIFICATION FairSpec
INVARIANTS
    TypeOK
    NoSilentLoss
    DuplicatesExcused
    AttemptsBounded
PROPERTIES
    DeliverySpec
    EveryMessageLeaves
