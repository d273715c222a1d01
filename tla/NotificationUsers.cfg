\* One user, an add, two operators who delete and two who clean up, two failures.
CONSTANTS
    Users = {u1}
    Adders = {a1}
    Deleters = {d1, d2}
    Cleaners = {c1, c2}
    None = None
    MaxFaults = 2
SPECIFICATION FairSpec
INVARIANTS
    TypeOK
    RoutedTopicsExist
    NoTopicForgotten
PROPERTY
    JournalEmpties
CHECK_DEADLOCK FALSE
