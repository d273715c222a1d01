\* A table of two fields, a limit that some tables meet whole, some cut and some
\* not at all, and three MailProg processes at a queue limit of two.
CONSTANTS
    Subjects <- MCSubjects
    Values <- MCValues
    Fields <- MCFields
    MaxJson = 6
    Width = 3
    LineChars = 1
    HeadChars = 1
    SuffixChars = 1
    DefaultTitle = 1
    MaxTitle = 4
    Limit = 36
    MaxQueued = 2
    MaxMailProgs = 3
SPECIFICATION FairSpec
INVARIANTS
    TypeOK
    QueueBounded
    QueuedIsValid
    TellsAll
PROPERTIES
    MailProgEnds
CHECK_DEADLOCK FALSE
