\* Three intervals of real time, a clock set back by more than an interval.
CONSTANTS
    Interval = 3
    MaxAttempts = 2
    NoTime = NoTime
    MaxSeconds = 9
    MaxBack = 4
SPECIFICATION PacingSpec
INVARIANTS
    PacingTypeOK
    AttemptsPaced
