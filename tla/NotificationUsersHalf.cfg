\* Two operators delete the same user; nothing fails.
CONSTANTS
    Users = {u1, u2}
    Adders = {}
    Deleters = {d1, d2}
    Cleaners = {c1}
    None = None
    MaxFaults = 0
SPECIFICATION Spec
INVARIANT
    UsersComplete
CHECK_DEADLOCK FALSE
