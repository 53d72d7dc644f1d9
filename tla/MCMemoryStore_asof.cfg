SPECIFICATION Spec
CONSTANTS
    Paths = {p1}
    Writers = {w1, w2, w3}
    MaxAttempts = 3
    Expiries <- MCNoExpiry
    MaxAge <- MCNoMaxAge
    Retention = 2
    Keeps = {1}
    MaxClock = 2
INVARIANT AsOfIsUnique
CHECK_DEADLOCK FALSE
