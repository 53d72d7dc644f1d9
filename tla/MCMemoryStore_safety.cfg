SPECIFICATION Spec
CONSTANTS
    Paths = {p1}
    Writers = {w1, w2, w3}
    MaxAttempts = 3
    Expiries <- MCExpiries
    MaxAge <- MCMaxAge
    Retention = 0
    Keeps = {1}
    MaxClock = 1
SYMMETRY Symmetry
INVARIANTS
    SingleOpenVersion
    
PROPERTIES
    StoreIsAtomic
    AppendOnly
CHECK_DEADLOCK FALSE
