SPECIFICATION AllSpec
CONSTANTS
    Clients = {c1, c2}
    Keys = {x1, x2}
    TTL = 2
    MaxTime = 4
    MaxRequests = 4
    MaxFaults = 1
    Writers = {w1, w2, w3}
SYMMETRY Symmetry
INVARIANTS
    ReplaysAreGenuine
    WalkIsExact
    
    AnswerIsChoice
CHECK_DEADLOCK FALSE
