SPECIFICATION AllSpec
CONSTANTS
    Requests = {"r1", "r2"}
    Arrivals <- DoorArrivals
    Tenants = {"a", "b"}
    Keys <- DoorKeys
    Tokens <- DoorTokens
    OIDC = TRUE
    Conns = {a1, a2}
    Securities = {"bypassed", "forced"}
    MaxFaults = 1
    None = None
    Pair = {a1, a2}
    Two = {x1, x2}
    Trio = {r1, r2, r3}
    RPM = 180
    WindowSecs = 1
    MaxPerWindow = 2
    Window = 4
    MaxDelay = 1
    MaxTime = 7
    MaxRequests = 5
    MaxOutages = 1
    MaxFailures = 2
    HalfOpenMax = 1
    Base = 4
    MaxOpen = 12
    MaxOpenGen = 3
    MaxProposals = 3
    MaxReviews = 4
    MaxKeys = 3
    Grace = 2
    Lifetime = 2
    Asked <- NeverAsked
    SessionIds = {"s1"}
    Suffixes = {x1, x2}
    Promoters = {a1, a2}
    Storers = {"w1"}
    Started = {}
    Stored = {}
    NoSession = "none"
    SessionRows = 3
SYMMETRY Symmetry
INVARIANTS
    RolesAreEnforced
    
    
    AtMostLimit
    RotationIsSeamless
    PromotionIsExact
    
PROPERTIES
    
    ProposalsAreSound
CHECK_DEADLOCK FALSE
