SPECIFICATION AllSpec
CONSTANTS
    Tenants = {t1}
    Writers = {w1, w2}
    Readers = {v1}
    Bodies = {b1, b2}
    BatchSize = 2
    Maintenance = TRUE
    MaxRows = 3
    ExportArgs <- Exports
    Erasers = {w1, w2}
    Derivers = {d1}
    Kinds <- DerivedKinds
    ByPath = {"links"}
    MaxMemories = 2
    MaxDerived = 2
    MaxErasures = 2
    Labels = {"k1", "k2"}
    Memories = {"m1", "m2"}
    Slots = {"s1", "s2"}
    Nullable = {"s2"}
    AliasTable = {"s1"}
    Answers <- Extracted
    Callers = {w1, w2}
    None = None
    MaxCalls = 3
    MaxProposals = 1
    MaxFaults = 1
SYMMETRY Symmetry
INVARIANTS
    ChainIntact
    ReadsAreComplete
    VerdictIsRight
    
    
CHECK_DEADLOCK FALSE
