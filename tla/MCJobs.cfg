SPECIFICATION AllSpec
CONSTANTS
    Prefixes = {"top", "sub"}
    Under <- Tree
    Jobs = {j1, j2, j3}
    Concurrency = 2
    BatchSize = 2
    Fallback = "sub"
    MaxMemories = 2
    MaxTriggers = 3
    Policies = {"wide", "narrow"}
    PolicyPrefix <- PrefixOf
    CountThreshold <- Thresholds
    AgePolicies = {"wide"}
    Evals = {a1, a2}
    MaxEvals = 2
    MaxPatches = 1
    Pair = {a1, a2}
SYMMETRY Symmetry
INVARIANTS
    VersionsAreDense
    EntriesAreSettled
    

    
CHECK_DEADLOCK FALSE
