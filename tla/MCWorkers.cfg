SPECIFICATION AllSpec
CONSTANTS
    Keys = {w1, w2}
    MaxBuckets = 1
    MaxEvents = 3
    MaxFaults = 3
    Pair = {w1, w2}
    Two = {w1, w2}
    Trio = {r1, r2, r3}
    e1 = e1
    p1 = p1
    p2 = p2
    HookEvents = {e1}
    Endpoints = {p1, p2}
    Matches <- OneMatch
    MaxAttempts <- ThreeTries
    RowMax = 3
    Limit = 1
    HookFaults = 2
    Derived = {"out"}
    Output = "out"
    MinEntries = 2
    RetrieveLimit = 4
    RunsListed = 2
    MergeRows = 3
    MergeRuns = 2
    MergeFaults = 0
    ExtractRows = 2
    ExtractRuns = 3
SYMMETRY Symmetry
INVARIANTS
    Conservation
    OutcomeIsReal
    CompletedNamesItsResult
PROPERTY ExtractionIsSound
CHECK_DEADLOCK FALSE
