SPECIFICATION Spec
CONSTANTS
    Calls = {c1, c2}
    MaxRows = 2
    MaxRuns = 3
PROPERTY WorkerKeepsOk
CHECK_DEADLOCK FALSE
