SPECIFICATION FairSpec
CONSTANTS
    Paths = {"a", "b"}
    Texts = {"t", "bad"}
    Refused = {"bad"}
    Batch = 2
    MaxFailures = 2
    MaxRows = 2
    MaxMigrations = 0
    MaxFaults = 0
PROPERTY EmbeddingsCatchUp
CHECK_DEADLOCK FALSE
