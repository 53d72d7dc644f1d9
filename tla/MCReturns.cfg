SPECIFICATION FairSpec
PROPERTIES
    StoreReturns
    PromoteReturns
    EventuallyFlushed
    Recovers
    EmbeddingsCatchUp
CHECK_DEADLOCK FALSE
