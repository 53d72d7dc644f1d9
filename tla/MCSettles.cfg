SPECIFICATION FairSpec
PROPERTIES
    EventuallyAcked
    EventuallySettled
    QueuedJobsRun
    QueueDrains
    ContradictionsAreFound
CHECK_DEADLOCK FALSE
