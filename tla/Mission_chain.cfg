SPECIFICATION FairSpec
CONSTANTS
    Builds <- MCBuilds
    QueueTypes = {"STD_QUEUE", "LOCK_FREE"}
    Capacity = 1
    MaxValues = 2
    MaxStarts = 2
    MaxWorkers = 3
    None = None
INVARIANTS
    QueuesJoinPipelines
    EachValueInOnePlace
    ReceivedInOrder
    NoThreadOutlivesPipelines
PROPERTIES
    StoppedThreadsEnd
    ValuesMoveOn
\* The mission may be gone, the process may have ended.
CHECK_DEADLOCK FALSE
