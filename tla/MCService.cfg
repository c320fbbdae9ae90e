SPECIFICATION ServiceSpec
CONSTANTS
    Concurrency = 2
    QueueCapacity = 1
    FormatCount = 1
    CounterSize = 1
    Broken = {}
    Second = 1000
    Millisecond = 1
    LeaseSafetyMargin = 5000
    MaxStored = 10000000
    MaxStatement = 1000000
    MaxDuration = 20000000
    MaxQueueCapacity = 1000
    Environments <- MCEnvironments
INVARIANTS
    PoolOutlivesWork
    CleanStopOnlyOnSignal
PROPERTIES
    ServiceStops
    FailedStartReleases
CHECK_DEADLOCK FALSE
