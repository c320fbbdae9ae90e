SPECIFICATION FairSpec
CONSTANTS
    Concurrency = 2
    QueueCapacity = 3
    FormatCount = 2
    CounterSize = 2
    Broken = {}
INVARIANTS
    TypeOK
    BatchFits
    RoomIsSignalled
    NothingRunsAfterReturn
    ClaimedTasksAreRouted
PROPERTIES
    NothingStartsAfterStop
    StopCompletes
    WorkersAreReplaced
CHECK_DEADLOCK FALSE
