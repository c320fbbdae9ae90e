SPECIFICATION ServedSpec
CONSTANTS
    Concurrency = 1
    QueueCapacity = 1
    FormatCount = 3
    CounterSize = 4
    Broken = {1}
PROPERTIES
    HealthyFormatsServed
CHECK_DEADLOCK FALSE
