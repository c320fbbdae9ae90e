SPECIFICATION Spec
CONSTANTS
    Second = 1
    Millisecond = 0
    LeaseSafetyMargin = 1
    MaxStored = 100
    MaxStatement = 100
    MaxDuration = 100
    MaxQueueCapacity = 10
    Cases <- MCCases
INVARIANTS
    HealthyPoolRuns
    RunsCanSettle
