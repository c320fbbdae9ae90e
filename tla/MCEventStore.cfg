SPECIFICATION FairSpec
CONSTANTS
    Invocations = {c1, c2, c3}
    Commands <- MCCommands
    Intervals = {1, 2}
    Policy <- MCPolicy
    MaxBackoff = 1000
    MaxFactor = 4
INVARIANTS
    TypeOK
    SnapshotsAreThePast
    PausesAreBounded
PROPERTIES
    CommandsAreAtomic
    CommandsAreAnswered
CHECK_DEADLOCK FALSE
