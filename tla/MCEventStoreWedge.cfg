SPECIFICATION Spec
CONSTANTS
    Invocations = {c1, c2, c3}
    Commands <- MCAppends
    Intervals = {1}
    Policy <- MCPolicy
    MaxBackoff = 1000
    MaxFactor = 4
PROPERTIES
    ConflictMeansConcurrentChange
CHECK_DEADLOCK FALSE
