SPECIFICATION Spec
CONSTANTS
    Emails = {e1}
    AccountIds = {a1}
    Codes = {1000000}
    Tokens = {t1}
    Submissions <- MCOneSubmission
    Instants = {1}
    DayLength = 2
    SnapshotInterval = 4
    MaxCommandAttempts = 2
    MaxAttempts = 2
    UniqueIds = TRUE
    MaxInFlight = 2
    MaxEvents = 6
INVARIANTS
    SnapshotReapplicationTolerated
CHECK_DEADLOCK FALSE
