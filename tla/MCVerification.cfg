SPECIFICATION Spec
CONSTANTS
    Emails = {e1}
    AccountIds = {a1, a2}
    Codes = {999999, 1000000}
    Tokens = {t1, t2}
    Submissions <- MCOneSubmission
    Instants = {1}
    DayLength = 2
    SnapshotInterval = 25
    MaxCommandAttempts = 2
    MaxAttempts = 1
    UniqueIds = TRUE
    MaxInFlight = 2
    MaxEvents = 6
INVARIANTS
    GrantedTokenIsCurrent
PROPERTIES
    AcceptanceIsFinal
    SupersededIdNeverReturns
CHECK_DEADLOCK FALSE
