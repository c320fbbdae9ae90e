SPECIFICATION Spec
CONSTANTS
    Emails = {e1}
    AccountIds = {a1}
    Codes = {1000000}
    Tokens = {t1}
    Submissions <- MCSubmissions
    Instants = {1, 2}
    DayLength = 2
    SnapshotInterval = 25
    MaxCommandAttempts = 2
    MaxAttempts = 2
    UniqueIds = TRUE
    MaxInFlight = 2
    MaxEvents = 6
INVARIANTS
    TypeOK
    AccountFollowsAcceptance
    CompletionMatchesAccount
    OpenRegistrationHasWork
    CompletionTaskNeverMismatches
    CreationTaskNeverMismatches
    WorkJustified
PROPERTIES
    AccountsAreOpenedOnce
CHECK_DEADLOCK FALSE
