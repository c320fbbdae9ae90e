SPECIFICATION Spec
CONSTANTS
    TaskIds = {k1}
    MaxAttempts = 2
    Lease = 2
    Delays = {0, 1}
    ClaimLimit = 2
    RecoveryLimit = 2
    MaxClaimers = 2
    MaxTime = 5
    MaxTokens = 3
INVARIANTS
    TypeOK
    LiveLeaseOwnsRow
    LeasesFenced
PROPERTIES
    OutcomeIsOfCurrentAttempt
