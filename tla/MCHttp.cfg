SPECIFICATION FairSpec
CONSTANTS
    Spellings <- MCSpellings
    AccountIds = {a1, a2}
    Codes = {1000000}
    Guesses = {1000000, 1000001, 5}
    Tokens = {t1, t2, t3}
    Submissions <- MCSubmissions
    Today = 1
    MaxOthers = 1
INVARIANTS
    NeverInternal
    ConfirmedOnce
    AcceptedSubmissionStands
PROPERTIES
    UserGetsThrough
CHECK_DEADLOCK FALSE
