\* A search of up to four queries and a reassessment of up to three businesses,
\* with failing calls and one worker death.
SPECIFICATION Spec
CONSTANTS
    Business = {b1, b2, b3}
    Target = 2
    Limit <- Queries
    MaxClaims = 2
    MaxAttempts = 2
    MaxCrashes = 1
INVARIANTS
    BooksAgree
    CheckpointIsEarned
PROPERTIES
    SearchesAreNeeded
    AttemptsEnd
\* A settled run task stays as it is.
CHECK_DEADLOCK FALSE
