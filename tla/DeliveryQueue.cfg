\* Two messages, two retries, one crash, an adapter that may reconcile.
SPECIFICATION Spec
CONSTANTS
    N = 2
    MaxRetries = 2
    Reconciles = TRUE
    ClaimGap = FALSE
    Budget = FALSE
    MaxCrashes = 1
INVARIANTS
    TypeOK
    DuplicatesComeFromReplays

    
