\* One message; the startup scan may run out of time, and a scan may see the
\* message before its sender has claimed it.
SPECIFICATION LiveSpec
CONSTANTS
    N = 1
    MaxRetries = 2
    Reconciles = TRUE
    ClaimGap = TRUE
    Budget = TRUE
    MaxCrashes = 1
INVARIANTS
    NothingVanishes
    OneOwner
PROPERTIES
    EveryMessageSettles
