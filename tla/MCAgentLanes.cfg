\* Two messages and a manual cron run, two of the three in one session; a
\* configuration with one slot in "main" and one with two.
SPECIFICATION Spec
CONSTANTS
    m1 = m1
    m2 = m2
    k = k
    s1 = s1
    s2 = s2
    Runs <- MCRuns
    Sessions = {s1, s2}
    SessionOf <- MCSessionOf
    Origin <- MCOrigin
    Caps <- MCCaps
    MaxFaults = 2
INVARIANTS TypeOK InnerEntriesHoldOuterSlots
PROPERTIES EveryRunSettles
\* Every run is over in the end.
CHECK_DEADLOCK FALSE
