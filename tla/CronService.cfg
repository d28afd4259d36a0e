SPECIFICATION Spec
CONSTANTS
    OneShots = {once}
    Recurring = {every}
    DeleteAfterRun = {once}
    AgentTurns = {every}
    Calls = {c1}
    MaxConcurrentRuns = 1
    MaxMissedJobs = 1
    MaxRetries = 1
    Outcomes = {"ok", "transient"}
    MaxSchedules = 2
    MaxEdits = 1
    MaxFaults = 0
    MaxCrashes = 1
INVARIANTS TypeOK  
PROPERTIES DueTimesAreKept
CHECK_DEADLOCK FALSE
