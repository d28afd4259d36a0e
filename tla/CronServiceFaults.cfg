SPECIFICATION Spec
CONSTANTS
    OneShots = {once}
    Recurring = {}
    DeleteAfterRun = {}
    AgentTurns = {}
    Calls = {c1}
    MaxConcurrentRuns = 1
    MaxMissedJobs = 1
    MaxRetries = 0
    Outcomes = {"ok", "transient"}
    MaxSchedules = 1
    MaxEdits = 1
    MaxFaults = 1
    MaxCrashes = 1
PROPERTIES SettledStaysSettled DueJobsRun
CHECK_DEADLOCK FALSE
