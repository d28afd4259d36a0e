\* Two lanes, two commands, caps up to 2, each lane reset at most once.
CONSTANTS
    t1 = t1
    t2 = t2
    main = main
    probe = probe
    Tasks <- MCTasks
    Lanes <- MCLanes
    ProbeLanes <- MCProbeLanes
    Waiters = {w1}
    MaxConcurrency = 2
    MaxGeneration = 1
SPECIFICATION LiveSpec
INVARIANTS
    TypeOK
    WorkConserving
    SlotsMatchRunningEntries
    EntryWaitsOnceOrNever
    NoForgottenWaiter
PROPERTIES
    StartsWithinCap
    EntriesLeaveInOrder
    HungTasksDoNotBlockLane
