SPECIFICATION Spec
CONSTANTS
    u1 = u1
    u2 = u2
    p1 = p1
    Workers <- TwoWorkers
    Projects <- OneProject
    Nobody = Nobody
    NoProject = NoProject
    MaxConcurrent = 1
    Sweeps = TRUE
    DbFails = FALSE
    SlowJobs = FALSE
    LongEdits = FALSE
    UserStatuses <- NoStatuses
    MaxRequests = 1
    MaxStops = 1
CHECK_DEADLOCK FALSE
SYMMETRY WorkerSymmetry
INVARIANTS TypeOK WorkIsClaimed OnePipelinePerProject
