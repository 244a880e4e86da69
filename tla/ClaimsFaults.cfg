SPECIFICATION Spec
CONSTANTS
    u1 = u1
    u2 = u2
    p1 = p1
    Workers <- TwoWorkers
    Projects <- OneProject
    Nobody = Nobody
    NoProject = NoProject
    MaxConcurrent = 1
    Sweeps = FALSE
    DbFails = TRUE
    SlowJobs = TRUE
    LongEdits = TRUE
    UserStatuses <- NoStatuses
    MaxRequests = 1
    MaxStops = 0
CHECK_DEADLOCK FALSE
SYMMETRY WorkerSymmetry
PROPERTY ForeignClaimsAreRespected
