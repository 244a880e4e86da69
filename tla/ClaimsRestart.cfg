SPECIFICATION FairSpec
CONSTANTS
    u1 = u1
    u2 = u2
    p1 = p1
    Workers <- OneWorker
    Projects <- OneProject
    Nobody = Nobody
    NoProject = NoProject
    MaxConcurrent = 1
    Sweeps = TRUE
    DbFails = FALSE
    SlowJobs = FALSE
    LongEdits = TRUE
    UserStatuses <- Toggle
    MaxRequests = 1
    MaxStops = 1
CHECK_DEADLOCK FALSE
PROPERTIES RequestsAreServed WorkIsPickedUp
