SPECIFICATION Spec
CONSTANTS
    a = a
    b = b
    f1 = f1
    f2 = f2
    g1 = g1
    u1 = u1
    Projects <- OneProject
    Faces <- OneFace
    Spare <- OneSpare
    ProjectOf <- AllOnA
    Users <- OneUser
    NoFace = NoFace
    NoRow = NoRow
    Handlers <- EveryHandler
    Fails = TRUE
    MaxPasses = 2
    MaxReviews = 2
    MaxRequests = 2
    MaxStops = 1
CHECK_DEADLOCK FALSE
VIEW ReviewView
CONSTRAINT RepliesArrive
INVARIANTS TypeOK RejectionsLeaveNoClaim
PROPERTY PromisesAreKept
