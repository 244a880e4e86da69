SPECIFICATION FairSpec
CONSTANTS
    a = a
    b = b
    f1 = f1
    f2 = f2
    g1 = g1
    u1 = u1
    Projects <- TwoProjects
    Faces <- TwoFaces
    Spare <- NoSpare
    ProjectOf <- EachItsOwn
    Users <- OneUser
    NoFace = NoFace
    NoRow = NoRow
    Handlers <- RejectOnly
    Fails = FALSE
    MaxPasses = 2
    MaxReviews = 1
    MaxRequests = 2
    MaxStops = 1
CHECK_DEADLOCK FALSE
INVARIANTS OneWriterPerPage NoSecondClaim RejectionsLeaveNoClaim
PROPERTIES RunsEnd PromisesAreKept
