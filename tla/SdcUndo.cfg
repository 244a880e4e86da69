SPECIFICATION Spec
CONSTANTS
    a = a
    b = b
    f1 = f1
    f2 = f2
    g1 = g1
    u1 = u1
    Projects <- OneProject
    Faces <- OneFace
    Spare <- NoSpare
    ProjectOf <- OneOnA
    Users <- OneUser
    NoFace = NoFace
    NoRow = NoRow
    Handlers <- PickAndUndo
    Fails = FALSE
    MaxPasses = 2
    MaxReviews = 2
    MaxRequests = 1
    MaxStops = 0
CHECK_DEADLOCK FALSE
INVARIANT UndoLeavesNoClaim
