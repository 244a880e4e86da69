--------------------------- MODULE MCProjectClaims ---------------------------
EXTENDS ProjectClaims, TLC
CONSTANTS u1, u2, p1
OneWorker == {u1}
TwoWorkers == {u1, u2}
OneProject == {p1}
WorkerSymmetry == Permutations(TwoWorkers)
NoStatuses == {}
Toggle == {"active", "deleted"}
Deletes == {"deleted"}
=============================================================================
