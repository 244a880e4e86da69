------------------------------ MODULE MCSdcClaims ------------------------------
EXTENDS SdcClaims, TLC
CONSTANTS a, b, f1, f2, g1, u1
OneProject == {a}
TwoProjects == {a, b}
OneFace == {f1}
TwoFaces == {f1, f2}
OneSpare == {g1}
NoSpare == {}
OneUser == {u1}
NoUsers == {}
AllOnA == [f \in {f1, g1} |-> a]
OneOnA == [f \in {f1} |-> a]
EachItsOwn == (f1 :> a) @@ (f2 :> b)
EveryHandler == AllHandlers
RejectOnly == {"reclassify"}
PickAndUndo == {"classify", "undo"}

(* What SdcReview tells states apart by.  It leaves out what no later step *)
(* of that run reads: the session of a user who will not undo any more,    *)
(* the error a run left (PromisesAreKept looks at the step that sets it),  *)
(* and, after an accident, which one it was and whose the statement is.    *)
UndoPhases == {"undo", "undoTxn", "remove", "clear"}
Session(u) == IF nReviews = MaxReviews /\ doing[u] \notin UndoPhases
              THEN <<>> ELSE <<last[u], drawn[u]>>
Undisturbed == accidents = {}
ReviewView ==
    <<faceVars, bootstrapped, requested, row, claims, runVars, doing, of, saw,
      [u \in Users |-> Session(u)], promised, Undisturbed, Undisturbed /\ ours,
      "reply lost" \in accidents, counts>>

(* SdcReview follows a behaviour up to the first repeated edit: the extra  *)
(* statement is excepted by RejectionsLeaveNoClaim and changes no face.    *)
RepliesArrive == "reply lost" \notin accidents
===============================================================================
