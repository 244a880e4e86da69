---------------------------- MODULE MCProjectLife ----------------------------
(***************************************************************************)
(* One worker, its thread of inference, the owner and a guest, and an      *)
(* image with a confirmed face and an open one that the wider threshold    *)
(* takes for a match.                                                      *)
(***************************************************************************)
EXTENDS ProjectLife
CONSTANTS w1, r1, owner, guest, f1, f2, i1
OneWorker == {w1}
OneRun == {r1}
OnW1 == [r \in RunsOf |-> w1]
TwoUsers == {owner, guest}
OwnerIs == owner
TwoFaces == {f1, f2}
SecondFace == {f2}
OneImage == [f \in Faces |-> i1]
Distances == [f \in Faces |-> IF f = f2 THEN 1 ELSE 2]
Wide == [threshold |-> 3, min |-> 1]
TwoSettings == {Wide, [threshold |-> 2, min |-> 2]}
===============================================================================
