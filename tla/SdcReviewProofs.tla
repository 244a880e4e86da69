--------------------------- MODULE SdcReviewProofs ---------------------------
(***************************************************************************)
(* What the review handlers may do to the faces a run is writing, for any  *)
(* number of projects, faces and users: the types of the whole state, when *)
(* a rejection leaves no statement behind, and what a request that ends    *)
(* without an error message has written.                                   *)
(***************************************************************************)
EXTENDS SdcClaimsProofs

(* The type invariant in parts; the page and the places of the runs have   *)
(* theirs in RowTypes.                                                     *)
FaceTypes ==
    /\ verdict \in [AllFaces -> Verdicts]
    /\ replaced \in SUBSET AllFaces
    /\ by \in [AllFaces -> {"nobody", "model"} \union Users]
    /\ written \in [AllFaces -> BOOLEAN]
    /\ removal \in [AllFaces -> BOOLEAN]
ProjectTypes ==
    /\ bootstrapped \in [Projects -> BOOLEAN]
    /\ requested \in [Projects -> BOOLEAN]
    /\ told \in [Projects -> BOOLEAN]
    /\ promised \in [Projects -> SUBSET AllFaces]
RunTypes ==
    /\ outcomes \in [Projects -> SUBSET {"other", "blocked", "unverified"}]
    /\ passes \in [Projects -> Nat]
    /\ notice \in [Projects -> BOOLEAN]
    /\ stopping \in [Projects -> BOOLEAN]
    /\ late \in [Projects -> BOOLEAN]
UserTypes ==
    /\ doing \in [Users -> Phases]
    /\ of \in [Users -> AllFaces \union {NoFace}]
    /\ saw \in [Users -> Sights]
    /\ last \in [Users -> Lasts]
    /\ drawn \in [Users -> SUBSET AllFaces]
CountTypes ==
    /\ ours \in BOOLEAN
    /\ accidents \subseteq Accidents
    /\ nReviews \in Nat /\ nRequests \in Nat /\ nStops \in Nat

(* The face a handler is at, and that an undo under way is of something.   *)
FacePhases == {"approve", "check", "mark", "reject", "rejectTxn", "edit"}
FreePhases == {"idle", "undo", "undoTxn"}
Hands ==
    \A u \in Users :
        /\ doing[u] \in FacePhases => of[u] \in AllFaces
        /\ doing[u] \in FreePhases => of[u] = NoFace
UndoHasFaces == \A u \in Users : doing[u] = "undo" => Touched(u) # {}

LEMMA TypeParts ==
    TypeOK <=> RowTypes /\ FaceTypes /\ ProjectTypes /\ RunTypes /\ UserTypes
               /\ CountTypes
    BY DEF TypeOK, RowTypes, FaceTypes, ProjectTypes, RunTypes, UserTypes, CountTypes

TypeInv == TypeOK /\ PageInv /\ Hands /\ UndoHasFaces

LEMMA InitTypes == Init => TypeInv
<1> SUFFICES ASSUME Init PROVE TypeInv
  OBVIOUS
<1>1. FaceTypes
  BY DEF Init, FaceTypes, Verdicts
<1>2. ProjectTypes /\ RunTypes /\ CountTypes
  BY DEF Init, ProjectTypes, RunTypes, CountTypes
<1>3. UserTypes
  BY DEF Init, UserTypes, Phases, Sights, NothingSeen, NoLast, Lasts
<1>4. Hands /\ UndoHasFaces
  BY DEF Init, Hands, UndoHasFaces, FacePhases, FreePhases
<1>5. PageInv /\ RowTypes
  BY InitPage DEF PageInv, RowInv
<1>6. TypeOK
  BY <1>1, <1>2, <1>3, <1>5, TypeParts
<1> QED
  BY <1>4, <1>5, <1>6 DEF TypeInv

-----------------------------------------------------------------------------
(* Steps of the worker *)

LEMMA WriteTypes ==
    ASSUME NEW S, NEW column \in [AllFaces -> S], NEW these, NEW value \in S
    PROVE  Write(column, these, value) \in [AllFaces -> S]
    BY DEF Write

LEMMA WriteOneTypes ==
    ASSUME NEW S, NEW column \in [AllFaces -> S], NEW f, NEW value \in S
    PROVE  [column EXCEPT ![f] = value] \in [AllFaces -> S]
    OBVIOUS

LEMMA MarkTypes ==
    ASSUME FaceTypes, NEW f, MarkWritten(f)
    PROVE  written' \in [AllFaces -> BOOLEAN]
    BY DEF MarkWritten, FaceTypes, Exists

LEMMA NoteTypes ==
    ASSUME accidents \subseteq Accidents, NEW accident \in Accidents,
           NEW condition, Note(condition, accident)
    PROVE  accidents' \subseteq Accidents
    BY DEF Note

LEMMA LeaveTypes ==
    ASSUME RunTypes, NEW p \in Projects, Leave(p)
    PROVE  RunTypes'
    BY DEF RunTypes, Leave

LEMMA EndRequestTypes ==
    ASSUME RunTypes, ProjectTypes, NEW p \in Projects, NEW error \in BOOLEAN,
           EndRequest(p, error), bootstrapped' = bootstrapped
    PROVE  RunTypes' /\ ProjectTypes'
    BY LeaveTypes DEF ProjectTypes, EndRequest

LEMMA OutcomeTypes ==
    ASSUME RunTypes, NEW p \in Projects,
           NEW outcome \in {"other", "blocked", "unverified"}, Outcome(p, outcome)
    PROVE  RunTypes'
    BY DEF RunTypes, Outcome

LEMMA RunStepTypes ==
    ASSUME TypeInv, NEW p \in Projects, RunStep(p)
    PROVE  FaceTypes' /\ ProjectTypes' /\ RunTypes' /\ CountTypes'
<1>1. FaceTypes /\ ProjectTypes /\ RunTypes /\ CountTypes
  BY TypeParts DEF TypeInv
<1> DEFINE Goal == FaceTypes' /\ ProjectTypes' /\ RunTypes' /\ CountTypes'
<1>2. ASSUME StartRun(p) \/ Removing(p) \/ RemovalLookup(p) PROVE Goal
  BY <1>1, <1>2 DEF StartRun, Removing, RemovalLookup, faceVars, pageVars, othersKeep,
     stepKeeps, faceDone, FaceTypes, ProjectTypes, RunTypes, CountTypes
<1>3. ASSUME AbortRun(p) \/ Finish(p) PROVE Goal
  <2>1. MustTell(p) \in BOOLEAN
    BY <1>1 DEF MustTell, RunTypes, RemovalDue
  <2>2. RunTypes' /\ ProjectTypes'
    BY <1>1, <1>3, <2>1, EndRequestTypes DEF AbortRun, Finish
  <2> QED
    BY <1>1, <1>3, <2>2 DEF AbortRun, Finish, faceVars, pageVars, othersKeep,
       FaceTypes, CountTypes
<1>4. CASE Select(p)
  <2>1. RunTypes'
    BY <1>1, <1>4, LeaveTypes DEF Select, RunTypes
  <2> QED
    BY <1>1, <1>4, <2>1 DEF Select, faceVars, pageVars, othersKeep, FaceTypes,
       ProjectTypes, CountTypes
<1>5. CASE NextFace(p)
  <2>1. RunTypes'
    BY <1>1, <1>5, LeaveTypes DEF NextFace, RunTypes
  <2> QED
    BY <1>1, <1>5, <2>1 DEF NextFace, faceVars, pageVars, othersKeep, FaceTypes,
       ProjectTypes, CountTypes
<1>6. CASE EndBatch(p)
  <2>1. CASE EndRequest(p, TRUE)
    BY <1>1, <1>6, <2>1, EndRequestTypes DEF EndBatch, faceVars, pageVars, othersKeep,
       FaceTypes, CountTypes
  <2>2. CASE ~EndRequest(p, TRUE)
    <3>1. /\ passes' = [passes EXCEPT ![p] = IF AllWere(p, "blocked") THEN @ + 1 ELSE 0]
          /\ notice' = [notice EXCEPT ![p] = @ \/ passes'[p] >= MaxPasses]
          /\ outcomes' = [outcomes EXCEPT ![p] = {}]
          /\ UNCHANGED <<stopping, late, requested, told, promised>>
      BY <1>6, <2>2 DEF EndBatch
    <3>2. passes' \in [Projects -> Nat]
      BY <1>1, <3>1 DEF RunTypes
    <3>3. notice' \in [Projects -> BOOLEAN]
      BY <1>1, <3>1, Zenon DEF RunTypes
    <3>4. RunTypes' /\ ProjectTypes'
      BY <1>1, <1>6, <3>1, <3>2, <3>3 DEF EndBatch, RunTypes, ProjectTypes
    <3> QED
      BY <1>1, <1>6, <3>4 DEF EndBatch, faceVars, pageVars, othersKeep,
         FaceTypes, CountTypes
  <2> QED
    BY <2>1, <2>2
<1>7. CASE Reserve(p)
  <2>1. RunTypes'
    BY <1>1, <1>7, OutcomeTypes DEF Reserve, faceDone, RunTypes
  <2>2. written' \in [AllFaces -> BOOLEAN]
    BY <1>1, <1>7, MarkTypes DEF Reserve, FaceTypes
  <2>3. accidents' \subseteq Accidents
    BY <1>1, <1>7, NoteTypes DEF Reserve, CountTypes, Accidents
  <2>4. FaceTypes' /\ ProjectTypes'
    BY <1>1, <1>7, <2>2 DEF Reserve, stepKeeps, FaceTypes, ProjectTypes
  <2>5. UNCHANGED <<ours, nReviews, nRequests, nStops>>
    <3>1. UNCHANGED <<verdict, replaced, by, removal, claims, ours, stepKeeps>>
      BY <1>7 DEF Reserve
    <3> QED
      BY <3>1 DEF stepKeeps, othersKeep
  <2>6. CountTypes'
    BY <1>1, <2>3, <2>5 DEF CountTypes
  <2> QED
    BY <2>1, <2>4, <2>6
<1>8. ASSUME Lookup(p) \/ Recheck(p) PROVE Goal
  <2>1. RunTypes'
    BY <1>1, <1>8, OutcomeTypes DEF Lookup, Recheck, TokenRefused, PageGone, faceDone,
       RunTypes
  <2>2. written' \in [AllFaces -> BOOLEAN]
    BY <1>1, <1>8, MarkTypes DEF Lookup, Recheck, TokenRefused, PageGone, FaceTypes,
       faceVars
  <2> QED
    BY <1>1, <1>8, <2>1, <2>2 DEF Lookup, Recheck, stepKeeps, othersKeep, faceVars,
       FaceTypes, ProjectTypes, CountTypes
<1>9. CASE Adopt(p)
  <2>1. RunTypes'
    BY <1>1, <1>9, OutcomeTypes DEF Adopt
  <2>2. written' \in [AllFaces -> BOOLEAN] /\ bootstrapped' \in [Projects -> BOOLEAN]
    BY <1>1, <1>9 DEF Adopt, FaceTypes, ProjectTypes
  <2> QED
    BY <1>1, <1>9, <2>1, <2>2 DEF Adopt, othersKeep, FaceTypes, ProjectTypes, CountTypes
<1>10. CASE Edit(p)
  <2>1. RunTypes'
    BY <1>1, <1>10, OutcomeTypes DEF Edit, TokenRefused, PageGone, faceDone, RunTypes
  <2>2. written' \in [AllFaces -> BOOLEAN]
    BY <1>1, <1>10, MarkTypes DEF Edit, TokenRefused, PageGone, FaceTypes
  <2>3. accidents' \subseteq Accidents /\ ours' \in BOOLEAN
    BY <1>1, <1>10, NoteTypes DEF Edit, CountTypes, Accidents
  <2> QED
    BY <1>1, <1>10, <2>1, <2>2, <2>3 DEF Edit, stepKeeps, othersKeep, FaceTypes,
       ProjectTypes, CountTypes
<1>11. CASE Record(p)
  <2>1. RunTypes'
    BY <1>1, <1>11, OutcomeTypes DEF Record
  <2>2. written' \in [AllFaces -> BOOLEAN] /\ removal' \in [AllFaces -> BOOLEAN]
    BY <1>1, <1>11 DEF Record, RecordFace, FaceTypes, Live, Exists
  <2> QED
    BY <1>1, <1>11, <2>1, <2>2 DEF Record, stepKeeps, othersKeep, FaceTypes,
       ProjectTypes, CountTypes
<1>12. CASE RemovalSend(p)
  <2>1. ours' \in BOOLEAN
    BY <1>1, <1>12 DEF RemovalSend, TakeOff, CountTypes
  <2> QED
    BY <1>1, <1>12, <2>1 DEF RemovalSend, stepKeeps, othersKeep, faceDone, faceVars,
       FaceTypes, ProjectTypes, RunTypes, CountTypes
<1>13. CASE Settle(p)
  <2>1. written' \in [AllFaces -> BOOLEAN] /\ removal' \in [AllFaces -> BOOLEAN]
    BY <1>1, <1>13, WriteTypes DEF Settle, FaceTypes
  <2> QED
    BY <1>1, <1>13, <2>1 DEF Settle, stepKeeps, othersKeep, faceDone, pageVars,
       FaceTypes, ProjectTypes, RunTypes, CountTypes
<1>14. CASE ClearRow(p)
  <2>1. accidents' \subseteq Accidents
    BY <1>1, <1>14, NoteTypes DEF ClearRow, CountTypes, Accidents
  <2> QED
    BY <1>1, <1>14, <2>1 DEF ClearRow, stepKeeps, othersKeep, faceDone, faceVars,
       FaceTypes, ProjectTypes, RunTypes, CountTypes
<1> QED
  BY <1>2, <1>3, <1>4, <1>5, <1>6, <1>7, <1>8, <1>9, <1>10, <1>11, <1>12, <1>13, <1>14
     DEF RunStep

-----------------------------------------------------------------------------
(* Steps of the users *)

(* What one user's step leaves of the others'.                             *)
UserMove(u) ==
    /\ doing' \in [Users -> Phases]
    /\ of' \in [Users -> AllFaces \union {NoFace}]
    /\ \A v \in Users \ {u} :
          doing'[v] = doing[v] /\ of'[v] = of[v] /\ last'[v] = last[v]
    /\ doing'[u] \in FacePhases => of'[u] \in AllFaces
    /\ doing'[u] \in FreePhases => of'[u] = NoFace
    /\ doing'[u] = "undo" => Touched(u)' # {}

LEMMA UserMoveHands ==
    ASSUME Hands, UndoHasFaces, NEW u \in Users, UserMove(u)
    PROVE  Hands' /\ UndoHasFaces'
    BY DEF Hands, UndoHasFaces, UserMove, Touched

LEMMA SightTypes ==
    ASSUME ProjectTypes, NEW p \in Projects, NEW these \in SUBSET AllFaces
    PROVE  Sight(p, these) \in Sights
    BY DEF ProjectTypes, Sight, Sights

(* A handler goes on to another statement of the face it is at ...         *)
LEMMA StepTypes ==
    ASSUME UserTypes, Hands, NEW u \in Users, NEW phase \in Phases \ {"idle", "undo"},
           Step(u, phase), UNCHANGED <<of, last>>,
           phase \in FacePhases => of[u] \in AllFaces,
           phase = "undoTxn" => of[u] = NoFace
    PROVE  UserMove(u)
    BY DEF UserTypes, Step, UserMove, FreePhases

(* ... or is through with it.                                              *)
LEMMA ReturnTypes ==
    ASSUME UserTypes, NEW u \in Users, Return(u),
           \A v \in Users \ {u} : last'[v] = last[v]
    PROVE  UserMove(u) /\ saw' \in [Users -> Sights]
<1>1. "idle" \in Phases /\ "idle" \notin FacePhases
  BY DEF Phases, FacePhases
<1>2. NothingSeen \in Sights
  BY DEF NothingSeen, Sights
<1> QED
  BY <1>1, <1>2 DEF UserTypes, Return, Step, UserMove

(* A handler begins with a face it has loaded.                             *)
LEMMA LoadTypes ==
    ASSUME UserTypes, NEW u \in Users, NEW f \in AllFaces,
           NEW phase \in FacePhases, Step(u, phase),
           of' = [of EXCEPT ![u] = f], \A v \in Users \ {u} : last'[v] = last[v]
    PROVE  UserMove(u)
<1>1. phase \in Phases /\ phase \notin FreePhases /\ phase # "undo"
  BY DEF FacePhases, FreePhases, Phases
<1> QED
  BY <1>1 DEF UserTypes, Step, UserMove

LEMMA UsersTyped ==
    ASSUME UserTypes, Hands, UndoHasFaces, NEW u \in Users, UserMove(u),
           saw' \in [Users -> Sights], last' \in [Users -> Lasts],
           drawn' \in [Users -> SUBSET AllFaces]
    PROVE  UserTypes' /\ Hands' /\ UndoHasFaces'
    BY UserMoveHands DEF UserTypes, UserMove

LEMMA BeginTypes ==
    ASSUME CountTypes, NEW u, NEW handler, Begin(u, handler),
           UNCHANGED <<ours, nRequests, nStops>>, accidents' \subseteq Accidents
    PROVE  CountTypes'
<1>1. nReviews \in Nat /\ nReviews' = nReviews + 1
  BY DEF CountTypes, Begin
<1>2. nReviews' \in Nat
  BY <1>1
<1> QED
  BY <1>2 DEF CountTypes

LEMMA KeepTypes ==
    ASSUME ProjectTypes, NEW these, Keep(these)
    PROVE  promised' \in [Projects -> SUBSET AllFaces]
    BY DEF ProjectTypes, Keep

Typed ==
    /\ FaceTypes /\ ProjectTypes /\ RunTypes /\ UserTypes /\ CountTypes
    /\ Hands /\ UndoHasFaces

(* Handlers' steps that change neither faces nor projects.                 *)
LEMMA QuietTypes ==
    ASSUME Typed, UNCHANGED <<faceVars, bootstrapped, promised, runsKeep>>
    PROVE  FaceTypes' /\ ProjectTypes' /\ RunTypes'
    BY DEF Typed, FaceTypes, ProjectTypes, RunTypes, faceVars, runsKeep, runVars

LEMMA RunsKeepTypes ==
    ASSUME Typed, UNCHANGED runsKeep
    PROVE  RunTypes' /\ UNCHANGED <<requested, told, nRequests, nStops>>
    BY DEF Typed, RunTypes, runsKeep, runVars

LEMMA LoadFaceTypes ==
    ASSUME Typed, NEW u \in Users, NEW f \in AllFaces, LoadFace(u, f) \/ EditLoad(u, f)
    PROVE  Typed'
<1>1. PICK phase \in {"approve", "reject", "edit"} : Step(u, phase)
  BY DEF LoadFace, EditLoad
<1>2. /\ of' = [of EXCEPT ![u] = f]
      /\ saw' = [saw EXCEPT ![u] = Sight(ProjectOf[f], {f})]
      /\ UNCHANGED <<faceVars, bootstrapped, promised, runsKeep, last, drawn, accidents, ours>>
      /\ Begin(u, "reclassify") \/ Begin(u, "edit")
  BY DEF LoadFace, EditLoad, pageVars
<1>3. FaceTypes' /\ ProjectTypes' /\ RunTypes'
  BY <1>2, QuietTypes
<1>4. UserMove(u)
  BY <1>1, <1>2, LoadTypes DEF Typed, FacePhases
<1>5. ProjectOf[f] \in Projects
  BY NamesAssumption
<1>6. Sight(ProjectOf[f], {f}) \in Sights
  BY <1>5, SightTypes DEF Typed
<1>7. UserTypes' /\ Hands' /\ UndoHasFaces'
  <2>1. /\ saw' \in [Users -> Sights] /\ last' \in [Users -> Lasts]
        /\ drawn' \in [Users -> SUBSET AllFaces]
    BY <1>2, <1>6 DEF Typed, UserTypes
  <2> QED
    BY <1>4, <2>1, UsersTyped DEF Typed
<1>8. CountTypes'
  BY <1>2, BeginTypes DEF Typed, CountTypes, runsKeep
<1> QED
  BY <1>3, <1>7, <1>8 DEF Typed

LEMMA GiveUpTypes ==
    ASSUME Typed, NEW u \in Users, GiveUp(u)
    PROVE  Typed'
<1>1. /\ Return(u)
      /\ UNCHANGED <<faceVars, bootstrapped, promised, runsKeep, last, drawn,
                     accidents, nReviews, ours>>
  BY DEF GiveUp, pageVars
<1>2. FaceTypes' /\ ProjectTypes' /\ RunTypes'
  BY <1>1, QuietTypes
<1>3. UserTypes' /\ Hands' /\ UndoHasFaces'
  <2>1. UserMove(u) /\ saw' \in [Users -> Sights]
    BY <1>1, ReturnTypes DEF Typed
  <2> QED
    BY <1>1, <2>1, UsersTyped DEF Typed, UserTypes
<1>4. CountTypes'
  BY <1>1, RunsKeepTypes DEF Typed, CountTypes
<1> QED
  BY <1>2, <1>3, <1>4 DEF Typed

(* A handler that goes on to its next statement, its face in hand.         *)
LEMMA GoOnTypes ==
    ASSUME Typed, NEW u \in Users, NEW phase \in Phases \ {"idle", "undo"},
           Step(u, phase), phase \in FacePhases => of[u] \in AllFaces,
           phase = "undoTxn" => of[u] = NoFace,
           UNCHANGED <<of, last, drawn>>, saw' \in [Users -> Sights]
    PROVE  UserTypes' /\ Hands' /\ UndoHasFaces'
<1>1. UserMove(u)
  BY StepTypes DEF Typed
<1> QED
  BY <1>1, UsersTyped DEF Typed, UserTypes

LEMMA ReturnsTypes ==
    ASSUME Typed, NEW u \in Users, Return(u), UNCHANGED <<last, drawn>>
    PROVE  UserTypes' /\ Hands' /\ UndoHasFaces'
<1>1. UserMove(u) /\ saw' \in [Users -> Sights]
  BY ReturnTypes DEF Typed
<1> QED
  BY <1>1, UsersTyped DEF Typed, UserTypes

LEMMA CheckTypes ==
    ASSUME Typed, NEW u \in Users, Check(u)
    PROVE  Typed'
<1>1. /\ \/ Step(u, "mark") /\ UNCHANGED <<of, saw>>
         \/ Return(u)
      /\ doing[u] = "check"
      /\ UNCHANGED <<faceVars, bootstrapped, promised, runsKeep, last, drawn,
                     accidents, nReviews, ours>>
  BY DEF Check, pageVars
<1>2. FaceTypes' /\ ProjectTypes' /\ RunTypes'
  BY <1>1, QuietTypes
<1>3. UserTypes' /\ Hands' /\ UndoHasFaces'
  <2>1. "mark" \in Phases \ {"idle", "undo"} /\ of[u] \in AllFaces
    BY <1>1 DEF Phases, Typed, Hands, FacePhases
  <2>2. saw \in [Users -> Sights]
    BY DEF Typed, UserTypes
  <2> QED
    BY <1>1, <2>1, <2>2, GoOnTypes, ReturnsTypes
<1>4. CountTypes'
  BY <1>1, RunsKeepTypes DEF Typed, CountTypes
<1> QED
  BY <1>2, <1>3, <1>4 DEF Typed

LEMMA MarkFaceTypes ==
    ASSUME Typed, NEW u \in Users, Mark(u)
    PROVE  Typed'
<1>1. FaceTypes'
  BY MarkTypes DEF Mark, Typed, FaceTypes
<1>2. RunTypes' /\ UNCHANGED <<requested, told, nRequests, nStops>>
  BY RunsKeepTypes DEF Mark
<1>3. ProjectTypes'
  BY <1>2 DEF Mark, Typed, ProjectTypes
<1>4. UserTypes' /\ Hands' /\ UndoHasFaces'
  BY ReturnsTypes DEF Mark
<1>5. CountTypes'
  BY <1>2 DEF Mark, pageVars, Typed, CountTypes
<1> QED
  BY <1>1, <1>2, <1>3, <1>4, <1>5 DEF Typed

LEMMA SightBits ==
    ASSUME NEW s \in Sights, NEW bit \in BOOLEAN, NEW other \in BOOLEAN
    PROVE  /\ [s EXCEPT !.sibling = bit] \in Sights
           /\ [s EXCEPT !.removed = bit] \in Sights
           /\ [s EXCEPT !.sibling = bit, !.flight = other] \in Sights
    BY DEF Sights

LEMMA RejectDecideTypes ==
    ASSUME Typed, NEW u \in Users, RejectDecide(u)
    PROVE  Typed'
<1>1. FaceTypes' /\ ProjectTypes' /\ RunTypes'
  BY QuietTypes DEF RejectDecide
<1>2. PICK phase \in {"rejectTxn", "remove"} : Step(u, phase)
  BY DEF RejectDecide
<1>3. phase \in Phases \ {"idle", "undo"} /\ phase # "undoTxn"
  BY DEF Phases
<1>4. of[u] \in AllFaces
  BY DEF RejectDecide, Typed, Hands, FacePhases
<1>5. saw' \in [Users -> Sights]
  <2>1. PICK sibling \in BOOLEAN :
           saw' = [saw EXCEPT ![u] = [saw[u] EXCEPT !.sibling = sibling]]
    BY DEF RejectDecide, OtherTarget
  <2> QED
    BY <2>1, SightBits DEF Typed, UserTypes
<1>6. UserTypes' /\ Hands' /\ UndoHasFaces'
  BY <1>2, <1>3, <1>4, <1>5, GoOnTypes DEF RejectDecide
<1>7. CountTypes'
  BY RunsKeepTypes DEF RejectDecide, pageVars, Typed, CountTypes
<1> QED
  BY <1>1, <1>6, <1>7 DEF Typed

LEMMA RejectTxnTypes ==
    ASSUME Typed, NEW u \in Users, RejectTxn(u)
    PROVE  Typed'
<1>1. FaceTypes'
  <2>1. removal' \in [AllFaces -> BOOLEAN]
    BY Zenon DEF RejectTxn, Typed, FaceTypes
  <2> QED
    BY <2>1 DEF RejectTxn, Typed, FaceTypes, Verdicts
<1>2. RunTypes' /\ UNCHANGED <<requested, told, nRequests, nStops>>
  BY RunsKeepTypes DEF RejectTxn
<1>3. ProjectTypes'
  BY <1>2, KeepTypes DEF RejectTxn, Typed, ProjectTypes
<1>4. UserTypes' /\ Hands' /\ UndoHasFaces'
  BY ReturnsTypes DEF RejectTxn
<1>5. CountTypes'
  BY <1>2 DEF RejectTxn, pageVars, Typed, CountTypes
<1> QED
  BY <1>1, <1>2, <1>3, <1>4, <1>5 DEF Typed

LEMMA ApproveTypes ==
    ASSUME Typed, NEW u \in Users, Approve(u)
    PROVE  Typed'
<1> DEFINE f == of[u]
           others == IF f \in saw[u].yes THEN {} ELSE
                         {g \in FacesOf(ProjectOf[f]) \ {f} : Live(g)}
           demoted == {g \in others : Target(g)}
<1>1. RunTypes' /\ UNCHANGED <<requested, told, nRequests, nStops>>
  BY RunsKeepTypes DEF Approve
<1>2. FaceTypes' /\ ProjectTypes'
  <2>1. CASE MayReview(u, f)
    <3>1. /\ verdict' = Write([verdict EXCEPT ![f] = "yes"], demoted, "no")
          /\ by' = Write(by, demoted \union {f}, u)
          /\ written' = Write([written EXCEPT ![f] = f \in saw[u].written], demoted, FALSE)
          /\ removal' = [g \in AllFaces |-> IF g \in demoted THEN written[g]
                            ELSE removal[g] /\ g # f /\ g \notin others]
          /\ Keep(demoted \union {f}) /\ UNCHANGED <<replaced, bootstrapped>>
      BY <2>1 DEF Approve
    <3> HIDE DEF demoted, others, f
    <3>2. verdict' \in [AllFaces -> Verdicts]
      <4>1. [verdict EXCEPT ![f] = "yes"] \in [AllFaces -> Verdicts] /\ "no" \in Verdicts
        BY DEF Typed, FaceTypes, Verdicts
      <4> QED
        BY <3>1, <4>1, WriteTypes
    <3>3. by' \in [AllFaces -> {"nobody", "model"} \union Users]
      BY <3>1, WriteTypes DEF Typed, FaceTypes
    <3>4. written' \in [AllFaces -> BOOLEAN]
      <4>1. [written EXCEPT ![f] = f \in saw[u].written] \in [AllFaces -> BOOLEAN]
        <5>1. (f \in saw[u].written) \in BOOLEAN
          OBVIOUS
        <5> QED
          BY <5>1, WriteOneTypes DEF Typed, FaceTypes
      <4> QED
        BY <3>1, <4>1, WriteTypes
    <3>5. removal' \in [AllFaces -> BOOLEAN]
      BY <3>1, Zenon DEF Typed, FaceTypes
    <3>6. ProjectTypes'
      BY <1>1, <3>1, KeepTypes DEF Typed, ProjectTypes
    <3> QED
      BY <3>1, <3>2, <3>3, <3>4, <3>5, <3>6 DEF Typed, FaceTypes
  <2>2. CASE ~MayReview(u, f)
    BY <1>1, <2>2 DEF Approve, Typed, FaceTypes, ProjectTypes
  <2> QED
    BY <2>1, <2>2
<1>3. UserTypes' /\ Hands' /\ UndoHasFaces'
  <2>1. /\ Return(u) \/ (Step(u, "check") /\ UNCHANGED <<of, saw>>)
        /\ UNCHANGED <<last, drawn>> /\ doing[u] = "approve"
    BY DEF Approve
  <2>2. "check" \in Phases \ {"idle", "undo"} /\ of[u] \in AllFaces
    BY <2>1 DEF Phases, Typed, Hands, FacePhases
  <2>3. saw \in [Users -> Sights]
    BY DEF Typed, UserTypes
  <2> QED
    BY <2>1, <2>2, <2>3, GoOnTypes, ReturnsTypes
<1>4. CountTypes'
  BY <1>1 DEF Approve, pageVars, Typed, CountTypes
<1> QED
  BY <1>1, <1>2, <1>3, <1>4 DEF Typed

(* A removal of its own goes on to the transaction it is for.              *)
LEMMA AfterRemovalTypes ==
    ASSUME Typed, NEW u \in Users, AfterRemoval(u), UNCHANGED <<of, last, drawn>>,
           saw' \in [Users -> Sights]
    PROVE  UserTypes' /\ Hands' /\ UndoHasFaces'
<1>1. of[u] \in AllFaces \union {NoFace}
  BY DEF Typed, UserTypes
<1>2. {"undoTxn", "rejectTxn"} \subseteq Phases \ {"idle", "undo"} /\ "undoTxn" \notin FacePhases
  BY DEF Phases, FacePhases
<1>3. CASE Undoing(u)
  BY <1>2, <1>3, GoOnTypes DEF AfterRemoval, Undoing
<1>4. CASE ~Undoing(u)
  BY <1>1, <1>2, <1>4, GoOnTypes DEF AfterRemoval, Undoing
<1> QED
  BY <1>3, <1>4

LEMMA RemoveTypes ==
    ASSUME Typed, NEW u \in Users, Remove(u) \/ Clear(u)
    PROVE  Typed'
<1>1. FaceTypes' /\ ProjectTypes' /\ RunTypes' /\ UNCHANGED <<requested, told, nRequests, nStops>>
  BY QuietTypes, RunsKeepTypes DEF Remove, Clear
<1>2. /\ Step(u, "clear") \/ AfterRemoval(u)
      /\ saw' \in [Users -> Sights] /\ UNCHANGED <<of, last, drawn>>
  <2>1. saw' = saw \/ saw' = [saw EXCEPT ![u] = [saw[u] EXCEPT !.removed = TRUE]]
    BY DEF Remove, Clear
  <2>2. saw' \in [Users -> Sights]
    <3>1. saw \in [Users -> Sights] /\ TRUE \in BOOLEAN
      BY DEF Typed, UserTypes
    <3>2. [saw[u] EXCEPT !.removed = TRUE] \in Sights
      BY <3>1, SightBits
    <3> QED
      BY <2>1, <3>1, <3>2
  <2> QED
    BY <2>2 DEF Remove, Clear, RemovalFails, AfterRemoval
<1>3. UserTypes' /\ Hands' /\ UndoHasFaces'
  <2>1. CASE Step(u, "clear")
    <3>1. "clear" \in Phases \ {"idle", "undo"} /\ "clear" \notin FacePhases
      BY DEF Phases, FacePhases
    <3> QED
      BY <1>2, <2>1, <3>1, GoOnTypes
  <2> QED
    BY <1>2, <2>1, AfterRemovalTypes
<1>4. CountTypes'
  <2>1. ours' \in BOOLEAN /\ nReviews' = nReviews
    BY DEF Remove, Clear, TakeOff, Typed, CountTypes
  <2>2. accidents' \subseteq Accidents
    BY NoteTypes DEF Remove, Clear, Typed, CountTypes, Accidents
  <2> QED
    BY <1>1, <2>1, <2>2 DEF Typed, CountTypes
<1> QED
  BY <1>1, <1>3, <1>4 DEF Typed

LEMMA ShownFaces ==
    ASSUME NEW p, NEW review
    PROVE  Shown(p, review) \in SUBSET AllFaces
    BY DEF Shown, FacesOf

LEMMA RememberTypes ==
    ASSUME Typed, NEW u \in Users, NEW action \in {"none", "target"}, NEW p,
           NEW these \in SUBSET AllFaces, NEW review \in BOOLEAN,
           Remember(u, action, p, these, review)
    PROVE  /\ last' \in [Users -> Lasts] /\ drawn' \in [Users -> SUBSET AllFaces]
           /\ \A v \in Users \ {u} : last'[v] = last[v]
<1>1. drawn[u] \intersect FacesOf(p) \in SUBSET AllFaces
  BY DEF FacesOf
<1>2. [action |-> action, faces |-> these, drawn |-> drawn[u] \intersect FacesOf(p),
       review |-> review] \in Lasts
  BY <1>1 DEF Lasts
<1>3. last' \in [Users -> Lasts] /\ \A v \in Users \ {u} : last'[v] = last[v]
  BY <1>2 DEF Remember, Typed, UserTypes
<1>4. drawn' \in [Users -> SUBSET AllFaces]
  BY DEF Remember, Typed, UserTypes
<1> QED
  BY <1>3, <1>4

LEMMA ClassifyNoneTypes ==
    ASSUME Typed, NEW u \in Users, NEW p \in Projects, NEW review \in BOOLEAN,
           ClassifyNone(u, p, review)
    PROVE  Typed'
<1> DEFINE these == Shown(p, review)
<1>1. RunTypes' /\ UNCHANGED <<requested, told, nRequests, nStops>>
  BY RunsKeepTypes DEF ClassifyNone
<1>2. /\ verdict' = Write(verdict, these, "no") /\ by' = Write(by, these, u)
      /\ removal' = removal \/ removal' = Write(removal, these, TRUE)
      /\ Remember(u, "none", p, these, review) /\ Keep(these)
      /\ UNCHANGED <<replaced, written, bootstrapped, doing, of, saw>>
      /\ Begin(u, "classify") /\ UNCHANGED <<ours, accidents>>
  BY DEF ClassifyNone, pageVars
<1>3. these \in SUBSET AllFaces
  BY ShownFaces
<1> HIDE DEF these
<1>4. FaceTypes'
  <2>1. "no" \in Verdicts
    BY DEF Verdicts
  <2>2. verdict' \in [AllFaces -> Verdicts]
    BY <1>2, <2>1, WriteTypes DEF Typed, FaceTypes
  <2>3. by' \in [AllFaces -> {"nobody", "model"} \union Users]
    BY <1>2, WriteTypes DEF Typed, FaceTypes
  <2>4. removal' \in [AllFaces -> BOOLEAN]
    <3>1. removal \in [AllFaces -> BOOLEAN] /\ TRUE \in BOOLEAN
      BY DEF Typed, FaceTypes
    <3>2. Write(removal, these, TRUE) \in [AllFaces -> BOOLEAN]
      BY <3>1, WriteTypes
    <3> QED
      BY <1>2, <3>1, <3>2
  <2> QED
    BY <1>2, <2>2, <2>3, <2>4 DEF Typed, FaceTypes
<1>5. ProjectTypes'
  BY <1>1, <1>2, KeepTypes DEF Typed, ProjectTypes
<1>6. /\ last' \in [Users -> Lasts] /\ drawn' \in [Users -> SUBSET AllFaces]
      /\ \A v \in Users \ {u} : last'[v] = last[v]
  BY <1>2, <1>3, RememberTypes
<1>7. UserMove(u)
  <2>1. doing[u] = "idle" /\ doing'[u] = "idle"
    BY <1>2 DEF Begin
  <2> QED
    BY <1>2, <1>6, <2>1 DEF Typed, UserTypes, UserMove, Hands, FacePhases, FreePhases
<1>8. UserTypes' /\ Hands' /\ UndoHasFaces'
  <2>1. saw' \in [Users -> Sights]
    BY <1>2 DEF Typed, UserTypes
  <2> QED
    BY <1>6, <1>7, <2>1, UsersTyped DEF Typed
<1>9. CountTypes'
  BY <1>1, <1>2, BeginTypes DEF Typed, CountTypes
<1> QED
  BY <1>1, <1>4, <1>5, <1>8, <1>9 DEF Typed

LEMMA ClassifyTargetTypes ==
    ASSUME Typed, NEW u \in Users, NEW f \in AllFaces, NEW review \in BOOLEAN,
           ClassifyTarget(u, f, review)
    PROVE  Typed'
<1> DEFINE p == ProjectOf[f]
           these == Shown(p, review)
           picked == IF f \in these \/ (~review /\ verdict[f] = "open") THEN {f} ELSE {}
           dismissed == these \ {f}
<1>1. RunTypes' /\ UNCHANGED <<requested, told, nRequests, nStops>>
  BY RunsKeepTypes DEF ClassifyTarget
<1>2. /\ verdict' = Write(Write(verdict, dismissed, "no"), picked, "yes")
      /\ by' = Write(by, dismissed \union picked, u)
      /\ removal' = Write(removal, picked, FALSE)
      /\ Remember(u, "target", p, these, review) /\ Keep(dismissed \union picked)
      /\ \/ Step(u, "check") /\ of' = [of EXCEPT ![u] = f]
         \/ UNCHANGED <<doing, of>>
      /\ UNCHANGED <<replaced, written, bootstrapped, saw>>
      /\ Begin(u, "classify") /\ UNCHANGED <<ours, accidents>>
  BY DEF ClassifyTarget, pageVars
<1>3. these \in SUBSET AllFaces
  BY ShownFaces
<1> HIDE DEF these, picked, dismissed, p
<1>4. FaceTypes'
  <2>1. {"no", "yes"} \subseteq Verdicts
    BY DEF Verdicts
  <2>2. verdict' \in [AllFaces -> Verdicts]
    BY <1>2, <2>1, WriteTypes DEF Typed, FaceTypes
  <2>3. by' \in [AllFaces -> {"nobody", "model"} \union Users]
    BY <1>2, WriteTypes DEF Typed, FaceTypes
  <2>4. removal' \in [AllFaces -> BOOLEAN]
    BY <1>2, WriteTypes DEF Typed, FaceTypes
  <2> QED
    BY <1>2, <2>2, <2>3, <2>4 DEF Typed, FaceTypes
<1>5. ProjectTypes'
  BY <1>1, <1>2, KeepTypes DEF Typed, ProjectTypes
<1>6. /\ last' \in [Users -> Lasts] /\ drawn' \in [Users -> SUBSET AllFaces]
      /\ \A v \in Users \ {u} : last'[v] = last[v]
  BY <1>2, <1>3, RememberTypes
<1>7. UserMove(u)
  <2>1. CASE Step(u, "check") /\ of' = [of EXCEPT ![u] = f]
    BY <1>6, <2>1, LoadTypes DEF Typed, FacePhases
  <2>2. CASE UNCHANGED <<doing, of>>
    <3>1. doing[u] = "idle" /\ doing'[u] = "idle"
      BY <1>2, <2>2 DEF Begin
    <3> QED
      BY <1>6, <2>2, <3>1 DEF Typed, UserTypes, UserMove, Hands, FacePhases, FreePhases
  <2> QED
    BY <1>2, <2>1, <2>2
<1>8. UserTypes' /\ Hands' /\ UndoHasFaces'
  <2>1. saw' \in [Users -> Sights]
    BY <1>2 DEF Typed, UserTypes
  <2> QED
    BY <1>6, <1>7, <2>1, UsersTyped DEF Typed
<1>9. CountTypes'
  BY <1>1, <1>2, BeginTypes DEF Typed, CountTypes
<1> QED
  BY <1>1, <1>4, <1>5, <1>8, <1>9 DEF Typed

LEMMA TouchedFaces ==
    ASSUME UserTypes, NEW u \in Users
    PROVE  /\ last[u].faces \in SUBSET AllFaces /\ last[u].drawn \in SUBSET AllFaces
           /\ last[u].review \in BOOLEAN
           /\ Touched(u) \in SUBSET AllFaces
           /\ Touched(u) # {} => ProjectOf[CHOOSE f \in Touched(u) : TRUE] \in Projects
<1>1. last[u] \in Lasts
  BY DEF UserTypes
<1>2. /\ last[u].faces \in SUBSET AllFaces /\ last[u].drawn \in SUBSET AllFaces
      /\ last[u].review \in BOOLEAN
  BY <1>1 DEF Lasts
<1>3. Touched(u) \in SUBSET AllFaces
  BY <1>2 DEF Touched
<1>4. Touched(u) # {} => (CHOOSE f \in Touched(u) : TRUE) \in AllFaces
  BY <1>3
<1> QED
  BY <1>2, <1>3, <1>4, NamesAssumption

LEMMA UndoReadTypes ==
    ASSUME Typed, NEW u \in Users, UndoRead(u)
    PROVE  Typed'
<1> DEFINE p == ProjectOf[CHOOSE f \in Touched(u) : TRUE]
<1>1. FaceTypes' /\ ProjectTypes' /\ RunTypes'
  BY QuietTypes DEF UndoRead
<1>2. /\ Begin(u, "undo") /\ Touched(u) # {} /\ Step(u, "undo")
      /\ saw' = [saw EXCEPT ![u] = Sight(p, Touched(u))]
      /\ UNCHANGED <<ours, of, last, drawn, accidents>>
  BY DEF UndoRead, pageVars
<1>3. p \in Projects /\ Touched(u) \in SUBSET AllFaces
  BY <1>2, TouchedFaces DEF Typed
<1> HIDE DEF p
<1>4. saw' \in [Users -> Sights]
  BY <1>2, <1>3, SightTypes DEF Typed, UserTypes
<1>5. UserMove(u)
  <2>1. of[u] = NoFace
    BY <1>2 DEF Begin, Typed, Hands, FreePhases
  <2>2. Touched(u)' # {}
    BY <1>2 DEF Touched
  <2> QED
    BY <1>2, <2>1, <2>2 DEF Typed, UserTypes, UserMove, Step, Phases, FacePhases
<1>6. UserTypes' /\ Hands' /\ UndoHasFaces'
  BY <1>2, <1>4, <1>5, UsersTyped DEF Typed, UserTypes
<1>7. CountTypes'
  BY <1>2, BeginTypes, RunsKeepTypes DEF UndoRead, Typed, CountTypes
<1> QED
  BY <1>1, <1>6, <1>7 DEF Typed

LEMMA UndoContextTypes ==
    ASSUME Typed, NEW u \in Users, UndoContext(u)
    PROVE  Typed'
<1> DEFINE p == ProjectOf[CHOOSE f \in Touched(u) : TRUE]
<1>1. FaceTypes' /\ ProjectTypes' /\ RunTypes'
  BY QuietTypes DEF UndoContext
<1>2. p \in Projects /\ doing[u] = "undo"
  BY TouchedFaces DEF UndoContext, Typed, UndoHasFaces
<1> DEFINE sibling == OtherTarget(p, Touched(u))
<1>3. /\ saw' = [saw EXCEPT ![u].sibling = sibling, ![u].flight = requested[p]]
      /\ sibling \in BOOLEAN
  BY DEF UndoContext, OtherTarget
<1> HIDE DEF p, sibling
<1>4. saw' \in [Users -> Sights]
  <2>1. requested[p] \in BOOLEAN
    BY <1>2 DEF Typed, ProjectTypes
  <2> QED
    <3>1. saw \in [Users -> Sights]
      BY DEF Typed, UserTypes
    <3>2. saw' = [saw EXCEPT ![u] = [saw[u] EXCEPT !.sibling = sibling, !.flight = requested[p]]]
      BY <1>3, <3>1
    <3>3. [saw[u] EXCEPT !.sibling = sibling, !.flight = requested[p]] \in Sights
      BY <1>3, <2>1, <3>1, SightBits
    <3> QED
      BY <3>1, <3>2, <3>3
<1>5. PICK phase \in {"undoTxn", "remove"} : Step(u, phase)
  BY DEF UndoContext
<1>6. phase \in Phases \ {"idle", "undo"} /\ phase \notin FacePhases
  BY DEF Phases, FacePhases
<1>7. of[u] = NoFace
  BY <1>2 DEF Typed, Hands, FreePhases
<1>8. UserTypes' /\ Hands' /\ UndoHasFaces'
  BY <1>4, <1>5, <1>6, <1>7, GoOnTypes DEF UndoContext
<1>9. CountTypes'
  BY RunsKeepTypes DEF UndoContext, pageVars, Typed, CountTypes
<1> QED
  BY <1>1, <1>8, <1>9 DEF Typed

LEMMA UndoTxnTypes ==
    ASSUME Typed, NEW u \in Users, UndoTxn(u)
    PROVE  Typed'
<1> DEFINE deleted == last[u].drawn
           undone == {f \in last[u].faces \ deleted : Exists(f)}
           before == IF last[u].review THEN "no" ELSE "open"
           whom == IF last[u].review THEN "model" ELSE "nobody"
<1>1. RunTypes' /\ UNCHANGED <<requested, told, nRequests, nStops>>
  BY RunsKeepTypes DEF UndoTxn
<1>2. /\ verdict' = Write(Write(verdict, undone, before), deleted, "deleted")
      /\ by' = Write(by, undone, whom)
      /\ Keep(undone \union deleted) /\ UNCHANGED <<replaced, bootstrapped>>
  BY DEF UndoTxn
<1>3. /\ before \in Verdicts /\ "deleted" \in Verdicts
      /\ whom \in {"nobody", "model"} \union Users
  BY DEF Verdicts
<1>4. written' \in [AllFaces -> BOOLEAN]
  <2>1. written' = [f \in AllFaces |-> IF f \in undone THEN UndoKeepsMark(u, f) ELSE written[f]]
    BY DEF UndoTxn
  <2>2. \A f \in AllFaces : UndoKeepsMark(u, f) \in BOOLEAN /\ written[f] \in BOOLEAN
    BY DEF UndoKeepsMark, Typed, FaceTypes
  <2> HIDE DEF undone
  <2> QED
    BY <2>1, <2>2, Zenon
<1>5. removal' \in [AllFaces -> BOOLEAN]
  <2>1. removal' = [f \in AllFaces |-> IF f \in undone THEN UndoQueues(u, f) ELSE removal[f]]
    BY DEF UndoTxn
  <2>2. \A f \in AllFaces : UndoQueues(u, f) \in BOOLEAN /\ removal[f] \in BOOLEAN
    BY DEF UndoQueues, Typed, FaceTypes
  <2> HIDE DEF undone
  <2> QED
    BY <2>1, <2>2, Zenon
<1> HIDE DEF undone, deleted, before, whom
<1>6. FaceTypes'
  <2>1. verdict' \in [AllFaces -> Verdicts]
    BY <1>2, <1>3, WriteTypes DEF Typed, FaceTypes
  <2>2. by' \in [AllFaces -> {"nobody", "model"} \union Users]
    BY <1>2, <1>3, WriteTypes DEF Typed, FaceTypes
  <2> QED
    BY <1>2, <1>4, <1>5, <2>1, <2>2 DEF Typed, FaceTypes
<1>7. ProjectTypes'
  BY <1>1, <1>2, KeepTypes DEF Typed, ProjectTypes
<1>8. UserTypes' /\ Hands' /\ UndoHasFaces'
  <2>1. last' = [last EXCEPT ![u] = NoLast] /\ Return(u) /\ drawn' = drawn
    BY DEF UndoTxn
  <2>2. NoLast \in Lasts
    BY DEF NoLast, Lasts
  <2>3. last' \in [Users -> Lasts] /\ \A v \in Users \ {u} : last'[v] = last[v]
    BY <2>1, <2>2 DEF Typed, UserTypes
  <2>4. UserMove(u) /\ saw' \in [Users -> Sights]
    BY <2>1, <2>3, ReturnTypes DEF Typed
  <2> QED
    BY <2>1, <2>3, <2>4, UsersTyped DEF Typed, UserTypes
<1>9. CountTypes'
  <2>1. accidents' \subseteq Accidents /\ UNCHANGED <<ours, nReviews>>
    BY DEF UndoTxn, Accidents, Typed, CountTypes
  <2> QED
    BY <1>1, <2>1 DEF Typed, CountTypes
<1> QED
  BY <1>1, <1>6, <1>7, <1>8, <1>9 DEF Typed

LEMMA DrawTypes ==
    ASSUME Typed, NEW u \in Users, NEW g \in AllFaces, NEW review \in BOOLEAN,
           Draw(u, g, review)
    PROVE  Typed'
<1>1. RunTypes' /\ UNCHANGED <<requested, told, nRequests, nStops>>
  BY RunsKeepTypes DEF Draw
<1>2. PICK these \in SUBSET AllFaces, dismissed \in SUBSET AllFaces :
        /\ verdict' = [Write(verdict, dismissed, "no") EXCEPT ![g] = "yes"]
        /\ by' = Write(by, dismissed \union {g}, u)
        /\ drawn' = [drawn EXCEPT ![u] = @ \union {g}]
        /\ last' = [last EXCEPT ![u] = [action |-> "drawn", faces |-> these,
                       drawn |-> {g}, review |-> review]]
        /\ Keep(dismissed)
  <2>1. PICK these \in IF review THEN {Shown(ProjectOf[g], TRUE)}
                       ELSE SUBSET {f \in FacesOf(ProjectOf[g]) : Exists(f)} :
          /\ verdict' = [Write(verdict, these \intersect Shown(ProjectOf[g], review), "no")
                            EXCEPT ![g] = "yes"]
          /\ by' = Write(by, (these \intersect Shown(ProjectOf[g], review)) \union {g}, u)
          /\ drawn' = [drawn EXCEPT ![u] = @ \union {g}]
          /\ last' = [last EXCEPT ![u] = [action |-> "drawn", faces |-> these,
                         drawn |-> {g}, review |-> review]]
          /\ Keep(these \intersect Shown(ProjectOf[g], review))
    BY DEF Draw
  <2>2. these \in SUBSET AllFaces
    BY <2>1, ShownFaces DEF FacesOf
  <2>3. these \intersect Shown(ProjectOf[g], review) \in SUBSET AllFaces
    BY <2>2
  <2> QED
    BY <2>1, <2>2, <2>3
<1>3. /\ of' = [of EXCEPT ![u] = g] /\ Step(u, "check") /\ Begin(u, "draw")
      /\ UNCHANGED <<replaced, written, removal, bootstrapped, saw, ours, accidents>>
  BY DEF Draw, pageVars
<1>4. FaceTypes'
  <2>1. "no" \in Verdicts /\ "yes" \in Verdicts
    BY DEF Verdicts
  <2>2. Write(verdict, dismissed, "no") \in [AllFaces -> Verdicts]
    BY <2>1, WriteTypes DEF Typed, FaceTypes
  <2>3. verdict' \in [AllFaces -> Verdicts]
    BY <1>2, <2>1, <2>2
  <2>4. by' \in [AllFaces -> {"nobody", "model"} \union Users]
    BY <1>2, WriteTypes DEF Typed, FaceTypes
  <2> QED
    BY <1>3, <2>3, <2>4 DEF Typed, FaceTypes
<1>5. ProjectTypes'
  BY <1>1, <1>2, <1>3, KeepTypes DEF Typed, ProjectTypes
<1>6. UserTypes' /\ Hands' /\ UndoHasFaces'
  <2>1. [action |-> "drawn", faces |-> these, drawn |-> {g}, review |-> review] \in Lasts
    BY DEF Lasts
  <2>2. last' \in [Users -> Lasts] /\ \A v \in Users \ {u} : last'[v] = last[v]
    BY <1>2, <2>1 DEF Typed, UserTypes
  <2>3. drawn' \in [Users -> SUBSET AllFaces] /\ saw' \in [Users -> Sights]
    BY <1>2, <1>3 DEF Typed, UserTypes
  <2>4. UserMove(u)
    BY <1>3, <2>2, LoadTypes DEF Typed, FacePhases
  <2> QED
    BY <2>2, <2>3, <2>4, UsersTyped DEF Typed
<1>7. CountTypes'
  BY <1>1, <1>3, BeginTypes DEF Typed, CountTypes
<1> QED
  BY <1>1, <1>4, <1>5, <1>6, <1>7 DEF Typed

LEMMA EditTxnTypes ==
    ASSUME Typed, NEW u \in Users, NEW g \in AllFaces, EditTxn(u, g)
    PROVE  Typed'
<1> DEFINE f == of[u]
           asSeen == IF f \in saw[u].yes THEN "yes"
                     ELSE IF f \in saw[u].no THEN "no" ELSE "open"
           marked == f \in saw[u].written
<1>1. RunTypes' /\ UNCHANGED <<requested, told, nRequests, nStops>>
  BY RunsKeepTypes DEF EditTxn
<1>2. f \in AllFaces
  BY DEF EditTxn, Typed, Hands, FacePhases
<1>3. UNCHANGED <<removal, bootstrapped, ours, last, drawn, nReviews>>
  BY DEF EditTxn, pageVars
<1>4. \/ UNCHANGED <<verdict, replaced, by, written, promised, accidents>>
      \/ /\ verdict' = [verdict EXCEPT ![g] = asSeen]
         /\ replaced' = replaced \union {f}
         /\ by' = [by EXCEPT ![g] = u]
         /\ written' = [written EXCEPT ![g] = marked]
         /\ Note(TRUE, "reverted")
         /\ Keep({f})
  BY DEF EditTxn
<1>5. asSeen \in Verdicts /\ marked \in BOOLEAN
  BY DEF Verdicts
<1>6. Return(u) \/ (Step(u, "check") /\ of' = [of EXCEPT ![u] = g] /\ UNCHANGED saw)
  BY DEF EditTxn
<1> HIDE DEF f, asSeen, marked
<1>7. FaceTypes'
  <2>1. CASE UNCHANGED <<verdict, replaced, by, written>>
    BY <1>3, <2>1 DEF Typed, FaceTypes
  <2>2. CASE /\ verdict' = [verdict EXCEPT ![g] = asSeen]
             /\ replaced' = replaced \union {f}
             /\ by' = [by EXCEPT ![g] = u]
             /\ written' = [written EXCEPT ![g] = marked]
    <3>1. verdict' \in [AllFaces -> Verdicts] /\ written' \in [AllFaces -> BOOLEAN]
      BY <1>5, <2>2, WriteOneTypes DEF Typed, FaceTypes
    <3>2. by' \in [AllFaces -> {"nobody", "model"} \union Users]
      BY <2>2 DEF Typed, FaceTypes
    <3> QED
      BY <1>2, <1>3, <2>2, <3>1, <3>2 DEF Typed, FaceTypes
  <2> QED
    BY <1>4, <2>1, <2>2
<1>8. ProjectTypes'
  <2>1. promised' \in [Projects -> SUBSET AllFaces]
    BY <1>4, KeepTypes DEF Typed, ProjectTypes
  <2> QED
    BY <1>1, <1>3, <2>1 DEF Typed, ProjectTypes
<1>9. UserTypes' /\ Hands' /\ UndoHasFaces'
  <2>1. CASE Return(u)
    BY <1>3, <2>1, ReturnsTypes
  <2>2. CASE Step(u, "check") /\ of' = [of EXCEPT ![u] = g] /\ UNCHANGED saw
    <3>1. UserMove(u)
      BY <1>3, <2>2, LoadTypes DEF Typed, FacePhases
    <3> QED
      BY <1>3, <2>2, <3>1, UsersTyped DEF Typed, UserTypes
  <2> QED
    BY <1>6, <2>1, <2>2
<1>10. CountTypes'
  BY <1>1, <1>3, <1>4, NoteTypes DEF Typed, CountTypes, Accidents
<1> QED
  BY <1>1, <1>7, <1>8, <1>9, <1>10 DEF Typed

LEMMA RerunTypes ==
    ASSUME Typed, NEW u \in Users, NEW p, Rerun(u, p)
    PROVE  Typed'
<1>1. RunTypes' /\ UNCHANGED <<requested, told, nRequests, nStops>>
  BY RunsKeepTypes DEF Rerun
<1>2. PICK these : /\ verdict' = Write(verdict, these, "open")
                   /\ by' = Write(by, these, "nobody")
                   /\ Keep(these)
  BY DEF Rerun
<1>3. /\ UNCHANGED <<replaced, written, removal, bootstrapped, ours, userVars>>
      /\ Begin(u, "rerun") /\ Note(TRUE, "reverted")
  BY DEF Rerun, pageVars
<1>4. FaceTypes'
  <2>1. verdict' \in [AllFaces -> Verdicts]
    BY <1>2, WriteTypes DEF Typed, FaceTypes, Verdicts
  <2>2. by' \in [AllFaces -> {"nobody", "model"} \union Users]
    BY <1>2, WriteTypes DEF Typed, FaceTypes
  <2> QED
    BY <1>3, <2>1, <2>2 DEF Typed, FaceTypes
<1>5. ProjectTypes'
  BY <1>1, <1>2, <1>3, KeepTypes DEF Typed, ProjectTypes
<1>6. UserTypes' /\ Hands' /\ UndoHasFaces'
  BY <1>3 DEF userVars, Typed, UserTypes, Hands, UndoHasFaces, Touched
<1>7. CountTypes'
  <2>1. accidents' \subseteq Accidents
    BY <1>3, NoteTypes DEF Typed, CountTypes, Accidents
  <2> QED
    BY <1>1, <1>3, <2>1, BeginTypes DEF Typed
<1> QED
  BY <1>1, <1>4, <1>5, <1>6, <1>7 DEF Typed

LEMMA ReviewStepTypes ==
    ASSUME Typed, NEW u \in Users, ReviewStep(u)
    PROVE  Typed'
<1>1. ASSUME NEW f \in AllFaces, LoadFace(u, f) \/ EditLoad(u, f) \/ EditTxn(u, f)
      PROVE  Typed'
  BY <1>1, LoadFaceTypes, EditTxnTypes
<1>2. ASSUME NEW f \in AllFaces, NEW review \in BOOLEAN,
             ClassifyTarget(u, f, review) \/ Draw(u, f, review)
      PROVE  Typed'
  BY <1>2, ClassifyTargetTypes, DrawTypes
<1>3. ASSUME NEW p \in Projects, NEW review \in BOOLEAN, ClassifyNone(u, p, review)
      PROVE  Typed'
  BY <1>3, ClassifyNoneTypes
<1>4. ASSUME NEW p \in Projects, Rerun(u, p) PROVE Typed'
  BY <1>4, RerunTypes
<1>5. CASE Approve(u) \/ Check(u) \/ Mark(u) \/ RejectDecide(u) \/ RejectTxn(u)
  BY <1>5, ApproveTypes, CheckTypes, MarkFaceTypes, RejectDecideTypes, RejectTxnTypes
<1>6. CASE Remove(u) \/ Clear(u) \/ UndoRead(u) \/ UndoContext(u) \/ UndoTxn(u) \/ GiveUp(u)
  BY <1>6, RemoveTypes, UndoReadTypes, UndoContextTypes, UndoTxnTypes, GiveUpTypes
<1> QED
  BY <1>1, <1>2, <1>3, <1>4, <1>5, <1>6 DEF ReviewStep

-----------------------------------------------------------------------------
(* Every step *)

LEMMA UsersKeepTypes ==
    ASSUME Typed, UNCHANGED userVars
    PROVE  UserTypes' /\ Hands' /\ UndoHasFaces'
    BY DEF userVars, Typed, UserTypes, Hands, UndoHasFaces, Touched

LEMMA RunStepKeepsUsers ==
    ASSUME NEW p \in Projects, RunStep(p)
    PROVE  UNCHANGED userVars
<1> USE DEF othersKeep, stepKeeps
<1>1. CASE StartRun(p) \/ AbortRun(p) \/ Select(p) \/ NextFace(p) \/ EndBatch(p)
  BY <1>1 DEF StartRun, AbortRun, Select, NextFace, EndBatch
<1>2. CASE Reserve(p) \/ Lookup(p) \/ Adopt(p) \/ Recheck(p) \/ Edit(p) \/ Record(p)
  BY <1>2 DEF Reserve, Lookup, Adopt, Recheck, Edit, Record
<1>3. CASE \/ Removing(p) \/ RemovalLookup(p) \/ RemovalSend(p) \/ Settle(p)
           \/ ClearRow(p) \/ Finish(p)
  BY <1>3 DEF Removing, RemovalLookup, RemovalSend, Settle, ClearRow, Finish
<1> QED
  BY <1>1, <1>2, <1>3 DEF RunStep

LEMMA OtherStepTypes ==
    ASSUME Typed, NEW p \in Projects,
           Shutdown(p) \/ Crash(p) \/ Send(p) \/ StopEdits(p)
    PROVE  Typed'
<1>1. UserTypes' /\ Hands' /\ UndoHasFaces'
  BY UsersKeepTypes DEF Shutdown, Crash, Send, StopEdits, othersKeep
<1>2. FaceTypes'
  BY DEF Shutdown, Crash, Send, StopEdits, faceVars, Typed, FaceTypes
<1>3. CountTypes'
  <2>1. /\ nStops \in Nat /\ nRequests \in Nat
        /\ nStops' = nStops \/ nStops' = nStops + 1
        /\ nRequests' = nRequests \/ nRequests' = nRequests + 1
        /\ UNCHANGED <<ours, accidents, nReviews>>
    BY DEF Shutdown, Crash, Send, StopEdits, othersKeep, counts, pageVars, Typed, CountTypes
  <2>2. nStops' \in Nat /\ nRequests' \in Nat
    BY <2>1
  <2> QED
    BY <2>1, <2>2 DEF Typed, CountTypes
<1>4. RunTypes'
  <2>1. CASE Crash(p)
    BY <2>1, LeaveTypes DEF Crash, Typed
  <2>2. CASE Shutdown(p) \/ StopEdits(p)
    BY <2>2 DEF Shutdown, StopEdits, runVars, Typed, RunTypes
  <2>3. CASE Send(p)
    <3>1. (at[p] \in Ending) \in BOOLEAN
      OBVIOUS
    <3>2. late' \in [Projects -> BOOLEAN]
      BY <2>3, <3>1 DEF Send, Typed, RunTypes
    <3> QED
      BY <2>3, <3>2 DEF Send, Typed, RunTypes
  <2> QED
    BY <2>1, <2>2, <2>3
<1>5. ProjectTypes'
  <2>1. CASE Shutdown(p) \/ Crash(p)
    BY <2>1 DEF Shutdown, Crash, Typed, ProjectTypes
  <2>2. CASE Send(p) \/ StopEdits(p)
    <3>1. Writable(p) \in SUBSET AllFaces
      BY WritableFaces
    <3> QED
      BY <2>2, <3>1 DEF Send, StopEdits, Typed, ProjectTypes
  <2> QED
    BY <2>1, <2>2
<1> QED
  BY <1>1, <1>2, <1>3, <1>4, <1>5 DEF Typed

LEMMA InferTypes ==
    ASSUME Typed, NEW f \in AllFaces, Infer(f)
    PROVE  Typed'
<1>1. UserTypes' /\ Hands' /\ UndoHasFaces'
  BY UsersKeepTypes DEF Infer, stepKeeps, othersKeep
<1>2. FaceTypes'
  BY DEF Infer, faceVars, Typed, FaceTypes, Verdicts
<1>3. ProjectTypes' /\ RunTypes'
  BY DEF Infer, stepKeeps, runVars, Typed, ProjectTypes, RunTypes
<1>4. UNCHANGED <<ours, accidents, nReviews, nRequests, nStops>>
  BY DEF Infer, stepKeeps, othersKeep, pageVars
<1>5. CountTypes'
  BY <1>4 DEF Typed, CountTypes
<1> QED
  BY <1>1, <1>2, <1>3, <1>5 DEF Typed

LEMMA TypeStep == TypeInv /\ [Next]_vars => TypeInv'
<1> SUFFICES ASSUME TypeInv, [Next]_vars PROVE TypeInv'
  OBVIOUS
<1>1. Typed
  BY TypeParts DEF TypeInv, Typed
<1>2. PageInv'
  BY StepPage DEF TypeInv
<1>3. Typed'
  <2>1. ASSUME NEW p \in Projects, RunStep(p) PROVE Typed'
    <3>1. FaceTypes' /\ ProjectTypes' /\ RunTypes' /\ CountTypes'
      BY <2>1, RunStepTypes
    <3>2. UserTypes' /\ Hands' /\ UndoHasFaces'
      BY <1>1, <2>1, RunStepKeepsUsers, UsersKeepTypes
    <3> QED
      BY <3>1, <3>2 DEF Typed
  <2>2. ASSUME NEW p \in Projects, Shutdown(p) \/ Crash(p) \/ Send(p) \/ StopEdits(p)
        PROVE  Typed'
    BY <1>1, <2>2, OtherStepTypes
  <2>3. ASSUME NEW u \in Users, ReviewStep(u) PROVE Typed'
    BY <1>1, <2>3, ReviewStepTypes
  <2>4. ASSUME NEW f \in AllFaces, Infer(f) PROVE Typed'
    BY <1>1, <2>4, InferTypes
  <2>5. CASE RowAges
    <3>1. UserTypes' /\ Hands' /\ UndoHasFaces'
      BY <1>1, <2>5, UsersKeepTypes DEF RowAges, stepKeeps, othersKeep
    <3>2. UNCHANGED <<faceVars, bootstrapped, requested, told, promised, runVars,
                      ours, accidents, nReviews, nRequests, nStops>>
      BY <2>5 DEF RowAges, stepKeeps, othersKeep
    <3> QED
      BY <1>1, <3>1, <3>2 DEF Typed, FaceTypes, ProjectTypes, RunTypes, CountTypes,
         faceVars, runVars
  <2>6. CASE UNCHANGED vars
    <3>1. UserTypes' /\ Hands' /\ UndoHasFaces'
      BY <1>1, <2>6, UsersKeepTypes DEF vars
    <3> QED
      BY <1>1, <2>6, <3>1 DEF vars, Typed, FaceTypes, ProjectTypes, RunTypes, CountTypes,
         faceVars, runVars, pageVars, counts
  <2> QED
    BY <2>1, <2>2, <2>3, <2>4, <2>5, <2>6 DEF Next
<1>4. RowTypes'
  BY <1>2 DEF PageInv, RowInv
<1>5. TypeOK'
  BY <1>3, <1>4, TypeParts DEF Typed, TypeOK, RowTypes, FaceTypes, ProjectTypes,
     RunTypes, UserTypes, CountTypes
<1> QED
  BY <1>2, <1>3, <1>5 DEF TypeInv, Typed

(* Every column, phase and counter has its type in whatever order the runs *)
(* of all projects, the review handlers, requests, stops, crashes and      *)
(* failures take their steps; a handler that changes a face has one in     *)
(* hand, and an undo under way is of something (worker._SdcRun, the review *)
(* handlers of app.py).                                                    *)
THEOREM TypesKept == Spec => []TypeInv
<1>1. Init => TypeInv
  BY InitTypes
<1>2. TypeInv /\ [Next]_vars => TypeInv'
  BY TypeStep
<1> QED
  BY <1>1, <1>2, PTL DEF Spec

(* TypeOK holds of every reachable state, for all constants.               *)
THEOREM TypeCorrect == Spec => []TypeOK
<1>1. TypeInv => TypeOK
  BY DEF TypeInv
<1> QED
  BY <1>1, TypesKept, PTL

-----------------------------------------------------------------------------
(* Rejections                                                              *)
(*                                                                         *)
(* With several faces of a project on the page, two reviewers who reject   *)
(* the two targets at once each count on the other's to keep the statement *)
(* (_settle_claim_for_rejection); and a run that ends after its edit takes *)
(* the record of it along, after which nobody queues a removal for a face  *)
(* that an approved sibling has replaced meanwhile.                        *)
(* RejectionsLeaveNoClaim is proved where neither can happen: every image  *)
(* has one face (any number of projects, reviewers, crashes and failures), *)
(* or one person reviews and nothing fails or stops (any number of         *)
(* projects and faces).                                                    *)
OneFaceEach == \A f, g \in AllFaces : ProjectOf[f] = ProjectOf[g] => f = g
OneCalmReviewer == (\A u, v \in Users : u = v) /\ ~Fails /\ MaxStops = 0

(* The faces a run may still mark as written.                              *)
InHand == Holding \union {"reserve"}
Ahead(p) == batch[p] \union {f \in {face[p]} : at[p] \in InHand}

(* A face that waits has no statement on record, unless the image was seen *)
(* to have it; a queued removal is that of a rejected face.                *)
FlagsFit ==
    /\ replaced = {}
    /\ \A f \in AllFaces :
          /\ removal[f] => verdict[f] = "no"
          /\ verdict[f] = "open" /\ written[f] => bootstrapped[ProjectOf[f]]

(* A run has no face ahead that is on record already, unless the image was *)
(* seen to have the statement, and none twice.                             *)
AheadFits ==
    \A p \in Projects :
        /\ \A f \in Ahead(p) :
              /\ f \in AllFaces /\ ProjectOf[f] = p /\ verdict[f] \in {"yes", "no"}
              /\ written[f] => bootstrapped[p]
        /\ at[p] \in InHand => face[p] \notin batch[p]

(* A face that was loaded with a statement on record is rejected by taking *)
(* the statement off: by the time of the transaction no run has the face   *)
(* ahead, or someone else reviewed it and the transaction does nothing.    *)
RejectPhases == {"approve", "reject", "remove", "clear", "rejectTxn"}
BareRecord(u) == of[u] \in saw[u].written /\ ~saw[u].boot
OutOfReach(u, f) ==
    \/ ~MayReview(u, f)
    \/ f \notin Ahead(ProjectOf[f]) /\ (written[f] \/ ~Target(f))
HandFits(u) ==
    of[u] # NoFace /\ doing[u] \in RejectPhases =>
        /\ verdict[of[u]] \in {"open", "yes", "no"}
        /\ doing[u] \in {"remove", "clear"} => BareRecord(u) /\ ~saw[u].sibling
        /\ saw[u].boot => bootstrapped[ProjectOf[of[u]]]
        /\ BareRecord(u) => verdict[of[u]] # "open" /\ OutOfReach(u, of[u])
        /\ doing[u] = "rejectTxn" /\ saw[u].sibling =>
              OtherTarget(ProjectOf[of[u]], {of[u]})
HandsFit == \A u \in Users : HandFits(u)

(* What stands for the statement: a target or a queued removal that no     *)
(* step under way is about to take back.                                   *)
Stands(f) == Target(f) \/ removal[f]
DoomedBy(u, f) ==
    /\ of[u] = f /\ MayReview(u, f)
    /\ \/ doing[u] = "clear"
       \/ doing[u] = "rejectTxn" /\ ~saw[u].sibling /\ ~Queues(u)
Doomed(f) == at[ProjectOf[f]] = "settle" \/ \E u \in Users : DoomedBy(u, f)
KeptBy(f) == Stands(f) /\ ~Doomed(f)

EditsStand ==
    OneFaceEach => \A p \in Projects : at[p] \in {"edit", "record"} => Stands(face[p])
ClaimIsKept ==
    ours => /\ claims > 0
            /\ \/ \E f \in AllFaces : KeptBy(f)
               \/ OneCalmReviewer /\ \E p \in Projects : at[p] = "record"

CalmParts == FlagsFit /\ AheadFits /\ HandsFit /\ EditsStand /\ ClaimIsKept
CalmInv == accidents = {} => CalmParts

LEMMA InitCalm == Init => CalmInv
<1> SUFFICES ASSUME Init PROVE CalmParts
  BY DEF CalmInv
<1>1. FlagsFit
  BY DEF Init, FlagsFit
<1>2. AheadFits
  BY DEF Init, AheadFits, Ahead, InHand, Holding
<1>3. HandsFit /\ EditsStand /\ ClaimIsKept
  BY DEF Init, HandsFit, HandFits, EditsStand, ClaimIsKept
<1> QED
  BY <1>1, <1>2, <1>3 DEF CalmParts

(* A run's face is safe from a rejection that would not queue a removal.   *)
LEMMA AheadIsSafe ==
    ASSUME HandsFit, NEW p \in Projects, NEW f \in Ahead(p), f \in AllFaces,
           ProjectOf[f] = p, at[p] # "settle"
    PROVE  ~Doomed(f)
<1> SUFFICES ASSUME NEW u \in Users, DoomedBy(u, f) PROVE FALSE
  BY DEF Doomed
<1>1. of[u] = f /\ f # NoFace /\ doing[u] \in RejectPhases
  BY NamesAssumption DEF DoomedBy, RejectPhases
<1>2. BareRecord(u)
  BY <1>1 DEF HandsFit, HandFits, DoomedBy, BareRecord, Queues
<1> QED
  BY <1>1, <1>2 DEF HandsFit, HandFits, OutOfReach, DoomedBy

(* The reviewers' part carries over when no verdict changes and no face    *)
(* comes within reach.                                                     *)
LEMMA HandsCarry ==
    ASSUME TypeInv, CalmParts, UNCHANGED <<verdict, replaced, doing, of, saw>>,
           \A q \in Projects : bootstrapped[q] => bootstrapped'[q],
           \A u \in Users, g \in AllFaces : OutOfReach(u, g) => OutOfReach(u, g)'
    PROVE  HandsFit'
<1>1. ASSUME NEW u \in Users PROVE HandFits(u)'
  <2>1. HandFits(u) /\ of[u] \in AllFaces \union {NoFace}
    BY DEF CalmParts, HandsFit, TypeInv, TypeOK
  <2>2. CASE of[u] = NoFace
    BY <2>2 DEF HandFits
  <2>3. CASE of[u] \in AllFaces
    <3> PICK g \in AllFaces : of[u] = g
      BY <2>3
    <3>1. OutOfReach(u, g) => OutOfReach(u, g)'
      OBVIOUS
    <3>2. bootstrapped[ProjectOf[g]] => bootstrapped'[ProjectOf[g]]
      BY NamesAssumption
    <3> QED
      BY <2>1, <3>1, <3>2 DEF HandFits, BareRecord, OtherTarget, FacesOf, Target
  <2> QED
    BY <2>1, <2>2, <2>3
<1> QED
  BY <1>1 DEF HandsFit

(* Steps of a run that change no face and add no statement.                *)
handVars == <<doing, of, saw>>
Others(p) ==
    \A q \in Projects \ {p} :
        at'[q] = at[q] /\ face'[q] = face[q] /\ batch'[q] = batch[q]
Moving(p) ==
    /\ UNCHANGED <<faceVars, bootstrapped, handVars>>
    /\ ours' => ours /\ claims' = claims
    /\ Others(p)
    /\ Ahead(p)' \subseteq Ahead(p) \union Writable(p)
    /\ at'[p] \in InHand => face'[p] \notin batch'[p]
    /\ at'[p] \in {"edit", "record"} =>
          face'[p] = face[p] /\ (at[p] = at'[p] \/ Target(face[p]))
    /\ at'[p] = "settle" => at[p] = "settle" \/ ~ours'
    /\ OneCalmReviewer /\ at[p] = "record" => at'[p] = "record"

LEMMA MovingCalm ==
    ASSUME TypeInv, CalmParts, NEW p \in Projects, Moving(p)
    PROVE  CalmParts'
<1>1. UNCHANGED <<verdict, replaced, by, written, removal, bootstrapped, doing, of, saw>>
  BY DEF Moving, faceVars, handVars
<1>2. FlagsFit'
  BY <1>1 DEF CalmParts, FlagsFit
<1>3. \A q \in Projects \ {p} : Ahead(q)' = Ahead(q)
  BY DEF Moving, Others, Ahead
<1>4. AheadFits'
  <2> SUFFICES ASSUME NEW q \in Projects
               PROVE  /\ \A f \in Ahead(q)' :
                            /\ f \in AllFaces /\ ProjectOf[f] = q /\ verdict[f] \in {"yes", "no"}
                            /\ written[f] => bootstrapped[q]
                      /\ at'[q] \in InHand => face'[q] \notin batch'[q]
    BY <1>1 DEF AheadFits
  <2>1. CASE q = p
    BY <2>1 DEF Moving, CalmParts, AheadFits, Writable, FacesOf, Target
  <2>2. CASE q # p
    BY <1>3, <2>2 DEF CalmParts, AheadFits, Moving, Others
  <2> QED
    BY <2>1, <2>2
<1>5. HandsFit'
  <2>1. ASSUME NEW u \in Users, NEW f \in AllFaces, OutOfReach(u, f)
        PROVE  OutOfReach(u, f)'
    <3>1. CASE ~MayReview(u, f)
      BY <1>1, <3>1 DEF OutOfReach, MayReview, Exists
    <3>2. CASE f \notin Ahead(ProjectOf[f]) /\ (written[f] \/ ~Target(f))
      <4>1. f \notin Ahead(ProjectOf[f])'
        BY <1>3, <3>2, NamesAssumption DEF Moving, Writable
      <4> QED
        BY <1>1, <3>2, <4>1 DEF OutOfReach, Target
    <3> QED
      BY <2>1, <3>1, <3>2 DEF OutOfReach
  <2> QED
    BY <1>1, <2>1, HandsCarry
<1>6. EditsStand'
  BY <1>1 DEF CalmParts, EditsStand, Moving, Others, Stands, Target
<1>7. ClaimIsKept'
  <2> SUFFICES ASSUME ours'
               PROVE  /\ claims' > 0
                      /\ \/ \E f \in AllFaces : KeptBy(f)'
                         \/ OneCalmReviewer /\ \E q \in Projects : at'[q] = "record"
    BY DEF ClaimIsKept
  <2>1. ours /\ claims' > 0
    BY DEF Moving, CalmParts, ClaimIsKept
  <2>2. ASSUME NEW f \in AllFaces, KeptBy(f) PROVE KeptBy(f)'
    <3>1. at'[ProjectOf[f]] # "settle"
      BY <2>2, NamesAssumption DEF KeptBy, Doomed, Moving, Others
    <3> QED
      BY <1>1, <2>2, <3>1 DEF KeptBy, Stands, Target, Doomed, DoomedBy, MayReview, Exists, Queues
  <2>3. ASSUME OneCalmReviewer, NEW q \in Projects, at[q] = "record"
        PROVE  at'[q] = "record"
    BY <2>3 DEF Moving, Others
  <2> QED
    BY <2>1, <2>2, <2>3 DEF CalmParts, ClaimIsKept
<1> QED
  BY <1>2, <1>4, <1>5, <1>6, <1>7 DEF CalmParts

(* Steps that leave alone what the argument looks at.                      *)
LEMMA FrameCalm ==
    ASSUME CalmParts,
           UNCHANGED <<faceVars, bootstrapped, handVars, claims, ours, at, face, batch>>
    PROVE  CalmParts'
<1>1. UNCHANGED <<verdict, replaced, by, written, removal, doing, of, saw>>
  BY DEF faceVars, handVars
<1>2. FlagsFit' /\ AheadFits'
  BY <1>1 DEF CalmParts, FlagsFit, AheadFits, Ahead
<1>3. HandsFit'
  BY <1>1 DEF CalmParts, HandsFit, HandFits, BareRecord, OutOfReach, MayReview, Exists,
     Ahead, Target, OtherTarget, FacesOf
<1>4. EditsStand' /\ ClaimIsKept'
  BY <1>1 DEF CalmParts, EditsStand, ClaimIsKept, KeptBy, Stands, Target, Doomed,
     DoomedBy, MayReview, Exists, Queues
<1> QED
  BY <1>2, <1>3, <1>4 DEF CalmParts

LEMMA LeaveMoves ==
    ASSUME TypeInv, NEW p \in Projects, Leave(p),
           UNCHANGED <<faceVars, bootstrapped, handVars, claims, ours>>,
           OneCalmReviewer => at[p] # "record"
    PROVE  Moving(p)
<1>1. at'[p] = "idle" /\ batch'[p] = {} /\ Others(p)
  BY DEF Leave, Goto, Others, TypeInv, TypeOK
<1> QED
  BY <1>1 DEF Moving, Ahead, InHand, Holding

LEMMA PlainMoves ==
    ASSUME TypeInv, CalmParts, NEW p \in Projects,
           \/ StartRun(p) \/ AbortRun(p) \/ Select(p) \/ NextFace(p) \/ EndBatch(p)
           \/ Removing(p) \/ ClearRow(p) \/ Finish(p) \/ Crash(p)
    PROVE  Moving(p)
<1>1. /\ at \in [Projects -> Places] /\ nStops \in Nat
      /\ face \in [Projects -> AllFaces \union {NoFace}]
      /\ batch \in [Projects -> SUBSET AllFaces]
  BY DEF TypeInv, TypeOK
<1>2. UNCHANGED <<faceVars, bootstrapped, handVars, claims, ours>>
  BY DEF StartRun, AbortRun, Select, NextFace, EndBatch, Removing, ClearRow, Finish, Crash,
     othersKeep, stepKeeps, userVars, handVars, pageVars
<1>3. CASE StartRun(p) \/ Removing(p) \/ ClearRow(p)
  BY <1>1, <1>2, <1>3 DEF StartRun, Removing, ClearRow, Goto, faceDone, Moving, Others, Ahead,
     InHand, Holding
<1>4. CASE AbortRun(p) \/ Finish(p) \/ Crash(p)
  <2>1. Leave(p)
    BY <1>4 DEF AbortRun, Finish, Crash, EndRequest
  <2>2. OneCalmReviewer => at[p] # "record"
    <3>1. OneCalmReviewer => ~Fails /\ MaxStops = 0
      BY DEF OneCalmReviewer
    <3>2. CASE AbortRun(p)
      BY <3>1, <3>2 DEF AbortRun
    <3>3. CASE Finish(p)
      BY <3>3 DEF Finish
    <3>4. CASE Crash(p)
      <4>1. nStops < MaxStops
        BY <3>4 DEF Crash
      <4> QED
        BY <1>1, <3>1, <4>1
    <3> QED
      BY <1>4, <3>2, <3>3, <3>4
  <2> QED
    BY <1>2, <2>1, <2>2, LeaveMoves
<1>5. CASE Select(p)
  <2>1. CASE Leave(p)
    BY <1>2, <1>5, <2>1, LeaveMoves DEF Select
  <2>2. CASE /\ at' = [at EXCEPT ![p] = "removing"] /\ UNCHANGED <<face, batch>>
    BY <1>1, <1>2, <1>5, <2>2 DEF Select, Moving, Others, Ahead, InHand, Holding
  <2>3. CASE /\ at' = [at EXCEPT ![p] = "face"] /\ face' = face
             /\ batch' = [batch EXCEPT ![p] = Writable(p)]
    BY <1>1, <1>2, <1>5, <2>3 DEF Select, Moving, Others, Ahead, InHand, Holding
  <2> QED
    BY <1>5, <2>1, <2>2, <2>3 DEF Select, Goto
<1>6. CASE NextFace(p)
  <2>1. CASE Leave(p)
    BY <1>2, <1>6, <2>1, LeaveMoves DEF NextFace
  <2>2. CASE ~Leave(p)
    <3>1. PICK f \in batch[p] :
            /\ batch' = [batch EXCEPT ![p] = @ \ {f}]
            /\ \/ /\ face' = [face EXCEPT ![p] = f]
                  /\ at' = [at EXCEPT ![p] = "reserve"]
               \/ UNCHANGED <<at, face>>
      BY <1>6, <2>2 DEF NextFace, Goto
    <3>2. at[p] = "face"
      BY <1>6 DEF NextFace
    <3> QED
      BY <1>1, <1>2, <3>1, <3>2 DEF Moving, Others, Ahead, InHand, Holding
  <2> QED
    BY <2>1, <2>2
<1>7. CASE EndBatch(p)
  <2>1. CASE EndRequest(p, TRUE)
    BY <1>2, <1>7, <2>1, LeaveMoves DEF EndBatch, EndRequest
  <2>2. CASE ~EndRequest(p, TRUE)
    <3>1. /\ \/ at' = [at EXCEPT ![p] = "removing"]
            \/ at' = [at EXCEPT ![p] = "select"]
          /\ batch' = [batch EXCEPT ![p] = {}] /\ face' = face /\ at[p] = "face"
      BY <1>7, <2>2 DEF EndBatch, Goto
    <3> QED
      BY <1>1, <1>2, <3>1 DEF Moving, Others, Ahead, InHand, Holding
  <2> QED
    BY <2>1, <2>2
<1> QED
  BY <1>3, <1>4, <1>5, <1>6, <1>7

(* Without an accident the page has at most one statement: to find none,   *)
(* or to take it off, leaves none of a run.                                *)
LEMMA OneStatement ==
    ASSUME TypeInv, CalmParts, accidents = {}
    PROVE  /\ claims \in Nat /\ claims <= 1
           /\ TakeOff => ~ours'
           /\ ~Found => ~ours
<1>1. claims \in Nat /\ claims <= 1
  BY DEF TypeInv, TypeOK, PageInv, ClearBeforeEdit
<1>2. TakeOff => ~ours'
  <2>1. (IF claims > 0 THEN claims - 1 ELSE 0) = 0
    BY <1>1
  <2> SUFFICES ASSUME TakeOff PROVE ~ours'
    OBVIOUS
  <2>2. claims' = 0 /\ ours' = (ours /\ claims' > 0)
    BY <2>1 DEF TakeOff
  <2>3. ~(claims' > 0)
    BY <2>2
  <2> QED
    BY <2>2, <2>3, Zenon
<1>3. ~Found => ~ours
  BY <1>1 DEF Found, CalmParts, ClaimIsKept
<1> QED
  BY <1>1, <1>2, <1>3

LEMMA RemovalMoves ==
    ASSUME TypeInv, CalmParts, accidents = {}, NEW p \in Projects,
           RemovalLookup(p) \/ RemovalSend(p)
    PROVE  Moving(p)
<1>1. at \in [Projects -> Places] /\ at[p] \in {"rmLookup", "rmSend"}
  BY DEF TypeInv, TypeOK, RemovalLookup, RemovalSend
<1>2. UNCHANGED <<faceVars, bootstrapped, handVars, face, batch>>
  BY DEF RemovalLookup, RemovalSend, faceDone, stepKeeps, othersKeep, userVars, handVars
<1>3. /\ \E place \in {"rmSend", "settle", "removing"} : at' = [at EXCEPT ![p] = place]
      /\ ours' => ours /\ claims' = claims
      /\ at'[p] = "settle" => ~ours'
  BY <1>1, OneStatement DEF RemovalLookup, RemovalSend, Goto, pageVars
<1> QED
  BY <1>1, <1>2, <1>3 DEF Moving, Others, Ahead, InHand, Holding

LEMMA WaitMoves ==
    ASSUME TypeInv, NEW p \in Projects,
           \/ at[p] = "reserve" /\ at' = [at EXCEPT ![p] = "lookup"] /\ face' = face
           \/ /\ at[p] = "lookup" /\ face' = face
              /\ at' = [at EXCEPT ![p] = "adopt"] \/ at' = [at EXCEPT ![p] = "recheck"]
           \/ /\ at[p] = "recheck" /\ at' = [at EXCEPT ![p] = "edit"] /\ face' = face
              /\ Target(face[p])
           \/ /\ at[p] \in InHand \ {"record"} /\ at' = [at EXCEPT ![p] = "face"]
              /\ face' = [face EXCEPT ![p] = NoFace],
           CalmParts, batch' = batch,
           UNCHANGED <<faceVars, bootstrapped, handVars, claims, ours>>
    PROVE  Moving(p)
<1>1. /\ at \in [Projects -> Places] /\ face \in [Projects -> AllFaces \union {NoFace}]
      /\ at[p] \in InHand => face[p] \notin batch[p]
  BY DEF TypeInv, TypeOK, CalmParts, AheadFits
<1> QED
  BY <1>1 DEF Moving, Others, Ahead, InHand, Holding

(* A run marks its face and goes on; the record of an edit also queues the *)
(* removal when the face was rejected meanwhile.                           *)
Marks(p) ==
    /\ at[p] \in InHand
    /\ at' = [at EXCEPT ![p] = "face"]
    /\ face' = [face EXCEPT ![p] = NoFace] /\ batch' = batch
    /\ UNCHANGED <<verdict, replaced, by, handVars, claims, ours>>
    /\ \A q \in Projects : bootstrapped[q] => bootstrapped'[q]
    /\ \A g \in AllFaces :
          /\ written[g] => written'[g]
          /\ removal[g] => removal'[g]
          /\ g # face[p] => written'[g] = written[g] /\ removal'[g] = removal[g]
          /\ removal'[g] => removal[g] \/ verdict[g] = "no"
    /\ at[p] = "record" /\ verdict[face[p]] = "no" => removal'[face[p]]

LEMMA MarksCalm ==
    ASSUME TypeInv, CalmParts, NEW p \in Projects, Marks(p)
    PROVE  CalmParts'
<1> PICK f : f = face[p]
  OBVIOUS
<1>1. /\ f \in Ahead(p) /\ f \in AllFaces /\ ProjectOf[f] = p
      /\ verdict[f] \in {"yes", "no"} /\ f \notin batch[p]
  BY DEF Marks, CalmParts, AheadFits, Ahead
<1>2. at \in [Projects -> Places] /\ face \in [Projects -> AllFaces \union {NoFace}]
  BY DEF TypeInv, TypeOK
<1>3. UNCHANGED <<verdict, replaced, by, doing, of, saw>>
  BY DEF Marks, handVars
<1>4. /\ Ahead(p)' = batch[p] /\ Ahead(p)' \subseteq Ahead(p)
      /\ \A q \in Projects \ {p} : Ahead(q)' = Ahead(q)
  BY <1>2 DEF Marks, Ahead, InHand, Holding
<1>5. FlagsFit'
  BY <1>1, <1>3, NamesAssumption DEF Marks, CalmParts, FlagsFit
<1>6. AheadFits'
  <2> SUFFICES ASSUME NEW q \in Projects
               PROVE  /\ \A g \in Ahead(q)' :
                            /\ g \in AllFaces /\ ProjectOf[g] = q /\ verdict[g] \in {"yes", "no"}
                            /\ written'[g] => bootstrapped'[q]
                      /\ at'[q] \in InHand => face'[q] \notin batch'[q]
    BY <1>3 DEF AheadFits
  <2>1. \A g \in Ahead(q)' : g \in Ahead(q) /\ g # f
    BY <1>1, <1>4 DEF CalmParts, AheadFits
  <2>2. at'[q] \in InHand => face'[q] \notin batch'[q]
    BY <1>2 DEF Marks, CalmParts, AheadFits, InHand, Holding
  <2> QED
    BY <2>1, <2>2 DEF Marks, CalmParts, AheadFits
<1>7. HandsFit'
  <2>1. ASSUME NEW u \in Users, NEW g \in AllFaces, OutOfReach(u, g)
        PROVE  OutOfReach(u, g)'
    <3>1. CASE ~MayReview(u, g)
      BY <1>3, <3>1 DEF OutOfReach, MayReview, Exists
    <3>2. CASE g \notin Ahead(ProjectOf[g]) /\ (written[g] \/ ~Target(g))
      <4>1. g \notin Ahead(ProjectOf[g])'
        BY <1>4, <3>2, NamesAssumption
      <4> QED
        BY <1>3, <3>2, <4>1 DEF OutOfReach, Target, Marks
    <3> QED
      BY <2>1, <3>1, <3>2 DEF OutOfReach
  <2> QED
    BY <1>3, <2>1, HandsCarry DEF Marks
<1>8. EditsStand'
  <2> SUFFICES ASSUME OneFaceEach, NEW q \in Projects, at'[q] \in {"edit", "record"}
               PROVE  Stands(face[q])'
    BY DEF EditsStand
  <2>1. q # p /\ at[q] = at'[q] /\ face'[q] = face[q]
    BY <1>2 DEF Marks
  <2>2. Stands(face[q]) /\ face[q] \in AllFaces
    BY <2>1 DEF CalmParts, EditsStand, AheadFits, Ahead, InHand, Holding
  <2> QED
    BY <1>3, <2>1, <2>2 DEF Stands, Target, Marks
<1>9. ClaimIsKept'
  <2>1. ASSUME NEW g \in AllFaces, KeptBy(g) PROVE KeptBy(g)'
    BY <1>2, <1>3, <2>1, NamesAssumption
       DEF KeptBy, Stands, Target, Doomed, DoomedBy, MayReview, Exists, Queues, Marks
  <2>2. ASSUME at[p] = "record" PROVE KeptBy(f)'
    <3>1. ~Doomed(f)
      BY <1>1, <2>2, AheadIsSafe DEF CalmParts
    <3>2. ~Doomed(f)'
      BY <1>1, <1>2, <1>3, <3>1 DEF Doomed, DoomedBy, MayReview, Exists, Queues, Marks
    <3>3. Stands(f)'
      BY <1>1, <1>3, <2>2 DEF Stands, Target, Marks, CalmParts, FlagsFit
    <3> QED
      BY <3>2, <3>3 DEF KeptBy
  <2>3. \A q \in Projects \ {p} : at'[q] = at[q]
    BY <1>2 DEF Marks
  <2> QED
    BY <1>1, <2>1, <2>2, <2>3 DEF CalmParts, ClaimIsKept, Marks
<1> QED
  BY <1>5, <1>6, <1>7, <1>8, <1>9 DEF CalmParts

LEMMA FaceSteps ==
    ASSUME TypeInv, CalmParts, accidents = {}, accidents' = {}, NEW p \in Projects,
           Reserve(p) \/ Lookup(p) \/ Adopt(p) \/ Recheck(p) \/ Record(p)
    PROVE  CalmParts'
<1>1. /\ at \in [Projects -> Places] /\ written \in [AllFaces -> BOOLEAN]
      /\ removal \in [AllFaces -> BOOLEAN] /\ bootstrapped \in [Projects -> BOOLEAN]
  BY DEF TypeInv, TypeOK
<1>2. UNCHANGED <<verdict, replaced, by, handVars, claims, ours>>
  BY DEF Reserve, Lookup, Adopt, Recheck, Record, stepKeeps, othersKeep, userVars,
     handVars, faceVars
<1>3. at[p] \in InHand
  BY DEF Reserve, Lookup, Adopt, Recheck, Record, InHand, Holding
<1>4. face[p] \in AllFaces /\ verdict[face[p]] \in {"yes", "no"} /\ replaced = {}
  BY <1>3 DEF CalmParts, AheadFits, Ahead, FlagsFit
<1> DEFINE Skips == /\ at' = [at EXCEPT ![p] = "face"]
                    /\ face' = [face EXCEPT ![p] = NoFace] /\ batch' = batch
<1>5. ASSUME Skips, MarkWritten(face[p]), UNCHANGED <<removal, bootstrapped>>,
             at[p] # "record"
      PROVE  CalmParts'
  <2>1. Marks(p)
    BY <1>1, <1>2, <1>3, <1>5 DEF Marks, MarkWritten
  <2> QED
    BY <2>1, MarksCalm
<1>6. CASE Reserve(p)
  <2>1. at[p] = "reserve" /\ UNCHANGED <<removal, bootstrapped>>
    BY <1>6 DEF Reserve, stepKeeps
  <2>2. CASE MarkWritten(face[p]) /\ Outcome(p, "other")
    BY <1>5, <2>1, <2>2 DEF Outcome, Goto
  <2>3. CASE UNCHANGED written /\ Outcome(p, "blocked")
    <3>1. Moving(p)
      BY <1>2, <1>3, <2>1, <2>3, WaitMoves DEF Outcome, Goto, faceVars
    <3> QED
      BY <3>1, MovingCalm
  <2>4. CASE UNCHANGED written /\ Goto(p, "lookup") /\ UNCHANGED faceDone
    <3>1. Moving(p)
      BY <1>2, <1>3, <2>1, <2>4, WaitMoves DEF Goto, faceDone, faceVars
    <3> QED
      BY <3>1, MovingCalm
  <2> QED
    BY <1>6, <2>2, <2>3, <2>4 DEF Reserve
<1>7. CASE Lookup(p)
  <2>1. at[p] = "lookup" /\ UNCHANGED <<removal, bootstrapped>>
    BY <1>7 DEF Lookup, stepKeeps
  <2>2. CASE MarkWritten(face[p]) /\ Outcome(p, "other")
    BY <1>5, <2>1, <2>2 DEF Outcome, Goto
  <2>3. CASE UNCHANGED written /\ Outcome(p, "other")
    <3>1. Moving(p)
      BY <1>2, <1>3, <2>1, <2>3, WaitMoves DEF Outcome, Goto, faceVars
    <3> QED
      BY <3>1, MovingCalm
  <2>4. CASE /\ UNCHANGED written /\ UNCHANGED faceDone
             /\ Goto(p, IF Found THEN "adopt" ELSE "recheck")
    <3>1. Moving(p)
      BY <1>2, <1>3, <2>1, <2>4, WaitMoves DEF Goto, faceDone, faceVars
    <3> QED
      BY <3>1, MovingCalm
  <2> QED
    BY <1>7, <2>2, <2>3, <2>4 DEF Lookup, TokenRefused, PageGone
<1>8. CASE Recheck(p)
  <2>1. at[p] = "recheck" /\ UNCHANGED <<faceVars, bootstrapped>>
    BY <1>8 DEF Recheck, stepKeeps
  <2>2. CASE Outcome(p, "other") \/ Outcome(p, "unverified")
    <3>1. Moving(p)
      BY <1>2, <1>3, <2>1, <2>2, WaitMoves DEF Outcome, Goto
    <3> QED
      BY <3>1, MovingCalm
  <2>3. CASE Target(face[p]) /\ Goto(p, "edit") /\ UNCHANGED faceDone
    <3>1. Moving(p)
      BY <1>2, <1>3, <2>1, <2>3, WaitMoves DEF Goto, faceDone
    <3> QED
      BY <3>1, MovingCalm
  <2> QED
    BY <1>8, <2>2, <2>3 DEF Recheck
<1>9. CASE Adopt(p)
  <2>1. Skips /\ at[p] = "adopt" /\ removal' = removal
    BY <1>9 DEF Adopt, Outcome, Goto
  <2>2. /\ written' = [written EXCEPT ![face[p]] = @ \/ verdict[face[p]] = "yes"]
        /\ bootstrapped' = [bootstrapped EXCEPT ![p] = TRUE]
    BY <1>9 DEF Adopt
  <2>3. Marks(p)
    BY <1>1, <1>2, <1>3, <2>1, <2>2 DEF Marks
  <2> QED
    BY <2>3, MarksCalm
<1>10. CASE Record(p)
  <2>1. Skips /\ at[p] = "record" /\ bootstrapped' = bootstrapped
    BY <1>10 DEF Record, Outcome, Goto, stepKeeps
  <2>2. Live(face[p])
    BY <1>4 DEF Live, Exists
  <2>3. /\ written' = [written EXCEPT ![face[p]] = @ \/ verdict[face[p]] = "yes" \/ Live(face[p])]
        /\ removal' = [removal EXCEPT ![face[p]] = @ \/ (Live(face[p]) /\ verdict[face[p]] # "yes")]
    BY <1>10 DEF Record, RecordFace
  <2>4. Marks(p)
    BY <1>1, <1>2, <1>3, <1>4, <2>1, <2>2, <2>3 DEF Marks
  <2> QED
    BY <2>4, MarksCalm
<1> QED
  BY <1>6, <1>7, <1>8, <1>9, <1>10

(* The edit, of a face no step under way takes back.                       *)
LEMMA EditCalm ==
    ASSUME TypeInv, CalmParts, accidents = {}, accidents' = {}, NEW p \in Projects,
           OneFaceEach \/ OneCalmReviewer, Edit(p)
    PROVE  CalmParts'
<1>1. /\ at \in [Projects -> Places] /\ written \in [AllFaces -> BOOLEAN]
      /\ at[p] = "edit" /\ claims \in Nat
  BY DEF TypeInv, TypeOK, Edit
<1>2. UNCHANGED <<verdict, replaced, by, removal, bootstrapped, handVars>>
  BY DEF Edit, stepKeeps, othersKeep, userVars, handVars
<1>3. CASE PageGone(p, row) /\ UNCHANGED <<claims, ours>>
  <2>1. Marks(p)
    BY <1>1, <1>2, <1>3 DEF PageGone, Outcome, Goto, MarkWritten, Marks, InHand, Holding
  <2> QED
    BY <2>1, MarksCalm
<1>4. CASE TokenRefused(p) /\ UNCHANGED <<claims, ours>>
  <2>1. Moving(p)
    BY <1>1, <1>2, <1>4, WaitMoves DEF TokenRefused, Outcome, Goto, faceVars, InHand, Holding
  <2> QED
    BY <2>1, MovingCalm
<1>5. CASE /\ claims' = claims + 1 /\ Goto(p, "record")
           /\ UNCHANGED <<written, row, faceDone>>
  <2>1. /\ at' = [at EXCEPT ![p] = "record"] /\ UNCHANGED <<face, batch>>
        /\ UNCHANGED <<verdict, replaced, by, written, removal, bootstrapped, doing, of, saw>>
    BY <1>2, <1>5 DEF Goto, faceDone, handVars
  <2>2. \A q \in Projects : Ahead(q)' = Ahead(q)
    BY <1>1, <2>1 DEF Ahead, InHand, Holding
  <2>3. FlagsFit' /\ AheadFits'
    BY <1>1, <2>1, <2>2 DEF CalmParts, FlagsFit, AheadFits, InHand, Holding
  <2>4. HandsFit'
    <3>1. ASSUME NEW u \in Users, NEW g \in AllFaces, OutOfReach(u, g)
          PROVE  OutOfReach(u, g)'
      BY <2>1, <2>2, <3>1, NamesAssumption DEF OutOfReach, MayReview, Exists, Target
    <3> QED
      BY <2>1, <3>1, HandsCarry
  <2>5. EditsStand'
    BY <1>1, <2>1 DEF CalmParts, EditsStand, Stands, Target
  <2>6. ClaimIsKept'
    <3>1. claims' > 0
      BY <1>1, <1>5
    <3>2. CASE OneFaceEach
      <4>1. /\ face[p] \in Ahead(p) /\ face[p] \in AllFaces /\ ProjectOf[face[p]] = p
            /\ Stands(face[p])
        BY <1>1, <3>2 DEF CalmParts, AheadFits, EditsStand, Ahead, InHand, Holding
      <4> PICK f \in AllFaces : f = face[p]
        BY <4>1
      <4>2. ~Doomed(f)
        BY <1>1, <4>1, AheadIsSafe DEF CalmParts
      <4>3. KeptBy(f)'
        BY <1>1, <2>1, <4>1, <4>2 DEF KeptBy, Stands, Target, Doomed, DoomedBy,
           MayReview, Exists, Queues
      <4> QED
        BY <3>1, <4>3 DEF ClaimIsKept
    <3>3. CASE OneCalmReviewer
      BY <1>1, <2>1, <3>1, <3>3 DEF ClaimIsKept
    <3> QED
      BY <3>2, <3>3
  <2> QED
    BY <2>3, <2>4, <2>5, <2>6 DEF CalmParts
<1> QED
  BY <1>3, <1>4, <1>5 DEF Edit, Note

(* A removal that is settled takes its flags, of rejected faces only.      *)
LEMMA SettleCalm ==
    ASSUME TypeInv, CalmParts, NEW p \in Projects, Settle(p)
    PROVE  CalmParts'
<1> DEFINE settled == {f \in FacesOf(p) : removal[f]}
<1>1. /\ at \in [Projects -> Places] /\ at[p] = "settle"
      /\ at' = [at EXCEPT ![p] = "clearRow"] /\ UNCHANGED <<face, batch>>
      /\ UNCHANGED <<verdict, replaced, by, bootstrapped, doing, of, saw, claims, ours>>
  BY DEF TypeInv, TypeOK, Settle, Goto, faceDone, stepKeeps, othersKeep, userVars, pageVars
<1>2. /\ removal' = Write(removal, settled, FALSE)
      /\ written' = Write(written, settled, FALSE)
  BY DEF Settle
<1>3. \A f \in AllFaces :
        /\ removal'[f] => removal[f]
        /\ written'[f] => written[f]
        /\ ProjectOf[f] # p => removal'[f] = removal[f]
        /\ written'[f] = written[f] \/ removal[f]
  BY <1>2 DEF Write, FacesOf
<1>4. \A q \in Projects : Ahead(q)' = Ahead(q)
  BY <1>1 DEF Ahead, InHand, Holding
<1>5. FlagsFit'
  BY <1>1, <1>3 DEF CalmParts, FlagsFit
<1>6. AheadFits'
  BY <1>1, <1>3, <1>4 DEF CalmParts, AheadFits, InHand, Holding
<1>7. HandsFit'
  <2>1. ASSUME NEW u \in Users, NEW g \in AllFaces, OutOfReach(u, g)
        PROVE  OutOfReach(u, g)'
    BY <1>1, <1>3, <1>4, <2>1, NamesAssumption
       DEF CalmParts, FlagsFit, OutOfReach, MayReview, Exists, Target
  <2> QED
    BY <1>1, <2>1, HandsCarry
<1>8. EditsStand'
  <2> SUFFICES ASSUME OneFaceEach, NEW q \in Projects, at'[q] \in {"edit", "record"}
               PROVE  Stands(face[q])'
    BY DEF EditsStand
  <2>1. q # p /\ at[q] = at'[q]
    BY <1>1
  <2>2. Stands(face[q]) /\ face[q] \in AllFaces /\ ProjectOf[face[q]] = q
    BY <2>1 DEF CalmParts, EditsStand, AheadFits, Ahead, InHand, Holding
  <2> QED
    BY <1>1, <1>3, <2>1, <2>2 DEF Stands, Target
<1>9. ClaimIsKept'
  <2>1. ASSUME NEW g \in AllFaces, KeptBy(g) PROVE KeptBy(g)'
    <3>1. ProjectOf[g] # p
      BY <1>1, <2>1 DEF KeptBy, Doomed
    <3> QED
      BY <1>1, <1>3, <2>1, <3>1, NamesAssumption
         DEF KeptBy, Stands, Target, Doomed, DoomedBy, MayReview, Exists, Queues
  <2>2. \A q \in Projects : at[q] = "record" => at'[q] = "record"
    BY <1>1
  <2> QED
    BY <1>1, <2>1, <2>2 DEF CalmParts, ClaimIsKept
<1> QED
  BY <1>5, <1>6, <1>7, <1>8, <1>9 DEF CalmParts

LEMMA WorkerCalm ==
    ASSUME TypeInv, CalmParts, accidents = {}, accidents' = {}, NEW p \in Projects,
           OneFaceEach \/ OneCalmReviewer, RunStep(p) \/ Crash(p)
    PROVE  CalmParts'
<1>1. CASE \/ StartRun(p) \/ AbortRun(p) \/ Select(p) \/ NextFace(p) \/ EndBatch(p)
           \/ Removing(p) \/ ClearRow(p) \/ Finish(p) \/ Crash(p)
  BY <1>1, PlainMoves, MovingCalm
<1>2. CASE RemovalLookup(p) \/ RemovalSend(p)
  BY <1>2, RemovalMoves, MovingCalm
<1>3. CASE Reserve(p) \/ Lookup(p) \/ Adopt(p) \/ Recheck(p) \/ Record(p)
  BY <1>3, FaceSteps
<1>4. CASE Edit(p)
  BY <1>4, EditCalm
<1>5. CASE Settle(p)
  BY <1>5, SettleCalm
<1> QED
  BY <1>1, <1>2, <1>3, <1>4, <1>5 DEF RunStep

-----------------------------------------------------------------------------
(* Reviews *)

OthersHands(u) ==
    \A v \in Users \ {u} : doing'[v] = doing[v] /\ of'[v] = of[v] /\ saw'[v] = saw[v]

(* Steps of a handler that change no face.                                 *)
Quiet(u) ==
    /\ UNCHANGED <<faceVars, bootstrapped, runVars>>
    /\ ours' => ours /\ claims' = claims
    /\ OthersHands(u)
    /\ HandFits(u)'
    /\ ours' => \A f \in AllFaces : DoomedBy(u, f)' => DoomedBy(u, f)

LEMMA QuietCalm ==
    ASSUME TypeInv, CalmParts, NEW u \in Users, Quiet(u)
    PROVE  CalmParts'
<1>1. UNCHANGED <<verdict, replaced, by, written, removal, bootstrapped, at, face, batch>>
  BY DEF Quiet, faceVars, runVars
<1>2. FlagsFit' /\ AheadFits' /\ EditsStand'
  BY <1>1 DEF CalmParts, FlagsFit, AheadFits, Ahead, EditsStand, Stands, Target
<1>3. HandsFit'
  <2>1. ASSUME NEW v \in Users \ {u} PROVE HandFits(v)'
    BY <1>1 DEF Quiet, OthersHands, CalmParts, HandsFit, HandFits, BareRecord, OutOfReach,
       MayReview, Exists, Ahead, Target, OtherTarget, FacesOf
  <2> QED
    BY <2>1 DEF Quiet, HandsFit
<1>4. ClaimIsKept'
  <2> SUFFICES ASSUME ours' PROVE ClaimIsKept'
    BY DEF ClaimIsKept
  <2>1. ASSUME NEW f \in AllFaces, NEW v \in Users, DoomedBy(v, f)'
        PROVE  DoomedBy(v, f)
    <3>1. CASE v = u
      BY <2>1, <3>1 DEF Quiet
    <3>2. CASE v # u
      BY <1>1, <2>1, <3>2 DEF Quiet, OthersHands, DoomedBy, MayReview, Exists, Queues
    <3> QED
      BY <3>1, <3>2
  <2>2. ASSUME NEW f \in AllFaces, KeptBy(f) PROVE KeptBy(f)'
    BY <1>1, <2>1, <2>2 DEF KeptBy, Stands, Target, Doomed
  <2> QED
    BY <1>1, <2>2 DEF Quiet, CalmParts, ClaimIsKept
<1> QED
  BY <1>2, <1>3, <1>4 DEF CalmParts

(* A handler that is not at a face it may reject.                          *)
LEMMA HandsOff ==
    ASSUME NEW u \in Users, of'[u] = NoFace \/ doing'[u] \notin RejectPhases
    PROVE  HandFits(u)' /\ \A f \in AllFaces : ~DoomedBy(u, f)'
    BY NamesAssumption DEF HandFits, DoomedBy, RejectPhases

LEMMA QuietOff ==
    ASSUME NEW u \in Users, of'[u] = NoFace \/ doing'[u] \notin RejectPhases,
           UNCHANGED <<faceVars, bootstrapped, runVars>>,
           ours' => ours /\ claims' = claims, OthersHands(u)
    PROVE  Quiet(u)
    BY HandsOff DEF Quiet

LEMMA ReturnHands ==
    ASSUME TypeInv, NEW u \in Users, Return(u)
    PROVE  of'[u] = NoFace /\ doing'[u] = "idle" /\ OthersHands(u)
    BY DEF Return, Step, OthersHands, TypeInv, TypeOK

LEMMA StepHands ==
    ASSUME TypeInv, NEW u \in Users, NEW phase, Step(u, phase)
    PROVE  doing'[u] = phase /\ \A v \in Users \ {u} : doing'[v] = doing[v]
    BY DEF Step, TypeInv, TypeOK

LEMMA LoadCalm ==
    ASSUME TypeInv, CalmParts, NEW u \in Users, NEW f \in AllFaces, LoadFace(u, f)
    PROVE  Quiet(u)
<1>1. /\ of \in [Users -> AllFaces \union {NoFace}] /\ saw \in [Users -> Sights]
      /\ of' = [of EXCEPT ![u] = f]
      /\ saw' = [saw EXCEPT ![u] = Sight(ProjectOf[f], {f})]
      /\ UNCHANGED <<faceVars, bootstrapped, runVars, claims, ours>>
      /\ Live(f)
  BY DEF TypeInv, TypeOK, LoadFace, pageVars, runsKeep
<1>2. /\ doing'[u] \in {"approve", "reject"}
      /\ \A v \in Users \ {u} : doing'[v] = doing[v]
  BY StepHands DEF LoadFace
<1>3. OthersHands(u) /\ of'[u] = f /\ saw'[u] = Sight(ProjectOf[f], {f})
  BY <1>1, <1>2 DEF OthersHands
<1>4. ProjectOf[f] \in Projects
  BY NamesAssumption
<1>5. UNCHANGED <<verdict, replaced, by, written, at, face, batch>>
  BY <1>1 DEF faceVars, runVars
<1>6. BareRecord(u)' => written[f] /\ ~bootstrapped[ProjectOf[f]]
  BY <1>3 DEF BareRecord, Sight
<1>7. BareRecord(u)' => verdict[f] # "open" /\ f \notin Ahead(ProjectOf[f])
  BY <1>4, <1>6 DEF CalmParts, FlagsFit, AheadFits
<1>8. HandFits(u)'
  <2>1. verdict[f] \in {"open", "yes", "no"} /\ (saw'[u].boot => bootstrapped[ProjectOf[f]])
    BY <1>1, <1>3 DEF Live, Exists, Sight
  <2>2. BareRecord(u)' => OutOfReach(u, f)'
    BY <1>5, <1>6, <1>7 DEF OutOfReach, Ahead
  <2> QED
    BY <1>1, <1>2, <1>3, <1>5, <1>7, <2>1, <2>2 DEF HandFits
<1>9. \A g \in AllFaces : ~DoomedBy(u, g)'
  BY <1>2 DEF DoomedBy
<1> QED
  BY <1>1, <1>3, <1>8, <1>9 DEF Quiet

LEMMA RejectDecideCalm ==
    ASSUME TypeInv, CalmParts, NEW u \in Users, RejectDecide(u)
    PROVE  Quiet(u)
<1> PICK f : f = of[u]
  OBVIOUS
<1> DEFINE sibling == OtherTarget(ProjectOf[f], {f})
<1>1. /\ f \in AllFaces /\ HandFits(u) /\ doing[u] = "reject"
      /\ saw \in [Users -> Sights]
      /\ saw' = [saw EXCEPT ![u].sibling = sibling]
      /\ UNCHANGED <<faceVars, bootstrapped, runVars, claims, ours, of>>
  BY DEF TypeInv, Hands, FacePhases, TypeOK, CalmParts, HandsFit, RejectDecide,
     pageVars, runsKeep
<1>2. /\ doing'[u] = IF sibling \/ f \notin saw[u].written \/ saw[u].boot
                     THEN "rejectTxn" ELSE "remove"
      /\ \A v \in Users \ {u} : doing'[v] = doing[v]
  BY StepHands DEF RejectDecide
<1>3. /\ saw'[u].sibling = sibling /\ saw'[u].written = saw[u].written
      /\ saw'[u].boot = saw[u].boot
      /\ \A v \in Users \ {u} : saw'[v] = saw[v]
  BY <1>1 DEF Sights
<1>4. UNCHANGED <<verdict, replaced, by, written, at, face, batch>>
  BY <1>1 DEF faceVars, runVars
<1>5. OthersHands(u)
  BY <1>1, <1>2, <1>3 DEF OthersHands
<1>6. /\ OutOfReach(u, f)' <=> OutOfReach(u, f)
      /\ OtherTarget(ProjectOf[f], {f})' <=> sibling
      /\ BareRecord(u)' <=> BareRecord(u)
  BY <1>1, <1>3, <1>4 DEF OutOfReach, MayReview, Exists, Ahead, Target, BareRecord,
     OtherTarget, FacesOf
<1>7. /\ BareRecord(u) <=> f \in saw[u].written /\ ~saw[u].boot
      /\ f # NoFace /\ doing[u] \in RejectPhases
  BY <1>1, NamesAssumption DEF BareRecord, RejectPhases
<1>8. HandFits(u)'
  BY <1>1, <1>2, <1>3, <1>4, <1>6, <1>7 DEF HandFits
<1>9. \A g \in AllFaces : ~DoomedBy(u, g)'
  BY <1>1, <1>2, <1>3 DEF DoomedBy, Queues
<1> QED
  BY <1>1, <1>5, <1>8, <1>9 DEF Quiet

LEMMA RemoveCalm ==
    ASSUME TypeInv, CalmParts, accidents = {}, NEW u \in Users, Remove(u)
    PROVE  Quiet(u)
<1>1. /\ UNCHANGED <<faceVars, bootstrapped, runVars, of, saw>> /\ doing[u] = "remove"
      /\ HandFits(u)
  BY DEF Remove, runsKeep, CalmParts, HandsFit
<1>2. CASE TakeOff /\ Step(u, "clear")
  <2>1. ~ours'
    BY <1>2, OneStatement
  <2>2. doing'[u] = "clear" /\ OthersHands(u)
    BY <1>1, <1>2, StepHands DEF OthersHands
  <2>3. UNCHANGED <<verdict, replaced, by, written, at, face, batch>>
    BY <1>1 DEF faceVars, runVars
  <2>4. HandFits(u)'
    BY <1>1, <2>2, <2>3 DEF HandFits, RejectPhases, BareRecord, OutOfReach, MayReview,
       Exists, Ahead, Target
  <2> QED
    BY <1>1, <2>1, <2>2, <2>4 DEF Quiet
<1>3. CASE RemovalFails(u) /\ UNCHANGED <<claims, ours>>
  <2>1. of'[u] = NoFace
    BY <1>1, <1>3 DEF RemovalFails, Undoing
  <2>2. OthersHands(u)
    BY <1>1, <1>3, StepHands DEF RemovalFails, OthersHands
  <2> QED
    BY <1>1, <1>3, <2>1, <2>2, QuietOff
<1> QED
  BY <1>2, <1>3 DEF Remove

LEMMA ClearCalm ==
    ASSUME TypeInv, CalmParts, NEW u \in Users, Clear(u)
    PROVE  Quiet(u)
<1>1. /\ UNCHANGED <<faceVars, bootstrapped, runVars, of, claims, ours>>
      /\ doing[u] = "clear" /\ HandFits(u) /\ saw \in [Users -> Sights]
  BY DEF Clear, runsKeep, CalmParts, HandsFit, TypeInv, TypeOK
<1>2. saw' = saw \/ saw' = [saw EXCEPT ![u].removed = TRUE]
  BY DEF Clear
<1>3. /\ saw'[u].sibling = saw[u].sibling /\ saw'[u].written = saw[u].written
      /\ saw'[u].boot = saw[u].boot
      /\ \A v \in Users \ {u} : saw'[v] = saw[v]
  BY <1>1, <1>2 DEF Sights
<1>4. /\ doing'[u] = IF Undoing(u) THEN "undoTxn" ELSE "rejectTxn"
      /\ \A v \in Users \ {u} : doing'[v] = doing[v]
  <2>1. CASE AfterRemoval(u)
    BY <2>1, StepHands DEF AfterRemoval
  <2>2. CASE RemovalFails(u)
    BY <2>2, StepHands DEF RemovalFails
  <2> QED
    BY <2>1, <2>2 DEF Clear
<1>5. OthersHands(u)
  BY <1>1, <1>3, <1>4 DEF OthersHands
<1>6. CASE Undoing(u)
  BY <1>1, <1>5, <1>6, QuietOff DEF Undoing
<1>7. CASE ~Undoing(u)
  <2>1. UNCHANGED <<verdict, replaced, by, written, at, face, batch>>
    BY <1>1 DEF faceVars, runVars
  <2>2. HandFits(u)'
    BY <1>1, <1>3, <1>4, <1>7, <2>1 DEF HandFits, RejectPhases, BareRecord, OutOfReach,
       MayReview, Exists, Ahead, Target, Undoing
  <2>3. \A f \in AllFaces : DoomedBy(u, f)' => DoomedBy(u, f)
    BY <1>1, <2>1 DEF DoomedBy, MayReview, Exists
  <2> QED
    BY <1>1, <1>5, <2>2, <2>3 DEF Quiet
<1> QED
  BY <1>6, <1>7

LEMMA OffCalm ==
    ASSUME TypeInv, NEW u \in Users,
           \/ GiveUp(u) \/ Check(u) \/ UndoRead(u) \/ UndoContext(u)
           \/ \E f \in AllFaces : EditLoad(u, f)
    PROVE  Quiet(u)
<1>1. /\ UNCHANGED <<faceVars, bootstrapped, runVars, claims, ours>>
      /\ of \in [Users -> AllFaces \union {NoFace}] /\ saw \in [Users -> Sights]
  BY DEF GiveUp, Check, UndoRead, UndoContext, EditLoad, pageVars, runsKeep, TypeInv, TypeOK
<1>2. CASE Return(u)
  BY <1>1, <1>2, ReturnHands, QuietOff
<1>3. CASE Step(u, "mark") /\ UNCHANGED <<of, saw>>
  BY <1>1, <1>3, StepHands, QuietOff DEF OthersHands, RejectPhases
<1>4. CASE UndoRead(u) \/ UndoContext(u)
  <2>1. of[u] = NoFace /\ of' = of
    BY <1>4 DEF UndoRead, UndoContext, Begin, TypeInv, Hands, FreePhases
  <2>2. \A v \in Users \ {u} : saw'[v] = saw[v]
    BY <1>1, <1>4 DEF UndoRead, UndoContext
  <2>3. \A v \in Users \ {u} : doing'[v] = doing[v]
    BY <1>4, StepHands DEF UndoRead, UndoContext
  <2> QED
    BY <1>1, <2>1, <2>2, <2>3, QuietOff DEF OthersHands
<1>5. ASSUME NEW f \in AllFaces, EditLoad(u, f) PROVE Quiet(u)
  <2>1. doing'[u] = "edit" /\ \A v \in Users \ {u} : doing'[v] = doing[v]
    BY <1>5, StepHands DEF EditLoad
  <2>2. \A v \in Users \ {u} : of'[v] = of[v] /\ saw'[v] = saw[v]
    BY <1>1, <1>5 DEF EditLoad
  <2> QED
    BY <1>1, <2>1, <2>2, QuietOff DEF OthersHands, RejectPhases
<1> QED
  BY <1>2, <1>3, <1>4, <1>5 DEF GiveUp, Check

(* A verdict of user u on the faces J: theirs from then on, so that others *)
(* who have one of them in hand change nothing any more; and where a face  *)
(* stood for the statement, one of its image still does.                   *)
KeepsOne(J) ==
    \A g \in AllFaces : KeptBy(g) =>
        \E h \in FacesOf(ProjectOf[g]) :
            Stands(h)' /\ (h = g \/ h \in J \/ OneCalmReviewer)
Judges(u, J) ==
    /\ UNCHANGED <<runVars, replaced, bootstrapped, claims, ours>>
    /\ \A f \in AllFaces \ J :
          verdict'[f] = verdict[f] /\ by'[f] = by[f] /\ written'[f] = written[f]
    /\ \A f \in AllFaces \intersect J :
          /\ verdict'[f] \in {"yes", "no"} /\ by'[f] = u
          /\ written'[f] /\ f \in Ahead(ProjectOf[f]) =>
                written[f] \/ bootstrapped[ProjectOf[f]]
    /\ \A f \in AllFaces : removal'[f] => verdict'[f] = "no"
    /\ doing'[u] \notin RejectPhases /\ OthersHands(u)
    /\ KeepsOne(J)

LEMMA JudgesCalm ==
    ASSUME TypeInv, CalmParts, OneFaceEach \/ OneCalmReviewer,
           NEW u \in Users, NEW J, Judges(u, J)
    PROVE  CalmParts'
<1>1. UNCHANGED <<replaced, bootstrapped, at, face, batch, claims, ours>>
  BY DEF Judges, runVars
<1>2. FlagsFit'
  <2>1. ASSUME NEW f \in AllFaces, verdict'[f] = "open", written'[f]
        PROVE  bootstrapped[ProjectOf[f]]
    BY <2>1 DEF Judges, CalmParts, FlagsFit
  <2> QED
    BY <1>1, <2>1 DEF Judges, CalmParts, FlagsFit
<1>3. \A p \in Projects : Ahead(p)' = Ahead(p)
  BY <1>1 DEF Ahead
<1>4. AheadFits'
  <2>1. ASSUME NEW p \in Projects, NEW f \in Ahead(p)
        PROVE  /\ f \in AllFaces /\ ProjectOf[f] = p /\ verdict'[f] \in {"yes", "no"}
               /\ written'[f] => bootstrapped[p]
    <3>1. /\ f \in AllFaces /\ ProjectOf[f] = p /\ verdict[f] \in {"yes", "no"}
          /\ written[f] => bootstrapped[p]
      BY <2>1 DEF CalmParts, AheadFits
    <3> QED
      BY <2>1, <3>1 DEF Judges
  <2> QED
    BY <1>1, <1>3, <2>1 DEF CalmParts, AheadFits
<1>5. ASSUME NEW v \in Users \ {u}, NEW f \in AllFaces \intersect J
      PROVE  ~MayReview(v, f)'
  BY NamesAssumption DEF Judges, MayReview
<1>6. ASSUME NEW v \in Users, NEW f \in AllFaces \ J
      PROVE  MayReview(v, f)' <=> MayReview(v, f)
  BY DEF Judges, MayReview, Exists
<1>7. HandsFit'
  <2>1. HandFits(u)'
    BY HandsOff DEF Judges
  <2>2. ASSUME NEW v \in Users \ {u} PROVE HandFits(v)'
    <3>1. /\ HandFits(v) /\ of[v] \in AllFaces \union {NoFace}
          /\ doing'[v] = doing[v] /\ of'[v] = of[v] /\ saw'[v] = saw[v]
      BY DEF CalmParts, HandsFit, TypeInv, TypeOK, Judges, OthersHands
    <3>2. CASE of[v] = NoFace
      BY <3>1, <3>2 DEF HandFits
    <3>3. CASE of[v] \in AllFaces
      <4> PICK f \in AllFaces : of[v] = f
        BY <3>3
      <4>1. verdict[f] \in {"open", "yes", "no"} => verdict'[f] \in {"open", "yes", "no"}
        BY DEF Judges
      <4>2. verdict[f] # "open" => verdict'[f] # "open"
        BY DEF Judges
      <4>3. ~OtherTarget(ProjectOf[f], {f})
        <5>1. OneFaceEach
          BY DEF OneCalmReviewer
        <5> QED
          BY <5>1 DEF OneFaceEach, OtherTarget, FacesOf
      <4>4. OutOfReach(v, f) => OutOfReach(v, f)'
        <5>1. CASE f \in J
          BY <1>5, <5>1 DEF OutOfReach
        <5>2. CASE f \notin J
          <6>1. MayReview(v, f)' <=> MayReview(v, f)
            BY <1>6, <5>2
          <6>2. Ahead(ProjectOf[f])' = Ahead(ProjectOf[f])
            BY <1>3, NamesAssumption
          <6>3. verdict'[f] = verdict[f] /\ written'[f] = written[f]
            BY <5>2 DEF Judges
          <6> QED
            BY <1>1, <6>1, <6>2, <6>3 DEF OutOfReach, Target
        <5> QED
          BY <5>1, <5>2
      <4> QED
        BY <1>1, <3>1, <4>1, <4>2, <4>3, <4>4 DEF HandFits, BareRecord
    <3> QED
      BY <3>1, <3>2, <3>3
  <2> QED
    BY <2>1, <2>2 DEF HandsFit
<1>8. EditsStand'
  <2> SUFFICES ASSUME OneFaceEach, NEW p \in Projects, at[p] \in {"edit", "record"}
               PROVE  Stands(face[p])'
    BY <1>1 DEF EditsStand
  <2>1. /\ face[p] \in Ahead(p) /\ face[p] \in AllFaces /\ ProjectOf[face[p]] = p
        /\ Stands(face[p])
    BY DEF CalmParts, AheadFits, EditsStand, Ahead, InHand, Holding
  <2> PICK f \in AllFaces : f = face[p]
    BY <2>1
  <2>2. KeptBy(f)
    BY <2>1, AheadIsSafe DEF KeptBy, CalmParts
  <2>3. Stands(f)'
    BY <2>2 DEF Judges, KeepsOne, FacesOf, OneFaceEach
  <2> QED
    BY <1>1, <2>3 DEF Stands, Target
<1>9. ClaimIsKept'
  <2>1. ASSUME NEW g \in AllFaces, KeptBy(g)
        PROVE  \E h \in AllFaces : KeptBy(h)'
    <3>1. PICK h \in FacesOf(ProjectOf[g]) :
             Stands(h)' /\ (h = g \/ h \in J \/ OneCalmReviewer)
      BY <2>1 DEF Judges, KeepsOne
    <3>2. h \in AllFaces /\ ProjectOf[h] = ProjectOf[g]
      BY <3>1 DEF FacesOf
    <3>3. at'[ProjectOf[h]] # "settle"
      BY <1>1, <2>1, <3>2 DEF KeptBy, Doomed
    <3>4. ASSUME NEW v \in Users, DoomedBy(v, h)' PROVE FALSE
      <4>1. v # u
        BY <3>2, <3>4, HandsOff DEF Judges
      <4>2. h = g /\ h \notin J
        BY <1>5, <3>1, <3>2, <3>4, <4>1 DEF DoomedBy, OneCalmReviewer
      <4>3. DoomedBy(v, h)
        BY <1>6, <3>2, <3>4, <4>1, <4>2 DEF DoomedBy, Queues, Judges, OthersHands
      <4> QED
        BY <2>1, <4>2, <4>3 DEF KeptBy, Doomed
    <3> QED
      BY <3>1, <3>2, <3>3, <3>4 DEF KeptBy, Doomed
  <2> QED
    BY <1>1, <2>1 DEF CalmParts, ClaimIsKept
<1> QED
  BY <1>2, <1>4, <1>7, <1>8, <1>9 DEF CalmParts

(* A transaction that finds the face reviewed by someone else.             *)
LEMMA RefusedCalm ==
    ASSUME TypeInv, CalmParts, NEW u \in Users, Return(u),
           UNCHANGED <<faceVars, bootstrapped, runVars, claims, ours>>
    PROVE  CalmParts'
    BY ReturnHands, QuietOff, QuietCalm

LEMMA RejectTxnCalm ==
    ASSUME TypeInv, CalmParts, OneFaceEach \/ OneCalmReviewer,
           NEW u \in Users, RejectTxn(u)
    PROVE  CalmParts'
<1> PICK f : f = of[u]
  OBVIOUS
<1>1. /\ f \in AllFaces /\ HandFits(u) /\ doing[u] = "rejectTxn" /\ Return(u)
      /\ verdict \in [AllFaces -> Verdicts] /\ removal \in [AllFaces -> BOOLEAN]
      /\ written \in [AllFaces -> BOOLEAN]
      /\ by \in [AllFaces -> {"nobody", "model"} \union Users]
  BY DEF RejectTxn, TypeInv, Hands, FacePhases, TypeOK, CalmParts, HandsFit
<1>2. UNCHANGED <<replaced, bootstrapped, claims, ours, runVars>>
  BY DEF RejectTxn, pageVars, runsKeep
<1>3. CASE ~MayReview(u, f)
  BY <1>1, <1>2, <1>3, RefusedCalm DEF RejectTxn, faceVars
<1>4. CASE MayReview(u, f)
  <2>1. /\ verdict' = [verdict EXCEPT ![f] = "no"]
        /\ by' = [by EXCEPT ![f] = u]
        /\ written' = [written EXCEPT ![f] = FALSE]
        /\ removal' = [removal EXCEPT ![f] = ~saw[u].sibling /\ Queues(u)]
    BY <1>4 DEF RejectTxn
  <2>2. doing'[u] \notin RejectPhases /\ OthersHands(u)
    BY <1>1, ReturnHands DEF RejectPhases
  <2>3. KeepsOne({f})
    <3> SUFFICES ASSUME NEW g \in AllFaces, KeptBy(g)
                 PROVE  \E h \in FacesOf(ProjectOf[g]) :
                           Stands(h)' /\ (h = g \/ h \in {f} \/ OneCalmReviewer)
      BY DEF KeepsOne
    <3>1. CASE g # f
      BY <1>1, <1>2, <2>1, <3>1 DEF KeptBy, Stands, Target, FacesOf
    <3>2. CASE g = f /\ ~saw[u].sibling
      <4>1. Queues(u)
        BY <1>1, <1>4, <3>2 DEF KeptBy, Doomed, DoomedBy
      <4> QED
        BY <1>1, <2>1, <3>2, <4>1 DEF Stands, FacesOf
    <3>3. CASE g = f /\ saw[u].sibling
      <4>1. OtherTarget(ProjectOf[f], {f})
        BY <1>1, <3>3, NamesAssumption DEF HandFits, RejectPhases
      <4>2. PICK t \in FacesOf(ProjectOf[f]) \ {f} : Target(t)
        BY <4>1 DEF OtherTarget
      <4>3. OneCalmReviewer
        BY <1>1, <4>2 DEF OneFaceEach, FacesOf
      <4> QED
        BY <1>1, <1>2, <2>1, <3>3, <4>2, <4>3 DEF Stands, Target, FacesOf
    <3> QED
      BY <3>1, <3>2, <3>3
  <2>4. Judges(u, {f})
    BY <1>1, <1>2, <2>1, <2>2, <2>3 DEF Judges, CalmParts, FlagsFit
  <2> QED
    BY <2>4, JudgesCalm
<1> QED
  BY <1>3, <1>4

LEMMA ApproveCalm ==
    ASSUME TypeInv, CalmParts, OneFaceEach \/ OneCalmReviewer,
           NEW u \in Users, Approve(u)
    PROVE  CalmParts'
<1> PICK f : f = of[u]
  OBVIOUS
<1> DEFINE others == IF f \in saw[u].yes THEN {} ELSE
                         {g \in FacesOf(ProjectOf[f]) \ {f} : Live(g)}
           demoted == {g \in others : Target(g)}
<1>1. /\ f \in AllFaces /\ HandFits(u) /\ doing[u] = "approve"
      /\ verdict \in [AllFaces -> Verdicts] /\ removal \in [AllFaces -> BOOLEAN]
      /\ written \in [AllFaces -> BOOLEAN]
      /\ by \in [AllFaces -> {"nobody", "model"} \union Users]
  BY DEF Approve, TypeInv, Hands, FacePhases, TypeOK, CalmParts, HandsFit
<1>2. UNCHANGED <<replaced, bootstrapped, claims, ours, runVars>>
  BY DEF Approve, pageVars, runsKeep
<1>3. CASE ~MayReview(u, f)
  <2>1. Return(u) /\ UNCHANGED <<verdict, by, written, removal>>
    BY <1>3 DEF Approve
  <2> QED
    BY <1>2, <2>1, RefusedCalm DEF faceVars
<1>4. CASE MayReview(u, f)
  <2>1. /\ verdict' = Write([verdict EXCEPT ![f] = "yes"], demoted, "no")
        /\ by' = Write(by, demoted \union {f}, u)
        /\ written' = Write([written EXCEPT ![f] = f \in saw[u].written], demoted, FALSE)
        /\ removal' = [g \in AllFaces |-> IF g \in demoted THEN written[g]
                          ELSE removal[g] /\ g # f /\ g \notin others]
    BY <1>4 DEF Approve
  <2>2. Return(u) \/ (Step(u, "check") /\ UNCHANGED <<of, saw>>)
    BY <1>4 DEF Approve
  <2>3. doing'[u] \notin RejectPhases /\ OthersHands(u)
    BY <2>2, ReturnHands, StepHands DEF RejectPhases, OthersHands
  <2>4. /\ others \subseteq AllFaces /\ f \notin others
        /\ \A g \in others : ProjectOf[g] = ProjectOf[f]
        /\ demoted \subseteq others /\ \A g \in AllFaces \ demoted : g \in others => ~Target(g)
    BY DEF FacesOf
  <2> HIDE DEF others, demoted
  <2>5. ASSUME NEW g \in AllFaces
        PROVE  /\ g = f => verdict'[g] = "yes" /\ written'[g] = (f \in saw[u].written)
               /\ g \in demoted => verdict'[g] = "no" /\ ~written'[g]
               /\ g \notin demoted /\ g # f => /\ verdict'[g] = verdict[g]
                                             /\ written'[g] = written[g]
               /\ by'[g] = IF g \in demoted \/ g = f THEN u ELSE by[g]
    BY <1>1, <2>1, <2>4 DEF Write
  <2>6. ASSUME f \in saw[u].written, f \in Ahead(ProjectOf[f])
        PROVE  bootstrapped[ProjectOf[f]]
    BY <1>1, <1>4, <2>6, NamesAssumption DEF HandFits, RejectPhases, BareRecord, OutOfReach
  <2>7. ASSUME NEW g \in AllFaces, removal'[g] PROVE verdict'[g] = "no"
    <3>1. CASE g \in demoted
      BY <2>5, <3>1
    <3>2. CASE g \notin demoted
      <4>1. removal[g] /\ g # f
        BY <2>1, <2>7, <3>2
      <4> QED
        BY <2>5, <3>2, <4>1 DEF CalmParts, FlagsFit
    <3> QED
      BY <3>1, <3>2
  <2>8. KeepsOne(demoted \union {f})
    <3> SUFFICES ASSUME NEW g \in AllFaces, KeptBy(g)
                 PROVE  \E h \in FacesOf(ProjectOf[g]) :
                           Stands(h)' /\ (h = g \/ h \in demoted \union {f} \/ OneCalmReviewer)
      BY DEF KeepsOne
    <3>1. CASE ProjectOf[g] = ProjectOf[f]
      <4>1. Target(f)'
        BY <1>1, <1>2, <2>5 DEF Target, CalmParts, FlagsFit
      <4> QED
        BY <1>1, <3>1, <4>1 DEF Stands, FacesOf
    <3>2. CASE ProjectOf[g] # ProjectOf[f]
      <4>1. g \notin others /\ g \notin demoted /\ g # f
        BY <2>4, <3>2
      <4>2. verdict'[g] = verdict[g] /\ (removal[g] => removal'[g])
        BY <2>1, <2>5, <4>1
      <4> QED
        BY <1>2, <4>2 DEF KeptBy, Stands, Target, FacesOf
    <3> QED
      BY <3>1, <3>2
  <2>9. Judges(u, demoted \union {f})
    BY <1>1, <1>2, <2>3, <2>4, <2>5, <2>6, <2>7, <2>8 DEF Judges
  <2> QED
    BY <2>9, JudgesCalm
<1> QED
  BY <1>3, <1>4

LEMMA ClassifyNoneCalm ==
    ASSUME TypeInv, CalmParts, OneFaceEach \/ OneCalmReviewer, NEW u \in Users,
           NEW p \in Projects, NEW review \in BOOLEAN, ClassifyNone(u, p, review)
    PROVE  CalmParts'
<1> DEFINE these == Shown(p, review)
<1>1. /\ verdict' = Write(verdict, these, "no") /\ by' = Write(by, these, u)
      /\ removal' = removal \/ removal' = Write(removal, these, TRUE)
      /\ UNCHANGED <<replaced, written, bootstrapped, claims, ours, runVars, doing, of, saw>>
      /\ doing[u] = "idle"
  BY DEF ClassifyNone, Begin, pageVars, runsKeep
<1>2. \A g \in these : verdict[g] # "yes"
  BY DEF Shown
<1> HIDE DEF these
<1>3. ASSUME NEW g \in AllFaces
      PROVE  /\ verdict'[g] = IF g \in these THEN "no" ELSE verdict[g]
             /\ by'[g] = IF g \in these THEN u ELSE by[g]
             /\ removal[g] => removal'[g]
             /\ removal'[g] => removal[g] \/ g \in these
  BY <1>1 DEF Write
<1>4. KeepsOne(these)
  BY <1>1, <1>2, <1>3 DEF KeepsOne, KeptBy, Stands, Target, FacesOf
<1>5. Judges(u, these)
  BY <1>1, <1>3, <1>4 DEF Judges, CalmParts, FlagsFit, OthersHands, RejectPhases
<1> QED
  BY <1>5, JudgesCalm

LEMMA ClassifyTargetCalm ==
    ASSUME TypeInv, CalmParts, OneFaceEach \/ OneCalmReviewer, NEW u \in Users,
           NEW f \in AllFaces, NEW review \in BOOLEAN, ClassifyTarget(u, f, review)
    PROVE  CalmParts'
<1> DEFINE these == Shown(ProjectOf[f], review)
           picked == IF f \in these \/ (~review /\ verdict[f] = "open") THEN {f} ELSE {}
           dismissed == these \ {f}
<1>1. /\ verdict' = Write(Write(verdict, dismissed, "no"), picked, "yes")
      /\ by' = Write(by, dismissed \union picked, u)
      /\ removal' = Write(removal, picked, FALSE)
      /\ UNCHANGED <<replaced, written, bootstrapped, claims, ours, runVars, saw>>
      /\ \/ Step(u, "check") /\ of' = [of EXCEPT ![u] = f]
         \/ UNCHANGED <<doing, of>>
      /\ doing[u] = "idle"
  BY DEF ClassifyTarget, Begin, pageVars, runsKeep
<1>2. /\ \A g \in dismissed : verdict[g] # "yes" /\ g \notin picked
  BY DEF Shown
<1> HIDE DEF these, picked, dismissed
<1>3. ASSUME NEW g \in AllFaces
      PROVE  /\ verdict'[g] = IF g \in picked THEN "yes"
                              ELSE IF g \in dismissed THEN "no" ELSE verdict[g]
             /\ by'[g] = IF g \in dismissed \union picked THEN u ELSE by[g]
             /\ removal'[g] = IF g \in picked THEN FALSE ELSE removal[g]
  BY <1>1 DEF Write
<1>4. KeepsOne(dismissed \union picked)
  BY <1>1, <1>2, <1>3 DEF KeepsOne, KeptBy, Stands, Target, FacesOf, CalmParts, FlagsFit
<1>5. doing'[u] \notin RejectPhases /\ OthersHands(u)
  <2>1. of \in [Users -> AllFaces \union {NoFace}]
    BY DEF TypeInv, TypeOK
  <2> QED
    BY <1>1, <2>1, StepHands DEF RejectPhases, OthersHands
<1>6. Judges(u, dismissed \union picked)
  <2>1. \A g \in AllFaces : removal'[g] => verdict'[g] = "no"
    BY <1>3 DEF CalmParts, FlagsFit
  <2> QED
    BY <1>1, <1>3, <1>4, <1>5, <2>1 DEF Judges
<1> QED
  BY <1>6, JudgesCalm

LEMMA DrawCalm ==
    ASSUME TypeInv, CalmParts, OneFaceEach \/ OneCalmReviewer, NEW u \in Users,
           NEW g \in AllFaces, NEW review \in BOOLEAN, Draw(u, g, review)
    PROVE  CalmParts'
<1>1. /\ UNCHANGED <<replaced, written, removal, bootstrapped, claims, ours, runVars, saw>>
      /\ Step(u, "check") /\ of' = [of EXCEPT ![u] = g] /\ verdict[g] = "absent"
      /\ verdict \in [AllFaces -> Verdicts]
  BY DEF Draw, pageVars, runsKeep, TypeInv, TypeOK
<1>2. PICK dismissed :
        /\ \A h \in dismissed : verdict[h] \in {"open", "no"}
        /\ verdict' = [Write(verdict, dismissed, "no") EXCEPT ![g] = "yes"]
        /\ by' = Write(by, dismissed \union {g}, u)
  <2>1. \A these : \A h \in these \intersect Shown(ProjectOf[g], review) :
           verdict[h] \in {"open", "no"}
    BY DEF Shown
  <2>2. PICK these :
          /\ verdict' = [Write(verdict, these \intersect Shown(ProjectOf[g], review), "no")
                            EXCEPT ![g] = "yes"]
          /\ by' = Write(by, (these \intersect Shown(ProjectOf[g], review)) \union {g}, u)
    BY DEF Draw
  <2> QED
    BY <2>1, <2>2
<1>3. ASSUME NEW h \in AllFaces
      PROVE  /\ verdict'[h] = IF h = g THEN "yes" ELSE IF h \in dismissed THEN "no"
                              ELSE verdict[h]
             /\ by'[h] = IF h \in dismissed \union {g} THEN u ELSE by[h]
  BY <1>1, <1>2 DEF Write
<1>4. KeepsOne(dismissed \union {g})
  BY <1>1, <1>2, <1>3 DEF KeepsOne, KeptBy, Stands, Target, FacesOf
<1>5. doing'[u] \notin RejectPhases /\ OthersHands(u)
  <2>1. of \in [Users -> AllFaces \union {NoFace}]
    BY DEF TypeInv, TypeOK
  <2> QED
    BY <1>1, <2>1, StepHands DEF RejectPhases, OthersHands
<1>6. Judges(u, dismissed \union {g})
  <2>1. \A h \in AllFaces : removal'[h] => verdict'[h] = "no"
    BY <1>1, <1>3 DEF CalmParts, FlagsFit
  <2>2. \A h \in AllFaces : h \in Ahead(ProjectOf[h]) => h # g
    BY <1>1, NamesAssumption DEF CalmParts, AheadFits
  <2> QED
    BY <1>1, <1>3, <1>4, <1>5, <2>1, <2>2 DEF Judges
<1> QED
  BY <1>6, JudgesCalm

(* A face found on Commons is marked, and its image with it.               *)
LEMMA MarkCalm ==
    ASSUME TypeInv, CalmParts, NEW u \in Users, Mark(u)
    PROVE  CalmParts'
<1> PICK f : f = of[u]
  OBVIOUS
<1>1. /\ f \in AllFaces /\ Return(u) /\ ProjectOf[f] \in Projects
      /\ UNCHANGED <<verdict, replaced, by, removal, claims, ours, at, face, batch>>
  BY NamesAssumption DEF Mark, TypeInv, Hands, FacePhases, TypeOK, pageVars, runsKeep, runVars
<1>2. /\ \A g \in AllFaces : written'[g] <=> written[g] \/ (g = f /\ Exists(f))
      /\ \A q \in Projects : bootstrapped'[q] <=> bootstrapped[q] \/ q = ProjectOf[f]
  <2>1. written \in [AllFaces -> BOOLEAN] /\ bootstrapped \in [Projects -> BOOLEAN]
    BY DEF TypeInv, TypeOK
  <2>2. /\ written' = [written EXCEPT ![f] = @ \/ Exists(f)]
        /\ bootstrapped' = [bootstrapped EXCEPT ![ProjectOf[f]] = TRUE]
    BY DEF Mark, MarkWritten
  <2> QED
    BY <1>1, <2>1, <2>2, Zenon
<1>3. OthersHands(u) /\ of'[u] = NoFace /\ doing'[u] = "idle"
  BY <1>1, ReturnHands
<1>4. FlagsFit'
  BY <1>1, <1>2, NamesAssumption DEF CalmParts, FlagsFit
<1>5. \A p \in Projects : Ahead(p)' = Ahead(p)
  BY <1>1 DEF Ahead
<1>6. AheadFits'
  BY <1>1, <1>2, <1>5 DEF CalmParts, AheadFits
<1>7. HandsFit'
  <2>1. HandFits(u)'
    BY <1>3 DEF HandFits
  <2>2. ASSUME NEW v \in Users \ {u} PROVE HandFits(v)'
    <3>1. /\ HandFits(v) /\ of[v] \in AllFaces \union {NoFace}
          /\ doing'[v] = doing[v] /\ of'[v] = of[v] /\ saw'[v] = saw[v]
      BY <1>3 DEF CalmParts, HandsFit, TypeInv, TypeOK, OthersHands
    <3>2. CASE of[v] = NoFace
      BY <3>1, <3>2 DEF HandFits
    <3>3. CASE of[v] \in AllFaces
      <4> PICK g \in AllFaces : of[v] = g
        BY <3>3
      <4>1. OutOfReach(v, g) => OutOfReach(v, g)'
        BY <1>1, <1>2, <1>5, NamesAssumption DEF OutOfReach, MayReview, Exists, Target
      <4>2. OtherTarget(ProjectOf[g], {g})' <=> OtherTarget(ProjectOf[g], {g})
        BY <1>1 DEF OtherTarget, FacesOf, Target
      <4>3. bootstrapped[ProjectOf[g]] => bootstrapped'[ProjectOf[g]]
        BY <1>2, NamesAssumption
      <4> QED
        BY <1>1, <3>1, <4>1, <4>2, <4>3 DEF HandFits, BareRecord
    <3> QED
      BY <3>1, <3>2, <3>3
  <2> QED
    BY <2>1, <2>2 DEF HandsFit
<1>8. EditsStand'
  BY <1>1 DEF CalmParts, EditsStand, Stands, Target
<1>9. ClaimIsKept'
  <2>1. ASSUME NEW g \in AllFaces, NEW v \in Users, DoomedBy(v, g)'
        PROVE  DoomedBy(v, g)
    <3>1. v # u
      BY <1>3, <2>1 DEF DoomedBy
    <3> QED
      BY <1>1, <1>3, <2>1, <3>1 DEF OthersHands, DoomedBy, MayReview, Exists, Queues
  <2>2. ASSUME NEW g \in AllFaces, KeptBy(g) PROVE KeptBy(g)'
    BY <1>1, <2>1, <2>2 DEF KeptBy, Stands, Target, Doomed
  <2> QED
    BY <1>1, <2>2 DEF CalmParts, ClaimIsKept
<1> QED
  BY <1>4, <1>6, <1>7, <1>8, <1>9 DEF CalmParts

(* The model's verdict on a face that waits, which nobody relied on.       *)
LEMMA InferCalm ==
    ASSUME TypeInv, CalmParts, NEW f \in AllFaces, Infer(f)
    PROVE  CalmParts'
<1>1. /\ verdict[f] = "open" /\ by[f] = "nobody" /\ ~removal[f]
      /\ UNCHANGED <<replaced, written, removal, bootstrapped, claims, ours,
                     doing, of, saw, at, face, batch>>
  BY DEF Infer, pageVars, runVars, stepKeeps, othersKeep, userVars
<1>2. /\ verdict'[f] \in {"yes", "no"} /\ by'[f] = "model"
      /\ \A g \in AllFaces \ {f} : verdict'[g] = verdict[g] /\ by'[g] = by[g]
  BY DEF Infer, TypeInv, TypeOK
<1>3. FlagsFit'
  BY <1>1, <1>2 DEF CalmParts, FlagsFit
<1>4. \A p \in Projects : Ahead(p)' = Ahead(p)
  BY <1>1 DEF Ahead
<1>5. AheadFits'
  BY <1>1, <1>2, <1>4 DEF CalmParts, AheadFits
<1>6. \A u \in Users, g \in AllFaces : MayReview(u, g)' <=> MayReview(u, g)
  BY <1>1, <1>2 DEF MayReview, Exists
<1>7. \A g \in AllFaces : Target(g) => g # f /\ Target(g)'
  BY <1>1, <1>2 DEF Target
<1>8. HandsFit'
  <2>1. ASSUME NEW v \in Users PROVE HandFits(v)'
    <3>1. HandFits(v) /\ of[v] \in AllFaces \union {NoFace}
      BY DEF CalmParts, HandsFit, TypeInv, TypeOK
    <3>2. CASE of[v] = NoFace
      BY <1>1, <3>1, <3>2 DEF HandFits
    <3>3. CASE of[v] \in AllFaces
      <4> PICK g \in AllFaces : of[v] = g
        BY <3>3
      <4>1. g # f /\ OutOfReach(v, g) => OutOfReach(v, g)'
        BY <1>1, <1>2, <1>4, <1>6, NamesAssumption DEF OutOfReach, Target
      <4>2. OtherTarget(ProjectOf[g], {g}) => OtherTarget(ProjectOf[g], {g})'
        BY <1>7 DEF OtherTarget, FacesOf
      <4> QED
        BY <1>1, <1>2, <3>1, <4>1, <4>2 DEF HandFits, BareRecord
    <3> QED
      BY <3>1, <3>2, <3>3
  <2> QED
    BY <2>1 DEF HandsFit
<1>9. \A g \in AllFaces : Stands(g) => Stands(g)'
  BY <1>1, <1>7 DEF Stands
<1>10. EditsStand'
  <2> SUFFICES ASSUME OneFaceEach, NEW p \in Projects, at[p] \in {"edit", "record"}
               PROVE  Stands(face[p])'
    BY <1>1 DEF EditsStand
  <2> PICK g : g = face[p]
    OBVIOUS
  <2>1. g \in AllFaces /\ Stands(g)
    BY DEF CalmParts, AheadFits, EditsStand, Ahead, InHand, Holding
  <2> QED
    BY <1>1, <1>9, <2>1 DEF Stands, Target
<1>11. ClaimIsKept'
  <2>1. \A u \in Users, g \in AllFaces : DoomedBy(u, g)' => DoomedBy(u, g)
    BY <1>1, <1>6 DEF DoomedBy, Queues
  <2>2. ASSUME NEW g \in AllFaces, KeptBy(g) PROVE KeptBy(g)'
    BY <1>1, <1>9, <2>1, <2>2 DEF KeptBy, Doomed
  <2> QED
    BY <1>1, <2>2 DEF CalmParts, ClaimIsKept
<1> QED
  BY <1>3, <1>5, <1>8, <1>10, <1>11 DEF CalmParts

LEMMA ReviewCalm ==
    ASSUME TypeInv, CalmParts, accidents = {}, accidents' = {}, NEW u \in Users,
           OneFaceEach \/ OneCalmReviewer, ReviewStep(u)
    PROVE  CalmParts'
<1>1. CASE \E f \in AllFaces : LoadFace(u, f)
  BY <1>1, LoadCalm, QuietCalm
<1>2. CASE \/ GiveUp(u) \/ Check(u) \/ UndoRead(u) \/ UndoContext(u)
           \/ \E f \in AllFaces : EditLoad(u, f)
  BY <1>2, OffCalm, QuietCalm
<1>3. CASE RejectDecide(u) \/ Remove(u) \/ Clear(u)
  BY <1>3, RejectDecideCalm, RemoveCalm, ClearCalm, QuietCalm
<1>4. CASE Approve(u) \/ RejectTxn(u) \/ Mark(u)
  BY <1>4, ApproveCalm, RejectTxnCalm, MarkCalm
<1>5. CASE \E f \in AllFaces, review \in BOOLEAN :
              ClassifyTarget(u, f, review) \/ Draw(u, f, review)
  BY <1>5, ClassifyTargetCalm, DrawCalm
<1>6. CASE \E p \in Projects, review \in BOOLEAN : ClassifyNone(u, p, review)
  BY <1>6, ClassifyNoneCalm
<1>7. ASSUME NEW f \in AllFaces, EditTxn(u, f) PROVE CalmParts'
  <2>1. Return(u) /\ UNCHANGED <<faceVars, bootstrapped, runVars, claims, ours>>
    BY <1>7 DEF EditTxn, Note, faceVars, pageVars, runsKeep
  <2> QED
    BY <2>1, RefusedCalm
<1>8. CASE UndoTxn(u) \/ \E p \in Projects : Rerun(u, p)
  BY <1>8 DEF UndoTxn, Rerun, Note
<1> QED
  BY <1>1, <1>2, <1>3, <1>4, <1>5, <1>6, <1>7, <1>8 DEF ReviewStep

(* Accidents are never forgotten.                                          *)
LEMMA AccidentsGrow == [Next]_vars => accidents \subseteq accidents'
<1> SUFFICES ASSUME [Next]_vars PROVE accidents \subseteq accidents'
  OBVIOUS
<1>1. ASSUME NEW p \in Projects, RunStep(p) PROVE accidents \subseteq accidents'
  BY <1>1 DEF RunStep, StartRun, AbortRun, Select, NextFace, EndBatch, Reserve, Lookup,
     Adopt, Recheck, Edit, Record, Removing, RemovalLookup, RemovalSend, Settle, ClearRow,
     Finish, Note
<1>2. ASSUME NEW p \in Projects, Shutdown(p) \/ Crash(p) \/ Send(p) \/ StopEdits(p)
      PROVE  accidents \subseteq accidents'
  BY <1>2 DEF Shutdown, Crash, Send, StopEdits
<1>3. ASSUME NEW u \in Users, ReviewStep(u) PROVE accidents \subseteq accidents'
  BY <1>3 DEF ReviewStep, LoadFace, EditLoad, EditTxn, ClassifyTarget, Draw, ClassifyNone,
     Rerun, Approve, Check, Mark, RejectDecide, RejectTxn, Remove, Clear, UndoRead,
     UndoContext, UndoTxn, GiveUp, Note
<1>4. ASSUME NEW f \in AllFaces, Infer(f) PROVE accidents \subseteq accidents'
  BY <1>4 DEF Infer
<1>5. CASE RowAges \/ UNCHANGED vars
  BY <1>5 DEF RowAges, vars
<1> QED
  BY <1>1, <1>2, <1>3, <1>4, <1>5 DEF Next

LEMMA CalmStep ==
    ASSUME OneFaceEach \/ OneCalmReviewer, TypeInv, CalmInv, [Next]_vars
    PROVE  CalmInv'
<1> SUFFICES ASSUME accidents' = {} PROVE CalmParts'
  BY DEF CalmInv
<1>1. accidents = {} /\ CalmParts
  BY AccidentsGrow DEF CalmInv
<1>2. ASSUME NEW p \in Projects, RunStep(p) \/ Crash(p) PROVE CalmParts'
  BY <1>1, <1>2, WorkerCalm
<1>3. ASSUME NEW p \in Projects, Shutdown(p) \/ Send(p) \/ StopEdits(p) PROVE CalmParts'
  BY <1>1, <1>3, FrameCalm DEF Shutdown, Send, StopEdits, pageVars, runVars, userVars,
     othersKeep, handVars
<1>4. ASSUME NEW u \in Users, ReviewStep(u) PROVE CalmParts'
  BY <1>1, <1>4, ReviewCalm
<1>5. ASSUME NEW f \in AllFaces, Infer(f) PROVE CalmParts'
  BY <1>1, <1>5, InferCalm
<1>6. CASE RowAges \/ UNCHANGED vars
  BY <1>1, <1>6, FrameCalm DEF RowAges, vars, pageVars, runVars, userVars, stepKeeps,
     othersKeep, handVars
<1> QED
  BY <1>2, <1>3, <1>4, <1>5, <1>6 DEF Next

LEMMA CalmIsClean == CalmInv => RejectionsLeaveNoClaim
<1> SUFFICES ASSUME CalmParts, Settled, ours
             PROVE  \E f \in AllFaces : Target(f) \/ (Live(f) /\ removal[f])
  BY DEF CalmInv, RejectionsLeaveNoClaim
<1>1. PICK f \in AllFaces : KeptBy(f)
  BY DEF CalmParts, ClaimIsKept, Settled
<1> QED
  BY <1>1 DEF KeptBy, Stands, CalmParts, FlagsFit, Live, Exists

(* For every set of projects and reviewers, with one face on each image,   *)
(* through every crash, failure, shutdown and interleaving of rejections   *)
(* with runs; and for one reviewer of images with any number of faces when *)
(* nothing fails: a statement that a run added does not outlive the        *)
(* rejection of its last face (app._settle_claim_for_rejection,            *)
(* worker._record_written).                                                *)
THEOREM RejectionsAreClean ==
    ASSUME OneFaceEach \/ OneCalmReviewer
    PROVE  Spec => []RejectionsLeaveNoClaim
<1>1. Init => CalmInv
  BY InitCalm
<1>2. TypeInv /\ CalmInv /\ [Next]_vars => CalmInv'
  BY CalmStep
<1>3. CalmInv => RejectionsLeaveNoClaim
  BY CalmIsClean
<1> QED
  BY <1>1, <1>2, <1>3, TypesKept, PTL DEF Spec

-----------------------------------------------------------------------------
(* What a finished request has written                                     *)
(*                                                                         *)
(* A run goes on to the removals when nothing is left to write, unless it  *)
(* stops or gives up blocked faces.  A request that is made while a run is *)
(* still writing is therefore served by that run like its own; one that is *)
(* made later is late.  From the removals on no step makes a promised face *)
(* writable again: reviewers take the faces they touch out of what is      *)
(* promised, and a run takes a mark off only with a removal that is due,   *)
(* which a target never has.                                               *)
NotQueued(f) == removal[f] => verdict[f] \notin {"yes", "absent"}
Open(f) == Target(f) /\ ~written[f] /\ ~bootstrapped[ProjectOf[f]]
Delivered(p) ==
    at[p] \in Ending /\ ~stopping[p] /\ ~notice[p] /\ ~late[p] =>
        \A f \in promised[p] : ProjectOf[f] = p => ~Open(f)
Promised(f) == \E p \in Projects : f \in promised[p]
PromiseInv ==
    /\ \A f \in AllFaces : NotQueued(f) /\ (Promised(f) => Target(f))
    /\ \A p \in Projects : Delivered(p)

(* No face becomes writable while it is promised. *)
Same(f) == (Open(f)' => Open(f)) /\ (Target(f) => Target(f)')
FacesStay == \A f \in AllFaces : NotQueued(f)' /\ (Promised(f)' => Promised(f) /\ Same(f))
Shrink(p) == promised'[p] \subseteq promised[p]

LEMMA WritableIsOpen ==
    ASSUME NEW p \in Projects
    PROVE  Writable(p) = {f \in AllFaces : ProjectOf[f] = p /\ Open(f)}
    BY DEF Writable, FacesOf, Open

LEMMA InitPromises == Init => PromiseInv
    BY DEF Init, PromiseInv, NotQueued, Promised, Delivered, Ending

(* A run that is at its end, and has not just come there, loses nothing. *)
LEMMA DeliveredStays ==
    ASSUME TypeInv, FacesStay, NEW p \in Projects, Delivered(p), Shrink(p),
           at'[p] \in Ending /\ ~stopping'[p] /\ ~notice'[p] /\ ~late'[p] =>
               at[p] \in Ending /\ ~stopping[p] /\ ~notice[p] /\ ~late[p]
    PROVE  Delivered(p)'
<1> SUFFICES ASSUME at'[p] \in Ending /\ ~stopping'[p] /\ ~notice'[p] /\ ~late'[p],
                    NEW f \in promised'[p], ProjectOf[f] = p, Open(f)'
             PROVE  FALSE
  BY DEF Delivered
<1>1. f \in promised[p] /\ f \in AllFaces
  BY DEF Shrink, TypeInv, TypeOK
<1> QED
  BY <1>1 DEF FacesStay, Same, Promised, Delivered

LEMMA RunsStay ==
    ASSUME TypeInv, PromiseInv, FacesStay,
           UNCHANGED <<at, stopping, notice, late>>, \A p \in Projects : Shrink(p)
    PROVE  PromiseInv'
    BY DeliveredStays DEF PromiseInv, FacesStay, Same

-----------------------------------------------------------------------------
(* Review *)

LEMMA KeepShrinks ==
    ASSUME TypeInv, NEW these, Keep(these)
    PROVE  /\ \A p \in Projects : Shrink(p)
           /\ \A f \in these : ~Promised(f)'
    BY DEF Keep, Shrink, Promised

(* A handler that takes the faces it may open out of what is promised.     *)
LEMMA HandlerKeeps ==
    ASSUME TypeInv, PromiseInv, UNCHANGED runVars, NEW these, Keep(these),
           \A f \in AllFaces : NotQueued(f)' /\ (f \in these \/ Same(f))
    PROVE  PromiseInv'
<1>1. FacesStay
  BY KeepShrinks DEF FacesStay, Shrink, Promised
<1> QED
  BY <1>1, KeepShrinks, RunsStay DEF runVars

(* A handler that leaves alone what is promised.                           *)
LEMMA HandlerLeaves ==
    ASSUME TypeInv, PromiseInv, UNCHANGED <<runVars, promised>>,
           \A f \in AllFaces : NotQueued(f)' /\ Same(f)
    PROVE  PromiseInv'
<1>1. FacesStay /\ \A p \in Projects : Shrink(p)
  BY DEF FacesStay, Shrink, Promised
<1> QED
  BY <1>1, RunsStay DEF runVars

LEMMA HandlerReads ==
    ASSUME TypeInv, PromiseInv, UNCHANGED <<faceVars, bootstrapped, runVars, promised>>
    PROVE  PromiseInv'
<1>1. \A f \in AllFaces : NotQueued(f)' /\ Same(f)
  BY DEF PromiseInv, NotQueued, Same, Open, Target, faceVars
<1> QED
  BY <1>1, HandlerLeaves

LEMMA MarkPromises ==
    ASSUME TypeInv, PromiseInv, NEW u \in Users, Mark(u)
    PROVE  PromiseInv'
<1>1. /\ UNCHANGED <<verdict, replaced, removal, promised, runVars>>
      /\ MarkWritten(of[u])
      /\ bootstrapped' = [bootstrapped EXCEPT ![ProjectOf[of[u]]] = TRUE]
  BY DEF Mark, runsKeep
<1>2. /\ written \in [AllFaces -> BOOLEAN] /\ bootstrapped \in [Projects -> BOOLEAN]
      /\ \A f \in AllFaces : ProjectOf[f] \in Projects
  BY NamesAssumption DEF TypeInv, TypeOK
<1>3. \A f \in AllFaces : written[f] => written'[f]
  BY <1>1, <1>2 DEF MarkWritten
<1>4. \A p \in Projects : bootstrapped[p] => bootstrapped'[p]
  BY <1>1, <1>2
<1>5. \A f \in AllFaces : NotQueued(f)' /\ Same(f)
  BY <1>1, <1>2, <1>3, <1>4 DEF PromiseInv, NotQueued, Same, Open, Target
<1> QED
  BY <1>1, <1>5, HandlerLeaves

LEMMA ApprovePromises ==
    ASSUME TypeInv, PromiseInv, NEW u \in Users, Approve(u)
    PROVE  PromiseInv'
<1> PICK f : f = of[u]
  OBVIOUS
<1> DEFINE others == IF f \in saw[u].yes THEN {} ELSE
                         {g \in FacesOf(ProjectOf[f]) \ {f} : Live(g)}
           demoted == {g \in others : Target(g)}
<1>1. /\ f \in AllFaces
      /\ verdict \in [AllFaces -> Verdicts] /\ removal \in [AllFaces -> BOOLEAN]
      /\ written \in [AllFaces -> BOOLEAN]
  BY DEF Approve, TypeInv, Hands, FacePhases, TypeOK
<1>2. UNCHANGED <<replaced, bootstrapped, runVars>>
  BY DEF Approve, runsKeep
<1>3. CASE ~MayReview(u, f)
  BY <1>2, <1>3, HandlerReads DEF Approve, faceVars
<1>4. CASE MayReview(u, f)
  <2>1. /\ verdict' = Write([verdict EXCEPT ![f] = "yes"], demoted, "no")
        /\ written' = Write([written EXCEPT ![f] = f \in saw[u].written], demoted, FALSE)
        /\ removal' = [g \in AllFaces |-> IF g \in demoted THEN written[g]
                          ELSE removal[g] /\ g # f /\ g \notin others]
        /\ Keep(demoted \union {f})
    BY <1>4 DEF Approve
  <2>2. demoted \subseteq AllFaces
    BY DEF FacesOf
  <2> HIDE DEF others, demoted
  <2>3. ASSUME NEW g \in AllFaces
        PROVE  NotQueued(g)' /\ (g \in demoted \union {f} \/ Same(g))
    <3>1. CASE g \in demoted
      BY <2>1, <3>1 DEF Write, NotQueued
    <3>2. CASE g \notin demoted /\ g # f
      BY <1>1, <1>2, <2>1, <3>2 DEF Write, NotQueued, Same, Open, Target, PromiseInv
    <3>3. CASE g \notin demoted /\ g = f
      BY <2>1, <3>3 DEF Write, NotQueued
    <3> QED
      BY <3>1, <3>2, <3>3
  <2> QED
    BY <1>2, <2>1, <2>3, HandlerKeeps
<1> QED
  BY <1>3, <1>4

LEMMA RejectPromises ==
    ASSUME TypeInv, PromiseInv, NEW u \in Users, RejectTxn(u)
    PROVE  PromiseInv'
<1> PICK f : f = of[u]
  OBVIOUS
<1>1. /\ f \in AllFaces
      /\ verdict \in [AllFaces -> Verdicts] /\ removal \in [AllFaces -> BOOLEAN]
      /\ written \in [AllFaces -> BOOLEAN]
  BY DEF RejectTxn, TypeInv, Hands, FacePhases, TypeOK
<1>2. UNCHANGED <<replaced, bootstrapped, runVars>>
  BY DEF RejectTxn, runsKeep
<1>3. CASE ~MayReview(u, f)
  BY <1>2, <1>3, HandlerReads DEF RejectTxn, faceVars
<1>4. CASE MayReview(u, f)
  <2>1. /\ verdict' = [verdict EXCEPT ![f] = "no"]
        /\ written' = [written EXCEPT ![f] = FALSE]
        /\ removal' = [removal EXCEPT ![f] = ~saw[u].sibling /\ Queues(u)]
        /\ Keep({f})
    BY <1>4 DEF RejectTxn
  <2>2. ASSUME NEW g \in AllFaces
        PROVE  NotQueued(g)' /\ (g \in {f} \/ Same(g))
    BY <1>1, <1>2, <2>1 DEF NotQueued, Same, Open, Target, PromiseInv
  <2> QED
    BY <1>2, <2>1, <2>2, HandlerKeeps
<1> QED
  BY <1>3, <1>4

LEMMA ClassifyNonePromises ==
    ASSUME TypeInv, PromiseInv, NEW u \in Users, NEW p \in Projects, NEW review \in BOOLEAN,
           ClassifyNone(u, p, review)
    PROVE  PromiseInv'
<1> DEFINE these == Shown(p, review)
<1>1. /\ verdict' = Write(verdict, these, "no")
      /\ \/ removal' = Write(removal, these, TRUE)
         \/ removal' = removal
      /\ Keep(these)
      /\ UNCHANGED <<replaced, written, bootstrapped, runVars>>
  BY DEF ClassifyNone, runsKeep
<1>2. these \subseteq AllFaces
  BY DEF Shown, FacesOf
<1> HIDE DEF these
<1>3. \A f \in AllFaces : NotQueued(f)' /\ (f \in these \/ Same(f))
  BY <1>1 DEF Write, NotQueued, Same, Open, Target, PromiseInv
<1> QED
  BY <1>1, <1>3, HandlerKeeps

LEMMA ClassifyTargetPromises ==
    ASSUME TypeInv, PromiseInv, NEW u \in Users, NEW f \in AllFaces, NEW review \in BOOLEAN,
           ClassifyTarget(u, f, review)
    PROVE  PromiseInv'
<1> DEFINE p == ProjectOf[f]
           these == Shown(p, review)
           picked == IF f \in these \/ (~review /\ verdict[f] = "open") THEN {f} ELSE {}
           dismissed == these \ {f}
<1>1. /\ verdict' = Write(Write(verdict, dismissed, "no"), picked, "yes")
      /\ removal' = Write(removal, picked, FALSE)
      /\ Keep(dismissed \union picked)
      /\ UNCHANGED <<replaced, written, bootstrapped, runVars>>
  BY DEF ClassifyTarget, runsKeep
<1> HIDE DEF dismissed, picked
<1>2. ASSUME NEW g \in AllFaces
      PROVE  NotQueued(g)' /\ (g \in dismissed \union picked \/ Same(g))
  <2>1. CASE g \in picked
    BY <1>1, <2>1 DEF Write, NotQueued
  <2>2. CASE g \notin picked
    BY <1>1, <2>2 DEF Write, NotQueued, Same, Open, Target, PromiseInv
  <2> QED
    BY <2>1, <2>2
<1> QED
  BY <1>1, <1>2, HandlerKeeps

LEMMA UndoPromises ==
    ASSUME TypeInv, PromiseInv, NEW u \in Users, UndoTxn(u)
    PROVE  PromiseInv'
<1> DEFINE deleted == last[u].drawn
           undone == {f \in last[u].faces \ deleted : Exists(f)}
           back == IF last[u].review THEN "no" ELSE "open"
<1>1. /\ verdict' = Write(Write(verdict, undone, back), deleted, "deleted")
      /\ written' = [f \in AllFaces |->
             IF f \in undone THEN UndoKeepsMark(u, f) ELSE written[f]]
      /\ removal' = [f \in AllFaces |->
             IF f \in undone THEN UndoQueues(u, f) ELSE removal[f]]
      /\ Keep(undone \union deleted)
      /\ UNCHANGED <<replaced, bootstrapped, runVars>>
  BY DEF UndoTxn, runsKeep
<1>2. back \in {"no", "open"} /\ undone \intersect deleted = {}
  OBVIOUS
<1> HIDE DEF deleted, undone, back
<1>3. ASSUME NEW g \in AllFaces
      PROVE  NotQueued(g)' /\ (g \in undone \union deleted \/ Same(g))
  <2>1. CASE g \in undone
    BY <1>1, <1>2, <2>1 DEF Write, NotQueued
  <2>2. CASE g \in deleted
    BY <1>1, <2>2 DEF Write, NotQueued
  <2>3. CASE g \notin undone \union deleted
    BY <1>1, <2>3 DEF Write, NotQueued, Same, Open, Target, PromiseInv
  <2> QED
    BY <2>1, <2>2, <2>3
<1> QED
  BY <1>1, <1>3, HandlerKeeps

(* A drawn or re-drawn face was no row before, so that nobody promised it. *)
LEMMA DrawPromises ==
    ASSUME TypeInv, PromiseInv, NEW u \in Users, NEW g \in AllFaces, NEW review \in BOOLEAN,
           Draw(u, g, review)
    PROVE  PromiseInv'
<1> DEFINE p == ProjectOf[g]
<1>1. PICK these :
        LET dismissed == these \intersect Shown(p, review)
        IN  /\ verdict' = [Write(verdict, dismissed, "no") EXCEPT ![g] = "yes"]
            /\ Keep(dismissed)
  BY DEF Draw
<1> DEFINE dismissed == these \intersect Shown(p, review)
<1>2. /\ verdict' = [Write(verdict, dismissed, "no") EXCEPT ![g] = "yes"]
      /\ Keep(dismissed) /\ verdict[g] = "absent"
      /\ UNCHANGED <<replaced, written, removal, bootstrapped, runVars>>
  BY <1>1 DEF Draw, runsKeep
<1> HIDE DEF dismissed
<1>3. ASSUME NEW f \in AllFaces
      PROVE  NotQueued(f)' /\ (Promised(f)' => Promised(f) /\ Same(f))
  <2>1. CASE f = g
    <3>0. ~Promised(g)
      BY <1>2 DEF PromiseInv, Target
    <3>1. ~removal[g] /\ removal' = removal
      BY <1>2 DEF PromiseInv, NotQueued
    <3>2. ~Promised(g)'
      BY <1>2, <3>0, KeepShrinks DEF Shrink, Promised
    <3> QED
      BY <1>2, <2>1, <3>1, <3>2 DEF NotQueued
  <2>2. CASE f # g
    <3>1. verdict'[f] = IF f \in dismissed THEN "no" ELSE verdict[f]
      BY <1>2, <2>2 DEF Write
    <3>2. f \in dismissed => ~Promised(f)'
      BY <1>2, KeepShrinks
    <3>3. Promised(f)' => Promised(f)
      BY <1>2, KeepShrinks DEF Shrink, Promised
    <3>4. NotQueued(f)'
      BY <1>2, <3>1 DEF NotQueued, PromiseInv
    <3>5. f \notin dismissed => Same(f)
      BY <1>2, <3>1 DEF Same, Open, Target
    <3> QED
      BY <3>2, <3>3, <3>4, <3>5
  <2> QED
    BY <2>1, <2>2
<1>4. FacesStay /\ \A q \in Projects : Shrink(q)
  BY <1>2, <1>3, KeepShrinks DEF FacesStay
<1> QED
  BY <1>2, <1>4, RunsStay DEF runVars

LEMMA EditPromises ==
    ASSUME TypeInv, PromiseInv, NEW u \in Users, NEW g \in AllFaces, EditTxn(u, g)
    PROVE  PromiseInv'
<1> PICK f : f = of[u]
  OBVIOUS
<1>1. UNCHANGED <<removal, bootstrapped, runVars>>
  BY DEF EditTxn, runsKeep
<1>2. CASE ~(Live(f) /\ MayReview(u, f))
  BY <1>1, <1>2, HandlerReads DEF EditTxn, faceVars
<1>3. CASE Live(f) /\ MayReview(u, f)
  <2>1. PICK v, m :
           /\ verdict' = [verdict EXCEPT ![g] = v]
           /\ written' = [written EXCEPT ![g] = m]
    BY <1>3 DEF EditTxn
  <2>2. replaced' = replaced \union {f} /\ Keep({f}) /\ verdict[g] = "absent"
    BY <1>3 DEF EditTxn
  <2>3. ~Promised(g) /\ ~removal[g] /\ ~Promised(f)' /\ \A q \in Projects : Shrink(q)
    BY <2>2, KeepShrinks DEF PromiseInv, NotQueued, Target
  <2>4. ASSUME NEW h \in AllFaces
        PROVE  NotQueued(h)' /\ (Promised(h)' => Promised(h) /\ Same(h))
    <3>1. Promised(h)' => Promised(h)
      BY <2>3 DEF Promised, Shrink
    <3>2. CASE h = g
      BY <1>1, <2>3, <3>1, <3>2 DEF NotQueued
    <3>3. CASE h = f
      BY <1>1, <2>1, <2>2, <2>3, <3>3 DEF NotQueued, PromiseInv
    <3>4. CASE h # f /\ h # g
      BY <1>1, <2>1, <2>2, <3>1, <3>4 DEF NotQueued, Same, Open, Target, PromiseInv
    <3> QED
      BY <3>2, <3>3, <3>4
  <2> QED
    BY <1>1, <2>3, <2>4, RunsStay DEF FacesStay, runVars
<1> QED
  BY <1>2, <1>3

LEMMA RerunPromises ==
    ASSUME TypeInv, PromiseInv, NEW u \in Users, NEW p \in Projects, Rerun(u, p)
    PROVE  PromiseInv'
<1> DEFINE these == {f \in FacesOf(p) : Live(f) /\ by[f] = "model" /\ ~written[f]}
<1>1. /\ verdict' = Write(verdict, these, "open") /\ Keep(these)
      /\ UNCHANGED <<replaced, written, removal, bootstrapped, runVars>>
  BY DEF Rerun, runsKeep
<1> HIDE DEF these
<1>2. \A f \in AllFaces : NotQueued(f)' /\ (f \in these \/ Same(f))
  BY <1>1 DEF Write, NotQueued, Same, Open, Target, PromiseInv
<1> QED
  BY <1>1, <1>2, HandlerKeeps

LEMMA ReviewPromises ==
    ASSUME TypeInv, PromiseInv, NEW u \in Users, ReviewStep(u)
    PROVE  PromiseInv'
<1>1. ASSUME NEW f \in AllFaces, LoadFace(u, f) \/ EditLoad(u, f) PROVE PromiseInv'
  BY <1>1, HandlerReads DEF LoadFace, EditLoad, runsKeep
<1>2. CASE Check(u) \/ RejectDecide(u) \/ Remove(u) \/ Clear(u) \/ GiveUp(u)
  BY <1>2, HandlerReads DEF Check, RejectDecide, Remove, Clear, GiveUp, runsKeep
<1>3. CASE UndoRead(u) \/ UndoContext(u)
  BY <1>3, HandlerReads DEF UndoRead, UndoContext, runsKeep
<1> QED
  BY <1>1, <1>2, <1>3, EditPromises, ClassifyTargetPromises, DrawPromises,
     ClassifyNonePromises, RerunPromises, ApprovePromises, MarkPromises, RejectPromises,
     UndoPromises
  DEF ReviewStep

-----------------------------------------------------------------------------
(* Runs *)

(* Steps of a run that only add marks, and of the clock.                   *)
LEMMA RunLeaves ==
    ASSUME TypeInv, PromiseInv, UNCHANGED <<verdict, replaced, removal>>,
           \A f \in AllFaces : written[f] => written'[f],
           \A p \in Projects : bootstrapped[p] => bootstrapped'[p],
           \A p \in Projects : Shrink(p)
    PROVE  FacesStay
<1>1. ASSUME NEW f \in AllFaces PROVE NotQueued(f)' /\ Same(f)
  <2>1. ProjectOf[f] \in Projects
    BY NamesAssumption
  <2> QED
    BY <2>1 DEF NotQueued, Same, Open, Target, PromiseInv
<1> QED
  BY <1>1 DEF FacesStay, Promised, Shrink

(* A run that moves comes to its end only with nothing left to write, or   *)
(* with something to tell.                                                 *)
LEMMA RunArrives ==
    ASSUME TypeInv, PromiseInv, FacesStay, NEW p \in Projects,
           \A q \in Projects : Shrink(q),
           \A q \in Projects \ {p} :
              at'[q] = at[q] /\ stopping'[q] = stopping[q] /\ notice'[q] = notice[q]
              /\ late'[q] = late[q],
           at'[p] \in Ending /\ ~stopping'[p] /\ ~notice'[p] /\ ~late'[p] =>
              \/ at[p] \in Ending /\ ~stopping[p] /\ ~notice[p] /\ ~late[p]
              \/ Writable(p) = {}
    PROVE  PromiseInv'
<1>1. ASSUME NEW q \in Projects \ {p} PROVE Delivered(q)'
  BY <1>1, DeliveredStays DEF PromiseInv
<1>2. Delivered(p)'
  <2>1. CASE Writable(p) = {}
    <3> SUFFICES ASSUME NEW f \in promised'[p], ProjectOf[f] = p, Open(f)' PROVE FALSE
      BY DEF Delivered
    <3>1. f \in promised[p] /\ f \in AllFaces
      BY DEF Shrink, TypeInv, TypeOK
    <3>2. Open(f) /\ f \in Writable(p)
      BY <3>1, WritableIsOpen DEF FacesStay, Same, Promised
    <3> QED
      BY <2>1, <3>2
  <2>2. CASE Writable(p) # {}
    BY <2>2, DeliveredStays DEF PromiseInv
  <2> QED
    BY <2>1, <2>2
<1> QED
  BY <1>1, <1>2 DEF PromiseInv, FacesStay, Same

(* What the steps of a run do to its place and to what it will tell.       *)
LEMMA PlaceMoves ==
    ASSUME TypeInv, NEW p \in Projects, NEW place, Goto(p, place),
           UNCHANGED <<stopping, notice, late>>
    PROVE  /\ at'[p] = place
           /\ \A q \in Projects \ {p} :
                 at'[q] = at[q] /\ stopping'[q] = stopping[q] /\ notice'[q] = notice[q]
                 /\ late'[q] = late[q]
    BY DEF Goto, TypeInv, TypeOK

LEMMA LeaveEnds ==
    ASSUME TypeInv, NEW p \in Projects, Leave(p)
    PROVE  /\ at'[p] = "idle"
           /\ \A q \in Projects \ {p} :
                 at'[q] = at[q] /\ stopping'[q] = stopping[q] /\ notice'[q] = notice[q]
                 /\ late'[q] = late[q]
    BY DEF Leave, Goto, TypeInv, TypeOK

LEMMA RunGone ==
    ASSUME TypeInv, PromiseInv, NEW p \in Projects, Leave(p),
           UNCHANGED <<faceVars, bootstrapped>>, \A q \in Projects : Shrink(q)
    PROVE  PromiseInv'
<1>1. FacesStay
  BY RunLeaves DEF faceVars
<1> QED
  BY <1>1, LeaveEnds, RunArrives DEF Ending

LEMMA EndShrinks ==
    ASSUME TypeInv, NEW p \in Projects, NEW error, EndRequest(p, error)
    PROVE  \A q \in Projects : Shrink(q)
    BY DEF EndRequest, Shrink, TypeInv, TypeOK

LEMMA RequestPromises ==
    ASSUME TypeInv, PromiseInv, NEW p \in Projects,
           StartRun(p) \/ AbortRun(p) \/ Finish(p) \/ Crash(p)
    PROVE  PromiseInv'
<1>1. CASE StartRun(p)
  <2>1. /\ Goto(p, "select")
        /\ UNCHANGED <<faceVars, bootstrapped, promised, stopping, notice, late>>
    BY <1>1 DEF StartRun
  <2>2. FacesStay /\ \A q \in Projects : Shrink(q)
    BY <2>1, RunLeaves DEF faceVars, Shrink
  <2> QED
    BY <2>1, <2>2, PlaceMoves, RunArrives DEF Ending
<1>2. CASE AbortRun(p) \/ Finish(p)
  <2>1. PICK error : EndRequest(p, error)
    BY <1>2 DEF AbortRun, Finish
  <2>2. Leave(p) /\ UNCHANGED <<faceVars, bootstrapped>>
    BY <1>2 DEF AbortRun, Finish, EndRequest
  <2> QED
    BY <2>1, <2>2, EndShrinks, RunGone
<1>3. CASE Crash(p)
  <2>1. Leave(p) /\ UNCHANGED <<faceVars, bootstrapped, promised>>
    BY <1>3 DEF Crash
  <2> QED
    BY <2>1, RunGone DEF Shrink
<1> QED
  BY <1>1, <1>2, <1>3

LEMMA BatchPromises ==
    ASSUME TypeInv, PromiseInv, NEW p \in Projects,
           Select(p) \/ NextFace(p) \/ EndBatch(p)
    PROVE  PromiseInv'
<1>1. UNCHANGED <<faceVars, bootstrapped>>
  BY DEF Select, NextFace, EndBatch
<1>2. CASE Leave(p) /\ UNCHANGED promised
  BY <1>1, <1>2, RunGone DEF Shrink
<1>3. CASE EndRequest(p, TRUE)
  BY <1>1, <1>3, EndShrinks, RunGone DEF EndRequest
<1>4. CASE /\ Goto(p, "removing") /\ UNCHANGED <<promised, stopping, notice, late>>
           /\ stopping[p] \/ Writable(p) = {}
  <2>1. FacesStay /\ \A q \in Projects : Shrink(q)
    BY <1>1, <1>4, RunLeaves DEF faceVars, Shrink
  <2> QED
    BY <1>4, <2>1, PlaceMoves, RunArrives
<1>5. CASE /\ UNCHANGED <<promised, stopping, notice, late>>
           /\ \E place \in {"face", "reserve"} : Goto(p, place)
  <2>1. FacesStay /\ \A q \in Projects : Shrink(q)
    BY <1>1, <1>5, RunLeaves DEF faceVars, Shrink
  <2>2. PICK place \in {"face", "reserve"} : Goto(p, place)
    BY <1>5
  <2>3. place \notin Ending
    BY DEF Ending
  <2> QED
    BY <1>5, <2>1, <2>2, <2>3, PlaceMoves, RunArrives
<1>6. CASE UNCHANGED <<promised, stopping, notice, late, at>>
  <2>1. FacesStay /\ \A q \in Projects : Shrink(q)
    BY <1>1, <1>6, RunLeaves DEF faceVars, Shrink
  <2> QED
    BY <1>6, <2>1, RunsStay
<1>7. CASE EndBatch(p) /\ ~EndRequest(p, TRUE)
  <2> DEFINE givesUp == passes'[p] >= MaxPasses
  <2>1. /\ at' = [at EXCEPT ![p] = IF givesUp THEN "removing" ELSE "select"]
        /\ notice' = [notice EXCEPT ![p] = @ \/ givesUp]
        /\ UNCHANGED <<promised, stopping, late>>
    BY <1>7 DEF EndBatch, Goto
  <2> HIDE DEF givesUp
  <2>2. (at'[p] = "removing" /\ notice'[p]) \/ at'[p] = "select"
    BY <2>1 DEF TypeInv, TypeOK
  <2>3. \A q \in Projects \ {p} :
           at'[q] = at[q] /\ stopping'[q] = stopping[q] /\ notice'[q] = notice[q]
              /\ late'[q] = late[q]
    BY <2>1 DEF TypeInv, TypeOK
  <2>4. FacesStay /\ \A q \in Projects : Shrink(q)
    BY <1>1, <2>1, RunLeaves DEF faceVars, Shrink
  <2> QED
    BY <2>2, <2>3, <2>4, RunArrives DEF Ending
<1>8. CASE Select(p)
  BY <1>2, <1>4, <1>5, <1>8 DEF Select
<1>9. CASE NextFace(p)
  BY <1>2, <1>5, <1>6, <1>9 DEF NextFace
<1> QED
  BY <1>3, <1>7, <1>8, <1>9

(* The steps of one face add marks and never come to the end of a run.     *)
LEMMA FacePromises ==
    ASSUME TypeInv, PromiseInv, NEW p \in Projects,
           Reserve(p) \/ Lookup(p) \/ Adopt(p) \/ Recheck(p) \/ Edit(p)
    PROVE  PromiseInv'
<1>1. UNCHANGED <<verdict, replaced, removal, promised, stopping, notice, late>>
  BY DEF Reserve, Lookup, Adopt, Recheck, Edit, stepKeeps, faceVars, faceDone, Outcome,
     TokenRefused, PageGone
<1>2. PICK place \in {"lookup", "adopt", "recheck", "edit", "record", "face"} : Goto(p, place)
  <2>1. CASE Reserve(p)
    BY <2>1 DEF Reserve, Outcome
  <2>2. CASE Lookup(p)
    BY <2>2 DEF Lookup, Outcome, TokenRefused, PageGone
  <2>3. CASE Adopt(p) \/ Recheck(p)
    BY <2>3 DEF Adopt, Recheck, Outcome
  <2>4. CASE Edit(p)
    <3>1. at' = at /\ at[p] = "edit" => Goto(p, "edit")
      BY DEF Goto, TypeInv, TypeOK
    <3> QED
      BY <2>4, <3>1 DEF Edit, Outcome, TokenRefused, PageGone
  <2> QED
    BY <2>1, <2>2, <2>3, <2>4
<1>3. \A f \in AllFaces : written[f] => written'[f]
  <2>1. written \in [AllFaces -> BOOLEAN]
    BY DEF TypeInv, TypeOK
  <2>2. CASE Reserve(p) \/ Lookup(p) \/ Edit(p)
    BY <2>1, <2>2 DEF Reserve, Lookup, Edit, MarkWritten, TokenRefused, PageGone
  <2>3. CASE Adopt(p) \/ Recheck(p)
    BY <2>1, <2>3 DEF Adopt, Recheck, faceVars
  <2> QED
    BY <2>2, <2>3
<1>4. \A q \in Projects : bootstrapped[q] => bootstrapped'[q]
  BY DEF Reserve, Lookup, Adopt, Recheck, Edit, stepKeeps, TypeInv, TypeOK
<1>5. FacesStay /\ \A q \in Projects : Shrink(q)
  BY <1>1, <1>3, <1>4, RunLeaves DEF Shrink
<1>6. place \notin Ending
  BY DEF Ending
<1> QED
  BY <1>1, <1>2, <1>5, <1>6, PlaceMoves, RunArrives

LEMMA RecordPromises ==
    ASSUME TypeInv, PromiseInv, NEW p \in Projects, Record(p)
    PROVE  PromiseInv'
<1>1. /\ UNCHANGED <<verdict, replaced, bootstrapped, promised, stopping, notice, late>>
      /\ Goto(p, "face") /\ RecordFace(face[p])
  BY DEF Record, Outcome, stepKeeps
<1>2. written \in [AllFaces -> BOOLEAN] /\ removal \in [AllFaces -> BOOLEAN]
  BY DEF TypeInv, TypeOK
<1>3. ASSUME NEW f \in AllFaces
      PROVE  /\ written[f] => written'[f]
             /\ removal'[f] => removal[f] \/ (Live(f) /\ verdict[f] # "yes")
  BY <1>1, <1>2 DEF RecordFace
<1>4. ASSUME NEW f \in AllFaces PROVE NotQueued(f)' /\ Same(f)
  BY <1>1, <1>3 DEF NotQueued, Same, Open, Target, Live, Exists, PromiseInv
<1>5. FacesStay /\ \A q \in Projects : Shrink(q)
  BY <1>1, <1>4 DEF FacesStay, Shrink, Promised
<1> QED
  BY <1>1, <1>5, PlaceMoves, RunArrives DEF Ending

(* A removal is due for faces that are no targets, so that the marks it    *)
(* takes off are of no promised face.                                      *)
LEMMA SettlePromises ==
    ASSUME TypeInv, PromiseInv, NEW p \in Projects, Settle(p)
    PROVE  PromiseInv'
<1> DEFINE settled == {f \in FacesOf(p) : removal[f]}
<1>1. /\ UNCHANGED <<verdict, replaced, bootstrapped, promised, stopping, notice, late>>
      /\ Goto(p, "clearRow") /\ at[p] = "settle"
      /\ removal' = Write(removal, settled, FALSE)
      /\ written' = Write(written, settled, FALSE)
  BY DEF Settle, stepKeeps, faceDone
<1>2. \A f \in settled : removal[f]
  OBVIOUS
<1> HIDE DEF settled
<1>3. ASSUME NEW f \in AllFaces
      PROVE  NotQueued(f)' /\ (Promised(f)' => Promised(f) /\ Same(f))
  <2>1. Promised(f)' = Promised(f)
    BY <1>1 DEF Promised
  <2>2. NotQueued(f)'
    BY <1>1 DEF Write, NotQueued, PromiseInv
  <2>3. Promised(f) => f \notin settled
    BY <1>2 DEF PromiseInv, NotQueued, Target
  <2>4. f \notin settled => Same(f)
    BY <1>1 DEF Write, Same, Open, Target
  <2> QED
    BY <2>1, <2>2, <2>3, <2>4
<1>4. FacesStay /\ \A q \in Projects : Shrink(q)
  BY <1>1, <1>3 DEF FacesStay, Shrink
<1> QED
  BY <1>1, <1>4, PlaceMoves, RunArrives DEF Ending

LEMMA RemovalPromises ==
    ASSUME TypeInv, PromiseInv, NEW p \in Projects,
           Removing(p) \/ RemovalLookup(p) \/ RemovalSend(p) \/ ClearRow(p)
    PROVE  PromiseInv'
<1>1. UNCHANGED <<faceVars, bootstrapped, promised, stopping, notice, late>>
  BY DEF Removing, RemovalLookup, RemovalSend, ClearRow, faceDone, stepKeeps
<1>2. at[p] \in Ending /\ \E place : Goto(p, place)
  BY DEF Removing, RemovalLookup, RemovalSend, ClearRow, Ending
<1>3. FacesStay /\ \A q \in Projects : Shrink(q)
  BY <1>1, RunLeaves DEF faceVars, Shrink
<1> QED
  BY <1>1, <1>2, <1>3, PlaceMoves, RunArrives

-----------------------------------------------------------------------------
(* Requests, shutdowns, the model and the clock                            *)

(* What a request promises are targets; for a run at its end it is late.   *)
LEMMA SendPromises ==
    ASSUME TypeInv, PromiseInv, NEW p \in Projects, Send(p)
    PROVE  PromiseInv'
<1>1. /\ UNCHANGED <<faceVars, bootstrapped, at, stopping, notice>>
      /\ promised' = [promised EXCEPT ![p] = Writable(p)]
      /\ late' = [late EXCEPT ![p] = at[p] \in Ending]
  BY DEF Send
<1>2. \A q \in Projects \ {p} : promised'[q] = promised[q] /\ late'[q] = late[q]
  BY <1>1 DEF TypeInv, TypeOK
<1>3. promised'[p] = Writable(p) /\ (at[p] \in Ending => late'[p])
  BY <1>1 DEF TypeInv, TypeOK
<1>4. ASSUME NEW f \in AllFaces PROVE NotQueued(f)' /\ (Promised(f)' => Target(f)')
  <2>1. NotQueued(f)' /\ (Target(f)' <=> Target(f))
    BY <1>1 DEF PromiseInv, NotQueued, Target, faceVars
  <2>2. Promised(f)' => Promised(f) \/ f \in Writable(p)
    BY <1>2, <1>3 DEF Promised
  <2> QED
    BY <2>1, <2>2 DEF PromiseInv, Writable
<1>5. ASSUME NEW q \in Projects PROVE Delivered(q)'
  <2>1. CASE q = p
    BY <1>1, <1>3, <2>1 DEF Delivered
  <2>2. CASE q # p
    BY <1>1, <1>2, <2>2 DEF PromiseInv, Delivered, Open, Target, faceVars
  <2> QED
    BY <2>1, <2>2
<1> QED
  BY <1>4, <1>5 DEF PromiseInv

LEMMA OtherPromises ==
    ASSUME TypeInv, PromiseInv, NEW p \in Projects, Shutdown(p) \/ StopEdits(p)
    PROVE  PromiseInv'
<1>1. UNCHANGED <<faceVars, bootstrapped>> /\ \A q \in Projects : Shrink(q)
  BY DEF Shutdown, StopEdits, Shrink, TypeInv, TypeOK
<1>2. FacesStay
  BY <1>1, RunLeaves DEF faceVars
<1>3. CASE StopEdits(p)
  BY <1>1, <1>2, <1>3, RunsStay DEF StopEdits, runVars
<1>4. CASE Shutdown(p)
  <2>1. /\ UNCHANGED <<at, notice, late>> /\ stopping'[p]
        /\ \A q \in Projects \ {p} : stopping'[q] = stopping[q]
    BY <1>4 DEF Shutdown, TypeInv, TypeOK
  <2> QED
    BY <1>1, <1>2, <2>1, RunArrives
<1> QED
  BY <1>3, <1>4

(* The model sets no target that is not open, and none of those is promised. *)
LEMMA InferPromises ==
    ASSUME TypeInv, PromiseInv, NEW f \in AllFaces, Infer(f)
    PROVE  PromiseInv'
<1>1. /\ UNCHANGED <<replaced, written, removal, bootstrapped, promised, runVars>>
      /\ verdict[f] = "open" /\ ~removal[f]
      /\ \A g \in AllFaces \ {f} : verdict'[g] = verdict[g]
  BY DEF Infer, stepKeeps, TypeInv, TypeOK
<1>2. ~Promised(f) /\ \A g \in AllFaces : Promised(g)' = Promised(g)
  BY <1>1 DEF PromiseInv, Target, Promised
<1>3. ASSUME NEW g \in AllFaces
      PROVE  NotQueued(g)' /\ (Promised(g)' => Promised(g) /\ Same(g))
  <2>1. CASE g = f
    BY <1>1, <1>2, <2>1 DEF NotQueued
  <2>2. CASE g # f
    BY <1>1, <1>2, <2>2 DEF NotQueued, Same, Open, Target, PromiseInv
  <2> QED
    BY <2>1, <2>2
<1>4. FacesStay /\ \A q \in Projects : Shrink(q)
  BY <1>1, <1>3 DEF FacesStay, Shrink
<1> QED
  BY <1>1, <1>4, RunsStay DEF runVars

LEMMA StepPromises == TypeInv /\ PromiseInv /\ [Next]_vars => PromiseInv'
<1> SUFFICES ASSUME TypeInv, PromiseInv, [Next]_vars PROVE PromiseInv'
  OBVIOUS
<1>1. ASSUME NEW p \in Projects, RunStep(p) PROVE PromiseInv'
  BY <1>1, RequestPromises, BatchPromises, FacePromises, RecordPromises, RemovalPromises,
     SettlePromises
  DEF RunStep
<1>2. ASSUME NEW p \in Projects, Shutdown(p) \/ Crash(p) \/ Send(p) \/ StopEdits(p)
      PROVE  PromiseInv'
  BY <1>2, OtherPromises, RequestPromises, SendPromises
<1>3. CASE RowAges \/ UNCHANGED vars
  BY <1>3, HandlerReads DEF RowAges, stepKeeps, vars
<1> QED
  BY <1>1, <1>2, <1>3, ReviewPromises, InferPromises DEF Next

(* Only the last step of a run clears a request so, and it says when the   *)
(* run gave up or a shutdown left something to write.                      *)
LEMMA RequestsEnd ==
    ASSUME TypeInv, NEW p \in Projects, NEW q \in Projects, RunStep(q),
           at[p] = "finish", requested[p], ~requested'[p], ~told'[p]
    PROVE  Finish(p)
<1>1. requested \in [Projects -> BOOLEAN] /\ told \in [Projects -> BOOLEAN]
  BY DEF TypeInv, TypeOK
<1>2. ~UNCHANGED requested
  OBVIOUS
<1>3. \E error : EndRequest(q, error)
  <2>1. ~(StartRun(q) \/ Select(q) \/ NextFace(q) \/ Removing(q))
    BY <1>2 DEF StartRun, Select, NextFace, Removing, stepKeeps
  <2>2. ~(Reserve(q) \/ Lookup(q) \/ Adopt(q) \/ Recheck(q) \/ Edit(q) \/ Record(q))
    BY <1>2 DEF Reserve, Lookup, Adopt, Recheck, Edit, Record, stepKeeps
  <2>3. ~(RemovalLookup(q) \/ RemovalSend(q) \/ Settle(q) \/ ClearRow(q))
    BY <1>2 DEF RemovalLookup, RemovalSend, Settle, ClearRow, stepKeeps
  <2> QED
    BY <1>2, <2>1, <2>2, <2>3 DEF RunStep, AbortRun, EndBatch, Finish
<1>4. q = p
  BY <1>1, <1>3 DEF EndRequest
<1>5. ~AbortRun(p)
  BY <1>1 DEF AbortRun, EndRequest
<1> QED
  BY <1>4, <1>5
  DEF RunStep, StartRun, Select, NextFace, EndBatch, Reserve, Lookup, Adopt, Recheck,
      Edit, Record, Removing, RemovalLookup, RemovalSend, Settle, ClearRow

LEMMA FinishDelivers ==
    ASSUME TypeInv, PromiseInv, [Next]_vars, NEW p \in Projects,
           at[p] = "finish", requested[p], ~requested'[p], ~told'[p], at'[p] = "idle",
           ~late[p]
    PROVE  promised[p] \intersect Writable(p) = {}
<1>1. requested \in [Projects -> BOOLEAN] /\ told \in [Projects -> BOOLEAN]
  BY DEF TypeInv, TypeOK
<1>2. Finish(p)
  <2>1. ASSUME NEW q \in Projects, RunStep(q) PROVE Finish(p)
    BY <2>1, RequestsEnd
  <2>2. ASSUME NEW q \in Projects, Shutdown(q) \/ Crash(q) PROVE FALSE
    BY <2>2 DEF Shutdown, Crash
  <2>3. ASSUME NEW q \in Projects, Send(q) \/ StopEdits(q) PROVE FALSE
    BY <2>3 DEF Send, StopEdits, runVars
  <2>4. ASSUME NEW u \in Users, ReviewStep(u) PROVE FALSE
    <3>1. UNCHANGED requested
      BY <2>4 DEF ReviewStep, runsKeep, LoadFace, EditLoad, EditTxn, ClassifyTarget, Draw,
         ClassifyNone, Rerun, Approve, Check, Mark, RejectDecide, RejectTxn, Remove, Clear,
         UndoRead, UndoContext, UndoTxn, GiveUp
    <3> QED
      BY <3>1
  <2>5. ASSUME NEW f \in AllFaces, Infer(f) PROVE FALSE
    BY <2>5 DEF Infer, stepKeeps
  <2>6. ~(RowAges \/ UNCHANGED vars)
    BY DEF RowAges, stepKeeps, vars
  <2> QED
    BY <2>1, <2>2, <2>3, <2>4, <2>5, <2>6 DEF Next
<1>3. ~MustTell(p)
  BY <1>1, <1>2 DEF Finish, EndRequest
<1>4. CASE stopping[p]
  BY <1>3, <1>4 DEF MustTell
<1>5. CASE ~stopping[p]
  <2>1. \A f \in promised[p] : ProjectOf[f] = p => ~Open(f)
    BY <1>3, <1>5 DEF MustTell, PromiseInv, Delivered, Ending
  <2> QED
    BY <2>1, WritableIsOpen
<1> QED
  BY <1>4, <1>5

(* For every set of projects, faces and reviewers, through all failures,   *)
(* shutdowns, crashes, Stops and reviews: a request that ends without an   *)
(* error message has written every face that was approved when it was      *)
(* made, be it that no run was active then or one that was still writing   *)
(* (worker._SdcRun.finish).  Not so a request made after a Stop that finds *)
(* the stopped run past its write phase.                                   *)
THEOREM PromisesKept == Spec => PromisesAreKept
<1> DEFINE Kept(p) ==
        at[p] = "finish" /\ requested[p] /\ ~requested'[p] /\ ~told'[p] /\ at'[p] = "idle"
        /\ ~late[p]
        => promised[p] \intersect Writable(p) = {}
<1>1. Init => PromiseInv
  BY InitPromises
<1>2. TypeInv /\ PromiseInv /\ [Next]_vars => PromiseInv'
  BY StepPromises
<1>3. TypeInv /\ PromiseInv /\ [Next]_vars => [\A p \in Projects : Kept(p)]_vars
  BY FinishDelivers
<1>4. Spec => [][\A p \in Projects : Kept(p)]_vars
  BY <1>1, <1>2, <1>3, TypesKept, PTL DEF Spec
<1> QED
  BY <1>4 DEF PromisesAreKept
=============================================================================
