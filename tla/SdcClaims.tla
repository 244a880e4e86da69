------------------------------- MODULE SdcClaims -------------------------------
(***************************************************************************)
(* The "depicts" (P180) statement of one item on one Commons page: the     *)
(* worker's write runs (worker.py, _SdcRun), the page's deduplication row  *)
(* (sdc_claims), and the review handlers of the web app that change the    *)
(* very faces a run is writing, and sometimes Commons itself.              *)
(*                                                                         *)
(* Every project has the page as one of its images.  A run has one page to *)
(* do here; what it does on others shows in where it notices Stop.  At     *)
(* most one run per project (see ProjectClaims for when that fails).       *)
(***************************************************************************)
EXTENDS Naturals, FiniteSets

CONSTANTS
    Projects,
    Faces,         \* faces the detector found on the page, per project image
    Spare,         \* rows that drawn or re-drawn boxes may still become
    ProjectOf,     \* the project of a face
    Users,
    NoFace, NoRow,
    Handlers,      \* which review handlers the users call
    Fails,         \* requests to Commons and single statements may fail
    MaxPasses,     \* _SDC_BLOCKED_MAX_PASSES
    MaxReviews,    \* bound: review handlers called
    MaxRequests,   \* bound: "send edits" requests
    MaxStops       \* bound: shutdowns and crashes of workers

AllFaces == Faces \union Spare
AllHandlers == {"reclassify", "classify", "undo", "draw", "edit", "rerun", "stop"}

ASSUME NamesAssumption ==
    /\ NoFace \notin AllFaces
    /\ ProjectOf \in [AllFaces -> Projects]
    /\ Faces \intersect Spare = {}
    /\ {"nobody", "model"} \intersect Users = {}
ASSUME BoundsAssumption ==
    /\ MaxPasses \in Nat \ {0} /\ MaxReviews \in Nat
    /\ MaxRequests \in Nat /\ MaxStops \in Nat
ASSUME SwitchesAssumption == Handlers \subseteq AllHandlers /\ Fails \in BOOLEAN

Rows == [project : Projects, face : AllFaces, done : BOOLEAN, old : BOOLEAN]
ASSUME NoRowAssumption == NoRow \notin Rows

VARIABLES
    \* the faces and images tables
    verdict,       \* faces.is_target; "absent": no row yet, "deleted": no more
    replaced,      \* faces whose superseded_by is set
    by,            \* faces.classified_by / classified_by_user_id
    written,       \* faces.sdc_written
    removal,       \* faces.sdc_removal_pending
    bootstrapped,  \* images.bootstrapped of a project's image of the page
    \* projects
    requested,     \* sdc_write_requested
    told,          \* sdc_write_error is set
    \* the deduplication row and Commons
    row,           \* sdc_claims: project, face, written_at set, claimed_at stale
    claims,        \* number of P180 statements with the item on the page
    ours,          \* one of them was added by a run
    \* a run of each project
    at, face, batch, outcomes, passes, notice, stopping,
    late,          \* history: the request came when the run had written already
    \* the request a user's handler is in, and the session
    doing, of, saw, last, drawn,
    \* history
    promised,      \* approved faces the request was made for
    accidents,     \* what happened that the properties except
    nReviews, nRequests, nStops

faceVars == <<verdict, replaced, by, written, removal>>
pageVars == <<row, claims, ours>>
runVars == <<at, face, batch, outcomes, passes, notice, stopping, late>>
userVars == <<doing, of, saw, last, drawn>>
counts == <<nReviews, nRequests, nStops>>
vars == <<faceVars, bootstrapped, requested, told, pageVars, runVars, userVars,
          promised, accidents, counts>>

Places == {"idle", "select", "face", "reserve", "lookup", "adopt", "recheck",
           "edit", "record", "removing", "rmLookup", "rmSend", "settle", "clearRow",
           "finish"}
Accidents == {"row lost", "reply lost", "reverted"}
Verdicts == {"absent", "open", "yes", "no", "deleted"}
Phases == {"idle", "approve", "check", "mark", "reject", "rejectTxn", "undo",
           "undoTxn", "remove", "clear", "edit"}
NoLast == [action |-> "nothing", faces |-> {}, drawn |-> {}, review |-> FALSE]
Lasts == [action : {"nothing", "none", "target", "drawn"}, faces : SUBSET AllFaces,
          drawn : SUBSET AllFaces, review : BOOLEAN]
NothingSeen == [yes |-> {}, no |-> {}, written |-> {}, removal |-> {}, boot |-> FALSE,
                sibling |-> FALSE, flight |-> FALSE, removed |-> FALSE]
Sights == [yes : SUBSET AllFaces, no : SUBSET AllFaces,
           written : SUBSET AllFaces, removal : SUBSET AllFaces,
           boot : BOOLEAN, sibling : BOOLEAN, flight : BOOLEAN, removed : BOOLEAN]

(* Every variable has its type: no count of statements below zero, no      *)
(* place, verdict or phase outside those the code has.                     *)
TypeOK ==
    /\ verdict \in [AllFaces -> Verdicts]
    /\ replaced \in SUBSET AllFaces
    /\ by \in [AllFaces -> {"nobody", "model"} \union Users]
    /\ written \in [AllFaces -> BOOLEAN]
    /\ removal \in [AllFaces -> BOOLEAN]
    /\ bootstrapped \in [Projects -> BOOLEAN]
    /\ requested \in [Projects -> BOOLEAN]
    /\ told \in [Projects -> BOOLEAN]
    /\ row \in Rows \union {NoRow}
    /\ claims \in Nat /\ ours \in BOOLEAN
    /\ at \in [Projects -> Places]
    /\ face \in [Projects -> AllFaces \union {NoFace}]
    /\ batch \in [Projects -> SUBSET AllFaces]
    /\ outcomes \in [Projects -> SUBSET {"other", "blocked", "unverified"}]
    /\ passes \in [Projects -> Nat]
    /\ notice \in [Projects -> BOOLEAN]
    /\ stopping \in [Projects -> BOOLEAN]
    /\ late \in [Projects -> BOOLEAN]
    /\ doing \in [Users -> Phases]
    /\ of \in [Users -> AllFaces \union {NoFace}]
    /\ saw \in [Users -> Sights]
    /\ last \in [Users -> Lasts]
    /\ drawn \in [Users -> SUBSET AllFaces]
    /\ promised \in [Projects -> SUBSET AllFaces]
    /\ accidents \subseteq Accidents
    /\ nReviews \in Nat /\ nRequests \in Nat /\ nStops \in Nat

-----------------------------------------------------------------------------
FacesOf(p) == {f \in AllFaces : ProjectOf[f] = p}
Exists(f) == verdict[f] \in {"open", "yes", "no"}
Live(f) == Exists(f) /\ f \notin replaced
Target(f) == verdict[f] = "yes" /\ f \notin replaced      \* _face_state
OtherTarget(p, these) == \E g \in FacesOf(p) \ these : Target(g)

(* _SDC_FACES_TO_WRITE_SQL and _SDC_PAGES_TO_REMOVE_SQL *)
Writable(p) ==
    {f \in FacesOf(p) : Target(f) /\ ~written[f] /\ ~bootstrapped[p]}
RemovalDue(p) ==
    \E f \in FacesOf(p) : Live(f) /\ removal[f] /\ ~OtherTarget(p, {f})

Write(column, these, value) ==
    [f \in AllFaces |-> IF f \in these THEN value ELSE column[f]]
Keep(these) == promised' = [p \in Projects |-> promised[p] \ these]

(* A run is between reserving the page and recording what it wrote. *)
Holding == {"lookup", "adopt", "recheck", "edit", "record"}
RowInUse == row # NoRow /\ at[row.project] \in Holding
Note(condition, accident) ==
    accidents' = accidents \union (IF condition THEN {accident} ELSE {})

Init ==
    /\ verdict = [f \in AllFaces |-> IF f \in Faces THEN "open" ELSE "absent"]
    /\ replaced = {}
    /\ by = [f \in AllFaces |-> "nobody"]
    /\ written = [f \in AllFaces |-> FALSE]
    /\ removal = [f \in AllFaces |-> FALSE]
    /\ bootstrapped = [p \in Projects |-> FALSE]
    /\ requested = [p \in Projects |-> FALSE]
    /\ told = [p \in Projects |-> FALSE]
    /\ row = NoRow /\ claims \in {0, 1} /\ ours = FALSE
    /\ at = [p \in Projects |-> "idle"]
    /\ face = [p \in Projects |-> NoFace]
    /\ batch = [p \in Projects |-> {}]
    /\ outcomes = [p \in Projects |-> {}]
    /\ passes = [p \in Projects |-> 0]
    /\ notice = [p \in Projects |-> FALSE]
    /\ stopping = [p \in Projects |-> FALSE]
    /\ late = [p \in Projects |-> FALSE]
    /\ doing = [u \in Users |-> "idle"]
    /\ of = [u \in Users |-> NoFace]
    /\ saw = [u \in Users |-> NothingSeen]
    /\ last = [u \in Users |-> NoLast]
    /\ drawn = [u \in Users |-> {}]
    /\ promised = [p \in Projects |-> {}]
    /\ accidents = {}
    /\ nReviews = 0 /\ nRequests = 0 /\ nStops = 0

-----------------------------------------------------------------------------
(* Write phase *)

othersKeep == <<userVars, nReviews, nRequests>>
Goto(p, place) == at' = [at EXCEPT ![p] = place]

(* The run is over, by its end or by its process's. *)
Leave(p) ==
    /\ Goto(p, "idle")
    /\ face' = [face EXCEPT ![p] = NoFace]
    /\ batch' = [batch EXCEPT ![p] = {}]
    /\ outcomes' = [outcomes EXCEPT ![p] = {}]
    /\ passes' = [passes EXCEPT ![p] = 0]
    /\ notice' = [notice EXCEPT ![p] = FALSE]
    /\ stopping' = [stopping EXCEPT ![p] = FALSE]
    /\ late' = [late EXCEPT ![p] = FALSE]

EndRequest(p, error) ==
    /\ requested' = [requested EXCEPT ![p] = FALSE]
    /\ told' = [told EXCEPT ![p] = error]
    /\ promised' = [promised EXCEPT ![p] = {}]
    /\ Leave(p)

(* _SdcRun.begin; without credentials the run aborts (AbortRun). *)
StartRun(p) ==
    /\ at[p] = "idle" /\ requested[p]
    /\ Goto(p, "select")
    /\ UNCHANGED <<faceVars, bootstrapped, requested, told, pageVars, face, batch,
                   outcomes, passes, notice, stopping, late, promised, accidents,
                   nStops, othersKeep>>

(* Every failure the run does not get over is recorded on the project: an  *)
(* error reply, an exception, or a shutdown noticed by _api_request.       *)
AbortRun(p) ==
    /\ at[p] # "idle"
    /\ Fails \/ (stopping[p] /\ at[p] \in {"lookup", "edit", "rmLookup", "rmSend"})
    /\ EndRequest(p, TRUE)
    /\ UNCHANGED <<faceVars, bootstrapped, pageVars, accidents, nStops, othersKeep>>

(* Top of the loop: stop, cancel (a failed check does not), next batch. *)
Select(p) ==
    /\ at[p] = "select"
    /\ \/ /\ ~stopping[p] /\ ~requested[p] /\ Leave(p)
       \/ /\ stopping[p] \/ (Writable(p) = {} /\ (requested[p] \/ Fails))
          /\ Goto(p, "removing")
          /\ UNCHANGED <<face, batch, outcomes, passes, notice, stopping, late>>
       \/ /\ ~stopping[p] /\ Writable(p) # {} /\ (requested[p] \/ Fails)
          /\ batch' = [batch EXCEPT ![p] = Writable(p)]
          /\ Goto(p, "face")
          /\ UNCHANGED <<face, outcomes, passes, notice, stopping, late>>
    /\ UNCHANGED <<faceVars, bootstrapped, requested, told, pageVars, promised,
                   accidents, nStops, othersKeep>>

Outcome(p, outcome) ==
    /\ Goto(p, "face")
    /\ face' = [face EXCEPT ![p] = NoFace]
    /\ outcomes' = [outcomes EXCEPT ![p] = @ \union {outcome}]
    /\ UNCHANGED <<batch, passes, notice, stopping, late>>

(* The next face is read again first; every few faces, Stop is noticed. *)
NextFace(p) ==
    /\ at[p] = "face" /\ ~stopping[p] /\ batch[p] # {}
    /\ \/ ~requested[p] /\ Leave(p)
       \/ \E f \in batch[p] :
            /\ batch' = [batch EXCEPT ![p] = @ \ {f}]
            /\ \/ /\ Target(f)
                  /\ face' = [face EXCEPT ![p] = f]
                  /\ Goto(p, "reserve")
                  /\ UNCHANGED outcomes
               \/ /\ ~Target(f)
                  /\ outcomes' = [outcomes EXCEPT ![p] = @ \union {"other"}]
                  /\ UNCHANGED <<at, face>>
               \/ /\ Fails
                  /\ outcomes' = [outcomes EXCEPT ![p] = @ \union {"unverified"}]
                  /\ UNCHANGED <<at, face>>
            /\ UNCHANGED <<passes, notice, stopping, late>>
    /\ UNCHANGED <<faceVars, bootstrapped, requested, told, pageVars, promised,
                   accidents, nStops, othersKeep>>

(* End of _write_batch and what write_phase makes of it. *)
AllWere(p, outcome) == batch[p] = {} /\ outcomes[p] = {outcome}
EndBatch(p) ==
    /\ at[p] = "face" /\ (stopping[p] \/ batch[p] = {})
    /\ \/ AllWere(p, "unverified") /\ EndRequest(p, TRUE)
       \/ /\ ~AllWere(p, "unverified")
          /\ passes' = [passes EXCEPT ![p] = IF AllWere(p, "blocked") THEN @ + 1 ELSE 0]
          /\ LET givesUp == passes'[p] >= MaxPasses
             IN  /\ notice' = [notice EXCEPT ![p] = @ \/ givesUp]
                 /\ Goto(p, IF givesUp THEN "removing" ELSE "select")
          /\ batch' = [batch EXCEPT ![p] = {}]
          /\ outcomes' = [outcomes EXCEPT ![p] = {}]
          /\ UNCHANGED <<face, stopping, late, requested, told, promised>>
    /\ UNCHANGED <<faceVars, bootstrapped, pageVars, accidents, nStops, othersKeep>>

-----------------------------------------------------------------------------
(* One face, once its state is read *)

stepKeeps == <<bootstrapped, requested, told, promised, nStops, othersKeep>>
faceDone == <<face, batch, outcomes, passes, notice, stopping, late>>
MarksNothing(f) == UNCHANGED written                               \* mutant
MarkWritten(f) == written' = [written EXCEPT ![f] = @ \/ Exists(f)]

(* _reserve_claim: INSERT IGNORE, else the row that is there decides.  Its *)
(* statements are one step: any other order of them with the steps of      *)
(* others ends like some order of whole steps, or skips the face once more.*)
NeverFresh == TRUE                                                 \* mutant
Stale == row.old
NewRow(p) == [project |-> p, face |-> face[p], done |-> FALSE, old |-> FALSE]
Reserve(p) ==
    /\ at[p] = "reserve"
    /\ \/ /\ row = NoRow
          /\ row' = NewRow(p)
          /\ Goto(p, "lookup")
          /\ UNCHANGED <<written, accidents, faceDone>>
       \/ /\ row # NoRow /\ row.done                \* already written
          /\ MarkWritten(face[p])
          /\ Outcome(p, "other")
          /\ UNCHANGED <<row, accidents>>
       \/ /\ row # NoRow /\ ~row.done /\ row.project = p     \* our own, retried
          /\ Goto(p, "lookup")
          /\ UNCHANGED <<row, written, accidents, faceDone>>
       \/ /\ row # NoRow /\ ~row.done /\ row.project # p /\ Stale
          /\ Note(RowInUse /\ row.old, "row lost")
          /\ row' = NewRow(p)
          /\ Goto(p, "lookup")
          /\ UNCHANGED <<written, faceDone>>
       \/ /\ row # NoRow /\ ~row.done /\ row.project # p /\ ~Stale
          /\ Outcome(p, "blocked")
          /\ UNCHANGED <<row, written, accidents>>
    /\ UNCHANGED <<verdict, replaced, by, removal, claims, ours, stepKeeps>>

(* An authentication error: the token is refreshed, the face stays pending *)
(* (the bound on such retries ends in AbortRun).  A page that is gone from *)
(* Commons ends the face for good.                                         *)
TokenRefused(p) ==
    /\ Fails /\ Outcome(p, "other") /\ UNCHANGED <<written, row>>
PageGone(p, newRow) ==
    /\ Fails /\ claims = 0
    /\ MarkWritten(face[p])
    /\ Outcome(p, "other")
    /\ row' = newRow
RowWithout(f) == IF row # NoRow /\ row.face = f THEN NoRow ELSE row

(* _find_p180_claim *)
FindsNothing == FALSE                                              \* mutant
Found == claims > 0

Lookup(p) ==
    /\ at[p] = "lookup"
    /\ \/ /\ Goto(p, IF Found THEN "adopt" ELSE "recheck")
          /\ UNCHANGED <<written, row, faceDone>>
       \/ TokenRefused(p)
       \/ PageGone(p, RowWithout(face[p]))
    /\ UNCHANGED <<verdict, replaced, by, removal, claims, ours, accidents, stepKeeps>>

RowDone == IF row = NoRow THEN NoRow ELSE [row EXCEPT !.done = TRUE]

(* _adopt_existing_claim: the statement was there before. *)
Adopt(p) ==
    /\ at[p] = "adopt"
    /\ written' = [written EXCEPT ![face[p]] = @ \/ verdict[face[p]] = "yes"]
    /\ row' = RowDone
    /\ bootstrapped' = [bootstrapped EXCEPT ![p] = TRUE]
    /\ Outcome(p, "other")
    /\ UNCHANGED <<verdict, replaced, by, removal, claims, ours, accidents, requested, told,
                   promised, nStops, othersKeep>>

(* The face again, right before the edit. *)
Recheck(p) ==
    /\ at[p] = "recheck"
    /\ \/ /\ Target(face[p])
          /\ Goto(p, "edit")
          /\ UNCHANGED <<row, faceDone>>
       \/ /\ ~Target(face[p])
          /\ row' = IF row # NoRow /\ row.done THEN row ELSE RowWithout(face[p])
          /\ Outcome(p, "other")
       \/ Fails /\ Outcome(p, "unverified") /\ UNCHANGED row
    /\ UNCHANGED <<faceVars, claims, ours, accidents, stepKeeps>>

(* wbeditentity adds a statement each time it is applied, and _api_request *)
(* sends it again when the reply got lost (bound: once).                   *)
Edit(p) ==
    /\ at[p] = "edit"
    /\ \/ /\ claims' = claims + 1 /\ ours' = TRUE
          /\ \/ Goto(p, "record") /\ UNCHANGED accidents
             \/ /\ Fails /\ "reply lost" \notin accidents
                /\ Note(TRUE, "reply lost")
                /\ UNCHANGED at
          /\ UNCHANGED <<written, row, faceDone>>
       \/ TokenRefused(p) /\ UNCHANGED <<claims, ours, accidents>>
       \/ PageGone(p, row) /\ UNCHANGED <<claims, ours, accidents>>
    /\ UNCHANGED <<verdict, replaced, by, removal, stepKeeps>>

(* _record_written: a face that changed under the edit queues the removal  *)
(* of the statement.                                                       *)
RecordFace(f) ==
    /\ written' = [written EXCEPT ![f] = @ \/ verdict[f] = "yes" \/ Live(f)]
    /\ removal' = [removal EXCEPT ![f] = @ \/ (Live(f) /\ verdict[f] # "yes")]
Record(p) ==
    /\ at[p] = "record"
    /\ RecordFace(face[p])
    /\ row' = RowDone
    /\ Outcome(p, "other")
    /\ UNCHANGED <<verdict, replaced, by, claims, ours, accidents, stepKeeps>>

-----------------------------------------------------------------------------
(* Removal phase and end of the run *)

Removing(p) ==
    /\ at[p] = "removing"
    /\ \/ stopping[p] /\ Goto(p, "finish")
       \/ ~stopping[p] /\ ~requested[p] /\ Goto(p, "finish")
       \/ /\ ~stopping[p] /\ (requested[p] \/ Fails)
          /\ Goto(p, IF RemovalDue(p) THEN "rmLookup" ELSE "finish")
    /\ UNCHANGED <<faceVars, pageVars, faceDone, accidents, stepKeeps>>

(* A page that is gone counts as one without the statement. *)
RemovalLookup(p) ==
    /\ at[p] = "rmLookup"
    /\ \/ Goto(p, IF Found THEN "rmSend" ELSE "settle")
       \/ Fails /\ Goto(p, "removing")
    /\ UNCHANGED <<faceVars, pageVars, faceDone, accidents, stepKeeps>>

TakesMore == claims' = claims - 1 /\ UNCHANGED ours               \* mutant
TakeOff ==
    /\ claims' = IF claims > 0 THEN claims - 1 ELSE 0
    /\ ours' = (ours /\ claims' > 0)
RemovalSend(p) ==
    /\ at[p] = "rmSend"
    /\ \/ TakeOff /\ Goto(p, "settle")
       \/ Fails /\ Goto(p, "removing") /\ UNCHANGED <<claims, ours>>
    /\ UNCHANGED <<faceVars, row, faceDone, accidents, stepKeeps>>

(* _settle_removal: the flags of the faces that still queue one, then the  *)
(* deduplication row, whoever holds it.                                    *)
Settle(p) ==
    /\ at[p] = "settle"
    /\ LET settled == {f \in FacesOf(p) : removal[f]}
       IN  /\ removal' = Write(removal, settled, FALSE)
           /\ written' = Write(written, settled, FALSE)
    /\ Goto(p, "clearRow")
    /\ UNCHANGED <<verdict, replaced, by, pageVars, accidents, faceDone, stepKeeps>>

ClearRow(p) ==
    /\ at[p] = "clearRow"
    /\ Note(RowInUse, "row lost")
    /\ row' = NoRow
    /\ Goto(p, "removing")
    /\ UNCHANGED <<faceVars, claims, ours, faceDone, stepKeeps>>

(* finish() tells what a shutdown left undone. *)
TellsNothing(p) == notice[p]                                       \* mutant
MustTell(p) == notice[p] \/ (stopping[p] /\ (Writable(p) # {} \/ RemovalDue(p)))
Finish(p) ==
    /\ at[p] = "finish"
    /\ EndRequest(p, MustTell(p))
    /\ UNCHANGED <<faceVars, bootstrapped, pageVars, accidents, nStops, othersKeep>>

-----------------------------------------------------------------------------
(* Worker processes *)

Shutdown(p) ==
    /\ at[p] # "idle" /\ ~stopping[p] /\ nStops < MaxStops
    /\ stopping' = [stopping EXCEPT ![p] = TRUE]
    /\ nStops' = nStops + 1
    /\ UNCHANGED <<faceVars, bootstrapped, requested, told, pageVars, at, face,
                   batch, outcomes, passes, notice, late, promised, accidents,
                   othersKeep>>

Crash(p) ==
    /\ at[p] # "idle" /\ nStops < MaxStops
    /\ Leave(p)
    /\ nStops' = nStops + 1
    /\ UNCHANGED <<faceVars, bootstrapped, requested, told, pageVars, promised,
                   accidents, othersKeep>>

(* claimed_at grows CLAIM_EXPIRY_MINUTES old.  A run is faster with one    *)
(* page, but a run that retries an older row of its own does not renew it. *)
RowAges ==
    /\ row # NoRow /\ ~row.done /\ ~row.old /\ ~RowInUse
    /\ row' = [row EXCEPT !.old = TRUE]
    /\ UNCHANGED <<faceVars, claims, ours, runVars, accidents, stepKeeps>>

(* _persist_inference_batch: the model's verdict on a waiting face. *)
Infer(f) ==
    /\ verdict[f] = "open" /\ f \notin replaced /\ by[f] = "nobody" /\ ~removal[f]
    /\ \/ verdict' = [verdict EXCEPT ![f] = "no"]
       \/ /\ ~OtherTarget(ProjectOf[f], {f})
          /\ verdict' = [verdict EXCEPT ![f] = "yes"]
    /\ by' = [by EXCEPT ![f] = "model"]
    /\ UNCHANGED <<replaced, written, removal, pageVars, runVars, accidents, stepKeeps>>

-----------------------------------------------------------------------------
(* Review handlers of the web app *)

runsKeep == <<requested, told, runVars, nRequests, nStops>>
Step(u, phase) == doing' = [doing EXCEPT ![u] = phase]
Begin(u, handler) ==
    /\ handler \in Handlers
    /\ doing[u] = "idle" /\ nReviews < MaxReviews
    /\ nReviews' = nReviews + 1
Return(u) ==
    /\ Step(u, "idle")
    /\ of' = [of EXCEPT ![u] = NoFace]
    /\ saw' = [saw EXCEPT ![u] = NothingSeen]

(* The columns of some faces of p, as one query reads them. *)
Sight(p, these) ==
    [yes |-> {f \in these : verdict[f] = "yes"}, no |-> {f \in these : verdict[f] = "no"},
     written |-> {f \in these : written[f]}, removal |-> {f \in these : removal[f]},
     boot |-> bootstrapped[p], sibling |-> FALSE, flight |-> FALSE, removed |-> FALSE]
MayReview(u, f) == Exists(f) /\ by[f] \in {"nobody", "model", u}

(* A database error, a refusal after the checks, or the end of the process *)
(* between two statements: the handler does no more.                       *)
GiveUp(u) ==
    /\ Fails /\ doing[u] # "idle"
    /\ Return(u)
    /\ UNCHANGED <<faceVars, bootstrapped, pageVars, last, drawn, promised,
                   accidents, nReviews, runsKeep>>

(* _load_face_for_reclassify *)
LoadFace(u, f) ==
    /\ Begin(u, "reclassify")
    /\ Live(f)
    /\ of' = [of EXCEPT ![u] = f]
    /\ saw' = [saw EXCEPT ![u] = Sight(ProjectOf[f], {f})]
    /\ Step(u, "approve") \/ Step(u, "reject")
    /\ UNCHANGED <<faceVars, bootstrapped, pageVars, last, drawn, promised,
                   accidents, runsKeep>>

(* Approving: the transaction of _apply_reclassification and, for a face   *)
(* that was no target, _demote_sibling_targets.                            *)
Approve(u) ==
    /\ doing[u] = "approve"
    /\ LET f == of[u]
           others == IF f \in saw[u].yes THEN {} ELSE
                         {g \in FacesOf(ProjectOf[f]) \ {f} : Live(g)}
           demoted == {g \in others : Target(g)}
       IN  IF MayReview(u, f)
           THEN /\ verdict' = Write([verdict EXCEPT ![f] = "yes"], demoted, "no")
                /\ by' = Write(by, demoted \union {f}, u)
                /\ written' = Write([written EXCEPT ![f] = f \in saw[u].written],
                                    demoted, FALSE)
                /\ removal' = [g \in AllFaces |->
                       IF g \in demoted THEN written[g]
                       ELSE removal[g] /\ g # f /\ g \notin others]
                /\ Keep(demoted \union {f})
                /\ IF f \in saw[u].written THEN Return(u)
                   ELSE Step(u, "check") /\ UNCHANGED <<of, saw>>
           ELSE Return(u) /\ UNCHANGED <<verdict, by, written, removal, promised>>
    /\ UNCHANGED <<replaced, bootstrapped, pageVars, last, drawn, accidents, nReviews, runsKeep>>

(* _maybe_mark_sdc_written: look on Commons, then mark face and image. *)
Check(u) ==
    /\ doing[u] = "check"
    /\ IF claims > 0 THEN Step(u, "mark") /\ UNCHANGED <<of, saw>> ELSE Return(u)
    /\ UNCHANGED <<faceVars, bootstrapped, pageVars, last, drawn, promised,
                   accidents, nReviews, runsKeep>>
Mark(u) ==
    /\ doing[u] = "mark"
    /\ MarkWritten(of[u])
    /\ bootstrapped' = [bootstrapped EXCEPT ![ProjectOf[of[u]]] = TRUE]
    /\ Return(u)
    /\ UNCHANGED <<verdict, replaced, by, removal, pageVars, last, drawn, promised,
                   accidents, nReviews, runsKeep>>

(* _settle_claim_for_rejection: a claim on record that no bootstrap found  *)
(* is removed now, everything else is queued, unless a sibling keeps it.   *)
QueuesNothing(u) == saw[u].boot                                    \* mutant
Queues(u) == saw[u].boot \/ of[u] \notin saw[u].written
RejectDecide(u) ==
    /\ doing[u] = "reject"
    /\ LET sibling == OtherTarget(ProjectOf[of[u]], {of[u]})
       IN  /\ saw' = [saw EXCEPT ![u].sibling = sibling]
           /\ Step(u, IF sibling \/ of[u] \notin saw[u].written \/ saw[u].boot
                      THEN "rejectTxn" ELSE "remove")
    /\ UNCHANGED <<faceVars, bootstrapped, pageVars, of, last, drawn, promised,
                   accidents, nReviews, runsKeep>>

RejectTxn(u) ==
    /\ doing[u] = "rejectTxn"
    /\ LET f == of[u]
       IN  IF MayReview(u, f)
           THEN /\ verdict' = [verdict EXCEPT ![f] = "no"]
                /\ by' = [by EXCEPT ![f] = u]
                /\ written' = [written EXCEPT ![f] = FALSE]
                /\ removal' = [removal EXCEPT ![f] = ~saw[u].sibling /\ Queues(u)]
                /\ Keep({f})
           ELSE UNCHANGED <<verdict, by, written, removal, promised>>
    /\ Return(u)
    /\ UNCHANGED <<replaced, bootstrapped, pageVars, last, drawn, accidents, nReviews, runsKeep>>

(* _remove_sdc_claim, called by a rejection (of[u] is its face) or by an   *)
(* undo: the statement, then the deduplication row.  A rejection is given  *)
(* up when either fails, an undo only when a drawn face depends on it.     *)
Undoing(u) == of[u] = NoFace
Touched(u) == last[u].faces \union last[u].drawn
ClaimFaces(u) == saw[u].written \union saw[u].removal
AfterRemoval(u) == Step(u, IF Undoing(u) THEN "undoTxn" ELSE "rejectTxn")
RemovalFails(u) ==
    /\ Fails /\ Undoing(u) /\ ClaimFaces(u) \intersect last[u].drawn = {}
    /\ Step(u, "undoTxn")
Remove(u) ==
    /\ doing[u] = "remove"
    /\ \/ TakeOff /\ Step(u, "clear")
       \/ RemovalFails(u) /\ UNCHANGED <<claims, ours>>
    /\ UNCHANGED <<faceVars, bootstrapped, row, of, saw, last, drawn, promised,
                   accidents, nReviews, runsKeep>>
Clear(u) ==
    /\ doing[u] = "clear"
    /\ \/ /\ row' = NoRow
          /\ Note(RowInUse, "row lost")
          /\ AfterRemoval(u)
          /\ saw' = [saw EXCEPT ![u].removed = TRUE]
       \/ RemovalFails(u) /\ UNCHANGED <<row, accidents, saw>>
    /\ UNCHANGED <<faceVars, bootstrapped, claims, ours, of, last, drawn, promised,
                   nReviews, runsKeep>>

(* api_classify: the waiting faces of an image, or in review the model's   *)
(* rejections.  "None of them" may queue a removal.                        *)
Shown(p, review) ==
    {f \in FacesOf(p) \ replaced : IF review THEN verdict[f] = "no" /\ by[f] = "model"
                                             ELSE verdict[f] = "open"}
Remember(u, action, p, these, review) ==
    /\ last' = [last EXCEPT ![u] = [action |-> action, faces |-> these,
                   drawn |-> drawn[u] \intersect FacesOf(p), review |-> review]]
    /\ drawn' = [drawn EXCEPT ![u] = @ \ FacesOf(p)]

ClassifyNone(u, p, review) ==
    /\ Begin(u, "classify")
    /\ LET these == Shown(p, review)
       IN  /\ these # {}
           /\ verdict' = Write(verdict, these, "no")
           /\ by' = Write(by, these, u)
           /\ removal' = IF bootstrapped[p] /\ ~OtherTarget(p, these)
                         THEN Write(removal, these, TRUE) ELSE removal
           /\ Remember(u, "none", p, these, review)
           /\ Keep(these)
    /\ UNCHANGED <<replaced, written, bootstrapped, pageVars, doing, of, saw, accidents, runsKeep>>

(* The face that was picked may have been reviewed since it was shown: then *)
(* only the others are dismissed.                                          *)
ClassifyTarget(u, f, review) ==
    /\ Begin(u, "classify")
    /\ Exists(f)
    /\ LET p == ProjectOf[f]
           these == Shown(p, review)
           picked == IF f \in these \/ (~review /\ verdict[f] = "open") THEN {f} ELSE {}
           dismissed == these \ {f}
       IN  /\ verdict' = Write(Write(verdict, dismissed, "no"), picked, "yes")
           /\ by' = Write(by, dismissed \union picked, u)
           /\ removal' = Write(removal, picked, FALSE)
           /\ Remember(u, "target", p, these, review)
           /\ Keep(dismissed \union picked)
           /\ IF these # {} THEN Step(u, "check") /\ of' = [of EXCEPT ![u] = f]
                            ELSE UNCHANGED <<doing, of>>
    /\ UNCHANGED <<replaced, written, bootstrapped, pageVars, saw, accidents, runsKeep>>

(* api_undo_classify: _read_undo_claim_context reads the faces, then the   *)
(* siblings and the request.                                               *)
UndoRead(u) ==
    /\ Begin(u, "undo")
    /\ Touched(u) # {}
    /\ saw' = [saw EXCEPT ![u] =
           Sight(ProjectOf[CHOOSE f \in Touched(u) : TRUE], Touched(u))]
    /\ Step(u, "undo")
    /\ UNCHANGED <<faceVars, bootstrapped, pageVars, of, last, drawn, promised,
                   accidents, runsKeep>>

UndoContext(u) ==
    /\ doing[u] = "undo"
    /\ LET p == ProjectOf[CHOOSE f \in Touched(u) : TRUE]
           sibling == OtherTarget(p, Touched(u))
       IN  /\ saw' = [saw EXCEPT ![u].sibling = sibling, ![u].flight = requested[p]]
           /\ Step(u, IF last[u].action = "none" \/ sibling \/ ClaimFaces(u) = {}
                      THEN "undoTxn" ELSE "remove")
    /\ UNCHANGED <<faceVars, bootstrapped, pageVars, of, last, drawn, promised,
                   accidents, nReviews, runsKeep>>

(* _undo_claim_flags: the faces that come out with a queued removal, and   *)
(* those that keep their written marker.                                   *)
OnRecord(u, f) == f \in ClaimFaces(u)
UndoQueues(u, f) ==
    /\ ~saw[u].sibling
    /\ IF last[u].action = "none" THEN ~saw[u].boot /\ f \in saw[u].removal
       ELSE IF OnRecord(u, f) THEN ~saw[u].removed
       ELSE f \in saw[u].yes /\ saw[u].flight
UndoKeepsMark(u, f) ==
    /\ ~saw[u].sibling /\ f \in saw[u].written
    /\ last[u].action = "none" \/ ~saw[u].removed

(* Drawn faces are deleted, and the row that names one goes with it. *)
UndoTxn(u) ==
    /\ doing[u] = "undoTxn"
    /\ LET deleted == last[u].drawn
           undone == {f \in last[u].faces \ deleted : Exists(f)}
       IN  /\ verdict' = Write(Write(verdict, undone,
                                     IF last[u].review THEN "no" ELSE "open"),
                               deleted, "deleted")
           /\ by' = Write(by, undone, IF last[u].review THEN "model" ELSE "nobody")
           /\ written' = [f \in AllFaces |->
                  IF f \in undone THEN UndoKeepsMark(u, f) ELSE written[f]]
           /\ removal' = [f \in AllFaces |->
                  IF f \in undone THEN UndoQueues(u, f) ELSE removal[f]]
           /\ row' = IF row # NoRow /\ row.face \in deleted THEN NoRow ELSE row
           /\ accidents' = accidents \union {"reverted"} \union
                  (IF RowInUse /\ row' = NoRow THEN {"row lost"} ELSE {})
           /\ Keep(undone \union deleted)
    /\ last' = [last EXCEPT ![u] = NoLast]
    /\ Return(u)
    /\ UNCHANGED <<replaced, bootstrapped, claims, ours, drawn, nReviews, runsKeep>>

(* api_manual_face: a drawn box is a target; the faces that were shown     *)
(* when its page was loaded are dismissed if they still wait (in review,   *)
(* the model's rejections are confirmed).  An undo goes by the former.     *)
Draw(u, g, review) ==
    /\ Begin(u, "draw")
    /\ verdict[g] = "absent"
    /\ LET p == ProjectOf[g]
       IN  \E these \in IF review THEN {Shown(p, TRUE)}
                         ELSE SUBSET {f \in FacesOf(p) : Exists(f)} :
             LET dismissed == these \intersect Shown(p, review)
             IN  /\ verdict' = [Write(verdict, dismissed, "no") EXCEPT ![g] = "yes"]
                 /\ by' = Write(by, dismissed \union {g}, u)
                 /\ drawn' = [drawn EXCEPT ![u] = @ \union {g}]
                 /\ last' = [last EXCEPT ![u] = [action |-> "drawn", faces |-> these,
                                drawn |-> {g}, review |-> review]]
                 /\ Keep(dismissed)
    /\ of' = [of EXCEPT ![u] = g]
    /\ Step(u, "check")
    /\ UNCHANGED <<replaced, written, removal, bootstrapped, pageVars, saw,
                   accidents, runsKeep>>

(* api_update_face_bbox: the face is superseded by a new row with the      *)
(* verdict and the written marker it had when it was loaded.               *)
EditLoad(u, f) ==
    /\ Begin(u, "edit")
    /\ Live(f) /\ MayReview(u, f)
    /\ of' = [of EXCEPT ![u] = f]
    /\ saw' = [saw EXCEPT ![u] = Sight(ProjectOf[f], {f})]
    /\ Step(u, "edit")
    /\ UNCHANGED <<faceVars, bootstrapped, pageVars, last, drawn, promised,
                   accidents, runsKeep>>

EditTxn(u, g) ==
    /\ doing[u] = "edit" /\ verdict[g] = "absent" /\ ProjectOf[g] = ProjectOf[of[u]]
    /\ LET f == of[u]
           asSeen == IF f \in saw[u].yes THEN "yes"
                     ELSE IF f \in saw[u].no THEN "no" ELSE "open"
           looks == f \in saw[u].yes /\ f \notin saw[u].written
       IN  IF Live(f) /\ MayReview(u, f)
           THEN /\ verdict' = [verdict EXCEPT ![g] = asSeen]
                /\ replaced' = replaced \union {f}
                /\ by' = [by EXCEPT ![g] = u]
                /\ written' = [written EXCEPT ![g] = f \in saw[u].written]
                /\ Note(TRUE, "reverted")
                /\ Keep({f})
                /\ IF looks
                   THEN /\ Step(u, "check")
                        /\ of' = [of EXCEPT ![u] = g] /\ UNCHANGED saw
                   ELSE Return(u)
           ELSE Return(u) /\ UNCHANGED <<verdict, replaced, by, written, promised, accidents>>
    /\ UNCHANGED <<removal, bootstrapped, pageVars, last, drawn, nReviews, runsKeep>>

(* project_rerun_inference *)
Rerun(u, p) ==
    /\ Begin(u, "rerun")
    /\ ~requested[p]
    /\ LET these == {f \in FacesOf(p) : Live(f) /\ by[f] = "model" /\ ~written[f]}
       IN  /\ verdict' = Write(verdict, these, "open")
           /\ by' = Write(by, these, "nobody")
           /\ Keep(these)
    /\ Note(TRUE, "reverted")
    /\ UNCHANGED <<replaced, written, removal, bootstrapped, pageVars, userVars, runsKeep>>

(* api_write_sdc, when there is anything to send and no request yet.  The  *)
(* run of a request that was stopped may still be there: as long as it is  *)
(* writing it will come to the new request's faces, past that it will not. *)
Ending == {"removing", "rmLookup", "rmSend", "settle", "clearRow", "finish"}
Send(p) ==
    /\ ~requested[p] /\ nRequests < MaxRequests
    /\ Writable(p) # {} \/ RemovalDue(p)
    /\ requested' = [requested EXCEPT ![p] = TRUE]
    /\ told' = [told EXCEPT ![p] = FALSE]
    /\ promised' = [promised EXCEPT ![p] = Writable(p)]
    /\ late' = [late EXCEPT ![p] = at[p] \in Ending]
    /\ nRequests' = nRequests + 1
    /\ UNCHANGED <<faceVars, bootstrapped, pageVars, at, face, batch, outcomes,
                   passes, notice, stopping, userVars, accidents, nReviews, nStops>>

(* api_stop_sdc *)
StopEdits(p) ==
    /\ "stop" \in Handlers /\ requested[p]
    /\ requested' = [requested EXCEPT ![p] = FALSE]
    /\ told' = [told EXCEPT ![p] = FALSE]
    /\ promised' = [promised EXCEPT ![p] = {}]
    /\ UNCHANGED <<faceVars, bootstrapped, pageVars, runVars, userVars, accidents, counts>>

-----------------------------------------------------------------------------
RunStep(p) ==
    \/ StartRun(p) \/ AbortRun(p) \/ Select(p) \/ NextFace(p) \/ EndBatch(p)
    \/ Reserve(p) \/ Lookup(p) \/ Adopt(p) \/ Recheck(p) \/ Edit(p) \/ Record(p)
    \/ Removing(p) \/ RemovalLookup(p) \/ RemovalSend(p) \/ Settle(p) \/ ClearRow(p)
    \/ Finish(p)
ReviewStep(u) ==
    \/ \E f \in AllFaces : LoadFace(u, f) \/ EditLoad(u, f) \/ EditTxn(u, f)
    \/ \E f \in AllFaces, review \in BOOLEAN :
          ClassifyTarget(u, f, review) \/ Draw(u, f, review)
    \/ \E p \in Projects, review \in BOOLEAN : ClassifyNone(u, p, review)
    \/ \E p \in Projects : Rerun(u, p)
    \/ Approve(u) \/ Check(u) \/ Mark(u) \/ RejectDecide(u) \/ RejectTxn(u)
    \/ Remove(u) \/ Clear(u) \/ UndoRead(u) \/ UndoContext(u) \/ UndoTxn(u)
    \/ GiveUp(u)
Next ==
    \/ \E p \in Projects : RunStep(p) \/ Shutdown(p) \/ Crash(p) \/ Send(p) \/ StopEdits(p)
    \/ \E u \in Users : ReviewStep(u)
    \/ \E f \in AllFaces : Infer(f)
    \/ RowAges

Spec == Init /\ [][Next]_vars

(* The worker keeps running the requests it has. *)
Fairness == \A p \in Projects : WF_vars(RunStep(p))
FairSpec == Spec /\ Fairness

-----------------------------------------------------------------------------
(* PROPERTIES *)

(* Two projects with the same page and item never both sit between their   *)
(* reservation of the page and the record of what they wrote, unless one   *)
(* lost its row to a removal or a takeover (worker._reserve_claim).        *)
OneWriterPerPage ==
    "row lost" \notin accidents =>
        \A p, q \in Projects : at[p] \in Holding /\ at[q] \in Holding => p = q

(* With its row kept and every reply received, the runs of all projects    *)
(* leave at most one statement on the page: _lookup_claims, the            *)
(* reservation and the record together.                                    *)
NoSecondClaim ==
    accidents \intersect {"row lost", "reply lost"} = {} => claims <= 1

(* A statement a run added does not survive the rejection of its last      *)
(* face: once nothing is on the way, a target of some project stands for   *)
(* it, or a removal is queued, in whatever order rejection, in-flight      *)
(* edit, Stop and shutdown met (_settle_claim_for_rejection,               *)
(* _record_written).  Undo, re-run and box edits are excepted.             *)
Settled ==
    /\ \A p \in Projects : at[p] = "idle"
    /\ \A u \in Users : doing[u] = "idle"
RejectionsLeaveNoClaim ==
    Settled /\ ours /\ accidents = {} =>
        \E f \in AllFaces : Target(f) \/ (Live(f) /\ removal[f])

(* A run that clears a request without an error message has written every  *)
(* face that was approved when the request was made, no matter what was    *)
(* skipped, interrupted, stopped and sent anew, restarted or reviewed      *)
(* meanwhile (_SdcRun.finish).  Excepted is a request that is made after a *)
(* Stop the run has not noticed, when it is past its write phase already:  *)
(* it is cleared without a word (README, disagreements).                   *)
PromisesAreKept ==
    [][\A p \in Projects :
          at[p] = "finish" /\ requested[p] /\ ~requested'[p] /\ ~told'[p]
          /\ at'[p] = "idle" /\ ~late[p]
          => promised[p] \intersect Writable(p) = {}]_vars

(* Undoing a target never strands a statement: unless it took it off, it   *)
(* leaves a target or a queued removal, whatever a run did between the     *)
(* undo's reads and its transaction (_undo_claim_flags).                   *)
UndoLeavesNoClaim ==
    Settled /\ ours /\ accidents \subseteq {"reverted"} =>
        \E f \in AllFaces : Target(f) \/ (Live(f) /\ removal[f])

(* Every run ends: faces that are skipped, blocked or already on Commons   *)
(* do not keep it going (what ProjectClaims assumes of its SDC runs).      *)
RunsEnd == \A p \in Projects : at[p] # "idle" ~> at[p] = "idle"
=============================================================================
