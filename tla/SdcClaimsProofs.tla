---------------------------- MODULE SdcClaimsProofs ----------------------------
(***************************************************************************)
(* One writer per page and one statement, for any number of projects,      *)
(* faces, users, requests, reviews and failures.                           *)
(***************************************************************************)
EXTENDS SdcClaims, TLAPS

(* The parts of the type invariant the arguments below need.               *)
RowTypes ==
    /\ row \in Rows \union {NoRow}
    /\ at \in [Projects -> Places]
    /\ face \in [Projects -> AllFaces \union {NoFace}]
    /\ batch \in [Projects -> SUBSET AllFaces]
    /\ claims \in Nat

(* A run that reserved the page owns its row, unless the row was taken     *)
(* from under it; the face it reserves for is a face.                      *)
RowIsHolders ==
    "row lost" \notin accidents =>
        \A p \in Projects : at[p] \in Holding =>
            row # NoRow /\ row.project = p /\ ~row.done
FaceInHand == \A p \in Projects : at[p] = "reserve" => face[p] \in AllFaces

RowInv == RowTypes /\ RowIsHolders /\ FaceInHand

(* Between the lookup and the edit no one else puts a statement there.     *)
ClearBeforeEdit ==
    accidents \intersect {"row lost", "reply lost"} = {} =>
        /\ claims <= 1
        /\ \A p \in Projects : at[p] \in {"recheck", "edit"} => claims = 0

PageInv == RowInv /\ ClearBeforeEdit

LEMMA InitPage == Init => PageInv
    BY DEF Init, PageInv, RowInv, RowTypes, RowIsHolders, FaceInHand,
           ClearBeforeEdit, Places, Holding

-----------------------------------------------------------------------------
(* Steps that leave page, row and the places of the runs alone.            *)
Elsewhere ==
    /\ UNCHANGED <<pageVars, at, face, batch>>
    /\ accidents \subseteq accidents'

LEMMA ElsewherePage == PageInv /\ Elsewhere => PageInv'
    BY DEF PageInv, RowInv, RowTypes, RowIsHolders, FaceInHand,
           ClearBeforeEdit, Elsewhere, pageVars

(* Steps of a run to a place where it does not hold the page, with the row *)
(* and the statements untouched.                                           *)
Away(p) ==
    /\ \E place \in Places \ Holding : at' = [at EXCEPT ![p] = place]
    /\ UNCHANGED pageVars
    /\ face' \in [Projects -> AllFaces \union {NoFace}]
    /\ batch' \in [Projects -> SUBSET AllFaces]
    /\ at'[p] = "reserve" => face'[p] \in AllFaces
    /\ \A q \in Projects \ {p} : face'[q] = face[q]
    /\ accidents \subseteq accidents'

LEMMA AwayPage ==
    ASSUME PageInv, NEW p \in Projects, Away(p)
    PROVE  PageInv'
<1>1. RowTypes'
  BY DEF PageInv, RowInv, RowTypes, Away, pageVars
<1>2. RowIsHolders' /\ FaceInHand'
  BY DEF PageInv, RowInv, RowTypes, RowIsHolders, FaceInHand, Away, pageVars
<1>3. ClearBeforeEdit'
  BY DEF PageInv, RowInv, RowTypes, ClearBeforeEdit, Away, pageVars, Holding
<1> QED
  BY <1>1, <1>2, <1>3 DEF PageInv, RowInv

LEMMA WritableFaces ==
    ASSUME NEW p \in Projects
    PROVE  Writable(p) \subseteq AllFaces
    BY DEF Writable, FacesOf

(* A run that ends, on its own or not.                                     *)
LEMMA LeaveIsAway ==
    ASSUME PageInv, NEW p \in Projects, Leave(p), UNCHANGED pageVars,
           accidents \subseteq accidents'
    PROVE  Away(p)
    BY DEF PageInv, RowInv, RowTypes, Leave, Goto, Away, Places, Holding

LEMMA PlainRunSteps ==
    ASSUME PageInv, NEW p \in Projects,
           \/ StartRun(p) \/ AbortRun(p) \/ Select(p) \/ NextFace(p) \/ EndBatch(p)
           \/ Removing(p) \/ RemovalLookup(p) \/ Settle(p) \/ Finish(p) \/ Crash(p)
    PROVE  Away(p)
<1> USE DEF Goto, Places, Holding, PageInv, RowInv, RowTypes
<1>1. CASE StartRun(p)
  BY <1>1 DEF StartRun, Away
<1>2. CASE AbortRun(p)
  BY <1>2, LeaveIsAway DEF AbortRun, EndRequest
<1>3. CASE Select(p)
  <2>1. CASE Leave(p)
    BY <1>3, <2>1, LeaveIsAway DEF Select
  <2>2. CASE ~Leave(p)
    BY <1>3, <2>2, WritableFaces DEF Select, Away
  <2> QED
    BY <2>1, <2>2
<1>4. CASE NextFace(p)
  <2>1. CASE Leave(p)
    BY <1>4, <2>1, LeaveIsAway DEF NextFace
  <2>2. CASE ~Leave(p)
    <3>1. PICK f \in batch[p] :
            /\ batch' = [batch EXCEPT ![p] = @ \ {f}]
            /\ \/ /\ face' = [face EXCEPT ![p] = f]
                  /\ at' = [at EXCEPT ![p] = "reserve"]
               \/ UNCHANGED <<at, face>>
      BY <1>4, <2>2 DEF NextFace
    <3>2. f \in AllFaces
      BY <3>1
    <3>3. at[p] = "face" /\ UNCHANGED <<pageVars, accidents>>
      BY <1>4 DEF NextFace
    <3>4. at' = [at EXCEPT ![p] = "reserve"] \/ at' = [at EXCEPT ![p] = "face"]
      BY <3>1, <3>3
    <3> QED
      BY <3>1, <3>2, <3>3, <3>4 DEF Away
  <2> QED
    BY <2>1, <2>2
<1>5. CASE EndBatch(p)
  <2>1. CASE EndRequest(p, TRUE)
    BY <1>5, <2>1, LeaveIsAway DEF EndBatch, EndRequest
  <2>2. CASE ~EndRequest(p, TRUE)
    <3>1. at' = [at EXCEPT ![p] = "removing"] \/ at' = [at EXCEPT ![p] = "select"]
      BY <1>5, <2>2 DEF EndBatch
    <3> QED
      BY <1>5, <2>2, <3>1 DEF EndBatch, Away
  <2> QED
    BY <2>1, <2>2
<1>6. CASE Removing(p)
  <2>1. \/ at' = [at EXCEPT ![p] = "finish"]
        \/ at' = [at EXCEPT ![p] = "rmLookup"]
    BY <1>6 DEF Removing
  <2> QED
    BY <1>6, <2>1 DEF Removing, Away, faceDone
<1>7. CASE RemovalLookup(p)
  <2>1. \E place \in {"rmSend", "settle", "removing"} : at' = [at EXCEPT ![p] = place]
    BY <1>7 DEF RemovalLookup
  <2> QED
    BY <1>7, <2>1 DEF RemovalLookup, Away, faceDone
<1>8. CASE Finish(p)
  BY <1>8, LeaveIsAway DEF Finish, EndRequest
<1>9. CASE Crash(p)
  BY <1>9, LeaveIsAway DEF Crash
<1>10. CASE Settle(p)
  BY <1>10 DEF Settle, Away, faceDone
<1> QED
  BY <1>1, <1>2, <1>3, <1>4, <1>5, <1>6, <1>7, <1>8, <1>9, <1>10

-----------------------------------------------------------------------------
(* The row while a run holds the page                                      *)

LEMMA NewRowIsRow ==
    ASSUME NEW p \in Projects, face[p] \in AllFaces
    PROVE  /\ NewRow(p) \in Rows /\ NewRow(p) # NoRow
           /\ NewRow(p).project = p /\ NewRow(p).done = FALSE
<1>1. NewRow(p) \in Rows
  BY DEF NewRow, Rows
<1>2. NewRow(p).project = p /\ NewRow(p).done = FALSE
  BY DEF NewRow
<1> QED
  BY <1>1, <1>2, NoRowAssumption

(* A run without its row taken from it is the only one that holds the page.*)
LEMMA HolderAlone ==
    ASSUME RowInv, "row lost" \notin accidents,
           NEW p \in Projects, NEW q \in Projects,
           at[p] \in Holding, at[q] \in Holding
    PROVE  p = q
    BY DEF RowInv, RowIsHolders

(* The reservation: a free page, a stale row in nobody's use, or the run's *)
(* own row let it in; else the run goes on with its next face.             *)
LEMMA ReservePage ==
    ASSUME PageInv, NEW p \in Projects, Reserve(p)
    PROVE  PageInv'
<1>1. RowTypes /\ at[p] = "reserve" /\ face[p] \in AllFaces
  BY DEF PageInv, RowInv, FaceInHand, Reserve
<1>2. /\ NewRow(p) \in Rows /\ NewRow(p) # NoRow
      /\ NewRow(p).project = p /\ NewRow(p).done = FALSE
  BY <1>1, NewRowIsRow
<1>3. claims' = claims
  BY DEF Reserve
<1>4. CASE Outcome(p, "other") \/ Outcome(p, "blocked")
  <2>1. row' = row /\ ours' = ours /\ accidents \subseteq accidents'
    BY <1>1, <1>4 DEF Reserve, Goto, Outcome, RowTypes
  <2>2. Away(p)
    BY <1>1, <1>3, <1>4, <2>1
       DEF Outcome, Goto, Away, RowTypes, Places, Holding, pageVars
  <2> QED
    BY <2>2, AwayPage
<1>5. CASE at' = [at EXCEPT ![p] = "lookup"] /\ UNCHANGED <<face, batch>>
  <2>1. \/ row = NoRow /\ row' = NewRow(p) /\ accidents' = accidents
        \/ /\ row # NoRow /\ ~row.done /\ row.project = p /\ row' = row
           /\ accidents' = accidents
        \/ /\ row # NoRow /\ row' = NewRow(p)
           /\ Note(RowInUse /\ row.old, "row lost") /\ row.old
    BY <1>1, <1>5 DEF Reserve, Outcome, Goto, RowTypes, Stale
  <2>2. row' # NoRow /\ row'.project = p /\ ~row'.done
    BY <1>2, <2>1
  <2>3. "row lost" \notin accidents' =>
           \A q \in Projects : at[q] \in Holding => q = p
    <3>1. SUFFICES ASSUME "row lost" \notin accidents', NEW q \in Projects,
                          at[q] \in Holding
                   PROVE  q = p
      OBVIOUS
    <3>2. "row lost" \notin accidents
      BY <2>1, <3>1 DEF Note
    <3>3. row # NoRow /\ row.project = q
      BY <3>1, <3>2 DEF PageInv, RowInv, RowIsHolders
    <3> QED
      BY <2>1, <3>1, <3>3 DEF Note, RowInUse
  <2>4. RowTypes' /\ FaceInHand'
    BY <1>1, <1>2, <1>3, <1>5, <2>1
       DEF RowTypes, FaceInHand, Places, PageInv, RowInv
  <2>5. RowIsHolders'
    BY <1>1, <1>5, <2>2, <2>3 DEF RowIsHolders, RowTypes
  <2>6. ClearBeforeEdit'
    BY <1>1, <1>3, <1>5, <2>1 DEF ClearBeforeEdit, PageInv, RowTypes, Note
  <2> QED
    BY <2>4, <2>5, <2>6 DEF PageInv, RowInv
<1> QED
  BY <1>4, <1>5 DEF Reserve, Goto, faceDone

(* The run lets go of the page, or leaves its row done: both are safe      *)
(* because no one else holds it.                                           *)
LetsGo(p) ==
    /\ at[p] \in Holding
    /\ at' = [at EXCEPT ![p] = "face"]
    /\ face' = [face EXCEPT ![p] = NoFace]
    /\ batch' = batch
    /\ row' \in Rows \union {NoRow}
    /\ claims' = claims
    /\ accidents' = accidents

LEMMA LetsGoPage ==
    ASSUME PageInv, NEW p \in Projects, LetsGo(p)
    PROVE  PageInv'
<1>1. RowTypes' /\ FaceInHand'
  BY DEF LetsGo, PageInv, RowInv, RowTypes, FaceInHand, Places
<1>2. RowIsHolders'
  <2>1. SUFFICES ASSUME "row lost" \notin accidents, NEW q \in Projects,
                        at'[q] \in Holding
                 PROVE  FALSE
    BY DEF RowIsHolders, LetsGo
  <2>2. q # p /\ at[q] \in Holding
    BY <2>1 DEF LetsGo, Holding, PageInv, RowInv, RowTypes
  <2> QED
    BY <2>1, <2>2, HolderAlone DEF LetsGo, PageInv
<1>3. ClearBeforeEdit'
  BY DEF LetsGo, PageInv, RowInv, RowTypes, ClearBeforeEdit
<1> QED
  BY <1>1, <1>2, <1>3 DEF PageInv, RowInv

LEMMA RowOperators ==
    ASSUME RowTypes, NEW f
    PROVE  RowDone \in Rows \union {NoRow} /\ RowWithout(f) \in Rows \union {NoRow}
    BY DEF RowTypes, RowDone, RowWithout, Rows

LEMMA LetsGoSteps ==
    ASSUME PageInv, NEW p \in Projects, Adopt(p) \/ Record(p)
    PROVE  PageInv'
<1>1. RowTypes
  BY DEF PageInv, RowInv
<1>2. RowDone \in Rows \union {NoRow}
  BY <1>1, RowOperators
<1>3. LetsGo(p)
  BY <1>1, <1>2 DEF Adopt, Record, LetsGo, Outcome, Goto, Holding, stepKeeps, RowTypes
<1> QED
  BY <1>3, LetsGoPage

(* Moving on inside the hold, row and statements kept.                     *)
LEMMA LookupPage ==
    ASSUME PageInv, NEW p \in Projects, Lookup(p)
    PROVE  PageInv'
<1>1. RowTypes /\ at[p] = "lookup" /\ claims' = claims /\ accidents' = accidents
  BY DEF PageInv, RowInv, Lookup
<1>2. RowWithout(face[p]) \in Rows \union {NoRow}
  BY <1>1, RowOperators
<1>3. CASE at' = [at EXCEPT ![p] = IF Found THEN "adopt" ELSE "recheck"]
           /\ UNCHANGED <<row, face, batch>>
  <2>1. RowTypes' /\ FaceInHand'
    BY <1>1, <1>3 DEF RowTypes, FaceInHand, Places, PageInv, RowInv
  <2>2. RowIsHolders'
    BY <1>1, <1>3 DEF RowTypes, RowIsHolders, Holding, PageInv, RowInv
  <2>3. ClearBeforeEdit'
    <3>1. at'[p] = "recheck" => claims = 0
      BY <1>1, <1>3 DEF RowTypes, Found
    <3>2. at'[p] # "edit" /\ \A q \in Projects \ {p} : at'[q] = at[q]
      BY <1>1, <1>3 DEF RowTypes
    <3> QED
      BY <1>1, <3>1, <3>2 DEF ClearBeforeEdit, PageInv
  <2> QED
    BY <2>1, <2>2, <2>3 DEF PageInv, RowInv
<1>4. CASE Outcome(p, "other") /\ (row' = row \/ row' = RowWithout(face[p]))
  <2>1. LetsGo(p)
    BY <1>1, <1>2, <1>4 DEF LetsGo, Outcome, Goto, Holding, RowTypes
  <2> QED
    BY <2>1, LetsGoPage
<1> QED
  BY <1>3, <1>4 DEF Lookup, TokenRefused, PageGone, Goto, faceDone

LEMMA RecheckPage ==
    ASSUME PageInv, NEW p \in Projects, Recheck(p)
    PROVE  PageInv'
<1>1. RowTypes /\ at[p] = "recheck" /\ claims' = claims /\ accidents' = accidents
  BY DEF PageInv, RowInv, Recheck
<1>2. RowWithout(face[p]) \in Rows \union {NoRow}
  BY <1>1, RowOperators
<1>3. CASE at' = [at EXCEPT ![p] = "edit"] /\ UNCHANGED <<row, face, batch>>
  <2>1. RowTypes' /\ FaceInHand'
    BY <1>1, <1>3 DEF RowTypes, FaceInHand, Places, PageInv, RowInv
  <2>2. RowIsHolders'
    BY <1>1, <1>3 DEF RowTypes, RowIsHolders, Holding, PageInv, RowInv
  <2>3. ClearBeforeEdit'
    <3>1. at'[p] = "edit" /\ \A q \in Projects \ {p} : at'[q] = at[q]
      BY <1>1, <1>3 DEF RowTypes
    <3> QED
      BY <1>1, <3>1 DEF ClearBeforeEdit, PageInv
  <2> QED
    BY <2>1, <2>2, <2>3 DEF PageInv, RowInv
<1>4. CASE /\ Outcome(p, "other") \/ Outcome(p, "unverified")
           /\ row' = row \/ row' = RowWithout(face[p])
  <2>1. LetsGo(p)
    BY <1>1, <1>2, <1>4 DEF LetsGo, Outcome, Goto, Holding, RowTypes
  <2> QED
    BY <2>1, LetsGoPage
<1> QED
  BY <1>3, <1>4 DEF Recheck, Goto, faceDone

(* The edit: the page had no statement, and no other run is at its edit.   *)
LEMMA EditPage ==
    ASSUME PageInv, NEW p \in Projects, Edit(p)
    PROVE  PageInv'
<1>1. RowTypes /\ at[p] = "edit"
  BY DEF PageInv, RowInv, Edit
<1>2. CASE /\ claims' = claims + 1 /\ UNCHANGED <<row, face, batch>>
           /\ \/ at' = [at EXCEPT ![p] = "record"] /\ accidents' = accidents
              \/ Note(TRUE, "reply lost") /\ at' = at
  <2>1. RowTypes' /\ FaceInHand'
    <3>1. at' \in [Projects -> Places]
      BY <1>1, <1>2 DEF RowTypes, Places
    <3>2. claims' \in Nat
      <4>1. claims \in Nat /\ claims' = claims + 1
        BY <1>1, <1>2 DEF RowTypes
      <4> QED
        BY <4>1
    <3>3. \A q \in Projects : at'[q] = "reserve" => at[q] = "reserve"
      BY <1>1, <1>2 DEF RowTypes
    <3> QED
      BY <1>1, <1>2, <3>1, <3>2, <3>3 DEF RowTypes, FaceInHand, PageInv, RowInv
  <2>2. RowIsHolders'
    BY <1>1, <1>2 DEF RowTypes, RowIsHolders, Holding, PageInv, RowInv, Note
  <2>3. ClearBeforeEdit'
    <3>1. SUFFICES ASSUME accidents' \intersect {"row lost", "reply lost"} = {}
                   PROVE  /\ claims' <= 1
                          /\ \A q \in Projects : at'[q] \in {"recheck", "edit"} => claims' = 0
      BY DEF ClearBeforeEdit
    <3>2. at' = [at EXCEPT ![p] = "record"] /\ accidents' = accidents
      BY <1>2, <3>1 DEF Note
    <3>3. claims = 0
      BY <1>1, <3>1, <3>2 DEF ClearBeforeEdit, PageInv
    <3>4. \A q \in Projects : at[q] \in Holding => q = p
      BY <1>1, <3>1, <3>2, HolderAlone DEF PageInv, Holding
    <3> QED
      BY <1>1, <1>2, <3>2, <3>3, <3>4 DEF Holding, RowTypes
  <2> QED
    BY <2>1, <2>2, <2>3 DEF PageInv, RowInv
<1>3. CASE Outcome(p, "other") /\ UNCHANGED <<row, claims, accidents>>
  <2>1. LetsGo(p)
    BY <1>1, <1>3 DEF LetsGo, Outcome, Goto, Holding, RowTypes
  <2> QED
    BY <2>1, LetsGoPage
<1> QED
  BY <1>2, <1>3 DEF Edit, TokenRefused, PageGone, Goto, faceDone

-----------------------------------------------------------------------------
(* Removals                                                                *)

(* A removal lowers the count and deletes the row: when that takes the row *)
(* from a run that holds the page, the accident is on record.              *)
RowGoes ==
    /\ row' = NoRow
    /\ accidents \subseteq accidents'
    /\ RowInUse => "row lost" \in accidents'

LEMMA NoHolder ==
    ASSUME RowInv, RowGoes, "row lost" \notin accidents'
    PROVE  \A q \in Projects : at[q] \notin Holding
    BY DEF RowInv, RowIsHolders, RowGoes, RowInUse

LEMMA ClearRowPage ==
    ASSUME PageInv, NEW p \in Projects, ClearRow(p)
    PROVE  PageInv'
<1>1. /\ at' = [at EXCEPT ![p] = "removing"] /\ UNCHANGED <<face, batch, claims>>
      /\ RowGoes
  BY DEF ClearRow, RowGoes, Note, Goto, faceDone
<1>2. RowTypes' /\ FaceInHand'
  BY <1>1 DEF RowTypes, FaceInHand, Places, PageInv, RowInv, RowGoes
<1>3. RowIsHolders'
  BY <1>1, NoHolder DEF RowTypes, RowIsHolders, Holding, PageInv, RowInv
<1>4. ClearBeforeEdit'
  BY <1>1 DEF RowTypes, ClearBeforeEdit, PageInv, RowInv, RowGoes
<1> QED
  BY <1>2, <1>3, <1>4 DEF PageInv, RowInv

LEMMA FewerStatements ==
    ASSUME ClearBeforeEdit, claims \in Nat, claims' \in Nat, claims' <= claims,
           accidents' = accidents,
           \A q \in Projects : at'[q] \in {"recheck", "edit"} => at[q] = at'[q]
    PROVE  ClearBeforeEdit'
<1>1. SUFFICES ASSUME accidents \intersect {"row lost", "reply lost"} = {}
               PROVE  /\ claims' <= 1
                      /\ \A q \in Projects : at'[q] \in {"recheck", "edit"} => claims' = 0
  BY DEF ClearBeforeEdit
<1>2. /\ claims <= 1
      /\ \A q \in Projects : at[q] \in {"recheck", "edit"} => claims = 0
  BY <1>1 DEF ClearBeforeEdit
<1>3. claims' <= 1 /\ (claims = 0 => claims' = 0)
  BY <1>2
<1> QED
  BY <1>2, <1>3

LEMMA RemovalSendPage ==
    ASSUME PageInv, NEW p \in Projects, RemovalSend(p)
    PROVE  PageInv'
<1>1. \E place \in {"settle", "removing"} : at' = [at EXCEPT ![p] = place]
  BY DEF RemovalSend, Goto
<1>2. UNCHANGED <<face, batch, row, accidents>>
  BY DEF RemovalSend, faceDone
<1>3. claims' = claims \/ claims' = IF claims > 0 THEN claims - 1 ELSE 0
  BY DEF RemovalSend, TakeOff
<1>4. claims' \in Nat /\ claims' <= claims
  BY <1>3 DEF PageInv, RowInv, RowTypes
<1>5. RowTypes' /\ FaceInHand'
  BY <1>1, <1>2, <1>4 DEF RowTypes, FaceInHand, Places, PageInv, RowInv
<1>6. RowIsHolders'
  BY <1>1, <1>2 DEF RowTypes, RowIsHolders, Holding, PageInv, RowInv
<1>7. ClearBeforeEdit'
  <2>1. \A q \in Projects : at'[q] \in {"recheck", "edit"} => at[q] = at'[q]
    BY <1>1 DEF PageInv, RowInv, RowTypes
  <2> QED
    BY <1>2, <1>4, <2>1, FewerStatements DEF PageInv, RowInv, RowTypes
<1> QED
  BY <1>5, <1>6, <1>7 DEF PageInv, RowInv

LEMMA RemovePage ==
    ASSUME PageInv, NEW u \in Users, Remove(u)
    PROVE  PageInv'
<1>1. UNCHANGED <<at, face, batch, row, accidents>>
  BY DEF Remove, runsKeep, runVars
<1>2. claims' = claims \/ claims' = IF claims > 0 THEN claims - 1 ELSE 0
  BY DEF Remove, TakeOff
<1>3. claims' \in Nat /\ claims' <= claims
  BY <1>2 DEF PageInv, RowInv, RowTypes
<1>4. RowInv'
  BY <1>1, <1>3 DEF RowTypes, FaceInHand, RowIsHolders, PageInv, RowInv
<1>5. ClearBeforeEdit'
  BY <1>1, <1>3, FewerStatements DEF PageInv, RowInv, RowTypes
<1> QED
  BY <1>4, <1>5 DEF PageInv

LEMMA RowGoesPage ==
    ASSUME PageInv, RowGoes, UNCHANGED <<at, face, batch, claims>>
    PROVE  PageInv'
<1>1. RowTypes' /\ FaceInHand'
  BY DEF RowTypes, FaceInHand, PageInv, RowInv, RowGoes
<1>2. RowIsHolders'
  BY NoHolder DEF RowIsHolders, PageInv
<1>3. ClearBeforeEdit'
  BY DEF ClearBeforeEdit, PageInv, RowGoes
<1> QED
  BY <1>1, <1>2, <1>3 DEF PageInv, RowInv

LEMMA ClearPage ==
    ASSUME PageInv, NEW u \in Users, Clear(u)
    PROVE  PageInv'
<1>1. UNCHANGED <<at, face, batch, claims>>
  BY DEF Clear, runsKeep, runVars
<1>2. CASE row' = NoRow /\ Note(RowInUse, "row lost")
  <2>1. RowGoes
    BY <1>2 DEF RowGoes, Note
  <2> QED
    BY <1>1, <2>1, RowGoesPage
<1>3. CASE UNCHANGED <<row, accidents>>
  BY <1>1, <1>3 DEF PageInv, RowInv, RowTypes, RowIsHolders, FaceInHand, ClearBeforeEdit
<1> QED
  BY <1>2, <1>3 DEF Clear

(* An undo deletes drawn faces, and with a face the row that names it.     *)
LEMMA UndoTxnPage ==
    ASSUME PageInv, NEW u \in Users, UndoTxn(u)
    PROVE  PageInv'
<1>1. UNCHANGED <<at, face, batch, claims>>
  BY DEF UndoTxn, runsKeep, runVars
<1>2. /\ row' = row \/ row' = NoRow
      /\ accidents \subseteq accidents'
      /\ RowInUse /\ row' = NoRow => "row lost" \in accidents'
  BY DEF UndoTxn
<1>3. CASE row' = NoRow
  <2>1. RowGoes
    BY <1>2, <1>3 DEF RowGoes
  <2> QED
    BY <1>1, <2>1, RowGoesPage
<1>4. CASE row' = row
  BY <1>1, <1>2, <1>4
     DEF PageInv, RowInv, RowTypes, RowIsHolders, FaceInHand, ClearBeforeEdit
<1> QED
  BY <1>2, <1>3, <1>4

LEMMA RowAgesPage == PageInv /\ RowAges => PageInv'
<1> SUFFICES ASSUME PageInv, RowAges PROVE PageInv'
  OBVIOUS
<1>1. UNCHANGED <<at, face, batch, claims, accidents>>
  BY DEF RowAges, runVars
<1>2. row \in Rows /\ row' = [row EXCEPT !.old = TRUE]
  BY DEF RowAges, PageInv, RowInv, RowTypes
<1>3. row' \in Rows /\ row'.project = row.project /\ row'.done = row.done
  BY <1>2 DEF Rows
<1>4. row' # NoRow
  BY <1>3, NoRowAssumption
<1> QED
  BY <1>1, <1>3, <1>4
     DEF PageInv, RowInv, RowTypes, RowIsHolders, FaceInHand, ClearBeforeEdit

-----------------------------------------------------------------------------
(* Every step                                                              *)

LEMMA RunStepPage ==
    ASSUME PageInv, NEW p \in Projects, RunStep(p) \/ Crash(p)
    PROVE  PageInv'
<1>1. CASE \/ StartRun(p) \/ AbortRun(p) \/ Select(p) \/ NextFace(p) \/ EndBatch(p)
           \/ Removing(p) \/ RemovalLookup(p) \/ Settle(p) \/ Finish(p) \/ Crash(p)
  BY <1>1, PlainRunSteps, AwayPage
<1>2. CASE Reserve(p)
  BY <1>2, ReservePage
<1>3. CASE Lookup(p)
  BY <1>3, LookupPage
<1>4. CASE Adopt(p) \/ Record(p)
  BY <1>4, LetsGoSteps
<1>5. CASE Recheck(p)
  BY <1>5, RecheckPage
<1>6. CASE Edit(p)
  BY <1>6, EditPage
<1>7. CASE RemovalSend(p)
  BY <1>7, RemovalSendPage
<1>8. CASE ClearRow(p)
  BY <1>8, ClearRowPage
<1> QED
  BY <1>1, <1>2, <1>3, <1>4, <1>5, <1>6, <1>7, <1>8 DEF RunStep

LEMMA ReviewsElsewhere ==
    ASSUME NEW u \in Users, ReviewStep(u),
           ~Remove(u), ~Clear(u), ~UndoTxn(u)
    PROVE  Elsewhere
<1> USE DEF Elsewhere, runsKeep, runVars
<1>1. ASSUME NEW f \in AllFaces, LoadFace(u, f) \/ EditLoad(u, f)
      PROVE  Elsewhere
  BY <1>1 DEF LoadFace, EditLoad
<1>2. ASSUME NEW f \in AllFaces, EditTxn(u, f)
      PROVE  Elsewhere
  BY <1>2 DEF EditTxn, Note
<1>3. ASSUME NEW f \in AllFaces, NEW review \in BOOLEAN,
             ClassifyTarget(u, f, review) \/ Draw(u, f, review)
      PROVE  Elsewhere
  BY <1>3 DEF ClassifyTarget, Draw
<1>4. ASSUME NEW p \in Projects, NEW review \in BOOLEAN, ClassifyNone(u, p, review)
      PROVE  Elsewhere
  BY <1>4 DEF ClassifyNone
<1>5. ASSUME NEW p \in Projects, Rerun(u, p)
      PROVE  Elsewhere
  BY <1>5 DEF Rerun, Note
<1>6. CASE Approve(u) \/ Check(u) \/ Mark(u) \/ RejectDecide(u) \/ RejectTxn(u)
  BY <1>6 DEF Approve, Check, Mark, RejectDecide, RejectTxn
<1>7. CASE UndoRead(u) \/ UndoContext(u) \/ GiveUp(u)
  BY <1>7 DEF UndoRead, UndoContext, GiveUp
<1> QED
  BY <1>1, <1>2, <1>3, <1>4, <1>5, <1>6, <1>7 DEF ReviewStep

LEMMA StepPage == PageInv /\ [Next]_vars => PageInv'
<1> SUFFICES ASSUME PageInv, [Next]_vars PROVE PageInv'
  OBVIOUS
<1>1. ASSUME NEW p \in Projects, RunStep(p) \/ Crash(p) PROVE PageInv'
  BY <1>1, RunStepPage
<1>2. ASSUME NEW p \in Projects, Shutdown(p) \/ Send(p) \/ StopEdits(p)
      PROVE  PageInv'
  <2>1. Elsewhere
    BY <1>2 DEF Shutdown, Send, StopEdits, Elsewhere, runVars
  <2> QED
    BY <2>1, ElsewherePage
<1>3. ASSUME NEW u \in Users, ReviewStep(u) PROVE PageInv'
  BY <1>3, RemovePage, ClearPage, UndoTxnPage, ReviewsElsewhere, ElsewherePage
<1>4. ASSUME NEW f \in AllFaces, Infer(f) PROVE PageInv'
  <2>1. Elsewhere
    BY <1>4 DEF Infer, Elsewhere, runVars
  <2> QED
    BY <2>1, ElsewherePage
<1>5. CASE RowAges
  BY <1>5, RowAgesPage
<1>6. CASE UNCHANGED vars
  <2>1. Elsewhere
    BY <1>6 DEF vars, Elsewhere, runVars
  <2> QED
    BY <2>1, ElsewherePage
<1> QED
  BY <1>1, <1>2, <1>3, <1>4, <1>5, <1>6 DEF Next

(* The run that reserved the page owns its row for as long as it holds the *)
(* page, whatever the other projects' runs, the reviews and the failures   *)
(* do (worker._reserve_claim), and finds no statement between its lookup   *)
(* and its edit.                                                           *)
THEOREM PageKept == Spec => []PageInv
<1>1. Init => PageInv
  BY InitPage
<1>2. PageInv /\ [Next]_vars => PageInv'
  BY StepPage
<1> QED
  BY <1>1, <1>2, PTL DEF Spec

(* No two projects' runs are between the reservation of one page and the   *)
(* record of their edits at once, unless a removal or a takeover took the  *)
(* row from one (worker._reserve_claim).                                   *)
THEOREM OneWriter == Spec => []OneWriterPerPage
<1>1. PageInv => OneWriterPerPage
  BY HolderAlone DEF PageInv, OneWriterPerPage
<1> QED
  BY <1>1, PageKept, PTL

(* With its row kept and every reply received, no run adds a statement the *)
(* page already has: lookup, reservation and record together are enough.   *)
THEOREM NoSecondStatement == Spec => []NoSecondClaim
<1>1. PageInv => NoSecondClaim
  BY DEF PageInv, ClearBeforeEdit, NoSecondClaim
<1> QED
  BY <1>1, PageKept, PTL
================================================================================
