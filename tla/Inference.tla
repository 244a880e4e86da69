------------------------------- MODULE Inference -------------------------------
(***************************************************************************)
(* One project whose images are all processed: the verdicts on its faces,  *)
(* the worker's autonomous inference on them (worker.py,                   *)
(* run_autonomous_inference and _persist_inference_batch), and what the    *)
(* web app's reviewers and its re-run do to the same rows (app.py).        *)
(* The runs of the worker are steps of their own: the gate, the snapshot   *)
(* and every batch are separate transactions. Each human action is one     *)
(* transaction; what it does to the claims on Commons is in SdcClaims, and *)
(* here any outcome.                                                       *)
(***************************************************************************)
EXTENDS Naturals, FiniteSets

CONSTANTS
    RunsOf,      \* the threads of the workers that may run inference
    Users,
    Faces,
    ImageOf,     \* the image of a face
    Distance,    \* of a face to the centroid of the confirmed ones
    Usable,      \* faces with a sound embedding of the current model
    Settings,    \* [threshold, min] the owner may save
    FirstSetting,
    BatchSize,   \* UPDATE_BATCH_SIZE
    FirstTargets,\* faces with a verdict at the start, on images with a claim
    FirstBy,     \* and whose it is
    Nobody, Model, Bootstrap

ASSUME InferenceAssumption ==
    /\ IsFiniteSet(Faces) /\ Usable \subseteq Faces /\ FirstTargets \subseteq Faces
    /\ FirstBy \in Users \union {Bootstrap}
    /\ Distance \in [Faces -> Nat]
    /\ \A s \in Settings : s.threshold \in Nat /\ s.min \in Nat
    /\ FirstSetting \in Settings
    /\ BatchSize \in Nat \ {0}
    /\ {Nobody, Model, Bootstrap} \intersect Users = {}
    /\ Nobody # Model /\ Nobody # Bootstrap /\ Model # Bootstrap

VARIABLES
    status,      \* projects.status
    setting,     \* distance_threshold and min_confirmed
    verdict,     \* faces.is_target
    by,          \* classified_by_user_id, or classified_by where there is none
    queued,      \* sdc_removal_pending = 1
    run          \* the inference runs under way
project == <<status, setting>>
rows == <<verdict, by, queued>>
inferenceVars == <<status, setting, verdict, by, queued, run>>

Statuses == {"active", "paused", "completed", "deleted"}
NoRun == [phase |-> "none", use |-> FirstSetting, todo |-> {}, match |-> {}]
RunStates == [phase : {"none", "gate", "select", "persist"}, use : Settings,
              todo : SUBSET Faces, match : SUBSET Faces]

FacesTypeOK ==
    /\ status \in Statuses /\ setting \in Settings
    /\ verdict \in [Faces -> {"open", "target", "not"}]
    /\ by \in [Faces -> Users \union {Nobody, Model, Bootstrap}]
    /\ queued \subseteq Faces
    /\ run \in [RunsOf -> RunStates]
    /\ \A r \in RunsOf : run[r].match \subseteq run[r].todo
    \* classified_by and classified_by_user_id go with is_target.
    /\ \A f \in Faces : verdict[f] = "open" <=> by[f] = Nobody

InferenceInit ==
    /\ status = "active" /\ setting = FirstSetting
    /\ verdict = [f \in Faces |-> IF f \in FirstTargets THEN "target" ELSE "open"]
    /\ by = [f \in Faces |-> IF f \in FirstTargets THEN FirstBy ELSE Nobody]
    /\ queued = {}
    /\ run = [r \in RunsOf |-> NoRun]

-----------------------------------------------------------------------------
Open == {f \in Faces : verdict[f] = "open"}
Targets == {f \in Faces : verdict[f] = "target"}
On(i) == {f \in Faces : ImageOf[f] = i}
Siblings(f) == On(ImageOf[f]) \ {f}
HumanTargets == {f \in Targets : by[f] \in Users}

Runnable == status \in {"active", "completed"}
GateOpen(s) == Cardinality(HumanTargets) >= s.min

\* _claim_inference_projects; and _claim_active_projects, whose pipeline
\* (process_project) infers when it finds no image to process. Neither asks
\* whether an open face is of use to the model.
InferenceWork == Runnable /\ GateOpen(setting) /\ Open \ queued # {}
ActiveWork == status = "active" /\ Open # {}
Begin(r) ==
    /\ run[r].phase = "none"
    /\ InferenceWork \/ ActiveWork
    /\ run' = [run EXCEPT ![r] = [NoRun EXCEPT !.phase = "gate", !.use = setting]]
    /\ UNCHANGED <<project, rows>>

\* The gate counts what people confirmed, the centroid takes every target.
Gate(r) ==
    /\ run[r].phase = "gate"
    /\ run' = [run EXCEPT ![r] = IF GateOpen(run[r].use) /\ Targets \intersect Usable # {}
                                 THEN [@ EXCEPT !.phase = "select"] ELSE NoRun]
    /\ UNCHANGED <<project, rows>>

\* The snapshot of the candidates, whatever their siblings are, and the closest
\* of each image that is below the threshold.
EveryOpen == Open                                                  \* mutant
Unasked == Open \ queued
OnUntouchedImages ==                                               \* mutant
    {f \in Unasked \intersect Usable : Siblings(f) \intersect Targets = {}}
Candidates == Unasked \intersect Usable
Closest(s, i) ==
    {f \in Candidates \intersect On(i) :
        /\ Distance[f] < s.threshold
        /\ \A g \in Candidates \intersect On(i) : Distance[f] <= Distance[g]}
OneOfEach(m, s) ==
    \A i \in {ImageOf[f] : f \in Candidates} :
        \/ Closest(s, i) = {} /\ m \intersect On(i) = {}
        \/ \E f \in Closest(s, i) : m \intersect On(i) = {f}
Select(r) ==
    /\ run[r].phase = "select"
    /\ \E m \in SUBSET Candidates :
         /\ OneOfEach(m, run[r].use)
         /\ run' = [run EXCEPT ![r] = [@ EXCEPT !.phase = "persist", !.todo = Candidates, !.match = m]]
    /\ UNCHANGED <<project, rows>>

\* _persist_inference_batch: the rows are read again under the project's lock,
\* and a match gives way to a target its image has now.
AsSelected(b) == b                                                 \* mutant
Live(b) == b \intersect Unasked
NoVeto(m) == m                                                     \* mutant
Matches(m) == {f \in m : On(ImageOf[f]) \intersect Targets = {}}
Classify(live, match) ==
    /\ verdict' = [f \in Faces |-> IF f \notin live THEN verdict[f]
                                   ELSE IF f \in match THEN "target" ELSE "not"]
    /\ by' = [f \in Faces |-> IF f \in live THEN Model ELSE by[f]]
Batches(todo) ==
    {b \in SUBSET todo : \/ Cardinality(b) = BatchSize
                         \/ b = todo /\ Cardinality(todo) < BatchSize}
Persist(r) ==
    /\ run[r].phase = "persist" /\ run[r].todo # {}
    /\ \E b \in Batches(run[r].todo) :
         /\ IF Runnable THEN Classify(Live(b), Matches(Live(b) \intersect run[r].match))
                        ELSE UNCHANGED <<verdict, by>>
         /\ run' = [run EXCEPT ![r] = [@ EXCEPT !.todo = run[r].todo \ b,
                                                !.match = run[r].match \ b]]
    /\ UNCHANGED <<project, queued>>

\* The record of the run that follows (last_inference_threshold,
\* _record_inference_completion) decides nothing and is left out.
Finish(r) ==
    /\ run[r].phase = "persist" /\ run[r].todo = {}
    /\ run' = [run EXCEPT ![r] = NoRun]
    /\ UNCHANGED <<project, rows>>

\* A statement fails and ends the run: the batches written stay.
Break(r) ==
    /\ run[r].phase # "none"
    /\ run' = [run EXCEPT ![r] = NoRun]
    /\ UNCHANGED <<project, rows>>

RunStep(r) == Gate(r) \/ Select(r) \/ Persist(r) \/ Finish(r)

-----------------------------------------------------------------------------
\* What the web app does to the rows, once its transaction has made sure that
\* `u' may: api_classify, api_reclassify, api_undo_classify, and the re-run.
\* Whether a claim was written for a face is not kept here (SdcClaims).

Bootstrapped == {ImageOf[f] : f \in FirstTargets}
Put(u, targets, nots) ==
    /\ verdict' = [f \in Faces |-> IF f \in targets THEN "target"
                                   ELSE IF f \in nots THEN "not" ELSE verdict[f]]
    /\ by' = [f \in Faces |-> IF f \in targets \union nots THEN u ELSE by[f]]

\* The faces a classify page is about: the open ones of an image, or those the
\* model rejected.
Shown(i, review) ==
    {f \in On(i) : IF review THEN verdict[f] = "not" /\ by[f] = Model ELSE verdict[f] = "open"}
ClassifyNone(u, i, review) ==
    /\ Put(u, {}, Shown(i, review))
    /\ queued' = IF i \in Bootstrapped /\ (On(i) \ Shown(i, review)) \intersect Targets = {}
                 THEN queued \union Shown(i, review) ELSE queued
ClassifyTarget(u, f, review) ==
    LET shown == Shown(ImageOf[f], review) IN
    /\ Put(u, {f} \intersect shown, shown \ {f})
    /\ queued' = queued \ ({f} \intersect shown)

\* Another reviewer's verdict is refused (409), and stays. A rejection queues
\* the removal of the claim, or has removed it.
MayReview(u, f) == by[f] \in {Nobody, Model, Bootstrap, u}
Reject(u, f) ==
    /\ MayReview(u, f)
    /\ Put(u, {}, {f})
    /\ queued' \in {queued \ {f}, queued \union {f}}
\* A newly approved face replaces the image's other targets, and queues the
\* removal of those with a claim. Whether it is new was read before the transaction.
Approve(u, f) ==
    /\ MayReview(u, f)
    /\ \/ LET demoted == Siblings(f) \intersect Targets IN
          /\ Put(u, {f}, demoted)
          /\ \E due \in SUBSET demoted : queued' = (queued \ On(ImageOf[f])) \union due
       \/ Put(u, {f}, {}) /\ queued' = queued \ {f}

\* (What an undo leaves of the author: a rejection of the model is its own again.)
StillModel(review) == Model                                        \* mutant
UndoneBy(review) == IF review THEN Model ELSE Nobody
\* An undo resets the faces it remembers, whatever they are by now, and queues
\* the removal of a claim that is, or may be, on Commons.
Undo(these, review) ==
    /\ verdict' = [f \in Faces |-> IF f \notin these THEN verdict[f]
                                   ELSE IF review THEN "not" ELSE "open"]
    /\ by' = [f \in Faces |-> IF f \notin these THEN by[f]
                              ELSE UndoneBy(review)]
    /\ \E due \in SUBSET these : queued' = (queued \ these) \union due

\* Model verdicts whose face has no claim written are open again (refused too
\* while edits are being sent, see SdcClaims).
RerunAllowed == status # "paused" /\ GateOpen(setting)
Rerun ==
    \E reset \in SUBSET {f \in Faces : by[f] = Model} :
        /\ verdict' = [f \in Faces |-> IF f \in reset THEN "open" ELSE verdict[f]]
        /\ by' = [f \in Faces |-> IF f \in reset THEN Nobody ELSE by[f]]
        /\ UNCHANGED queued

\* The worker's SDC run (SdcClaims) takes off the queue a face whose image
\* keeps no other target.
Removal(f) ==
    /\ f \in queued /\ Siblings(f) \intersect Targets = {}
    /\ queued' = queued \ {f}
    /\ UNCHANGED <<status, setting, verdict, by, run>>
===============================================================================
