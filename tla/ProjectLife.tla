------------------------------ MODULE ProjectLife ------------------------------
(***************************************************************************)
(* The life of a project: its members come and go (app.py, project_join,   *)
(* project_leave, project_remove_member, project_unban_member), its owner  *)
(* changes it, its reviewers decide on faces, and the workers, woken by a  *)
(* counter or by the clock, let the model decide on the rest. Composes     *)
(* WakeCounter and Inference.                                              *)
(* A request of the web app is two steps: the check of access, on a        *)
(* connection of its own, and the transaction. Which claim a run has on    *)
(* the project is in ProjectClaims; here nothing keeps runs of two threads *)
(* apart, as after an expired claim.                                       *)
(***************************************************************************)
EXTENDS WakeCounter, Inference

CONSTANTS
    Owner,
    WorkerOf,      \* the worker a run belongs to
    MaxRequests    \* bound: requests to the web app

ASSUME ProjectAssumption ==
    /\ Owner \in Users /\ WorkerOf \in [RunsOf -> Workers]
    /\ MaxRequests \in Nat

VARIABLES
    member,      \* project_members.status, "none" without a row
    invited,     \* the project has a valid invite code
    doing,       \* the request a user has under way
    last,        \* session["last_classify"]
    requests,
    tried        \* seen_ids: the worker's cycle has had its turn at the project
desk == <<member, invited, doing, last, requests>>
vars == <<wakeVars, inferenceVars, desk, tried>>

Kinds == {"review", "own", "leave", "join"}
NothingDone == [faces |-> {}, review |-> FALSE]

TypeOK ==
    /\ WakeTypeOK /\ FacesTypeOK
    /\ member \in [Users -> {"none", "active", "banned"}]
    /\ invited \in BOOLEAN
    /\ doing \in [Users -> Kinds \union {"nothing", "wake"}]
    /\ last \in [Users -> [faces : SUBSET Faces, review : BOOLEAN]]
    /\ requests \in 0..MaxRequests
    /\ tried \in [Workers -> BOOLEAN]

Init ==
    /\ WakeInit /\ InferenceInit
    /\ member \in [Users -> {"none", "active"}] /\ member[Owner] = "none"
    /\ invited = TRUE
    /\ doing = [u \in Users |-> "nothing"]
    /\ last = [u \in Users |-> IF u = FirstBy THEN [NothingDone EXCEPT !.faces = FirstTargets]
                              ELSE NothingDone]
    /\ requests = 0
    /\ tried = [w \in Workers |-> FALSE]

-----------------------------------------------------------------------------
\* The web app.

Alive == status # "deleted"
Access(u) == Alive /\ (u = Owner \/ member[u] = "active")

Arrive(u, kind) ==
    /\ doing[u] = "nothing" /\ requests < MaxRequests
    /\ \/ kind = "review" /\ Access(u)
       \/ kind = "own" /\ Access(u) /\ u = Owner
       \/ kind = "leave" /\ Access(u) /\ u # Owner
       \/ kind = "join" /\ Alive /\ invited /\ u # Owner /\ member[u] = "none"
    /\ doing' = [doing EXCEPT ![u] = kind]
    /\ requests' = requests + 1
    /\ UNCHANGED <<wakeVars, inferenceVars, member, invited, last, tried>>

Done(u, kind, next) ==
    /\ doing[u] = kind
    /\ doing' = [doing EXCEPT ![u] = next]
    /\ UNCHANGED <<wakeVars, requests, tried>>

\* _assert_project_access_locked. A request that is refused (403, 409, a re-run
\* below the gate) or fails changes nothing.
NotAgain(u) == TRUE                                                \* mutant
StillHasAccess(u) == Access(u)
GiveUp(u) ==
    /\ doing[u] \in Kinds
    /\ doing' = [doing EXCEPT ![u] = "nothing"]
    /\ UNCHANGED <<wakeVars, inferenceVars, member, invited, last, requests, tried>>

Remember(u, these, review) == last' = [last EXCEPT ![u] = [faces |-> these, review |-> review]]
ReviewFace(u) ==
    /\ Done(u, "review", "nothing") /\ StillHasAccess(u)
    /\ \/ \E f \in Faces, review \in BOOLEAN :
            /\ Shown(ImageOf[f], review) # {}
            /\ ClassifyNone(u, ImageOf[f], review) \/ ClassifyTarget(u, f, review)
            /\ Remember(u, Shown(ImageOf[f], review), review)
       \/ \E f \in Faces : (Reject(u, f) \/ Approve(u, f)) /\ UNCHANGED last
       \/ /\ last[u].faces # {}
          /\ Undo(last[u].faces, last[u].review) /\ Remember(u, {}, FALSE)
    /\ UNCHANGED <<project, run, member, invited>>
RerunInference(u) ==
    /\ Done(u, "own", "wake") /\ StillHasAccess(u)
    /\ RerunAllowed /\ Rerun
    /\ UNCHANGED <<project, run, member, invited, last>>
\* request_wake, after the transaction and at best.
Wake(u) ==
    /\ doing[u] = "wake"
    /\ doing' = [doing EXCEPT ![u] = "nothing"]
    /\ RequestWake \/ UNCHANGED wakeVars
    /\ UNCHANGED <<inferenceVars, member, invited, last, requests, tried>>

\* The owner's other requests are single statements that check nothing again.
SaveSettings(u) ==
    /\ Done(u, "own", "nothing")
    /\ setting' \in Settings /\ status' \in Statuses \ {"deleted"}
    /\ UNCHANGED <<rows, run, member, invited, last>>
ChangeMembers(u) ==
    /\ Done(u, "own", "nothing")
    /\ \/ \E v \in Users : member[v] = "active" /\ member' = [member EXCEPT ![v] = "banned"]
       \/ \E v \in Users : member[v] = "banned" /\ member' = [member EXCEPT ![v] = "none"]
    /\ UNCHANGED <<inferenceVars, invited, last>>
SwitchInvite(u) ==
    /\ Done(u, "own", "nothing")
    /\ invited' \in BOOLEAN
    /\ UNCHANGED <<inferenceVars, member, last>>
Delete ==
    /\ doing[Owner] = "nothing" /\ Alive /\ requests < MaxRequests
    /\ status' = "deleted" /\ requests' = requests + 1
    /\ UNCHANGED <<wakeVars, setting, rows, run, member, invited, doing, last, tried>>

AnyRow(u) == TRUE                                                  \* mutant
OwnRow(u) == member[u] = "active"
Leave(u) ==
    /\ Done(u, "leave", "nothing")
    /\ member' = IF OwnRow(u) THEN [member EXCEPT ![u] = "none"] ELSE member
    /\ UNCHANGED <<inferenceVars, invited, last>>
\* The INSERT fails where there is a row.
Join(u) ==
    /\ Done(u, "join", "nothing")
    /\ member' = IF member[u] = "none" THEN [member EXCEPT ![u] = "active"] ELSE member
    /\ UNCHANGED <<inferenceVars, invited, last>>

UserStep(u) ==
    \/ \E kind \in Kinds : Arrive(u, kind)
    \/ GiveUp(u) \/ ReviewFace(u) \/ RerunInference(u) \/ Wake(u)
    \/ SaveSettings(u) \/ ChangeMembers(u) \/ SwitchInvite(u) \/ Leave(u) \/ Join(u)

-----------------------------------------------------------------------------
\* The workers.

Resting(w) == \A r \in RunsOf : WorkerOf[r] = w => run[r].phase = "none"
BeginRun(w) == \E r \in RunsOf : WorkerOf[r] = w /\ Begin(r)

\* _drain_inference_queue: once per cycle, however long the project is eligible.
\* The pass of an active project's own pipeline, a phase later, is this turn too.
DrainRun(w) ==
    /\ place[w] = "drain" /\ ~tried[w] /\ BeginRun(w)
    /\ tried' = [tried EXCEPT ![w] = TRUE]
    /\ UNCHANGED <<wakeVars, desk>>
DrainEnds(w) ==
    /\ Drained(w) /\ Resting(w) /\ (tried[w] \/ ~(InferenceWork \/ ActiveWork))
    /\ UNCHANGED <<inferenceVars, desk, tried>>
\* _run_new_inference_projects, from the loop that waits for the threads: once
\* a minute, and on a wake-up.
KeepAlive(w) ==
    /\ place[w] \in {"drain", "busy"} /\ BeginRun(w)
    /\ UNCHANGED <<wakeVars, desk, tried>>
WakeUp(w) ==
    /\ OnWake(w)
    /\ BeginRun(w) \/ UNCHANGED <<inferenceVars>>
    /\ UNCHANGED <<desk, tried>>
CycleOver(w) ==
    /\ CycleEnds(w) /\ Resting(w)
    /\ UNCHANGED <<inferenceVars, desk, tried>>
CycleBegins(w) ==
    /\ NextCycle(w)
    /\ tried' = [tried EXCEPT ![w] = FALSE]
    /\ UNCHANGED <<inferenceVars, desk>>
Infer(r) == RunStep(r) /\ UNCHANGED <<wakeVars, desk, tried>>
RunFails(r) == Break(r) /\ StatementFails /\ UNCHANGED <<desk, tried>>
Watch(w) == Read(w) /\ UNCHANGED <<inferenceVars, desk, tried>>
Listen(w) ==
    /\ Prime(w) \/ Consume(w) \/ Restart(w)
    /\ UNCHANGED <<inferenceVars, desk, tried>>
Die(w) ==
    /\ Crash(w)
    /\ run' = [r \in RunsOf |-> IF WorkerOf[r] = w THEN NoRun ELSE run[r]]
    /\ tried' = [tried EXCEPT ![w] = FALSE]
    /\ UNCHANGED <<project, rows, desk>>

Next ==
    \/ Delete
    \/ \E u \in Users : UserStep(u)
    \/ \E f \in Faces : Removal(f) /\ UNCHANGED <<wakeVars, desk, tried>>
    \/ \E w \in Workers :
         \/ DrainRun(w) \/ DrainEnds(w) \/ CycleOver(w) \/ CycleBegins(w)
         \/ KeepAlive(w) \/ WakeUp(w) \/ Watch(w) \/ Listen(w) \/ Die(w)
    \/ \E r \in RunsOf : Infer(r) \/ RunFails(r)

Spec == Init /\ [][Next]_vars

\* The main loop and its threads take their steps, however often a minute or a
\* wake-up comes first, and every sleep looks at the counter.
MainLoop(w) == DrainRun(w) \/ DrainEnds(w) \/ CycleOver(w) \/ CycleBegins(w)
Fairness ==
    /\ \A w \in Workers :
         /\ SF_vars(MainLoop(w)) /\ WF_vars(WakeUp(w) \/ Listen(w))
         /\ SF_vars(place[w] \in {"starting", "asleep"} /\ Watch(w))
    /\ \A r \in RunsOf : WF_vars(Infer(r))
FairSpec == Spec /\ Fairness

-----------------------------------------------------------------------------
\* "vetoes a match only when a live target still exists" (worker.py:2229-2231):
\* a run adds no match to an image that has a target by the time it writes,
\* whatever was there when it selected, and two runs add no two.
Matched(f) == verdict[f] # "target" /\ verdict'[f] = "target" /\ by'[f] = Model
MatchesRespectTargets ==
    [][\A f \in Faces : Matched(f) => \A g \in Siblings(f) : verdict'[g] # "target"]_vars

\* "A model guess must not re-target a face whose claim a human asked to remove"
\* (worker.py:2222-2224): no face is the model's match while its claim waits to
\* be taken off.
NoMatchUnderRemoval == \A f \in Targets : by[f] = Model => f \notin queued

\* A human verdict ends only by a reviewer's own request: no run, re-run or
\* worker step touches it.
HumanVerdictsStay ==
    [][\A f \in Faces : by[f] \in Users /\ <<verdict[f], by[f]>>' # <<verdict[f], by[f]>>
          => \E u \in Users : doing[u] = "review" /\ doing'[u] = "nothing"]_vars

\* "guarantee the user's access is still valid at commit time" (app.py:1754-1757):
\* what a request changes, its user could still change when it was committed.
AccessIsChecked ==
    [][\A u \in Users : doing[u] \in {"review", "own"} /\ doing'[u] # doing[u]
          /\ rows' # rows => Access(u)]_vars

\* "removed and banned from rejoining" (app.py:4285): only the owner's unban
\* ends a ban, whatever the banned user had under way.
BansHold ==
    [][\A u \in Users : member[u] = "banned" /\ member'[u] # "banned"
          => member'[u] = "none" /\ doing[Owner] = "own" /\ doing'[Owner] = "nothing"]_vars

\* A face the model can classify is classified, or a person or the owner has
\* taken the matter in hand (worker.py, _claim_inference_projects).
Waiting(f) ==
    /\ Runnable /\ GateOpen(setting) /\ Targets \intersect Usable # {}
    /\ f \in Unasked \intersect Usable
CandidatesAreClassified == \A f \in Faces : Waiting(f) ~> ~Waiting(f)
===============================================================================
