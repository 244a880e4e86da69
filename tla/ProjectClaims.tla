---------------------------- MODULE ProjectClaims ----------------------------
(***************************************************************************)
(* How the background workers share the projects (worker.py): the claim    *)
(* columns of the projects table, the main loop of each worker with the    *)
(* SDC request queue it serves at any point of a cycle, the threads of its *)
(* executors, the shadow sweep thread, and the users who edit projects     *)
(* meanwhile.                                                              *)
(*                                                                         *)
(* A project is reduced to the predicates the claim queries test.  A claim *)
(* is "stale" once worker_claimed_at is CLAIM_EXPIRY_MINUTES old.          *)
(***************************************************************************)
EXTENDS Naturals, FiniteSets, FiniteSetsExt

CONSTANTS
    Workers,        \* worker ids: the --worker-id of each instance
    Projects,
    Nobody,         \* worker_claimed_by IS NULL
    NoProject,
    MaxConcurrent,  \* MAX_CONCURRENT_PROJECTS
    Sweeps,         \* the shadow sweep runs (LIFTWING_SWEEP_INTERVAL > 0)
    DbFails,        \* statements on the claim columns may fail
    SlowJobs,       \* a step of a job may outlast CLAIM_EXPIRY_MINUTES
    LongEdits,      \* a list of SDC runs may outlast CLAIM_EXPIRY_MINUTES
    UserStatuses,   \* statuses the owner may set while the run lasts
    MaxRequests,    \* bound: "send edits" requests
    MaxStops        \* bound: SIGTERMs and crashes

ASSUME WorkersAssumption == Nobody \notin Workers /\ NoProject \notin Projects
ASSUME LimitAssumption ==
    /\ MaxConcurrent \in Nat \ {0}
    /\ MaxRequests \in Nat /\ MaxStops \in Nat
ASSUME SwitchAssumption ==
    /\ Sweeps \in BOOLEAN /\ DbFails \in BOOLEAN
    /\ SlowJobs \in BOOLEAN /\ LongEdits \in BOOLEAN
Statuses == {"active", "paused", "completed", "deleted", "purged"}
ASSUME StatusAssumption == UserStatuses \subseteq Statuses \ {"purged"}

VARIABLES
    \* the projects table
    status,        \* projects.status; "purged": the row is gone
    pending,       \* no image yet, or one still to be processed
    unclassified,  \* a live face without verdict
    ready,         \* min_confirmed targets confirmed by people
    unchecked,     \* prefilter on and an image without LiftWing verdict
    sdcReq,        \* projects.sdc_write_requested
    owner,         \* projects.worker_claimed_by
    stale,         \* worker_claimed_at is older than the expiry
    \* each worker process
    at,            \* where its main thread is
    back,          \* where _process_sdc_writes was called from
    loop,          \* the _supervise loop the main thread is in
    todo, preClaimed, sdcNow,   \* _process_sdc_writes: rest of the list, pre_claimed_ids, current
    listed,        \* active_projects of the cycle, claimed and not yet submitted
    seen,          \* seen_ids of the cycle
    inline,        \* the project of _run_new_inference_projects
    job,           \* the executor's thread for a project
    sweep,         \* the project of the sweep thread
    stopping,      \* shutdown_requested
    nRequests, nStops

work   == <<status, pending, unclassified, ready, unchecked, sdcReq>>
claims == <<owner, stale>>
sdc    == <<todo, preClaimed, sdcNow>>
cycle  == <<listed, seen, inline>>
counts == <<nRequests, nStops>>
vars == <<work, claims, at, back, loop, sdc, cycle, job, sweep, stopping, counts>>

Places == {"down", "purge", "sdc", "sdcRun", "claim", "drain", "drainWait",
           "submit", "activeWait", "wakeClaim", "inline", "inlineRun", "sleep"}
Waits == {"drainWait", "activeWait"}
JobPhases == {"none", "start", "process", "infer", "release"}

(* The shape of the state: a claim column holds a worker or nothing, and   *)
(* what a worker has in hand are projects (_claim_active_projects etc.).   *)
TypeOK ==
    /\ status \in [Projects -> Statuses]
    /\ pending \in [Projects -> BOOLEAN]
    /\ unclassified \in [Projects -> BOOLEAN]
    /\ ready \in [Projects -> BOOLEAN]
    /\ unchecked \in [Projects -> BOOLEAN]
    /\ sdcReq \in [Projects -> BOOLEAN]
    /\ owner \in [Projects -> Workers \union {Nobody}]
    /\ stale \in [Projects -> BOOLEAN]
    /\ at \in [Workers -> Places]
    /\ back \in [Workers -> {"claim", "drainWait", "activeWait", "wakeClaim",
                             "inline", "sleep"}]
    /\ loop \in [Workers -> Waits]
    /\ todo \in [Workers -> SUBSET Projects]
    /\ preClaimed \in [Workers -> SUBSET Projects]
    /\ sdcNow \in [Workers -> Projects \union {NoProject}]
    /\ listed \in [Workers -> SUBSET Projects]
    /\ seen \in [Workers -> SUBSET Projects]
    /\ inline \in [Workers -> Projects \union {NoProject}]
    /\ job \in [Workers -> [Projects -> JobPhases]]
    /\ sweep \in [Workers -> Projects \union {NoProject}]
    /\ stopping \in [Workers -> BOOLEAN]
    /\ nRequests \in Nat /\ nStops \in Nat

-----------------------------------------------------------------------------
(* The claim queries *)

\* Mutants: the claim columns are not tested; the expiry is not tested.
ClaimedByAnyone(p) == TRUE
NeverStale(p) == owner[p] = Nobody
Free(p) == owner[p] = Nobody \/ stale[p]
Alive(p) == status[p] \notin {"deleted", "purged"}

ActiveWork(p) == status[p] = "active" /\ (pending[p] \/ unclassified[p])
InferenceWork(p) ==
    /\ status[p] = "completed" \/ (status[p] = "active" /\ ~pending[p])
    /\ ready[p] /\ unclassified[p]

ActiveCandidates == {p \in Projects : ActiveWork(p) /\ Free(p)}
InferenceCandidates == {p \in Projects : InferenceWork(p) /\ Free(p)}
SdcCandidates(w) ==
    {p \in Projects : sdcReq[p] /\ Alive(p) /\ (Free(p) \/ owner[p] = w)}
SweepCandidates ==
    {p \in Projects :
        /\ Alive(p) /\ unchecked[p] /\ ~sdcReq[p] /\ Free(p)
        /\ ~ActiveWork(p)
        /\ ~(status[p] = "completed" /\ unclassified[p] /\ ready[p])}

(* LIMIT n of the candidates, in an order the model leaves open; nothing   *)
(* when the transaction fails.                                             *)
Batches(candidates, n) ==
    LET size == IF Cardinality(candidates) < n THEN Cardinality(candidates) ELSE n
    IN  kSubset(size, candidates) \union (IF DbFails THEN {{}} ELSE {})

\* Mutant: the parameters of the UPDATE are swapped.
SwappedParameters(w, batch) ==
    /\ owner' = [p \in Projects |-> IF p \in batch THEN p ELSE owner[p]]
    /\ stale' = [p \in Projects |-> stale[p] /\ p \notin batch]
Claim(w, batch) ==
    /\ owner' = [p \in Projects |-> IF p \in batch THEN w ELSE owner[p]]
    /\ stale' = [p \in Projects |-> stale[p] /\ p \notin batch]

\* Mutant: the UPDATE does not ask whose claim it is.
ReleaseAnyones(w, batch) ==
    /\ owner' = [p \in Projects |-> IF p \in batch THEN Nobody ELSE owner[p]]
    /\ stale' = [p \in Projects |-> stale[p] /\ p \notin batch]

(* UPDATE ... SET worker_claimed_by = NULL WHERE id = p AND it is ours.    *)
Release(w, batch) ==
    \/ /\ owner' = [p \in Projects |->
             IF p \in batch /\ owner[p] = w THEN Nobody ELSE owner[p]]
       /\ stale' = [p \in Projects |-> stale[p] /\ owner'[p] # Nobody]
    \/ DbFails /\ UNCHANGED claims

Refresh(w, batch) ==
    /\ \/ stale' = [p \in Projects |-> stale[p] /\ ~(p \in batch /\ owner[p] = w)]
       \/ DbFails /\ UNCHANGED stale
    /\ UNCHANGED owner

StillActive(w, p) == status[p] = "active" /\ owner[p] = w

-----------------------------------------------------------------------------
Init ==
    /\ status = [p \in Projects |-> "active"]
    /\ pending = [p \in Projects |-> TRUE]
    /\ unclassified = [p \in Projects |-> FALSE]
    /\ ready = [p \in Projects |-> FALSE]
    /\ unchecked = [p \in Projects |-> Sweeps]
    /\ sdcReq = [p \in Projects |-> FALSE]
    /\ owner = [p \in Projects |-> Nobody]
    /\ stale = [p \in Projects |-> FALSE]
    /\ at = [w \in Workers |-> "purge"]
    /\ back = [w \in Workers |-> "claim"]
    /\ loop = [w \in Workers |-> "drainWait"]
    /\ todo = [w \in Workers |-> {}]
    /\ preClaimed = [w \in Workers |-> {}]
    /\ sdcNow = [w \in Workers |-> NoProject]
    /\ listed = [w \in Workers |-> {}]
    /\ seen = [w \in Workers |-> {}]
    /\ inline = [w \in Workers |-> NoProject]
    /\ job = [w \in Workers |-> [p \in Projects |-> "none"]]
    /\ sweep = [w \in Workers |-> NoProject]
    /\ stopping = [w \in Workers |-> FALSE]
    /\ nRequests = 0 /\ nStops = 0

Goto(w, place) == at' = [at EXCEPT ![w] = place]
Running(w) == {p \in Projects : job[w][p] # "none"}
Start(w, batch, phase) ==
    job' = [job EXCEPT ![w] =
        [p \in Projects |-> IF p \in batch THEN phase ELSE job[w][p]]]

(* _process_sdc_writes is entered, to return to place. *)
CallSdc(w, place) == Goto(w, "sdc") /\ back' = [back EXCEPT ![w] = place]

-----------------------------------------------------------------------------
(* Top of _run_cycle: deleted projects are archived and their rows go,     *)
(* whoever works on them.                                                  *)
Purgeable == {p \in Projects : status[p] = "deleted"}
Purge(w) ==
    /\ at[w] = "purge"
    /\ CallSdc(w, "claim")
    /\ \/ /\ status' = [p \in Projects |->
                          IF p \in Purgeable THEN "purged" ELSE status[p]]
          /\ sdcReq' = [p \in Projects |-> sdcReq[p] /\ p \notin Purgeable]
          /\ owner' = [p \in Projects |->
                          IF p \in Purgeable THEN Nobody ELSE owner[p]]
          /\ stale' = [p \in Projects |-> stale[p] /\ p \notin Purgeable]
          /\ UNCHANGED <<pending, unclassified, ready, unchecked>>
       \/ DbFails /\ UNCHANGED <<work, claims>>
    /\ UNCHANGED <<loop, sdc, cycle, job, sweep, stopping, counts>>

\* Mutant: every claim counts as made for the SDC run, and is released after it.
NothingIsOurs(w, batch) == {}
AlreadyClaimed(w, batch) == {p \in batch : owner[p] = w}

(* _claim_sdc_projects: requests nobody else works on, our own included.   *)
SdcClaim(w) ==
    /\ at[w] = "sdc"
    /\ \E batch \in Batches(SdcCandidates(w), MaxConcurrent) :
         /\ preClaimed' = [preClaimed EXCEPT ![w] = AlreadyClaimed(w, batch)]
         /\ Claim(w, batch)
         /\ todo' = [todo EXCEPT ![w] = batch]
    /\ Goto(w, "sdcRun")
    /\ UNCHANGED <<work, back, loop, sdcNow, cycle, job, sweep, stopping, counts>>

(* The next project of the list: its claim is refreshed, if it is still    *)
(* ours, and write_sdc_claims starts on it either way.                     *)
SdcBegin(w, p) ==
    /\ at[w] = "sdcRun" /\ sdcNow[w] = NoProject
    /\ p \in todo[w] /\ ~stopping[w]
    /\ todo' = [todo EXCEPT ![w] = @ \ {p}]
    /\ sdcNow' = [sdcNow EXCEPT ![w] = p]
    /\ Refresh(w, {p})
    /\ UNCHANGED <<work, at, back, loop, preClaimed, cycle, job, sweep,
                   stopping, counts>>

\* Mutant: the request survives its run.
RequestKept(p) == UNCHANGED sdcReq
ClearRequest(p) == sdcReq' = [sdcReq EXCEPT ![p] = FALSE]

(* write_sdc_claims ended: finished, aborted or failed (the request is     *)
(* cleared), or cancelled (the user had cleared it); then the claim is     *)
(* released unless it was ours before.                                     *)
SdcEnd(w, p) ==
    /\ sdcNow[w] = p
    /\ sdcNow' = [sdcNow EXCEPT ![w] = NoProject]
    /\ ClearRequest(p) \/ (DbFails /\ UNCHANGED sdcReq)
    /\ Release(w, {p} \ preClaimed[w])
    /\ UNCHANGED <<status, pending, unclassified, ready, unchecked, at, back,
                   loop, todo, preClaimed, cycle, job, sweep, stopping, counts>>

SdcReturn(w) ==
    /\ at[w] = "sdcRun" /\ sdcNow[w] = NoProject
    /\ todo[w] = {} \/ stopping[w]
    /\ todo' = [todo EXCEPT ![w] = {}]
    /\ preClaimed' = [preClaimed EXCEPT ![w] = {}]
    /\ Goto(w, back[w])
    /\ back' = [back EXCEPT ![w] = "claim"]
    /\ UNCHANGED <<work, claims, loop, sdcNow, cycle, job, sweep, stopping,
                   counts>>

ClaimActive(w) ==
    /\ at[w] = "claim"
    /\ \E batch \in Batches(ActiveCandidates, MaxConcurrent) :
         /\ Claim(w, batch)
         /\ listed' = [listed EXCEPT ![w] = batch]
    /\ seen' = [seen EXCEPT ![w] = {}]
    /\ Goto(w, "drain")
    /\ UNCHANGED <<work, back, loop, sdc, inline, job, sweep, stopping, counts>>

(* _drain_inference_queue, one turn of its loop: claims it will not run    *)
(* are given back, except those of the active projects.                    *)
Drain(w) ==
    /\ at[w] = "drain" /\ ~stopping[w]
    /\ \E batch \in Batches(InferenceCandidates, MaxConcurrent) :
         LET run == (batch \ listed[w]) \ seen[w]
             give == (batch \ run) \ listed[w]
         IN  /\ \E lost \in IF DbFails THEN SUBSET give ELSE {{}} :
                  owner' = [p \in Projects |->
                               IF p \in give \ lost THEN Nobody
                               ELSE IF p \in batch THEN w ELSE owner[p]]
             /\ stale' = [p \in Projects |-> stale[p] /\ p \notin batch]
             /\ Start(w, run, "infer")
             /\ seen' = [seen EXCEPT ![w] = @ \union run]
             /\ Goto(w, IF run = {} THEN "submit" ELSE "drainWait")
    /\ UNCHANGED <<work, back, loop, sdc, listed, inline, sweep, stopping, counts>>

DrainStopped(w) ==
    /\ at[w] = "drain" /\ stopping[w]
    /\ Goto(w, "submit")
    /\ UNCHANGED <<work, claims, back, loop, sdc, cycle, job, sweep, stopping,
                   counts>>

(* _process_active_projects: one thread per listed project. *)
Submit(w) ==
    /\ at[w] = "submit"
    /\ LET batch == IF stopping[w] THEN {} ELSE listed[w]
       IN  /\ Start(w, batch, "start")
           /\ seen' = [seen EXCEPT ![w] = @ \union batch]
    /\ listed' = [listed EXCEPT ![w] = {}]
    /\ loop' = [loop EXCEPT ![w] = IF listed[w] = {} THEN @ ELSE "activeWait"]
    /\ Goto(w, IF listed[w] = {} THEN "sleep" ELSE "activeWait")
    /\ UNCHANGED <<work, claims, back, sdc, inline, sweep, stopping, counts>>

-----------------------------------------------------------------------------
(* _supervise *)

Supervising(w) == at[w] \in Waits /\ Running(w) # {} /\ ~stopping[w]

(* Once a minute: refresh every claim we hold, look for ready inference.   *)
KeepAlive(w) ==
    /\ Supervising(w)
    /\ Refresh(w, Projects)
    /\ Goto(w, "inline")
    /\ UNCHANGED <<work, back, loop, sdc, cycle, job, sweep, stopping, counts>>

(* on_wake: SDC requests, then (active loop) new projects for the free     *)
(* slots, then ready inference.                                            *)
Wake(w) ==
    /\ Supervising(w)
    /\ CallSdc(w, IF at[w] = "activeWait" THEN "wakeClaim" ELSE "inline")
    /\ UNCHANGED <<work, claims, loop, sdc, cycle, job, sweep, stopping, counts>>

(* Every ten seconds, wake-up or not. *)
SdcCheck(w) ==
    /\ Supervising(w)
    /\ CallSdc(w, at[w])
    /\ UNCHANGED <<work, claims, loop, sdc, cycle, job, sweep, stopping, counts>>

(* A project seen before in this cycle is claimed all the same. *)
WakeClaim(w) ==
    /\ at[w] = "wakeClaim"
    /\ LET slots == MaxConcurrent - Cardinality(Running(w))
       IN  IF slots <= 0
           THEN UNCHANGED <<claims, job, seen>>
           ELSE \E batch \in Batches(ActiveCandidates, slots) :
                  /\ Claim(w, batch)
                  /\ Start(w, batch \ seen[w], "start")
                  /\ seen' = [seen EXCEPT ![w] = @ \union batch]
    /\ Goto(w, "inline")
    /\ UNCHANGED <<work, back, loop, sdc, listed, inline, sweep, stopping, counts>>

(* _run_new_inference_projects(1) *)
InlineClaim(w) ==
    /\ at[w] = "inline"
    /\ \E batch \in Batches(InferenceCandidates, 1) :
         /\ Claim(w, batch)
         /\ inline' = [inline EXCEPT ![w] =
                IF batch = {} THEN NoProject ELSE CHOOSE p \in batch : TRUE]
         /\ Goto(w, IF batch = {} THEN loop[w] ELSE "inlineRun")
    /\ UNCHANGED <<work, back, loop, sdc, listed, seen, job, sweep, stopping,
                   counts>>

(* run_autonomous_inference: every waiting face, or none of them, gets a   *)
(* verdict; it refuses below min_confirmed.                                *)
Infer(p) ==
    unclassified' \in
        {unclassified} \union
        (IF ready[p] THEN {[unclassified EXCEPT ![p] = FALSE]} ELSE {})

InlineRun(w) ==
    /\ at[w] = "inlineRun"
    /\ Infer(inline[w])
    /\ Release(w, {inline[w]})
    /\ inline' = [inline EXCEPT ![w] = NoProject]
    /\ Goto(w, loop[w])
    /\ UNCHANGED <<status, pending, ready, unchecked, sdcReq, back, loop, sdc,
                   listed, seen, job, sweep, stopping, counts>>

(* The executor's with block ends when its threads have. *)
LoopDone(w) ==
    /\ at[w] \in Waits /\ Running(w) = {}
    /\ Goto(w, IF at[w] = "drainWait" THEN "drain" ELSE "sleep")
    /\ loop' = [loop EXCEPT ![w] = "drainWait"]
    /\ UNCHANGED <<work, claims, back, sdc, cycle, job, sweep, stopping, counts>>

SleepSdc(w) ==
    /\ at[w] = "sleep" /\ ~stopping[w]
    /\ CallSdc(w, "sleep")
    /\ UNCHANGED <<work, claims, loop, sdc, cycle, job, sweep, stopping, counts>>

NextCycle(w) ==
    /\ at[w] = "sleep" /\ ~stopping[w]
    /\ Goto(w, "purge")
    /\ UNCHANGED <<work, claims, back, loop, sdc, cycle, job, sweep, stopping,
                   counts>>

-----------------------------------------------------------------------------
(* The threads of the executors *)

SetJob(w, p, phase) == job' = [job EXCEPT ![w][p] = phase]
threadsKeep == <<at, back, loop, sdc, cycle, sweep, stopping, counts>>

(* _project_still_active, at the start and between the stages of           *)
(* process_project; a database error counts as still active.               *)
JobCheck(w, p) ==
    /\ job[w][p] \in {"start", "process"}
    /\ \/ /\ StillActive(w, p)
          /\ SetJob(w, p, "process")
          /\ Refresh(w, {p})
       \/ /\ ~StillActive(w, p)
          /\ SetJob(w, p, "release")
          /\ UNCHANGED claims
       \/ DbFails /\ SetJob(w, p, "process") /\ UNCHANGED claims
    /\ UNCHANGED <<work, threadsKeep>>

(* What the stages do between two checks: images found and processed, the  *)
(* LiftWing verdicts recorded, the waiting faces classified, an unusable   *)
(* project completed.                                                      *)
JobWork(w, p) ==
    /\ job[w][p] = "process" /\ status[p] # "purged"
    /\ \/ /\ pending' \in {pending, [pending EXCEPT ![p] = ~pending[p]]}
          /\ unclassified' \in {unclassified, [unclassified EXCEPT ![p] = TRUE]}
          /\ UNCHANGED <<status, ready, unchecked>>
       \/ /\ unchecked' = [unchecked EXCEPT ![p] = FALSE]
          /\ UNCHANGED <<status, pending, unclassified, ready>>
       \/ /\ ~pending[p] /\ Infer(p)
          /\ UNCHANGED <<status, pending, ready, unchecked>>
       \/ /\ ~pending[p] /\ ~ready[p] /\ status[p] = "active"
          /\ status' = [status EXCEPT ![p] = "completed"]
          /\ UNCHANGED <<pending, unclassified, ready, unchecked>>
    /\ UNCHANGED <<sdcReq, claims, job, threadsKeep>>

JobEnd(w, p) ==
    /\ job[w][p] = "process"
    /\ SetJob(w, p, "release")
    /\ UNCHANGED <<work, claims, threadsKeep>>

InferJob(w, p) ==
    /\ job[w][p] = "infer"
    /\ Infer(p)
    /\ SetJob(w, p, "release")
    /\ UNCHANGED <<status, pending, ready, unchecked, sdcReq, claims, threadsKeep>>

(* _process_and_release, _infer_and_release *)
JobRelease(w, p) ==
    /\ job[w][p] = "release"
    /\ Release(w, {p})
    /\ SetJob(w, p, "none")
    /\ UNCHANGED <<work, threadsKeep>>

-----------------------------------------------------------------------------
(* The sweep thread: one pass over one project, which may leave images for *)
(* the next; then the claim goes.                                          *)
SweepClaim(w) ==
    /\ Sweeps /\ at[w] # "down" /\ ~stopping[w] /\ sweep[w] = NoProject
    /\ \E p \in SweepCandidates :
         /\ Claim(w, {p})
         /\ sweep' = [sweep EXCEPT ![w] = p]
    /\ UNCHANGED <<work, at, back, loop, sdc, cycle, job, stopping, counts>>

SweepEnd(w) ==
    /\ sweep[w] # NoProject
    /\ unchecked' \in {unchecked, [unchecked EXCEPT ![sweep[w]] = FALSE]}
    /\ Release(w, {sweep[w]})
    /\ sweep' = [sweep EXCEPT ![w] = NoProject]
    /\ UNCHANGED <<status, pending, unclassified, ready, sdcReq, at, back, loop,
                   sdc, cycle, job, stopping, counts>>

-----------------------------------------------------------------------------
(* Stop, crash and restart of a worker process *)

Signal(w) ==
    /\ at[w] # "down" /\ ~stopping[w] /\ nStops < MaxStops
    /\ stopping' = [stopping EXCEPT ![w] = TRUE]
    /\ nStops' = nStops + 1
    /\ UNCHANGED <<work, claims, at, back, loop, sdc, cycle, job, sweep, nRequests>>

ProcessGone(w) ==
    /\ Goto(w, "down")
    /\ todo' = [todo EXCEPT ![w] = {}]
    /\ preClaimed' = [preClaimed EXCEPT ![w] = {}]
    /\ sdcNow' = [sdcNow EXCEPT ![w] = NoProject]
    /\ listed' = [listed EXCEPT ![w] = {}]
    /\ seen' = [seen EXCEPT ![w] = {}]
    /\ inline' = [inline EXCEPT ![w] = NoProject]
    /\ job' = [job EXCEPT ![w] = [p \in Projects |-> "none"]]
    /\ sweep' = [sweep EXCEPT ![w] = NoProject]
    /\ stopping' = [stopping EXCEPT ![w] = FALSE]
    /\ back' = [back EXCEPT ![w] = "claim"]
    /\ loop' = [loop EXCEPT ![w] = "drainWait"]
    /\ UNCHANGED <<work, nRequests>>

(* _release_resources: the sweep is given SWEEP_JOIN_TIMEOUT to end, then  *)
(* all claims are released.                                                *)
Shutdown(w) ==
    /\ at[w] = "sleep" /\ stopping[w]
    /\ Release(w, Projects)
    /\ ProcessGone(w)
    /\ UNCHANGED nStops

Crash(w) ==
    /\ at[w] # "down" /\ nStops < MaxStops
    /\ nStops' = nStops + 1
    /\ ProcessGone(w)
    /\ UNCHANGED claims

Restart(w) ==
    /\ at[w] = "down"
    /\ Goto(w, "purge")
    /\ UNCHANGED <<work, claims, back, loop, sdc, cycle, job, sweep, stopping, counts>>

(* worker_claimed_at grows old unless something keeps refreshing it: the   *)
(* supervise loop (all claims), the current SDC run and the sweep (their   *)
(* own project), and a job that comes to its next check in time.  What is  *)
(* claimed and waits for its turn waits that long only behind long SDC     *)
(* runs.  When statements fail, nothing need keep it fresh.                *)
KeptFresh(w, p) ==
    \/ Supervising(w)
    \/ p \in {inline[w], sdcNow[w], sweep[w]}
    \/ job[w][p] # "none"
    \/ p \in listed[w] \union todo[w] /\ (LongEdits => sdcNow[w] = NoProject)
Expire(p) ==
    /\ owner[p] # Nobody /\ ~stale[p]
    /\ SlowJobs \/ DbFails \/ ~KeptFresh(owner[p], p)
    /\ stale' = [stale EXCEPT ![p] = TRUE]
    /\ UNCHANGED <<work, owner, threadsKeep, job>>

-----------------------------------------------------------------------------
(* The web app *)

userKeeps == <<claims, threadsKeep, job>>

DeleteProject(p) ==
    /\ Alive(p) /\ "deleted" \in UserStatuses
    /\ status' = [status EXCEPT ![p] = "deleted"]
    /\ UNCHANGED <<pending, unclassified, ready, unchecked, sdcReq, userKeeps>>

(* The handlers of the settings and of "send edits" look the project up    *)
(* and write to it later by its id alone: a delete may come in between.    *)
SaveSettings(p) ==
    /\ status[p] # "purged"
    /\ \E s \in UserStatuses \ {"deleted"} : status' = [status EXCEPT ![p] = s]
    /\ UNCHANGED <<pending, unclassified, ready, unchecked, sdcReq, userKeeps>>

HasFaces(p) == ~pending[p] \/ unclassified[p] \/ ready[p]

(* People confirm targets; the last waiting face may be among them. *)
Classify(p) ==
    /\ Alive(p) /\ HasFaces(p)
    /\ ready' = [ready EXCEPT ![p] = TRUE]
    /\ unclassified' \in {unclassified, [unclassified EXCEPT ![p] = FALSE]}
    /\ UNCHANGED <<status, pending, unchecked, sdcReq, userKeeps>>

(* An undo, or a re-run of the model. *)
Reopen(p) ==
    /\ Alive(p) /\ ready[p]
    /\ unclassified' = [unclassified EXCEPT ![p] = TRUE]
    /\ ready' \in {ready, [ready EXCEPT ![p] = FALSE]}
    /\ UNCHANGED <<status, pending, unchecked, sdcReq, userKeeps>>

SendEdits(p) ==
    /\ status[p] # "purged" /\ HasFaces(p) /\ ~sdcReq[p]
    /\ nRequests < MaxRequests
    /\ sdcReq' = [sdcReq EXCEPT ![p] = TRUE]
    /\ nRequests' = nRequests + 1
    /\ UNCHANGED <<status, pending, unclassified, ready, unchecked, claims, at,
                   back, loop, sdc, cycle, job, sweep, stopping, nStops>>

StopEdits(p) ==
    /\ status[p] # "purged" /\ sdcReq[p]
    /\ sdcReq' = [sdcReq EXCEPT ![p] = FALSE]
    /\ UNCHANGED <<status, pending, unclassified, ready, unchecked, userKeeps>>

-----------------------------------------------------------------------------
MainStep(w) ==
    \/ Purge(w) \/ SdcClaim(w) \/ SdcReturn(w) \/ ClaimActive(w) \/ Drain(w)
    \/ DrainStopped(w) \/ Submit(w) \/ WakeClaim(w) \/ InlineClaim(w)
    \/ InlineRun(w) \/ LoopDone(w)
    \/ \E p \in Projects : SdcBegin(w, p) \/ SdcEnd(w, p)
LoopStep(w) == KeepAlive(w) \/ Wake(w) \/ SdcCheck(w) \/ SleepSdc(w) \/ NextCycle(w)
JobStep(w, p) ==
    \/ JobCheck(w, p) \/ JobWork(w, p) \/ JobEnd(w, p) \/ InferJob(w, p)
    \/ JobRelease(w, p)
WorkerStep(w) ==
    \/ MainStep(w) \/ LoopStep(w) \/ SweepClaim(w) \/ SweepEnd(w)
    \/ \E p \in Projects : JobStep(w, p)
    \/ Signal(w) \/ Shutdown(w) \/ Crash(w) \/ Restart(w)
UserStep(p) ==
    \/ DeleteProject(p) \/ SaveSettings(p) \/ Classify(p) \/ Reopen(p)
    \/ SendEdits(p) \/ StopEdits(p)

Next ==
    \/ \E w \in Workers : WorkerStep(w)
    \/ \E p \in Projects : Expire(p) \/ UserStep(p)

Spec == Init /\ [][Next]_vars

JobProgress(w, p) ==
    \/ job[w][p] = "start" /\ JobCheck(w, p)
    \/ JobEnd(w, p) \/ InferJob(w, p) \/ JobRelease(w, p)

(* Threads keep running; a stopped or crashed worker is started again      *)
(* (Toolforge restarts a failed job); claims nothing refreshes expire.     *)
(* Strong fairness where the code has a timer or jitter: the sleep ends    *)
(* after POLL_INTERVAL seconds whatever else is done in it, a wait looks   *)
(* for SDC requests every ten seconds, and the random part of the sleep    *)
(* keeps two workers from missing each other's free moments for ever.      *)
Fairness ==
    /\ \A w \in Workers :
         /\ WF_vars(MainStep(w) \/ Shutdown(w) \/ Restart(w))
         /\ SF_vars(NextCycle(w)) /\ SF_vars(SdcCheck(w))
         /\ SF_vars(SdcClaim(w) /\ todo'[w] # {})
         /\ WF_vars(SweepEnd(w))
         /\ \A p \in Projects : WF_vars(JobProgress(w, p))
    /\ \A p \in Projects : WF_vars(Expire(p))
FairSpec == Spec /\ Fairness

-----------------------------------------------------------------------------
(* PROPERTIES *)

Pipeline(w) ==
    {p \in Projects : job[w][p] \in {"process", "infer"}} \union
    ({inline[w]} \ {NoProject})

(* While jobs come to their next check within the claim's lifetime and the *)
(* database answers, a thread that classifies or fills a project works     *)
(* under its own worker's claim: no release, sweep, SDC run, shutdown or   *)
(* takeover of a forgotten claim pulls it away (worker._release_project).  *)
WorkIsClaimed ==
    \A w \in Workers : \A p \in Pipeline(w) :
        status[p] # "purged" => owner[p] = w

(* Two pipeline threads, of two workers or of one (a job of the executor   *)
(* and the inference that runs inline), never share a project: the claim   *)
(* queries, and _project_still_active between the stages, keep them apart. *)
OnePipelinePerProject ==
    \A v, w \in Workers :
        \A p \in Pipeline(v) \intersect Pipeline(w) :
            /\ v = w
            /\ ~(inline[w] = p /\ job[w][p] \in {"process", "infer"})

(* Even when jobs outlast their claims, statements fail and workers die, a *)
(* worker never touches a claim of another that has not expired: neither   *)
(* by claiming nor by the late release of a project it lost meanwhile.     *)
DoesNotMove(v) ==
    UNCHANGED <<at[v], sdcNow[v], inline[v], job[v], sweep[v]>>
ForeignClaimsAreRespected ==
    [][\A p \in Projects :
          owner[p] # Nobody /\ owner'[p] # owner[p] /\ status'[p] # "purged"
          => \/ stale[p]
             \/ owner'[p] = Nobody /\ \A v \in Workers \ {owner[p]} : DoesNotMove(v)]_vars

(* The claim is there so that the other worker does not write the same SDC *)
(* queue concurrently (worker.py, _keepalive_sdc_write).                   *)
OneSdcRun ==
    \A v, w \in Workers :
        sdcNow[v] = sdcNow[w] /\ sdcNow[w] # NoProject => v = w

(* A request to send edits is answered, whichever worker dies or restarts. *)
RequestsAreServed == \A p \in Projects : sdcReq[p] ~> ~sdcReq[p]

(* A project with pipeline work gets a thread, also when the worker that   *)
(* claimed it crashed or forgot it.                                        *)
WorkIsPickedUp ==
    \A p \in Projects :
        ActiveWork(p) ~> ~ActiveWork(p) \/ \E w \in Workers : p \in Pipeline(w)
=============================================================================
