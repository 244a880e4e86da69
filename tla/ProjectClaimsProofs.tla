------------------------ MODULE ProjectClaimsProofs ------------------------
(***************************************************************************)
(* What holds of the claims for any number of workers and projects, with   *)
(* failing statements, slow jobs, crashes and restarts included.           *)
(***************************************************************************)
EXTENDS ProjectClaims, TLAPS

(* What a claim transaction returns are projects it selected from.         *)
LEMMA BatchesAreCandidates ==
    ASSUME NEW candidates \in SUBSET Projects, NEW n,
           NEW batch \in Batches(candidates, n)
    PROVE  batch \subseteq candidates
    BY DEF Batches, kSubset

LEMMA Candidates ==
    ASSUME NEW w \in Workers
    PROVE  /\ ActiveCandidates \subseteq Projects
           /\ InferenceCandidates \subseteq Projects
           /\ SdcCandidates(w) \subseteq Projects
           /\ SweepCandidates \subseteq Projects
    BY DEF ActiveCandidates, InferenceCandidates, SdcCandidates, SweepCandidates

LEMMA InitType == Init => TypeOK
    BY SwitchAssumption
       DEF Init, TypeOK, Statuses, Places, Waits, JobPhases

(* Claiming, releasing and refreshing write workers and nothing else.      *)
ClaimsType ==
    /\ owner \in [Projects -> Workers \union {Nobody}]
    /\ stale \in [Projects -> BOOLEAN]

LEMMA ClaimType ==
    ASSUME ClaimsType, NEW w \in Workers, NEW batch \in SUBSET Projects,
           Claim(w, batch)
    PROVE  ClaimsType'
    BY DEF Claim, ClaimsType

LEMMA ReleaseType ==
    ASSUME ClaimsType, NEW w \in Workers, NEW batch, Release(w, batch)
    PROVE  ClaimsType'
    BY DEF Release, ClaimsType, claims

LEMMA RefreshType ==
    ASSUME ClaimsType, NEW w \in Workers, NEW batch, Refresh(w, batch)
    PROVE  ClaimsType'
    BY DEF Refresh, ClaimsType

LEMMA TypeParts == TypeOK => ClaimsType
    BY DEF TypeOK, ClaimsType

-----------------------------------------------------------------------------
LEMMA MainStepType ==
    ASSUME TypeOK, NEW w \in Workers, MainStep(w)
    PROVE  TypeOK'
<1> USE DEF TypeOK, ClaimsType, Goto, work, claims, sdc, cycle, counts
<1>1. CASE Purge(w)
  <2>1. ClaimsType' /\ status' \in [Projects -> Statuses] /\ sdcReq' \in [Projects -> BOOLEAN]
    <3>1. CASE UNCHANGED <<work, claims>>
      BY <3>1
    <3>2. CASE status' = [p \in Projects |->
                             IF p \in Purgeable THEN "purged" ELSE status[p]]
               /\ sdcReq' = [p \in Projects |-> sdcReq[p] /\ p \notin Purgeable]
               /\ owner' = [p \in Projects |->
                               IF p \in Purgeable THEN Nobody ELSE owner[p]]
               /\ stale' = [p \in Projects |-> stale[p] /\ p \notin Purgeable]
      BY <3>2 DEF Statuses
    <3> QED
      BY <1>1, <3>1, <3>2 DEF Purge
  <2>2. at' \in [Workers -> Places]
    BY <1>1 DEF Purge, CallSdc, Places
  <2>3. back' = [back EXCEPT ![w] = "claim"]
    BY <1>1 DEF Purge, CallSdc
  <2>4. UNCHANGED <<pending, unclassified, ready, unchecked>>
    BY <1>1 DEF Purge
  <2> QED
    BY <1>1, <2>1, <2>2, <2>3, <2>4 DEF Purge
<1>2. CASE SdcClaim(w)
  <2>1. PICK batch \in Batches(SdcCandidates(w), MaxConcurrent) :
           /\ preClaimed' = [preClaimed EXCEPT ![w] = AlreadyClaimed(w, batch)]
           /\ Claim(w, batch)
           /\ todo' = [todo EXCEPT ![w] = batch]
    BY <1>2 DEF SdcClaim
  <2>2. batch \subseteq Projects /\ AlreadyClaimed(w, batch) \subseteq Projects
    BY Candidates, BatchesAreCandidates DEF AlreadyClaimed
  <2>3. ClaimsType'
    BY <2>1, <2>2, ClaimType
  <2> QED
    BY <1>2, <2>1, <2>2, <2>3 DEF SdcClaim, Places
<1>3. CASE SdcReturn(w)
    BY <1>3 DEF SdcReturn, Places
<1>4. CASE ClaimActive(w)
  <2>1. PICK batch \in Batches(ActiveCandidates, MaxConcurrent) :
           Claim(w, batch) /\ listed' = [listed EXCEPT ![w] = batch]
    BY <1>4 DEF ClaimActive
  <2>2. batch \subseteq Projects
    BY Candidates, BatchesAreCandidates
  <2>3. ClaimsType'
    BY <2>1, <2>2, ClaimType
  <2> QED
    BY <1>4, <2>1, <2>2, <2>3 DEF ClaimActive, Places
<1>5. CASE Drain(w)
  <2>1. PICK batch \in Batches(InferenceCandidates, MaxConcurrent) :
          LET run == (batch \ listed[w]) \ seen[w]
              give == (batch \ run) \ listed[w]
          IN  /\ \E lost \in IF DbFails THEN SUBSET give ELSE {{}} :
                   owner' = [p \in Projects |->
                               IF p \in give \ lost THEN Nobody
                               ELSE IF p \in batch THEN w ELSE owner[p]]
              /\ stale' = [p \in Projects |-> stale[p] /\ p \notin batch]
              /\ Start(w, run, "infer")
              /\ seen' = [seen EXCEPT ![w] = @ \union run]
              /\ Goto(w, IF run = {} THEN "submit" ELSE "drainWait")
    BY <1>5 DEF Drain
  <2>2. batch \subseteq Projects
    BY Candidates, BatchesAreCandidates
  <2>3. ClaimsType'
    BY <2>1, <2>2
  <2>4. job' \in [Workers -> [Projects -> JobPhases]]
    BY <2>1 DEF Start, JobPhases
  <2>5. seen' \in [Workers -> SUBSET Projects] /\ at' \in [Workers -> Places]
    BY <2>1, <2>2 DEF Places
  <2> QED
    BY <1>5, <2>3, <2>4, <2>5 DEF Drain
<1>6. CASE DrainStopped(w)
    BY <1>6 DEF DrainStopped, Places
<1>7. CASE Submit(w)
  <2>1. job' \in [Workers -> [Projects -> JobPhases]]
    BY <1>7 DEF Submit, Start, JobPhases
  <2>2. seen' \in [Workers -> SUBSET Projects]
    BY <1>7 DEF Submit
  <2>3. loop' \in [Workers -> Waits] /\ at' \in [Workers -> Places]
    BY <1>7 DEF Submit, Waits, Places
  <2> QED
    BY <1>7, <2>1, <2>2, <2>3 DEF Submit
<1>8. CASE WakeClaim(w)
  <2>1. /\ ClaimsType'
        /\ job' \in [Workers -> [Projects -> JobPhases]]
        /\ seen' \in [Workers -> SUBSET Projects]
    <3>1. CASE UNCHANGED <<claims, job, seen>>
      BY <3>1
    <3>2. ASSUME NEW slots, NEW batch \in Batches(ActiveCandidates, slots),
                 Claim(w, batch), Start(w, batch \ seen[w], "start"),
                 seen' = [seen EXCEPT ![w] = @ \union batch]
          PROVE  /\ ClaimsType'
                 /\ job' \in [Workers -> [Projects -> JobPhases]]
                 /\ seen' \in [Workers -> SUBSET Projects]
      <4>1. batch \subseteq Projects
        BY Candidates, BatchesAreCandidates
      <4>2. ClaimsType'
        BY <3>2, <4>1, ClaimType
      <4>3. job' \in [Workers -> [Projects -> JobPhases]]
        BY <3>2 DEF Start, JobPhases
      <4> QED
        BY <3>2, <4>1, <4>2, <4>3
    <3> QED
      BY <1>8, <3>1, <3>2 DEF WakeClaim
  <2> QED
    BY <1>8, <2>1 DEF WakeClaim, Places
<1>9. CASE InlineClaim(w)
  <2>1. PICK batch \in Batches(InferenceCandidates, 1) :
         /\ Claim(w, batch)
         /\ inline' = [inline EXCEPT ![w] =
                IF batch = {} THEN NoProject ELSE CHOOSE p \in batch : TRUE]
         /\ Goto(w, IF batch = {} THEN loop[w] ELSE "inlineRun")
    BY <1>9 DEF InlineClaim
  <2>2. batch \subseteq Projects
    BY Candidates, BatchesAreCandidates
  <2>3. ClaimsType'
    BY <2>1, <2>2, ClaimType
  <2>4. inline' \in [Workers -> Projects \union {NoProject}]
    BY <2>1, <2>2
  <2>5. at' \in [Workers -> Places]
    BY <2>1 DEF Places, Waits
  <2> QED
    BY <1>9, <2>3, <2>4, <2>5 DEF InlineClaim
<1>10. CASE InlineRun(w)
  <2>1. ClaimsType'
    BY <1>10, ReleaseType DEF InlineRun
  <2>2. unclassified' \in [Projects -> BOOLEAN]
    BY <1>10 DEF InlineRun, Infer
  <2>3. at' \in [Workers -> Places]
    BY <1>10 DEF InlineRun, Places, Waits
  <2> QED
    BY <1>10, <2>1, <2>2, <2>3 DEF InlineRun
<1>11. CASE LoopDone(w)
    BY <1>11 DEF LoopDone, Places, Waits
<1>12. ASSUME NEW p \in Projects, SdcBegin(w, p) PROVE TypeOK'
    BY <1>12, RefreshType DEF SdcBegin
<1>13. ASSUME NEW p \in Projects, SdcEnd(w, p) PROVE TypeOK'
  <2>1. ClaimsType'
    BY <1>13, ReleaseType DEF SdcEnd
  <2> QED
    BY <1>13, <2>1 DEF SdcEnd, ClearRequest
<1> QED
    BY <1>1, <1>2, <1>3, <1>4, <1>5, <1>6, <1>7, <1>8, <1>9, <1>10, <1>11,
       <1>12, <1>13 DEF MainStep

LEMMA LoopStepType ==
    ASSUME TypeOK, NEW w \in Workers, LoopStep(w)
    PROVE  TypeOK'
<1> USE DEF TypeOK, ClaimsType, Goto, CallSdc, work, claims, sdc, cycle, counts,
            Places
<1>1. CASE KeepAlive(w)
    BY <1>1, RefreshType DEF KeepAlive
<1>2. CASE Wake(w)
    BY <1>2 DEF Wake
<1>3. CASE SdcCheck(w)
    BY <1>3 DEF SdcCheck, Supervising, Waits
<1>4. CASE SleepSdc(w)
    BY <1>4 DEF SleepSdc
<1>5. CASE NextCycle(w)
    BY <1>5 DEF NextCycle
<1> QED
    BY <1>1, <1>2, <1>3, <1>4, <1>5 DEF LoopStep

LEMMA JobStepType ==
    ASSUME TypeOK, NEW w \in Workers, NEW p \in Projects, JobStep(w, p)
    PROVE  TypeOK'
<1> USE DEF TypeOK, ClaimsType, SetJob, work, claims, sdc, cycle, counts,
            threadsKeep, JobPhases
<1>1. CASE JobCheck(w, p)
  <2>1. ClaimsType'
    BY <1>1, RefreshType DEF JobCheck
  <2>2. job' \in [Workers -> [Projects -> JobPhases]]
    <3>1. \E phase \in JobPhases : job' = [job EXCEPT ![w][p] = phase]
      BY <1>1 DEF JobCheck
    <3> QED
      BY <3>1
  <2>3. UNCHANGED <<work, threadsKeep>>
    BY <1>1 DEF JobCheck
  <2> QED
    BY <2>1, <2>2, <2>3
<1>2. CASE JobWork(w, p)
    BY <1>2 DEF JobWork, Infer, Statuses
<1>3. CASE JobEnd(w, p)
    BY <1>3 DEF JobEnd
<1>4. CASE InferJob(w, p)
    BY <1>4 DEF InferJob, Infer
<1>5. CASE JobRelease(w, p)
    BY <1>5, ReleaseType DEF JobRelease
<1> QED
    BY <1>1, <1>2, <1>3, <1>4, <1>5 DEF JobStep

LEMMA OtherStepType ==
    ASSUME TypeOK, NEW w \in Workers,
           \/ SweepClaim(w) \/ SweepEnd(w) \/ Signal(w) \/ Shutdown(w)
           \/ Crash(w) \/ Restart(w)
    PROVE  TypeOK'
<1> USE DEF TypeOK, ClaimsType, Goto, work, claims, sdc, cycle, counts, Places
<1>1. CASE SweepClaim(w)
  <2>1. PICK p \in SweepCandidates : Claim(w, {p}) /\ sweep' = [sweep EXCEPT ![w] = p]
    BY <1>1 DEF SweepClaim
  <2>2. p \in Projects
    BY Candidates
  <2>3. ClaimsType'
    BY <2>1, <2>2, ClaimType
  <2> QED
    BY <1>1, <2>1, <2>2, <2>3 DEF SweepClaim
<1>2. CASE SweepEnd(w)
    BY <1>2, ReleaseType DEF SweepEnd
<1>3. CASE Signal(w)
    BY <1>3 DEF Signal
<1>4. ASSUME ProcessGone(w)
      PROVE  /\ at' \in [Workers -> Places]
             /\ back' = [back EXCEPT ![w] = "claim"]
             /\ loop' \in [Workers -> Waits]
             /\ todo' \in [Workers -> SUBSET Projects]
             /\ preClaimed' \in [Workers -> SUBSET Projects]
             /\ sdcNow' \in [Workers -> Projects \union {NoProject}]
             /\ listed' \in [Workers -> SUBSET Projects]
             /\ seen' \in [Workers -> SUBSET Projects]
             /\ inline' \in [Workers -> Projects \union {NoProject}]
             /\ job' \in [Workers -> [Projects -> JobPhases]]
             /\ sweep' \in [Workers -> Projects \union {NoProject}]
             /\ stopping' \in [Workers -> BOOLEAN]
             /\ UNCHANGED <<work, nRequests>>
    BY <1>4 DEF ProcessGone, Waits, JobPhases
<1>5. CASE Shutdown(w)
  <2>1. ClaimsType'
    BY <1>5, ReleaseType DEF Shutdown
  <2> QED
    BY <1>4, <1>5, <2>1 DEF Shutdown
<1>6. CASE Crash(w)
  <2>1. ClaimsType' /\ nStops' \in Nat
    BY <1>6 DEF Crash
  <2>2. ProcessGone(w)
    BY <1>6 DEF Crash
  <2>3. UNCHANGED work /\ nRequests' \in Nat
    BY <1>4, <2>2
  <2> QED
    BY <1>4, <2>1, <2>2, <2>3
<1>7. CASE Restart(w)
    BY <1>7 DEF Restart
<1> QED
    BY <1>1, <1>2, <1>3, <1>5, <1>6, <1>7

LEMMA UserStepType ==
    ASSUME TypeOK, NEW p \in Projects, UserStep(p) \/ Expire(p)
    PROVE  TypeOK'
<1> USE DEF TypeOK, work, claims, sdc, cycle, counts, threadsKeep, userKeeps
<1>1. CASE DeleteProject(p)
    BY <1>1 DEF DeleteProject, Statuses
<1>7. CASE SaveSettings(p)
    BY <1>7, StatusAssumption DEF SaveSettings
<1>2. CASE Classify(p)
    BY <1>2 DEF Classify
<1>3. CASE Reopen(p)
    BY <1>3 DEF Reopen
<1>4. CASE SendEdits(p)
    BY <1>4 DEF SendEdits
<1>5. CASE StopEdits(p)
    BY <1>5 DEF StopEdits
<1>6. CASE Expire(p)
    BY <1>6 DEF Expire
<1> QED
    BY <1>1, <1>2, <1>3, <1>4, <1>5, <1>6, <1>7 DEF UserStep

LEMMA NextType == TypeOK /\ [Next]_vars => TypeOK'
<1>1. TypeOK /\ UNCHANGED vars => TypeOK'
    BY DEF TypeOK, vars, work, claims, sdc, cycle, counts
<1> QED
    BY <1>1, MainStepType, LoopStepType, JobStepType, OtherStepType, UserStepType
       DEF Next, WorkerStep

(* Every reachable state is well typed: claims name workers.               *)
THEOREM TypeCorrect == Spec => []TypeOK
    BY InitType, NextType, PTL DEF Spec

-----------------------------------------------------------------------------
(* Claims move only by these three: a claim of candidates, the release of  *)
(* one's own, and the purge.                                               *)
Respected(p) ==
    owner[p] # Nobody /\ owner'[p] # owner[p] /\ status'[p] # "purged"
    => \/ stale[p]
       \/ owner'[p] = Nobody /\ \A v \in Workers \ {owner[p]} : DoesNotMove(v)
AllRespected == \A p \in Projects : Respected(p)

LEMMA ClaimRespects ==
    ASSUME TypeOK, NEW w \in Workers, NEW batch \in SUBSET Projects,
           \A p \in batch : Free(p) \/ owner[p] = w, Claim(w, batch)
    PROVE  AllRespected
    BY DEF AllRespected, Respected, Claim, Free, TypeOK

LEMMA ReleaseRespects ==
    ASSUME TypeOK, NEW w \in Workers, NEW batch, Release(w, batch),
           \A v \in Workers \ {w} : DoesNotMove(v)
    PROVE  AllRespected
    BY DEF AllRespected, Respected, Release, claims, TypeOK

LEMMA SameOwners ==
    ASSUME owner' = owner
    PROVE  AllRespected
    BY DEF AllRespected, Respected

LEMMA NextRespects ==
    ASSUME TypeOK, [Next]_vars
    PROVE  AllRespected
<1> USE DEF claims
<1>1. ASSUME NEW w \in Workers, Purge(w) PROVE AllRespected
    BY <1>1 DEF Purge, Purgeable, AllRespected, Respected, TypeOK
<1>2. ASSUME NEW w \in Workers, SdcClaim(w) PROVE AllRespected
  <2>1. PICK batch \in Batches(SdcCandidates(w), MaxConcurrent) : Claim(w, batch)
    BY <1>2 DEF SdcClaim
  <2>2. batch \subseteq SdcCandidates(w) /\ batch \subseteq Projects
    BY Candidates, BatchesAreCandidates
  <2> QED
    BY <2>1, <2>2, ClaimRespects DEF SdcCandidates
<1>3. ASSUME NEW w \in Workers, ClaimActive(w) PROVE AllRespected
  <2>1. PICK batch \in Batches(ActiveCandidates, MaxConcurrent) : Claim(w, batch)
    BY <1>3 DEF ClaimActive
  <2>2. batch \subseteq ActiveCandidates /\ batch \subseteq Projects
    BY Candidates, BatchesAreCandidates
  <2> QED
    BY <2>1, <2>2, ClaimRespects DEF ActiveCandidates
<1>4. ASSUME NEW w \in Workers, Drain(w) PROVE AllRespected
  <2>1. PICK batch \in Batches(InferenceCandidates, MaxConcurrent) :
           \A p \in Projects : p \notin batch => owner'[p] = owner[p]
    BY <1>4 DEF Drain
  <2>2. batch \subseteq InferenceCandidates
    BY Candidates, BatchesAreCandidates
  <2> QED
    BY <2>1, <2>2 DEF InferenceCandidates, Free, AllRespected, Respected
<1>5. ASSUME NEW w \in Workers, WakeClaim(w) PROVE AllRespected
  <2>1. CASE UNCHANGED claims
    BY <2>1, SameOwners
  <2>2. ASSUME NEW slots, NEW batch \in Batches(ActiveCandidates, slots),
               Claim(w, batch)
        PROVE  AllRespected
    <3>1. batch \subseteq ActiveCandidates /\ batch \subseteq Projects
      BY Candidates, BatchesAreCandidates
    <3> QED
      BY <2>2, <3>1, ClaimRespects DEF ActiveCandidates
  <2> QED
    BY <1>5, <2>1, <2>2 DEF WakeClaim
<1>6. ASSUME NEW w \in Workers, InlineClaim(w) PROVE AllRespected
  <2>1. PICK batch \in Batches(InferenceCandidates, 1) : Claim(w, batch)
    BY <1>6 DEF InlineClaim
  <2>2. batch \subseteq InferenceCandidates /\ batch \subseteq Projects
    BY Candidates, BatchesAreCandidates
  <2> QED
    BY <2>1, <2>2, ClaimRespects DEF InferenceCandidates
<1>7. ASSUME NEW w \in Workers, SweepClaim(w) PROVE AllRespected
  <2>1. PICK p \in SweepCandidates : Claim(w, {p})
    BY <1>7 DEF SweepClaim
  <2> QED
    BY <2>1, ClaimRespects DEF SweepCandidates
<1>8. ASSUME NEW w \in Workers, InlineRun(w) \/ SweepEnd(w) \/ Shutdown(w)
      PROVE  AllRespected
  <2>1. \A v \in Workers \ {w} : DoesNotMove(v)
    BY <1>8 DEF InlineRun, SweepEnd, Shutdown, ProcessGone, Goto, DoesNotMove,
                TypeOK, sdc, cycle
  <2> QED
    BY <1>8, <2>1, ReleaseRespects DEF InlineRun, SweepEnd, Shutdown
<1>9. ASSUME NEW w \in Workers, NEW p \in Projects, SdcEnd(w, p) \/ JobRelease(w, p)
      PROVE  AllRespected
  <2>1. \A v \in Workers \ {w} : DoesNotMove(v)
    BY <1>9 DEF SdcEnd, JobRelease, SetJob, threadsKeep, DoesNotMove, TypeOK, sdc, cycle
  <2> QED
    BY <1>9, <2>1, ReleaseRespects DEF SdcEnd, JobRelease
<1>10. ASSUME NEW w \in Workers,
              \/ SdcReturn(w) \/ DrainStopped(w) \/ Submit(w) \/ LoopDone(w)
              \/ LoopStep(w) \/ Signal(w) \/ Crash(w) \/ Restart(w)
              \/ \E p \in Projects :
                   \/ SdcBegin(w, p) \/ JobCheck(w, p) \/ JobWork(w, p)
                   \/ JobEnd(w, p) \/ InferJob(w, p)
       PROVE  AllRespected
  <2>1. owner' = owner
    BY <1>10 DEF SdcReturn, DrainStopped, Submit, LoopDone, LoopStep, KeepAlive,
        Wake, SdcCheck, SleepSdc, NextCycle, Signal, Crash, Restart, SdcBegin,
        JobCheck, JobWork, JobEnd, InferJob, Refresh
  <2> QED
    BY <2>1, SameOwners
<1>11. ASSUME NEW p \in Projects, UserStep(p) \/ Expire(p) PROVE AllRespected
  <2>1. owner' = owner
    BY <1>11 DEF UserStep, DeleteProject, SaveSettings, Classify, Reopen, SendEdits,
                 StopEdits, Expire, userKeeps
  <2> QED
    BY <2>1, SameOwners
<1>12. CASE UNCHANGED vars
    BY <1>12, SameOwners DEF vars
<1> QED
    BY <1>1, <1>2, <1>3, <1>4, <1>5, <1>6, <1>7, <1>8, <1>9, <1>10, <1>11, <1>12
       DEF Next, WorkerStep, MainStep, JobStep

(* No worker ever takes or drops a claim of another that has not expired,  *)
(* whatever crashes, outlasts its claim or fails.                          *)
THEOREM ForeignClaimsStay == Spec => ForeignClaimsAreRespected
<1>1. TypeOK /\ [Next]_vars => [AllRespected]_vars
    BY NextRespects
<1>2. Spec => [][AllRespected]_vars
    BY <1>1, InitType, NextType, PTL DEF Spec
<1> QED
    BY <1>2 DEF ForeignClaimsAreRespected, AllRespected, Respected

-----------------------------------------------------------------------------
(***************************************************************************)
(* Why a thread of the pipeline works under its worker's claim, and alone: *)
(* every project a worker has in hand, in whatever way, it has in hand in  *)
(* that way only, it holds the claim, and the claim is fresh.              *)
(***************************************************************************)
(* Statements succeed, and neither the steps of a job nor the SDC runs of  *)
(* a list outlast CLAIM_EXPIRY_MINUTES.                                    *)
Timely == ~DbFails /\ ~SlowJobs /\ ~LongEdits

(* The ways a worker can have a project in hand. What an SDC run found     *)
(* claimed by its own worker is not in its hands: it gives nothing back.   *)
Kinds == {"listed", "job", "inline", "sweep", "edits"}
Holds(w, kind, p) ==
    \/ kind = "listed" /\ p \in listed[w]
    \/ kind = "job" /\ job[w][p] # "none"
    \/ kind = "inline" /\ inline[w] = p
    \/ kind = "sweep" /\ sweep[w] = p
    \/ kind = "edits" /\ p \in {sdcNow[w]} \union todo[w] /\ p \notin preClaimed[w]

HeldOnce(p) ==
    \A v, w \in Workers, k, l \in Kinds :
        Holds(v, k, p) /\ Holds(w, l, p) => v = w /\ k = l
HeldUnderClaim(p) ==
    \A w \in Workers, k \in Kinds :
        Holds(w, k, p) /\ status[p] # "purged" => owner[p] = w /\ ~stale[p]
SafeHands(p) == HeldOnce(p) /\ HeldUnderClaim(p)

(* The list of an SDC run and the project it is at.                        *)
SdcInHand(w) ==
    /\ sdcNow[w] # NoProject => at[w] = "sdcRun"
    /\ sdcNow[w] \notin todo[w]

HoldInv ==
    /\ TypeOK
    /\ \A w \in Workers : SdcInHand(w)
    /\ \A p \in Projects : SafeHands(p)

LEMMA ProjectsAreNamed == NoProject \notin Projects /\ Nobody \notin Workers
    BY WorkersAssumption

-----------------------------------------------------------------------------
(* What can happen to one project in one step.                             *)

(* Whoever still has it had it before, and its claim was left alone or     *)
(* refreshed.                                                              *)
LEMMA Kept ==
    ASSUME NEW p \in Projects, SafeHands(p),
           status'[p] # "purged" => status[p] # "purged",
           \A w \in Workers, k \in Kinds : Holds(w, k, p)' => Holds(w, k, p),
           \A w \in Workers, k \in Kinds :
              Holds(w, k, p)' /\ owner[p] = w /\ ~stale[p]
              => owner'[p] = w /\ ~stale'[p]
    PROVE  SafeHands(p)'
    BY DEF SafeHands, HeldOnce, HeldUnderClaim

(* Nobody had it, and one worker has now taken and claimed it.             *)
LEMMA Taken ==
    ASSUME NEW p \in Projects, NEW w \in Workers, NEW k \in Kinds,
           \A v \in Workers, l \in Kinds : Holds(v, l, p)' => v = w /\ l = k,
           owner'[p] = w, ~stale'[p]
    PROVE  SafeHands(p)'
    BY DEF SafeHands, HeldOnce, HeldUnderClaim

(* The one who had it has given it back.                                   *)
LEMMA Dropped ==
    ASSUME NEW p \in Projects, \A v \in Workers, l \in Kinds : ~Holds(v, l, p)'
    PROVE  SafeHands(p)'
    BY DEF SafeHands, HeldOnce, HeldUnderClaim

(* A project the claim queries find free is in nobody's hands.             *)
LEMMA FreeIsUnheld ==
    ASSUME NEW p \in Projects, SafeHands(p), Free(p), status[p] # "purged",
           NEW w \in Workers, NEW k \in Kinds
    PROVE  ~Holds(w, k, p)
    BY WorkersAssumption DEF SafeHands, HeldUnderClaim, Free

(* Only one worker moves in a step; the hands of the others stay.          *)
OthersKeep(w) ==
    \A v \in Workers \ {w} :
        UNCHANGED <<listed[v], job[v], inline[v], sweep[v], sdcNow[v], todo[v],
                    preClaimed[v]>>
LEMMA OthersHold ==
    ASSUME NEW w \in Workers, OthersKeep(w), NEW v \in Workers \ {w}, NEW k, NEW p
    PROVE  Holds(v, k, p)' = Holds(v, k, p)
    BY DEF OthersKeep, Holds

-----------------------------------------------------------------------------
(* The claims: what a transaction takes was in nobody's hands, what is     *)
(* released was in one pair of hands.                                      *)

(* A batch claimed from free projects goes into one kind of hands of w.    *)
LEMMA ClaimedFree ==
    ASSUME NEW p \in Projects, SafeHands(p), NEW w \in Workers, NEW k \in Kinds,
           NEW batch \in SUBSET Projects, Claim(w, batch), OthersKeep(w),
           status' = status,
           p \in batch => Free(p) /\ status[p] # "purged",
           \A l \in Kinds : Holds(w, l, p)' =>
               Holds(w, l, p) \/ (p \in batch /\ l = k)
    PROVE  SafeHands(p)'
<1>1. CASE p \in batch
  <2>1. \A v \in Workers, l \in Kinds : ~Holds(v, l, p)
    BY <1>1, FreeIsUnheld
  <2>2. \A v \in Workers, l \in Kinds : Holds(v, l, p)' => v = w /\ l = k
    BY <2>1, OthersHold
  <2>3. owner'[p] = w /\ ~stale'[p]
    BY <1>1 DEF Claim
  <2> QED
    BY <2>2, <2>3, Taken
<1>2. CASE p \notin batch
  <2>1. \A v \in Workers, l \in Kinds : Holds(v, l, p)' => Holds(v, l, p)
    BY <1>2, OthersHold
  <2>2. owner'[p] = owner[p] /\ (stale'[p] => stale[p])
    BY <1>2 DEF Claim
  <2> QED
    BY <2>1, <2>2, Kept
<1> QED
    BY <1>1, <1>2

(* The release of one project ends the one way in which w had it.          *)
LEMMA ReleasedHand ==
    ASSUME TypeOK, NEW p \in Projects, SafeHands(p), NEW w \in Workers,
           NEW k \in Kinds, NEW batch, Release(w, batch), OthersKeep(w),
           status' = status,
           p \in batch => Holds(w, k, p) /\ ~Holds(w, k, p)',
           \A l \in Kinds : Holds(w, l, p)' => Holds(w, l, p)
    PROVE  SafeHands(p)'
<1>1. CASE p \in batch
  <2>1. \A v \in Workers, l \in Kinds : Holds(v, l, p) => v = w /\ l = k
    BY <1>1 DEF SafeHands, HeldOnce
  <2>2. \A v \in Workers, l \in Kinds : ~Holds(v, l, p)'
    BY <1>1, <2>1, OthersHold
  <2> QED
    BY <2>2, Dropped
<1>2. CASE p \notin batch
  <2>1. \A v \in Workers, l \in Kinds : Holds(v, l, p)' => Holds(v, l, p)
    BY OthersHold
  <2>2. owner'[p] = owner[p] /\ (owner[p] # Nobody /\ stale'[p] => stale[p])
    BY <1>2 DEF Release, claims
  <2> QED
    BY <2>1, <2>2, Kept, WorkersAssumption
<1> QED
    BY <1>1, <1>2

(* Steps that leave the claims and give the worker nothing new.            *)
LEMMA ClaimsStay ==
    ASSUME NEW p \in Projects, SafeHands(p), NEW w \in Workers, OthersKeep(w),
           status'[p] # "purged" => status[p] # "purged",
           status'[p] # "purged" =>
               owner'[p] = owner[p] /\ (stale'[p] => stale[p]),
           \A l \in Kinds : Holds(w, l, p)' => Holds(w, l, p)
    PROVE  SafeHands(p)'
<1>1. \A v \in Workers, l \in Kinds : Holds(v, l, p)' => Holds(v, l, p)
    BY OthersHold
<1> QED
    BY <1>1, Kept DEF SafeHands, HeldOnce, HeldUnderClaim

-----------------------------------------------------------------------------
(* The steps of the main thread.                                           *)

LEMMA PurgeHolds ==
    ASSUME HoldInv, NEW w \in Workers, Purge(w), NEW p \in Projects
    PROVE  SafeHands(p)'
<1>1. SafeHands(p) /\ OthersKeep(w)
    BY DEF HoldInv, Purge, OthersKeep, sdc, cycle
<1>2. \A l \in Kinds : Holds(w, l, p)' => Holds(w, l, p)
    BY DEF Purge, sdc, cycle, Holds
<1>3. CASE UNCHANGED <<work, claims>>
    BY <1>1, <1>2, <1>3, ClaimsStay DEF work, claims
<1>4. CASE /\ status' = [q \in Projects |->
                            IF q \in Purgeable THEN "purged" ELSE status[q]]
           /\ owner' = [q \in Projects |->
                            IF q \in Purgeable THEN Nobody ELSE owner[q]]
           /\ stale' = [q \in Projects |-> stale[q] /\ q \notin Purgeable]
    BY <1>1, <1>2, <1>4, ClaimsStay
<1> QED
    BY <1>3, <1>4 DEF Purge

(* What an SDC run claims anew is in its hands, what its worker had        *)
(* claimed before is not.                                                  *)
LEMMA SdcClaimHolds ==
    ASSUME HoldInv, NEW w \in Workers, SdcClaim(w), NEW p \in Projects
    PROVE  SafeHands(p)'
<1>1. PICK batch \in Batches(SdcCandidates(w), MaxConcurrent) :
         /\ preClaimed' = [preClaimed EXCEPT ![w] = AlreadyClaimed(w, batch)]
         /\ Claim(w, batch)
         /\ todo' = [todo EXCEPT ![w] = batch]
    BY DEF SdcClaim
<1>2. batch \subseteq SdcCandidates(w) /\ batch \subseteq Projects
    BY Candidates, BatchesAreCandidates
<1>3. SafeHands(p) /\ OthersKeep(w) /\ status' = status
    BY <1>1 DEF HoldInv, SdcClaim, OthersKeep, TypeOK, cycle, work
<1>4. sdcNow'[w] = NoProject
    BY DEF SdcClaim, HoldInv, SdcInHand
<1>5. Holds(w, "edits", p)' => p \in batch /\ owner[p] # w
    BY <1>1, <1>2, <1>4, ProjectsAreNamed DEF Holds, HoldInv, TypeOK, AlreadyClaimed
<1>6. \A l \in Kinds : l # "edits" /\ Holds(w, l, p)' => Holds(w, l, p)
    BY DEF Holds, SdcClaim, cycle
<1>7. CASE p \in batch /\ owner[p] = w
  <2>1. \A v \in Workers, l \in Kinds : Holds(v, l, p)' => Holds(v, l, p)
    BY <1>3, <1>5, <1>6, <1>7, OthersHold
  <2>2. owner'[p] = w /\ ~stale'[p]
    BY <1>1, <1>7 DEF Claim
  <2> QED
    BY <1>3, <1>7, <2>1, <2>2, Kept
<1>8. CASE ~(p \in batch /\ owner[p] = w)
  <2>1. p \in batch => Free(p) /\ status[p] # "purged"
    BY <1>2, <1>8 DEF SdcCandidates, Alive
  <2>2. "edits" \in Kinds
    BY DEF Kinds
  <2> QED
    BY <1>1, <1>2, <1>3, <1>5, <1>6, <2>1, <2>2, ClaimedFree
<1> QED
    BY <1>7, <1>8

LEMMA SdcBeginHolds ==
    ASSUME HoldInv, NEW w \in Workers, NEW q \in Projects, SdcBegin(w, q),
           NEW p \in Projects
    PROVE  SafeHands(p)'
<1>1. SafeHands(p) /\ OthersKeep(w) /\ status' = status
    BY DEF HoldInv, SdcBegin, OthersKeep, TypeOK, cycle, work
<1>2. \A l \in Kinds : Holds(w, l, p)' => Holds(w, l, p)
    BY DEF Holds, SdcBegin, cycle, HoldInv, TypeOK
<1>3. owner'[p] = owner[p] /\ (stale'[p] => stale[p])
    BY DEF SdcBegin, Refresh
<1> QED
    BY <1>1, <1>2, <1>3, ClaimsStay

LEMMA SdcEndHolds ==
    ASSUME HoldInv, NEW w \in Workers, NEW q \in Projects, SdcEnd(w, q),
           NEW p \in Projects
    PROVE  SafeHands(p)'
<1>1. SafeHands(p) /\ OthersKeep(w) /\ status' = status
    BY DEF HoldInv, SdcEnd, OthersKeep, TypeOK, cycle
<1>2. "edits" \in Kinds
    BY DEF Kinds
<1>3. \A l \in Kinds : Holds(w, l, p)' => Holds(w, l, p)
    BY ProjectsAreNamed DEF Holds, SdcEnd, cycle, HoldInv, TypeOK
<1>4. p \in {q} \ preClaimed[w] => Holds(w, "edits", p) /\ ~Holds(w, "edits", p)'
    BY ProjectsAreNamed DEF Holds, SdcEnd, HoldInv, TypeOK, SdcInHand
<1>5. Release(w, {q} \ preClaimed[w]) /\ TypeOK
    BY DEF SdcEnd, HoldInv
<1> QED
    BY <1>1, <1>2, <1>3, <1>4, <1>5, ReleasedHand

LEMMA SdcReturnHolds ==
    ASSUME HoldInv, NEW w \in Workers, SdcReturn(w), NEW p \in Projects
    PROVE  SafeHands(p)'
<1>1. SafeHands(p) /\ OthersKeep(w) /\ status' = status
    BY DEF HoldInv, SdcReturn, OthersKeep, TypeOK, cycle, work
<1>2. \A l \in Kinds : Holds(w, l, p)' => Holds(w, l, p)
    BY ProjectsAreNamed DEF Holds, SdcReturn, cycle, HoldInv, TypeOK
<1>3. owner' = owner /\ stale' = stale
    BY DEF SdcReturn, claims
<1> QED
    BY <1>1, <1>2, <1>3, ClaimsStay

LEMMA ClaimActiveHolds ==
    ASSUME HoldInv, NEW w \in Workers, ClaimActive(w), NEW p \in Projects
    PROVE  SafeHands(p)'
<1>1. PICK batch \in Batches(ActiveCandidates, MaxConcurrent) :
         Claim(w, batch) /\ listed' = [listed EXCEPT ![w] = batch]
    BY DEF ClaimActive
<1>2. batch \subseteq ActiveCandidates /\ batch \subseteq Projects
    BY Candidates, BatchesAreCandidates
<1>3. SafeHands(p) /\ OthersKeep(w) /\ status' = status
    BY <1>1 DEF HoldInv, ClaimActive, OthersKeep, TypeOK, sdc, work
<1>4. p \in batch => Free(p) /\ status[p] # "purged"
    BY <1>2 DEF ActiveCandidates, ActiveWork
<1>5. \A l \in Kinds :
         Holds(w, l, p)' => Holds(w, l, p) \/ (p \in batch /\ l = "listed")
    BY <1>1 DEF Holds, ClaimActive, sdc, HoldInv, TypeOK
<1> QED
    BY <1>1, <1>2, <1>3, <1>4, <1>5, ClaimedFree DEF Kinds

(* One turn of the drain: what it runs is in a thread's hands, what it     *)
(* ran before in this cycle it gives back.                                 *)
LEMMA DrainHolds ==
    ASSUME HoldInv, NEW w \in Workers, Drain(w), NEW p \in Projects
    PROVE  SafeHands(p)'
<1>1. PICK batch \in Batches(InferenceCandidates, MaxConcurrent) :
        LET run == (batch \ listed[w]) \ seen[w]
            give == (batch \ run) \ listed[w]
        IN  /\ \E lost \in IF DbFails THEN SUBSET give ELSE {{}} :
                 owner' = [q \in Projects |->
                             IF q \in give \ lost THEN Nobody
                             ELSE IF q \in batch THEN w ELSE owner[q]]
            /\ stale' = [q \in Projects |-> stale[q] /\ q \notin batch]
            /\ Start(w, run, "infer")
    BY DEF Drain
<1> DEFINE run == (batch \ listed[w]) \ seen[w]
<1>2. batch \subseteq InferenceCandidates /\ batch \subseteq Projects
    BY Candidates, BatchesAreCandidates
<1>3. SafeHands(p) /\ OthersKeep(w) /\ status' = status
    BY <1>1 DEF HoldInv, Drain, OthersKeep, TypeOK, sdc, work, Start
<1>4. \A l \in Kinds :
         Holds(w, l, p)' => Holds(w, l, p) \/ (p \in run /\ l = "job")
    BY <1>1 DEF Holds, Drain, sdc, HoldInv, TypeOK, Start
<1>5. CASE p \in batch
  <2>1. \A v \in Workers, l \in Kinds : ~Holds(v, l, p)
    BY <1>2, <1>3, <1>5, FreeIsUnheld DEF InferenceCandidates, InferenceWork
  <2>2. CASE p \in run
    <3>1. \A v \in Workers, l \in Kinds : Holds(v, l, p)' => v = w /\ l = "job"
      BY <1>3, <1>4, <2>1, OthersHold
    <3>2. owner'[p] = w /\ ~stale'[p]
      BY <1>1, <2>2
    <3> QED
      BY <3>1, <3>2, Taken DEF Kinds
  <2>3. CASE p \notin run
    <3>1. \A v \in Workers, l \in Kinds : ~Holds(v, l, p)'
      BY <1>3, <1>4, <2>1, <2>3, OthersHold
    <3> QED
      BY <3>1, Dropped
  <2> QED
    BY <2>2, <2>3
<1>6. CASE p \notin batch
  <2>1. owner'[p] = owner[p] /\ (stale'[p] => stale[p])
    BY <1>1, <1>6
  <2>2. \A l \in Kinds : Holds(w, l, p)' => Holds(w, l, p)
    BY <1>4, <1>6
  <2> QED
    BY <1>3, <2>1, <2>2, ClaimsStay
<1> QED
    BY <1>5, <1>6

(* A listed project passes into the hands of its thread.                   *)
LEMMA SubmitHolds ==
    ASSUME HoldInv, NEW w \in Workers, Submit(w), NEW p \in Projects
    PROVE  SafeHands(p)'
<1>1. SafeHands(p) /\ OthersKeep(w) /\ status' = status
    BY DEF HoldInv, Submit, Start, OthersKeep, TypeOK, sdc, work
<1>2. owner' = owner /\ stale' = stale
    BY DEF Submit, claims
<1>3. CASE p \in listed[w]
  <2>1. \A v \in Workers, l \in Kinds : Holds(v, l, p) => v = w /\ l = "listed"
    BY <1>1, <1>3 DEF SafeHands, HeldOnce, Holds, Kinds
  <2>2. \A v \in Workers, l \in Kinds : Holds(v, l, p)' => v = w /\ l = "job"
    <3>1. ~Holds(w, "listed", p)'
      BY DEF Holds, Submit, HoldInv, TypeOK
    <3>2. \A l \in Kinds : l \notin {"listed", "job"} /\ Holds(w, l, p)' => Holds(w, l, p)
      BY DEF Holds, Submit, sdc
    <3> QED
      BY <1>1, <2>1, <3>1, <3>2, OthersHold
  <2>3. status[p] # "purged" => owner[p] = w /\ ~stale[p]
    BY <1>1, <1>3 DEF SafeHands, HeldUnderClaim, Holds, Kinds
  <2> QED
    BY <1>1, <1>2, <2>2, <2>3 DEF SafeHands, HeldOnce, HeldUnderClaim
<1>4. CASE p \notin listed[w]
  <2>1. \A l \in Kinds : Holds(w, l, p)' => Holds(w, l, p)
    BY <1>4 DEF Holds, Submit, Start, sdc, HoldInv, TypeOK
  <2> QED
    BY <1>1, <1>2, <2>1, ClaimsStay
<1> QED
    BY <1>3, <1>4

LEMMA WakeClaimHolds ==
    ASSUME HoldInv, NEW w \in Workers, WakeClaim(w), NEW p \in Projects
    PROVE  SafeHands(p)'
<1>1. SafeHands(p) /\ status' = status /\ UNCHANGED <<sdc, listed, inline, sweep>>
    BY DEF HoldInv, WakeClaim, work
<1>2. CASE UNCHANGED <<claims, job, seen>>
  <2>1. OthersKeep(w) /\ \A l \in Kinds : Holds(w, l, p)' => Holds(w, l, p)
    BY <1>1, <1>2 DEF OthersKeep, Holds, sdc
  <2> QED
    BY <1>1, <1>2, <2>1, ClaimsStay DEF claims
<1>3. ASSUME NEW slots, NEW batch \in Batches(ActiveCandidates, slots),
             Claim(w, batch), Start(w, batch \ seen[w], "start")
      PROVE  SafeHands(p)'
  <2>1. batch \subseteq ActiveCandidates /\ batch \subseteq Projects
    BY Candidates, BatchesAreCandidates
  <2>2. p \in batch => Free(p) /\ status[p] # "purged"
    BY <2>1 DEF ActiveCandidates, ActiveWork
  <2>3. OthersKeep(w)
    BY <1>1, <1>3 DEF OthersKeep, Start, HoldInv, TypeOK, sdc
  <2>4. \A l \in Kinds :
           Holds(w, l, p)' => Holds(w, l, p) \/ (p \in batch /\ l = "job")
    BY <1>1, <1>3 DEF Holds, Start, sdc, HoldInv, TypeOK
  <2> QED
    BY <1>1, <1>3, <2>1, <2>2, <2>3, <2>4, ClaimedFree DEF Kinds
<1> QED
    BY <1>2, <1>3 DEF WakeClaim

LEMMA InlineClaimHolds ==
    ASSUME HoldInv, NEW w \in Workers, InlineClaim(w), NEW p \in Projects
    PROVE  SafeHands(p)'
<1>1. PICK batch \in Batches(InferenceCandidates, 1) :
       /\ Claim(w, batch)
       /\ inline' = [inline EXCEPT ![w] =
              IF batch = {} THEN NoProject ELSE CHOOSE q \in batch : TRUE]
    BY DEF InlineClaim
<1>2. batch \subseteq InferenceCandidates /\ batch \subseteq Projects
    BY Candidates, BatchesAreCandidates
<1>3. SafeHands(p) /\ OthersKeep(w) /\ status' = status
    BY <1>1 DEF HoldInv, InlineClaim, OthersKeep, TypeOK, sdc, work
<1>4. p \in batch => Free(p) /\ status[p] # "purged"
    BY <1>2 DEF InferenceCandidates, InferenceWork
<1>5. \A l \in Kinds :
         Holds(w, l, p)' => Holds(w, l, p) \/ (p \in batch /\ l = "inline")
    BY <1>1, ProjectsAreNamed DEF Holds, InlineClaim, sdc, HoldInv, TypeOK
<1> QED
    BY <1>1, <1>2, <1>3, <1>4, <1>5, ClaimedFree DEF Kinds

LEMMA InlineRunHolds ==
    ASSUME HoldInv, NEW w \in Workers, InlineRun(w), NEW p \in Projects
    PROVE  SafeHands(p)'
<1>1. SafeHands(p) /\ OthersKeep(w) /\ status' = status
    BY DEF HoldInv, InlineRun, OthersKeep, TypeOK, sdc
<1>2. \A l \in Kinds : Holds(w, l, p)' => Holds(w, l, p)
    BY ProjectsAreNamed DEF Holds, InlineRun, sdc, HoldInv, TypeOK
<1>3. p \in {inline[w]} => Holds(w, "inline", p) /\ ~Holds(w, "inline", p)'
    BY ProjectsAreNamed DEF Holds, InlineRun, HoldInv, TypeOK
<1>4. Release(w, {inline[w]}) /\ TypeOK
    BY DEF InlineRun, HoldInv
<1> QED
    BY <1>1, <1>2, <1>3, <1>4, ReleasedHand DEF Kinds

(* Steps of the main thread that only move it.                             *)
LEMMA MoveHolds ==
    ASSUME HoldInv, NEW w \in Workers,
           DrainStopped(w) \/ LoopDone(w) \/ LoopStep(w), NEW p \in Projects
    PROVE  SafeHands(p)'
<1>1. SafeHands(p) /\ status' = status /\ UNCHANGED <<sdc, cycle, job, sweep>>
    BY DEF HoldInv, DrainStopped, LoopDone, LoopStep, KeepAlive, Wake, SdcCheck,
           SleepSdc, NextCycle, work
<1>2. owner' = owner /\ (stale'[p] => stale[p])
    BY DEF DrainStopped, LoopDone, LoopStep, KeepAlive, Wake, SdcCheck,
           SleepSdc, NextCycle, claims, Refresh
<1>3. OthersKeep(w) /\ \A l \in Kinds : Holds(w, l, p)' => Holds(w, l, p)
    BY <1>1 DEF OthersKeep, Holds, sdc, cycle
<1> QED
    BY <1>1, <1>2, <1>3, ClaimsStay

-----------------------------------------------------------------------------
(* The threads, the stops, the clock and the users.                        *)

LEMMA JobStepHolds ==
    ASSUME HoldInv, NEW w \in Workers, NEW q \in Projects, JobStep(w, q),
           NEW p \in Projects
    PROVE  SafeHands(p)'
<1>1. SafeHands(p) /\ TypeOK
    BY DEF HoldInv
<1>2. UNCHANGED <<sdc, cycle, sweep>>
    BY DEF JobStep, JobCheck, JobWork, JobEnd, InferJob, JobRelease, threadsKeep
<1>3. CASE JobRelease(w, q)
  <2>1. OthersKeep(w) /\ status' = status
    BY <1>1, <1>2, <1>3 DEF OthersKeep, JobRelease, SetJob, TypeOK, sdc, cycle, work
  <2>2. \A l \in Kinds : Holds(w, l, p)' => Holds(w, l, p)
    BY <1>1, <1>2, <1>3 DEF Holds, JobRelease, SetJob, TypeOK, sdc, cycle
  <2>3. p \in {q} => Holds(w, "job", p) /\ ~Holds(w, "job", p)'
    BY <1>1, <1>3 DEF Holds, JobRelease, SetJob, TypeOK
  <2>4. Release(w, {q})
    BY <1>3 DEF JobRelease
  <2> QED
    BY <1>1, <2>1, <2>2, <2>3, <2>4, ReleasedHand DEF Kinds
<1>4. CASE ~JobRelease(w, q)
  <2>1. job' = job \/ (job[w][q] # "none"
                       /\ \E phase \in JobPhases : job' = [job EXCEPT ![w][q] = phase])
    BY <1>4 DEF JobStep, JobCheck, JobWork, JobEnd, InferJob, SetJob, JobPhases
  <2>2. OthersKeep(w)
    BY <1>1, <1>2, <2>1 DEF OthersKeep, TypeOK, sdc, cycle
  <2>3. \A l \in Kinds : Holds(w, l, p)' => Holds(w, l, p)
    BY <1>1, <1>2, <2>1 DEF Holds, TypeOK, sdc, cycle
  <2>4. owner' = owner /\ (stale'[p] => stale[p])
    BY <1>4 DEF JobStep, JobCheck, JobWork, JobEnd, InferJob, Refresh, claims
  <2>5. status'[p] # "purged" => status[p] # "purged"
    BY <1>1, <1>4 DEF JobStep, JobCheck, JobWork, JobEnd, InferJob, work, TypeOK
  <2> QED
    BY <1>1, <2>2, <2>3, <2>4, <2>5, ClaimsStay
<1> QED
    BY <1>3, <1>4

LEMMA SweepClaimHolds ==
    ASSUME HoldInv, NEW w \in Workers, SweepClaim(w), NEW p \in Projects
    PROVE  SafeHands(p)'
<1>1. PICK q \in SweepCandidates : Claim(w, {q}) /\ sweep' = [sweep EXCEPT ![w] = q]
    BY DEF SweepClaim
<1>2. SafeHands(p) /\ OthersKeep(w) /\ status' = status
    BY <1>1 DEF HoldInv, SweepClaim, OthersKeep, TypeOK, sdc, cycle, work
<1>3. p \in {q} => Free(p) /\ status[p] # "purged"
    BY <1>1 DEF SweepCandidates, Alive
<1>4. \A l \in Kinds : Holds(w, l, p)' => Holds(w, l, p) \/ (p \in {q} /\ l = "sweep")
    BY <1>1 DEF Holds, SweepClaim, sdc, cycle, HoldInv, TypeOK
<1>5. {q} \subseteq Projects
    BY DEF SweepCandidates
<1> QED
    BY <1>1, <1>2, <1>3, <1>4, <1>5, ClaimedFree DEF Kinds

LEMMA SweepEndHolds ==
    ASSUME HoldInv, NEW w \in Workers, SweepEnd(w), NEW p \in Projects
    PROVE  SafeHands(p)'
<1>1. SafeHands(p) /\ OthersKeep(w) /\ status' = status
    BY DEF HoldInv, SweepEnd, OthersKeep, TypeOK, sdc, cycle
<1>2. \A l \in Kinds : Holds(w, l, p)' => Holds(w, l, p)
    BY ProjectsAreNamed DEF Holds, SweepEnd, sdc, cycle, HoldInv, TypeOK
<1>3. p \in {sweep[w]} => Holds(w, "sweep", p) /\ ~Holds(w, "sweep", p)'
    BY ProjectsAreNamed DEF Holds, SweepEnd, HoldInv, TypeOK
<1>4. Release(w, {sweep[w]}) /\ TypeOK
    BY DEF SweepEnd, HoldInv
<1> QED
    BY <1>1, <1>2, <1>3, <1>4, ReleasedHand DEF Kinds

(* A process that goes has nothing in hand any more; its claims it gives   *)
(* back, or, killed, leaves behind.                                        *)
LEMMA ProcessGoneHolds ==
    ASSUME HoldInv, NEW w \in Workers, Shutdown(w) \/ Crash(w), NEW p \in Projects
    PROVE  SafeHands(p)'
<1>1. SafeHands(p) /\ TypeOK /\ ProcessGone(w)
    BY DEF HoldInv, Shutdown, Crash
<1>2. OthersKeep(w) /\ status' = status
    BY <1>1 DEF OthersKeep, ProcessGone, TypeOK, work
<1>3. \A l \in Kinds : ~Holds(w, l, p)'
    BY <1>1, ProjectsAreNamed DEF Holds, ProcessGone, TypeOK
<1>4. \A v \in Workers, l \in Kinds : Holds(v, l, p)' => v # w /\ Holds(v, l, p)
    BY <1>2, <1>3, OthersHold
<1>5. owner[p] \notin {w, Nobody} => owner'[p] = owner[p] /\ (stale'[p] => stale[p])
    BY DEF Shutdown, Crash, Release, claims
<1> QED
    BY <1>1, <1>2, <1>4, <1>5, Kept, ProjectsAreNamed

LEMMA QuietHolds ==
    ASSUME HoldInv, NEW w \in Workers, Signal(w) \/ Restart(w), NEW p \in Projects
    PROVE  SafeHands(p)'
<1>1. SafeHands(p) /\ UNCHANGED <<status, owner, stale, sdc, cycle, job, sweep>>
    BY DEF HoldInv, Signal, Restart, work, claims
<1>2. OthersKeep(w) /\ \A l \in Kinds : Holds(w, l, p)' => Holds(w, l, p)
    BY <1>1 DEF OthersKeep, Holds, sdc, cycle
<1> QED
    BY <1>1, <1>2, ClaimsStay

(* Whatever a worker has in hand is kept fresh.                            *)
LEMMA HeldIsFresh ==
    ASSUME Timely, NEW w \in Workers, NEW k \in Kinds, NEW p, Holds(w, k, p)
    PROVE  KeptFresh(w, p)
    BY DEF Timely, Holds, KeptFresh, Kinds

LEMMA ExpireHolds ==
    ASSUME Timely, HoldInv, NEW q \in Projects, Expire(q), NEW p \in Projects
    PROVE  SafeHands(p)'
<1>1. SafeHands(p) /\ TypeOK
    BY DEF HoldInv
<1>2. UNCHANGED <<status, owner, sdc, cycle, job, sweep>>
    BY DEF Expire, threadsKeep, work
<1>3. \A v \in Workers, l \in Kinds : Holds(v, l, p)' <=> Holds(v, l, p)
    BY <1>2 DEF Holds, sdc, cycle
<1>4. \A v \in Workers, l \in Kinds :
         Holds(v, l, p) /\ owner[p] = v => stale'[p] = stale[p]
    BY <1>1, HeldIsFresh DEF Expire, Timely, TypeOK
<1> QED
    BY <1>1, <1>2, <1>3, <1>4, Kept

LEMMA UserHolds ==
    ASSUME HoldInv, NEW q \in Projects, UserStep(q), NEW p \in Projects
    PROVE  SafeHands(p)'
<1>1. SafeHands(p) /\ TypeOK
    BY DEF HoldInv
<1>2. UNCHANGED <<owner, stale, sdc, cycle, job, sweep>>
    BY DEF UserStep, DeleteProject, SaveSettings, Classify, Reopen, SendEdits,
           StopEdits, userKeeps, threadsKeep, claims
<1>3. status'[p] # "purged" => status[p] # "purged"
    BY <1>1 DEF UserStep, DeleteProject, SaveSettings, Classify, Reopen, SendEdits,
                StopEdits, Alive, TypeOK
<1>4. \A v \in Workers, l \in Kinds : Holds(v, l, p)' <=> Holds(v, l, p)
    BY <1>2 DEF Holds, sdc, cycle
<1> QED
    BY <1>1, <1>2, <1>3, <1>4, Kept

-----------------------------------------------------------------------------
(* The list of an SDC run empties before its worker leaves it.             *)
LEMMA SdcStays ==
    ASSUME HoldInv, [Next]_vars, NEW w \in Workers
    PROVE  SdcInHand(w)'
<1>1. TypeOK /\ SdcInHand(w)
    BY DEF HoldInv
<1>2. \A v \in Workers : v # w /\ WorkerStep(v)
                         => UNCHANGED <<at[w], sdcNow[w], todo[w]>>
  <2>1. ASSUME NEW v \in Workers, v # w, MainStep(v)
        PROVE  UNCHANGED <<at[w], sdcNow[w], todo[w]>>
    BY <1>1, <2>1 DEF MainStep, Purge, SdcClaim, SdcReturn, ClaimActive, Drain,
       DrainStopped, Submit, WakeClaim, InlineClaim, InlineRun, LoopDone, SdcBegin,
       SdcEnd, CallSdc, Goto, TypeOK, sdc
  <2>2. ASSUME NEW v \in Workers, v # w, LoopStep(v)
        PROVE  UNCHANGED <<at[w], sdcNow[w], todo[w]>>
    BY <1>1, <2>2 DEF LoopStep, KeepAlive, Wake, SdcCheck, SleepSdc, NextCycle,
       CallSdc, Goto, TypeOK, sdc
  <2>3. ASSUME NEW v \in Workers, v # w,
               \/ SweepClaim(v) \/ SweepEnd(v) \/ Signal(v) \/ Shutdown(v)
               \/ Crash(v) \/ Restart(v) \/ \E p \in Projects : JobStep(v, p)
        PROVE  UNCHANGED <<at[w], sdcNow[w], todo[w]>>
    BY <1>1, <2>3 DEF SweepClaim, SweepEnd, Signal, Shutdown, Crash, Restart,
       ProcessGone, JobStep, JobCheck, JobWork, JobEnd, InferJob, JobRelease,
       threadsKeep, Goto, TypeOK, sdc
  <2> QED
    BY <2>1, <2>2, <2>3 DEF WorkerStep
<1>3. ASSUME SdcClaim(w) \/ SdcReturn(w) \/ \E p \in Projects : SdcBegin(w, p) \/ SdcEnd(w, p)
      PROVE  SdcInHand(w)'
  <2>1. CASE SdcClaim(w)
    BY <1>1, <2>1, ProjectsAreNamed, Candidates, BatchesAreCandidates
       DEF SdcInHand, SdcClaim, Goto, TypeOK
  <2>2. CASE SdcReturn(w)
    BY <1>1, <2>2 DEF SdcInHand, SdcReturn, Goto, TypeOK
  <2>3. ASSUME NEW p \in Projects, SdcBegin(w, p) \/ SdcEnd(w, p)
        PROVE  SdcInHand(w)'
    BY <1>1, <2>3, ProjectsAreNamed DEF SdcInHand, SdcBegin, SdcEnd, TypeOK
  <2> QED
    BY <1>3, <2>1, <2>2, <2>3
<1>4. ASSUME \/ Purge(w) \/ ClaimActive(w) \/ Drain(w) \/ DrainStopped(w) \/ Submit(w)
             \/ WakeClaim(w) \/ InlineClaim(w) \/ InlineRun(w) \/ LoopDone(w)
             \/ LoopStep(w) \/ Restart(w)
      PROVE  SdcInHand(w)'
  <2>1. at[w] # "sdcRun" /\ UNCHANGED <<sdcNow, todo>>
    BY <1>4 DEF Purge, ClaimActive, Drain, DrainStopped, Submit, WakeClaim,
       InlineClaim, InlineRun, LoopDone, LoopStep, KeepAlive, Wake, SdcCheck,
       SleepSdc, NextCycle, Restart, Supervising, Waits, sdc
  <2> QED
    BY <1>1, <2>1 DEF SdcInHand
<1>5. ASSUME Shutdown(w) \/ Crash(w) PROVE SdcInHand(w)'
    BY <1>1, <1>5, ProjectsAreNamed DEF SdcInHand, Shutdown, Crash, ProcessGone, TypeOK
<1>6. ASSUME \/ SweepClaim(w) \/ SweepEnd(w) \/ Signal(w) \/ UNCHANGED vars
             \/ \E p \in Projects : JobStep(w, p) \/ Expire(p) \/ UserStep(p)
      PROVE  SdcInHand(w)'
  <2>1. UNCHANGED <<at, sdcNow, todo>>
    BY <1>6 DEF SweepClaim, SweepEnd, Signal, vars, JobStep, JobCheck, JobWork,
       JobEnd, InferJob, JobRelease, Expire, UserStep, DeleteProject, SaveSettings,
       Classify, Reopen, SendEdits, StopEdits, userKeeps, threadsKeep, sdc
  <2> QED
    BY <1>1, <2>1 DEF SdcInHand
<1> QED
    BY <1>1, <1>2, <1>3, <1>4, <1>5, <1>6 DEF Next, WorkerStep, MainStep, SdcInHand

-----------------------------------------------------------------------------
LEMMA InitHolds == Init => HoldInv
<1>1. ASSUME Init PROVE \A w \in Workers, k \in Kinds, p \in Projects : ~Holds(w, k, p)
    BY <1>1, ProjectsAreNamed DEF Init, Holds, Kinds
<1> QED
    BY <1>1, InitType, ProjectsAreNamed
       DEF HoldInv, SafeHands, HeldOnce, HeldUnderClaim, SdcInHand, Init

LEMMA NextHolds ==
    ASSUME Timely, HoldInv, [Next]_vars
    PROVE  HoldInv'
<1>1. ASSUME NEW p \in Projects, UNCHANGED vars PROVE SafeHands(p)'
  <2>1. \A v \in Workers, l \in Kinds : Holds(v, l, p)' <=> Holds(v, l, p)
    BY <1>1 DEF Holds, vars, sdc, cycle
  <2> QED
    BY <1>1, <2>1, Kept DEF HoldInv, vars, work, claims
<1>2. ASSUME NEW p \in Projects, NEW w \in Workers, MainStep(w)
      PROVE  SafeHands(p)'
    BY <1>2, PurgeHolds, SdcClaimHolds, SdcReturnHolds, ClaimActiveHolds, DrainHolds,
       MoveHolds, SubmitHolds, WakeClaimHolds, InlineClaimHolds, InlineRunHolds,
       SdcBeginHolds, SdcEndHolds DEF MainStep
<1>3. \A p \in Projects : SafeHands(p)'
    BY <1>1, <1>2, MoveHolds, JobStepHolds, SweepClaimHolds, SweepEndHolds,
       ProcessGoneHolds, QuietHolds, ExpireHolds, UserHolds DEF Next, WorkerStep
<1> QED
    BY <1>3, NextType, SdcStays DEF HoldInv

(* What a worker has in hand it has in hand once, under a fresh claim.     *)
THEOREM HandsAreSafe ==
    ASSUME Timely
    PROVE  Spec => []HoldInv
<1>1. HoldInv /\ [Next]_vars => HoldInv'
    BY NextHolds
<1> QED
    BY <1>1, InitHolds, PTL DEF Spec

LEMMA PipelineIsHeld ==
    ASSUME TypeOK, NEW w \in Workers, NEW p \in Pipeline(w)
    PROVE  /\ p \in Projects
           /\ job[w][p] \in {"process", "infer"} => Holds(w, "job", p)
           /\ inline[w] = p => Holds(w, "inline", p)
           /\ \E k \in Kinds : Holds(w, k, p)
    BY DEF TypeOK, Pipeline, Holds, Kinds

(* A thread that classifies or fills a project works under its own         *)
(* worker's claim.                                                         *)
THEOREM WorkStaysClaimed ==
    ASSUME Timely
    PROVE  Spec => []WorkIsClaimed
<1>1. HoldInv => WorkIsClaimed
    BY PipelineIsHeld DEF HoldInv, SafeHands, HeldUnderClaim, WorkIsClaimed
<1> QED
    BY <1>1, HandsAreSafe, PTL

(* Two threads of the pipeline never share a project.                      *)
THEOREM PipelinesStayApart ==
    ASSUME Timely
    PROVE  Spec => []OnePipelinePerProject
<1>1. HoldInv => OnePipelinePerProject
  <2> SUFFICES ASSUME HoldInv, NEW v \in Workers, NEW w \in Workers,
                      NEW p \in Pipeline(v) \intersect Pipeline(w)
               PROVE  v = w /\ ~(inline[w] = p /\ job[w][p] \in {"process", "infer"})
    BY DEF OnePipelinePerProject
  <2> QED
    BY PipelineIsHeld DEF HoldInv, SafeHands, HeldOnce, Kinds
<1> QED
    BY <1>1, HandsAreSafe, PTL
=============================================================================
