----------------------------- MODULE ImagePipeline -----------------------------
(***************************************************************************)
(* A project's images, from the crawl of its Commons category to the       *)
(* verdict on the project (worker.py, process_project and what it calls):  *)
(* discovery, the waves of downloads and face detections, the images sent  *)
(* to the face service alone after a failed request, the strikes that      *)
(* write an image off, and auto-completion.                                *)
(*                                                                         *)
(* One pipeline works on the project (ProjectClaims says when that holds); *)
(* other projects share the face service, so it may break at any moment.   *)
(***************************************************************************)
EXTENDS Naturals, FiniteSets, FiniteSetsExt

CONSTANTS
    Images,        \* images.id, in the order of their rows
    NoImage,
    Worlds,        \* what the images are and which of them depict the item
    FacesIn,       \* how many faces the detector finds in an image
    MinConfirmed,  \* projects.min_confirmed
    MaxImages,     \* MAX_IMAGES_PER_PROJECT
    BaseCap, MaxCap, MinCap,            \* the sizes behind the bootstrap cap
    BatchSize, WaveSize, RequestSize,
    MaxAttempts,   \* MAX_DETECT_ATTEMPTS
    MaxTroubles,   \* bound: outages of the face service and of Commons, and mishaps
    MaxTimeouts,   \* bound: waits for the service that end without it
    MaxMishaps     \* bound: statements that fail or are sent twice, shutdowns
                   \* and crashes of the worker, settings saved by the owner

\* An image the service cannot survive, one it refuses, one Commons cannot
\* render (5xx every time), one that is missing or too large, and the rest.
ImageKinds == {"plain", "poison", "refused", "unrenderable", "missing"}

ASSUME ImagesAssumption ==
    Images \subseteq Nat /\ IsFiniteSet(Images) /\ NoImage \notin Images
ASSUME WorldsAssumption ==
    Worlds \subseteq [kind : [Images -> ImageKinds], depicting : SUBSET Images]
ASSUME SizesAssumption ==
    /\ FacesIn \in [Images -> Nat]
    /\ MinConfirmed \in Nat /\ MaxImages \in Nat
    /\ BaseCap \in Nat /\ MaxCap \in Nat /\ MinCap \in Nat /\ BaseCap <= MaxCap
    /\ BatchSize \in Nat \ {0} /\ WaveSize \in Nat \ {0} /\ RequestSize \in Nat \ {0}
    /\ MaxAttempts \in Nat \ {0}
ASSUME BoundsAssumption ==
    /\ MaxTroubles \in Nat /\ MaxTimeouts \in Nat /\ MaxMishaps \in Nat

VARIABLES
    world,
    \* the images table
    status, attempts, isolate, boot,
    \* the faces table, per image: rows, targets by 'bootstrap', and whether
    \* such a target waits to be written although Commons has the statement
    rows, targets, queued,
    \* projects
    confirmed, processed, project, reason,
    \* the services
    service, commons,
    \* the worker process
    stopping, canary, knownDown,
    \* its pipeline: where it is, and its local variables
    at, todo, batch, wave, got, failed, alone, out, blamed, deferred,
    image, before, some, first,
    \* history
    outages, commonsOutages, timeouts, faults, stops, edits,
    repeats,       \* statements whose effect happened twice
    cuts,          \* images whose faces were stored only in part
    lateProof      \* a strike rested on a canary fetched before an outage

tableVars == <<status, attempts, isolate, boot>>
faceVars == <<rows, targets, queued>>
projectVars == <<confirmed, processed, project, reason>>
serviceVars == <<service, commons>>
processVars == <<stopping, canary, knownDown>>
waveVars == <<wave, got, failed, alone, out, blamed, deferred>>
jobVars == <<todo, batch, waveVars, image, before, some, first>>
faultVars == <<faults, repeats, cuts>>
history == <<outages, commonsOutages, timeouts, faultVars, stops, edits, lateProof>>
vars == <<world, tableVars, faceVars, projectVars, serviceVars, processVars, at,
          jobVars, history>>

Statuses == {"absent", "pending", "processed", "error", "skipped"}
Outcomes == {"none", "faces", "refused", "down", "mismatch"}
Places == {"idle", "begin", "crawl", "crawled", "search", "reconcile", "adopt",
           "adopted", "searched", "count", "pick", "skip", "wave", "download",
           "canary", "strike", "judge", "send", "isolate", "solo", "again",
           "soloAgain", "results", "insert", "finish", "classify", "confirm",
           "mark", "storeError", "flag", "recount", "after", "between", "filter",
           "verdict", "no_faces", "insufficient_faces"}
UsesImage == {"reconcile", "adopt", "adopted", "judge", "solo", "again", "soloAgain",
              "insert", "finish", "classify", "confirm", "mark", "storeError"}
\* Where a crash leaves the faces of an image, or their count, half recorded.
HalfStored == {"finish", "confirm", "adopted"}

TablesOK ==
    /\ world \in Worlds
    /\ status \in [Images -> Statuses] /\ attempts \in [Images -> Nat]
    /\ isolate \in [Images -> BOOLEAN] /\ boot \in [Images -> BOOLEAN]
FacesOK ==
    /\ rows \in [Images -> Nat] /\ targets \in [Images -> Nat]
    /\ queued \in [Images -> BOOLEAN]
ProjectOK ==
    /\ confirmed \in Nat /\ processed \in Nat
    /\ project \in {"active", "paused", "completed"}
    /\ reason \in {"none", "no_faces", "insufficient_faces"}
ServicesOK ==
    /\ service \in {"up", "down", "other model"} /\ commons \in {"up", "busy", "down"}
    /\ stopping \in BOOLEAN /\ canary \in BOOLEAN /\ knownDown \in BOOLEAN
PlaceOK ==
    /\ at \in Places
    /\ image \in Images \union {NoImage} /\ (at \in UsesImage => image \in Images)
WaveOK ==
    /\ todo \subseteq Images /\ batch \subseteq Images /\ wave \subseteq Images
    /\ got \subseteq Images /\ failed \subseteq Images /\ alone \subseteq Images
    /\ out \in [Images -> Outcomes]
    /\ blamed \subseteq Images /\ deferred \subseteq Images
    /\ before \in Nat /\ some \in BOOLEAN /\ first \in BOOLEAN
HistoryOK ==
    /\ outages \in 0..MaxTroubles /\ commonsOutages \in 0..MaxTroubles
    /\ timeouts \in 0..MaxTimeouts
    /\ faults \in 0..MaxMishaps /\ stops \in 0..MaxMishaps /\ edits \in 0..MaxMishaps
    /\ repeats \in Nat /\ cuts \in Nat /\ lateProof \in BOOLEAN
TypeOK ==
    TablesOK /\ FacesOK /\ ProjectOK /\ ServicesOK /\ PlaceOK /\ WaveOK /\ HistoryOK
-----------------------------------------------------------------------------
(* What the code asks the tables. *)

Kind(i) == world.kind[i]
Known == {i \in Images : status[i] # "absent"}
Pending == {i \in Images : status[i] = "pending"}
Finished == Known \ Pending
Room == IF Cardinality(Known) < MaxImages THEN MaxImages - Cardinality(Known) ELSE 0
SumOver(f) == MapThenSumSet(LAMBDA i : f[i], Images)

\* process_images: how many bootstrap images may still be processed.
Flagged == {i \in Known : boot[i]}
BootstrapCap ==
    LET n == Cardinality(Known)
        b == Cardinality(Flagged)
        cap == IF 2 * b > n
               THEN BaseCap + ((MaxCap - BaseCap) * (2 * b - n)) \div n
               ELSE BaseCap
    IN  IF cap > MinCap THEN cap ELSE MinCap
BootstrapLeft ==
    LET done == Cardinality(Flagged \intersect Finished)
    IN  IF BootstrapCap > done THEN BootstrapCap - done ELSE 0

\* ORDER BY detect_attempts, id LIMIT n; the batch has the bootstrap images first.
Before(i, j) == attempts[i] < attempts[j] \/ (attempts[i] = attempts[j] /\ i < j)
InBatchBefore(i, j) == (boot[i] /\ ~boot[j]) \/ (boot[i] = boot[j] /\ Before(i, j))
Limit(S, n) == {i \in S : Cardinality({j \in S : Before(j, i)}) < n}
NextWave == {i \in batch : Cardinality({j \in batch : InBatchBefore(j, i)}) < WaveSize}

BatchAnew ==   \* mutant: the second query does not ask for pending images
    LET fromBoot == Limit(Pending \intersect Flagged,
                          IF BootstrapLeft < BatchSize THEN BootstrapLeft ELSE BatchSize)
    IN  fromBoot \union Limit(Known \ Flagged, BatchSize - Cardinality(fromBoot))
NewBatch ==
    LET fromBoot == Limit(Pending \intersect Flagged,
                          IF BootstrapLeft < BatchSize THEN BootstrapLeft ELSE BatchSize)
    IN  fromBoot \union Limit(Pending \ Flagged, BatchSize - Cardinality(fromBoot))

\* What one request to the face service does: an image it cannot survive fails
\* all images of the request, and leaves the service hung or restarting.
NoReplies == [i \in Images |-> "none"]
RepliesOfOldModel(request) ==   \* mutant: a model mismatch counts as a refusal
    [i \in request |-> IF service = "down" \/ \E j \in request : Kind(j) = "poison" THEN "down"
                       ELSE IF service = "other model" \/ Kind(i) = "refused" THEN "refused"
                       ELSE "faces"]
Replies(request) ==
    LET fails == service = "down" \/ \E i \in request : Kind(i) = "poison"
    IN  [i \in request |-> IF fails THEN "down"
                           ELSE IF Kind(i) = "refused" THEN "refused"
                           ELSE IF service = "up" THEN "faces" ELSE "mismatch"]
ServiceAfter(request) ==
    IF \E i \in request : Kind(i) = "poison" THEN {service, "down"} ELSE {service}
NotedAlone(replies) == replies   \* mutant: the last request's answers replace the wave's
Noted(replies) == [i \in Images |-> IF i \in DOMAIN replies THEN replies[i] ELSE out[i]]

-----------------------------------------------------------------------------
Init ==
    /\ world \in Worlds
    /\ status = [i \in Images |-> "absent"] /\ attempts = [i \in Images |-> 0]
    /\ isolate = [i \in Images |-> FALSE] /\ boot = [i \in Images |-> FALSE]
    /\ rows = [i \in Images |-> 0] /\ targets = [i \in Images |-> 0]
    /\ queued = [i \in Images |-> FALSE]
    /\ confirmed = 0 /\ processed = 0 /\ project = "active" /\ reason = "none"
    /\ service = "up" /\ commons = "up"
    /\ stopping = FALSE /\ canary = FALSE /\ knownDown = FALSE
    /\ at = "idle"
    /\ todo = {} /\ batch = {} /\ wave = {} /\ got = {} /\ failed = {} /\ alone = {}
    /\ out = NoReplies /\ blamed = {} /\ deferred = {}
    /\ image = NoImage /\ before = 0 /\ some = FALSE /\ first = FALSE
    /\ outages = 0 /\ commonsOutages = 0 /\ timeouts = 0 /\ faults = 0
    /\ stops = 0 /\ edits = 0 /\ repeats = 0 /\ cuts = 0 /\ lateProof = FALSE

\* A statement fails, or takes effect and is sent again (_execute_with_retry).
Trouble == outages + commonsOutages + faults + stops + edits < MaxTroubles
Mishap == Trouble /\ faults + stops + edits < MaxMishaps
Fault == Mishap /\ faults' = faults + 1
Repeat == Fault /\ repeats' = repeats + 1
NoFault == UNCHANGED faultVars

EndJob ==
    /\ at' = "idle" /\ todo' = {} /\ batch' = {}
    /\ wave' = {} /\ got' = {} /\ failed' = {} /\ alone' = {}
    /\ out' = NoReplies /\ blamed' = {} /\ deferred' = {}
    /\ image' = NoImage /\ before' = 0 /\ some' = FALSE /\ first' = FALSE

\* _project_still_active: an error counts as active.
StillActive(next, otherwise) ==
    \/ at' = (IF project = "active" THEN next ELSE otherwise) /\ NoFault
    \/ Fault /\ at' = next /\ UNCHANGED <<repeats, cuts>>

-----------------------------------------------------------------------------
(* Discovery. *)

\* _claim_active_projects; the claim itself is ProjectClaims' business.
Claim ==
    /\ at = "idle" /\ ~stopping /\ project = "active"
    /\ at' = "begin"
    /\ UNCHANGED <<world, tableVars, faceVars, projectVars, serviceVars, processVars,
                   jobVars, history>>

Begin ==
    /\ at = "begin"
    /\ StillActive("crawl", "idle")
    /\ todo' = IF at' = "crawl" /\ Room > 0 THEN Images ELSE {}
    /\ UNCHANGED <<world, tableVars, faceVars, projectVars, serviceVars, processVars,
                   batch, waveVars, image, before, some, first,
                   outages, commonsOutages, timeouts, stops, edits, lateProof>>

\* traverse_category: a page of members is stored, as far as the project has room.
CrawlPage ==
    /\ at = "crawl" /\ todo # {} /\ ~stopping /\ commons = "up"
    /\ \E page \in SUBSET todo \ {{}} :
         \E kept \in SUBSET page :
           /\ Cardinality(kept) = (IF Cardinality(page) < Room THEN Cardinality(page) ELSE Room)
           /\ status' = [i \in Images |-> IF i \in kept /\ status[i] = "absent"
                                          THEN "pending" ELSE status[i]]
           /\ todo' = todo \ page
    /\ UNCHANGED <<world, attempts, isolate, boot, faceVars, projectVars, serviceVars,
                   processVars, at, batch, waveVars, image, before, some, first, history>>

\* A failed page ends its category, with the subcategories it would have named.
CrawlFails ==
    /\ at = "crawl" /\ todo # {} /\ ~stopping
    /\ \/ commons # "up" /\ NoFault
       \/ Fault /\ UNCHANGED <<repeats, cuts>>
    /\ \E lost \in SUBSET todo \ {{}} : todo' = todo \ lost
    /\ UNCHANGED <<world, tableVars, faceVars, projectVars, serviceVars, processVars, at,
                   batch, waveVars, image, before, some, first,
                   outages, commonsOutages, timeouts, stops, edits, lateProof>>

CrawlEnds ==
    /\ at = "crawl" /\ (todo = {} \/ stopping \/ Room = 0)
    /\ todo' = {} /\ at' = "crawled"
    /\ UNCHANGED <<world, tableVars, faceVars, projectVars, serviceVars, processVars,
                   batch, waveVars, image, before, some, first, history>>

\* The checks of process_project between its stages.
BetweenStages ==
    /\ at \in {"crawled", "searched"}
    /\ IF stopping
       THEN at' = "idle" /\ NoFault
       ELSE StillActive(IF at = "crawled" THEN "search" ELSE "count", "idle")
    /\ todo' = IF at' = "search" THEN world.depicting ELSE {}
    /\ UNCHANGED <<world, tableVars, faceVars, projectVars, serviceVars, processVars,
                   batch, waveVars, image, before, some, first,
                   outages, commonsOutages, timeouts, stops, edits, lateProof>>

\* bootstrap_from_sparql: one search result, flagged or stored.
Found(i) ==
    /\ at = "search" /\ ~stopping /\ commons = "up" /\ i \in todo
    /\ todo' = todo \ {i}
    /\ status' = IF status[i] = "absent" /\ Room > 0
                 THEN [status EXCEPT ![i] = "pending"] ELSE status
    /\ boot' = [boot EXCEPT ![i] = (@ \/ status'[i] # "absent")]
    /\ IF status[i] = "processed" THEN at' = "reconcile" /\ image' = i
                                  ELSE UNCHANGED <<at, image>>
    /\ UNCHANGED <<world, attempts, isolate, faceVars, projectVars, serviceVars,
                   processVars, batch, waveVars, before, some, first, history>>

\* A processed image turns out to have the statement: nothing is left to write.
Reconcile ==
    /\ at = "reconcile"
    /\ queued' = [queued EXCEPT ![image] = FALSE]
    /\ at' = "adopt"
    /\ UNCHANGED <<world, tableVars, rows, targets, projectVars, serviceVars,
                   processVars, jobVars, history>>

OneFace == rows[image] = 1   \* mutant
OneOpenFace == rows[image] = 1 /\ targets[image] = 0

\* Its only face, if open, becomes a target; a repeated UPDATE reports no row.
Adopt ==
    /\ at = "adopt"
    /\ IF OneOpenFace
       THEN /\ targets' = [targets EXCEPT ![image] = 1]
            /\ queued' = [queued EXCEPT ![image] = TRUE]
            /\ \/ at' = "adopted" /\ NoFault
               \/ at' = "search" /\ Repeat /\ UNCHANGED cuts
       ELSE at' = "search" /\ NoFault /\ UNCHANGED <<targets, queued>>
    /\ UNCHANGED <<world, tableVars, rows, projectVars, serviceVars, processVars, jobVars,
                   outages, commonsOutages, timeouts, stops, edits, lateProof>>

Adopted ==
    /\ at = "adopted" /\ at' = "search"
    /\ \/ confirmed' = confirmed + 1 /\ NoFault
       \/ confirmed' = confirmed + 2 /\ Repeat /\ UNCHANGED cuts
    /\ UNCHANGED <<world, tableVars, faceVars, processed, project, reason, serviceVars,
                   processVars, jobVars, outages, commonsOutages, timeouts, stops, edits,
                   lateProof>>

\* Any failure ends the search, quietly.
SearchFails ==
    /\ \/ at = "search" /\ todo # {} /\ ~stopping /\ commons # "up" /\ NoFault
       \/ at \in {"search", "reconcile", "adopt"} /\ Fault /\ UNCHANGED <<repeats, cuts>>
       \/ at = "adopted" /\ Fault /\ cuts' = cuts + 1 /\ UNCHANGED repeats
    /\ at' = "searched" /\ todo' = {} /\ image' = NoImage
    /\ UNCHANGED <<world, tableVars, faceVars, projectVars, serviceVars, processVars,
                   batch, waveVars, before, some, first,
                   outages, commonsOutages, timeouts, stops, edits, lateProof>>

SearchEnds ==
    /\ at = "search" /\ (todo = {} \/ stopping)
    /\ at' = "searched" /\ todo' = {} /\ image' = NoImage
    /\ UNCHANGED <<world, tableVars, faceVars, projectVars, serviceVars, processVars,
                   batch, waveVars, before, some, first, history>>

-----------------------------------------------------------------------------
(* The batches (_process_pending_images, process_images). *)

\* The number of pending images before the batch; 0 stands for "unknown" too,
\* neither of which the images left afterwards can be below.
Count ==
    /\ at = "count"
    /\ IF stopping
       THEN at' = "filter" /\ NoFault /\ UNCHANGED before
       ELSE /\ at' = "pick"
            /\ \/ before' = Cardinality(Pending) /\ NoFault
               \/ before' = 0 /\ Fault /\ UNCHANGED <<repeats, cuts>>
    /\ UNCHANGED <<world, tableVars, faceVars, projectVars, serviceVars, processVars,
                   todo, batch, waveVars, image, some, first,
                   outages, commonsOutages, timeouts, stops, edits, lateProof>>

Pick ==
    /\ at = "pick"
    /\ batch' = NewBatch /\ some' = FALSE /\ first' = TRUE
    /\ at' = IF batch' # {} THEN "wave" ELSE IF BootstrapLeft = 0 THEN "skip" ELSE "after"
    /\ UNCHANGED <<world, tableVars, faceVars, projectVars, serviceVars, processVars,
                   todo, waveVars, image, before, history>>

\* The cap is reached and nothing else is left: the remaining bootstrap images
\* are skipped, and counted only if there were any.
Skip ==
    /\ at = "skip"
    /\ status' = [i \in Images |-> IF i \in Pending /\ boot[i] THEN "skipped" ELSE status[i]]
    /\ at' = IF status' # status THEN "recount" ELSE "after"
    /\ UNCHANGED <<world, attempts, isolate, boot, faceVars, projectVars, serviceVars,
                   processVars, jobVars, history>>

StartWave ==
    /\ at = "wave"
    /\ IF batch = {} \/ stopping \/ (~first /\ knownDown)
       THEN at' = "recount" /\ batch' = {} /\ UNCHANGED wave
       ELSE at' = "download" /\ wave' = NextWave /\ batch' = batch \ NextWave
    /\ first' = FALSE
    /\ UNCHANGED <<world, tableVars, faceVars, projectVars, serviceVars, processVars,
                   todo, got, failed, alone, out, blamed, deferred, image, before, some,
                   history>>

RecountDetected ==   \* mutant: errors and skipped images do not count
    /\ at = "recount" /\ at' = "after"
    /\ processed' = Cardinality({i \in Images : status[i] = "processed"})
    /\ UNCHANGED <<world, tableVars, faceVars, confirmed, project, reason, serviceVars,
                   processVars, jobVars, history>>
Recount ==
    /\ at = "recount"
    /\ processed' = Cardinality(Finished)
    /\ at' = "after"
    /\ UNCHANGED <<world, tableVars, faceVars, confirmed, project, reason, serviceVars,
                   processVars, jobVars, history>>

\* Progress is images leaving 'pending', not only successes.
After ==
    /\ at = "after"
    /\ LET resolved == Cardinality(Pending) < before
       IN  \/ NoFault /\ at' = IF some \/ resolved THEN "between" ELSE "filter"
           \/ /\ Fault /\ UNCHANGED <<repeats, cuts>>
              /\ at' = IF some THEN "between" ELSE "filter"
    /\ before' = 0
    /\ UNCHANGED <<world, tableVars, faceVars, projectVars, serviceVars, processVars,
                   todo, batch, waveVars, image, some, first,
                   outages, commonsOutages, timeouts, stops, edits, lateProof>>

BetweenBatches ==
    /\ at = "between"
    /\ StillActive("count", "filter")
    /\ UNCHANGED <<world, tableVars, faceVars, projectVars, serviceVars, processVars,
                   jobVars, outages, commonsOutages, timeouts, stops, edits, lateProof>>

-----------------------------------------------------------------------------
(* One wave: downloads (_download_for_detection, _strike_failed_downloads). *)

\* The downloads run side by side.  A failure that may pass is blamed on the
\* image later or not at all; a 429 never is.
Download(i) ==
    /\ at = "download" /\ ~stopping /\ i \in wave
    /\ wave' = wave \ {i}
    /\ LET served == commons = "up" /\ Kind(i) # "unrenderable"
           absent == served /\ Kind(i) = "missing"
       IN  /\ got' = IF served /\ ~absent THEN got \union {i} ELSE got
           /\ failed' = IF ~served /\ commons # "busy" THEN failed \union {i} ELSE failed
           /\ \/ /\ status' = IF absent THEN [status EXCEPT ![i] = "error"] ELSE status
                 /\ NoFault
              \/ absent /\ Fault /\ UNCHANGED <<status, repeats, cuts>>
    /\ UNCHANGED <<world, attempts, isolate, boot, faceVars, projectVars, serviceVars,
                   processVars, at, todo, batch, alone, out, blamed, deferred, image,
                   before, some, first,
                   outages, commonsOutages, timeouts, stops, edits, lateProof>>

\* Shutdown drops the downloads and the wave; nothing is sent any more.
Downloaded ==
    /\ at = "download" /\ (wave = {} \/ stopping)
    /\ wave' = {}
    /\ IF stopping THEN at' = "wave" /\ got' = {} /\ failed' = {}
                   ELSE at' = "canary" /\ UNCHANGED <<got, failed>>
    /\ UNCHANGED <<world, tableVars, faceVars, projectVars, serviceVars, processVars,
                   todo, batch, alone, out, blamed, deferred, image, before, some, first,
                   history>>

OthersServed == got # {}   \* mutant: no canary
CommonsProven == got # {} \/ canary \/ commons = "up"

\* Strikes need proof that Commons works: another download of the wave, or the
\* canary, which is fetched at most once in CANARY_PROOF_SECONDS.
Proof ==
    /\ at = "canary"
    /\ LET asks == failed # {} /\ got = {} /\ ~stopping
       IN  /\ canary' = (canary \/ (asks /\ commons = "up"))
           /\ todo' = IF CommonsProven /\ ~stopping THEN failed ELSE {}
           /\ lateProof' = (lateProof \/ (asks /\ canary /\ commons # "up"))
    /\ failed' = {} /\ at' = "strike"
    /\ UNCHANGED <<world, tableVars, faceVars, projectVars, serviceVars, stopping,
                   knownDown, batch, wave, got, alone, out, blamed, deferred, image,
                   before, some, first,
                   outages, commonsOutages, timeouts, faultVars, stops, edits>>

\* _record_detect_failure: count the strike, then read it back.
Strike(i) ==
    /\ at = "strike" /\ i \in todo
    /\ todo' = todo \ {i}
    /\ \/ /\ at' = "judge" /\ image' = i
          /\ \/ attempts' = [attempts EXCEPT ![i] = @ + 1] /\ NoFault
             \/ attempts' = [attempts EXCEPT ![i] = @ + 2] /\ Repeat /\ UNCHANGED cuts
       \/ Fault /\ UNCHANGED <<repeats, cuts, attempts, at, image>>
    /\ UNCHANGED <<world, status, isolate, boot, faceVars, projectVars, serviceVars,
                   processVars, batch, waveVars, before, some, first,
                   outages, commonsOutages, timeouts, stops, edits, lateProof>>

Judge ==
    /\ at = "judge" /\ at' = "strike" /\ image' = NoImage
    /\ \/ /\ status' = IF attempts[image] >= MaxAttempts
                       THEN [status EXCEPT ![image] = "error"] ELSE status
          /\ NoFault
       \/ Fault /\ UNCHANGED <<status, repeats, cuts>>
    /\ UNCHANGED <<world, attempts, isolate, boot, faceVars, projectVars, serviceVars,
                   processVars, todo, batch, waveVars, before, some, first,
                   outages, commonsOutages, timeouts, stops, edits, lateProof>>

\* The strikes of downloads come before the requests, those of images that
\* failed alone with the other results.
Struck ==
    /\ at = "strike" /\ todo = {}
    /\ IF out # NoReplies
       THEN at' = "results" /\ UNCHANGED <<got, alone>>
       ELSE /\ at' = "send"
            /\ alone' = IF stopping THEN {} ELSE {i \in got : isolate[i]}
            /\ got' = IF stopping THEN {} ELSE {i \in got : ~isolate[i]}
    /\ UNCHANGED <<world, tableVars, faceVars, projectVars, serviceVars, processVars,
                   todo, batch, wave, failed, out, blamed, deferred, image, before, some,
                   first, history>>

-----------------------------------------------------------------------------
(* One wave: requests (detect_faces_batch, _isolate_images). *)

\* A request is limited by count and by bytes.
Send(request) ==
    /\ at = "send" /\ request # {} /\ request \subseteq got
    /\ Cardinality(request) <= RequestSize
    /\ got' = got \ request
    /\ out' = Noted(Replies(request)) /\ service' \in ServiceAfter(request)
    /\ UNCHANGED <<world, tableVars, faceVars, projectVars, commons, processVars, at,
                   todo, batch, wave, failed, alone, blamed, deferred, image, before,
                   some, first, history>>

\* _is_retryable_failure: the images of failed requests are to be sent alone.
Sent ==
    /\ at = "send" /\ got = {}
    /\ alone' = alone \union {i \in Images : out[i] = "down"}
    /\ at' = "isolate"
    /\ UNCHANGED <<world, tableVars, faceVars, projectVars, serviceVars, processVars,
                   todo, batch, wave, got, failed, out, blamed, deferred, image, before,
                   some, first, history>>

\* _wait_for_service ends well: a test detection has just worked.
Untested == ~stopping /\ ~knownDown   \* mutant: no test detection before the retry
ServiceTested == ~stopping /\ ~knownDown /\ service = "up"

TryAlone(i) ==
    /\ at = "isolate" /\ i \in alone /\ ServiceTested
    /\ image' = i /\ at' = "solo"
    /\ UNCHANGED <<world, tableVars, faceVars, projectVars, serviceVars, processVars,
                   todo, batch, waveVars, before, some, first, history>>

TryAgain ==
    /\ at = "again" /\ ServiceTested
    /\ at' = "soloAgain"
    /\ UNCHANGED <<world, tableVars, faceVars, projectVars, serviceVars, processVars,
                   jobVars, history>>

\* It ends badly, at once while the service is known to be down: everything
\* not tried or not confirmed is put off, and nobody blamed.
GiveUp ==
    /\ at \in {"isolate", "again"} /\ alone # {}
    /\ \/ stopping \/ knownDown
       \/ service # "up" /\ timeouts < MaxTimeouts
    /\ knownDown' = (knownDown \/ ~stopping)
    /\ timeouts' = IF stopping \/ knownDown THEN timeouts ELSE timeouts + 1
    /\ deferred' = alone /\ alone' = {} /\ image' = NoImage
    /\ out' = [i \in Images |-> IF i \in alone /\ out[i] = "none" THEN "down" ELSE out[i]]
    /\ at' = "results"
    /\ UNCHANGED <<world, tableVars, faceVars, projectVars, serviceVars, stopping, canary,
                   todo, batch, wave, got, failed, blamed, before, some, first,
                   outages, commonsOutages, faultVars, stops, edits, lateProof>>

\* An image on its own: only one that fails twice, each time after a working
\* test, is blamed.
Solo ==
    /\ at \in {"solo", "soloAgain"}
    /\ out' = Noted(Replies({image})) /\ service' \in ServiceAfter({image})
    /\ IF out'[image] = "down" /\ at = "solo"
       THEN at' = "again" /\ UNCHANGED <<alone, blamed, image>>
       ELSE /\ at' = "isolate" /\ alone' = alone \ {image} /\ image' = NoImage
            /\ blamed' = IF out'[image] = "down" THEN blamed \union {image} ELSE blamed
    /\ UNCHANGED <<world, tableVars, faceVars, projectVars, commons, processVars, todo,
                   batch, wave, got, failed, deferred, before, some, first, history>>

Isolated ==
    /\ at = "isolate" /\ alone = {}
    /\ at' = "results"
    /\ UNCHANGED <<world, tableVars, faceVars, projectVars, serviceVars, processVars,
                   jobVars, history>>

-----------------------------------------------------------------------------
(* One wave: results (_handle_detection_failure, _persist_detection). *)

Result(i) ==
    /\ at = "results" /\ ~stopping /\ out[i] # "none"
    /\ CASE i \in blamed ->
              /\ at' = "strike" /\ todo' = {i} /\ blamed' = blamed \ {i}
              /\ UNCHANGED <<status, out, image>>
         [] i \notin blamed /\ out[i] = "faces" ->
              /\ at' = (IF FacesIn[i] > 0 THEN "insert" ELSE "finish") /\ image' = i
              /\ UNCHANGED <<status, out, todo, blamed>>
         [] i \notin blamed /\ out[i] # "faces" ->
              /\ status' = IF out[i] = "refused" THEN [status EXCEPT ![i] = "error"] ELSE status
              /\ out' = [out EXCEPT ![i] = "none"]
              /\ UNCHANGED <<at, todo, blamed, image>>
    /\ UNCHANGED <<world, attempts, isolate, boot, faceVars, projectVars, serviceVars,
                   processVars, batch, wave, got, failed, alone, deferred, before, some,
                   first, history>>

Stored ==
    /\ at' = "results" /\ some' = TRUE
    /\ out' = [out EXCEPT ![image] = "none"] /\ image' = NoImage

Insert ==
    /\ at = "insert"
    /\ \/ rows' = [rows EXCEPT ![image] = @ + FacesIn[image]] /\ at' = "finish" /\ NoFault
       \/ /\ rows' = [rows EXCEPT ![image] = @ + 2 * FacesIn[image]] /\ at' = "finish"
          /\ Repeat /\ UNCHANGED cuts
       \/ at' = "storeError" /\ Fault /\ UNCHANGED <<rows, repeats, cuts>>
    /\ UNCHANGED <<world, tableVars, targets, queued, projectVars, serviceVars,
                   processVars, jobVars, outages, commonsOutages, timeouts, stops, edits,
                   lateProof>>

\* Something after the faces fails: the image becomes an error, with its faces.
StoreFails == at' = "storeError" /\ Fault /\ cuts' = cuts + 1 /\ UNCHANGED repeats

Finish ==
    /\ at = "finish"
    /\ \/ /\ status' = [status EXCEPT ![image] = "processed"] /\ NoFault
          /\ IF boot[image] /\ FacesIn[image] = 1
             THEN at' = "classify" /\ UNCHANGED <<out, image, some>> ELSE Stored
       \/ StoreFails /\ UNCHANGED <<status, out, image, some>>
    /\ UNCHANGED <<world, attempts, isolate, boot, faceVars, projectVars, serviceVars,
                   processVars, todo, batch, wave, got, failed, alone, blamed, deferred,
                   before, first,
                   outages, commonsOutages, timeouts, stops, edits, lateProof>>

\* The open faces of a bootstrapped image become targets; all of them, also
\* those a cut left behind.
Classify ==
    /\ at = "classify"
    /\ LET adopts == /\ targets' = [targets EXCEPT ![image] = rows[image]]
                     /\ queued' = [queued EXCEPT ![image] = TRUE]
       IN  \/ adopts /\ at' = "confirm" /\ NoFault /\ UNCHANGED <<out, image, some>>
           \/ adopts /\ Stored /\ Repeat /\ UNCHANGED cuts
           \/ StoreFails /\ UNCHANGED <<targets, queued, out, image, some>>
    /\ UNCHANGED <<world, tableVars, rows, projectVars, serviceVars, processVars, todo,
                   batch, wave, got, failed, alone, blamed, deferred, before, first,
                   outages, commonsOutages, timeouts, stops, edits, lateProof>>

Confirm ==
    /\ at = "confirm"
    /\ \/ confirmed' = confirmed + targets[image] /\ at' = "mark" /\ NoFault
       \/ /\ confirmed' = confirmed + 2 * targets[image] /\ at' = "mark"
          /\ Repeat /\ UNCHANGED cuts
       \/ StoreFails /\ UNCHANGED confirmed
    /\ UNCHANGED <<world, tableVars, faceVars, processed, project, reason, serviceVars,
                   processVars, jobVars, outages, commonsOutages, timeouts, stops, edits,
                   lateProof>>

Mark ==
    /\ at = "mark"
    /\ \/ queued' = [queued EXCEPT ![image] = FALSE] /\ Stored /\ NoFault
       \/ StoreFails /\ UNCHANGED <<queued, out, image, some>>
    /\ UNCHANGED <<world, tableVars, rows, targets, projectVars, serviceVars, processVars,
                   todo, batch, wave, got, failed, alone, blamed, deferred, before, first,
                   outages, commonsOutages, timeouts, stops, edits, lateProof>>

StoreError ==
    /\ at = "storeError" /\ at' = "results"
    /\ status' = [status EXCEPT ![image] = "error"]
    /\ out' = [out EXCEPT ![image] = "none"] /\ image' = NoImage
    /\ UNCHANGED <<world, attempts, isolate, boot, faceVars, projectVars, serviceVars,
                   processVars, todo, batch, wave, got, failed, alone, blamed, deferred,
                   before, some, first, history>>

Recorded ==
    /\ at = "results" /\ (out = NoReplies \/ stopping)
    /\ at' = "flag" /\ out' = NoReplies /\ blamed' = {}
    /\ UNCHANGED <<world, tableVars, faceVars, projectVars, serviceVars, processVars,
                   todo, batch, wave, got, failed, alone, deferred, image, before, some,
                   first, history>>

\* _flag_for_solo_retry, best effort.
Flag ==
    /\ at = "flag" /\ at' = "wave" /\ deferred' = {}
    /\ \/ /\ isolate' = [i \in Images |-> isolate[i] \/ (i \in deferred /\ i \in Pending)]
          /\ NoFault
       \/ deferred # {} /\ Fault /\ UNCHANGED <<isolate, repeats, cuts>>
    /\ UNCHANGED <<world, status, attempts, boot, faceVars, projectVars, serviceVars,
                   processVars, todo, batch, wave, got, failed, alone, out, blamed, image,
                   before, some, first,
                   outages, commonsOutages, timeouts, stops, edits, lateProof>>

-----------------------------------------------------------------------------
(* The verdict (_auto_complete_unusable_project). *)

Filter ==
    /\ at = "filter"
    /\ IF stopping THEN at' = "idle" /\ NoFault ELSE StillActive("verdict", "idle")
    /\ UNCHANGED <<world, tableVars, faceVars, projectVars, serviceVars, processVars,
                   jobVars, outages, commonsOutages, timeouts, stops, edits, lateProof>>

VerdictAtOnce ==   \* mutant: images still pending are not asked for
    /\ at = "verdict"
    /\ at' = IF SumOver(rows) = 0 THEN "no_faces" ELSE "idle"
    /\ UNCHANGED <<world, tableVars, faceVars, projectVars, serviceVars, processVars,
                   jobVars, history>>
Verdict ==
    /\ at = "verdict"
    /\ at' = IF Pending # {} THEN "idle"
             ELSE IF SumOver(rows) = 0 THEN "no_faces"
             ELSE IF SumOver(rows) <= 5 /\ SumOver(rows) < MinConfirmed
                  THEN "insufficient_faces" ELSE "idle"
    /\ UNCHANGED <<world, tableVars, faceVars, projectVars, serviceVars, processVars,
                   jobVars, history>>

Complete ==
    /\ at \in {"no_faces", "insufficient_faces"}
    /\ IF project = "active" THEN project' = "completed" /\ reason' = at
                             ELSE UNCHANGED <<project, reason>>
    /\ at' = "idle"
    /\ UNCHANGED <<world, tableVars, faceVars, confirmed, processed, serviceVars,
                   processVars, jobVars, history>>

\* A failing statement that process_project catches only at its end; in
\* bootstrap_from_sparql that is the first one, before any result is looked at.
Raises ==
    /\ \/ at \in {"begin", "pick", "skip", "recount", "verdict", "no_faces",
                  "insufficient_faces", "storeError"}
       \/ at = "search" /\ todo = world.depicting
       \/ at = "results" /\ \E i \in Images : out[i] = "refused"
    /\ Fault /\ EndJob
    /\ UNCHANGED <<world, tableVars, faceVars, projectVars, serviceVars, processVars,
                   outages, commonsOutages, timeouts, repeats, cuts, stops, edits,
                   lateProof>>

-----------------------------------------------------------------------------
(* The worker process, the owner, the services and the clock. *)

NewProcess == stopping' = FALSE /\ canary' = FALSE /\ knownDown' = FALSE

Stop ==
    /\ ~stopping /\ Mishap
    /\ stopping' = TRUE /\ stops' = stops + 1
    /\ UNCHANGED <<world, tableVars, faceVars, projectVars, serviceVars, canary, knownDown,
                   at, jobVars, outages, commonsOutages, timeouts, faultVars, edits,
                   lateProof>>

Restart ==
    /\ stopping /\ at = "idle" /\ NewProcess
    /\ UNCHANGED <<world, tableVars, faceVars, projectVars, serviceVars, at, jobVars,
                   history>>

Crash ==
    /\ at # "idle" /\ Mishap
    /\ stops' = stops + 1
    /\ cuts' = cuts + (IF at \in HalfStored THEN 1 ELSE 0)
    /\ EndJob /\ NewProcess
    /\ UNCHANGED <<world, tableVars, faceVars, projectVars, serviceVars,
                   outages, commonsOutages, timeouts, faults, repeats, edits, lateProof>>

\* project_settings; any status but 'completed' clears the reason.
SaveSettings(s) ==
    /\ Mishap /\ s # project
    /\ edits' = edits + 1
    /\ project' = s /\ reason' = IF s = "completed" THEN reason ELSE "none"
    /\ UNCHANGED <<world, tableVars, faceVars, confirmed, processed, serviceVars,
                   processVars, at, jobVars, outages, commonsOutages, timeouts, faultVars,
                   stops, lateProof>>

\* Outages begin where the service in question is used; earlier ones differ
\* in nothing a step could see.
ServiceBreaks ==
    /\ at \in {"send", "isolate", "solo", "again", "soloAgain"}
    /\ service = "up" /\ Trouble
    /\ outages' = outages + 1 /\ service' \in {"down", "other model"}
    /\ UNCHANGED <<world, tableVars, faceVars, projectVars, commons, processVars, at,
                   jobVars, commonsOutages, timeouts, faultVars, stops, edits, lateProof>>

ServiceRecovers ==
    /\ service # "up" /\ service' = "up"
    /\ UNCHANGED <<world, tableVars, faceVars, projectVars, commons, processVars, at,
                   jobVars, history>>

CommonsBreaks ==
    /\ at \in {"crawl", "search", "download", "canary"}
    /\ commons = "up" /\ Trouble
    /\ commonsOutages' = commonsOutages + 1 /\ commons' \in {"busy", "down"}
    /\ UNCHANGED <<world, tableVars, faceVars, projectVars, service, processVars, at,
                   jobVars, outages, timeouts, faultVars, stops, edits, lateProof>>

CommonsRecovers ==
    /\ commons # "up" /\ commons' = "up"
    /\ UNCHANGED <<world, tableVars, faceVars, projectVars, service, processVars, at,
                   jobVars, history>>

\* DETECT_RECOVERY_WAIT and CANARY_PROOF_SECONDS pass.
ForgetOutage ==
    /\ knownDown /\ knownDown' = FALSE
    /\ UNCHANGED <<world, tableVars, faceVars, projectVars, serviceVars, stopping, canary,
                   at, jobVars, history>>
ForgetCanary ==
    /\ at = "canary" /\ canary /\ canary' = FALSE
    /\ UNCHANGED <<world, tableVars, faceVars, projectVars, serviceVars, stopping,
                   knownDown, at, jobVars, history>>

Work ==
    \/ Claim \/ Begin \/ CrawlPage \/ CrawlFails \/ CrawlEnds \/ BetweenStages
    \/ \E i \in Images : Found(i)
    \/ Reconcile \/ Adopt \/ Adopted \/ SearchFails \/ SearchEnds
    \/ Count \/ Pick \/ Skip \/ StartWave \/ Recount \/ After \/ BetweenBatches
    \/ \E i \in Images : Download(i) \/ Strike(i) \/ TryAlone(i) \/ Result(i)
    \/ Downloaded \/ Proof \/ Judge \/ Struck
    \/ \E request \in SUBSET got : Send(request)
    \/ Sent \/ TryAgain \/ GiveUp \/ Solo \/ Isolated
    \/ Insert \/ Finish \/ Classify \/ Confirm \/ Mark \/ StoreError \/ Recorded \/ Flag
    \/ Filter \/ Verdict \/ Complete \/ Raises \/ Restart

Next ==
    \/ Work
    \/ Stop \/ Crash
    \/ \E s \in {"active", "paused", "completed"} : SaveSettings(s)
    \/ ServiceBreaks \/ ServiceRecovers \/ CommonsBreaks \/ CommonsRecovers
    \/ ForgetOutage \/ ForgetCanary

Spec == Init /\ [][Next]_vars

\* The worker goes on, the services come back, and the clock runs.  That a
\* wait for the service seldom times out is the bound MaxTimeouts.
FairSpec ==
    /\ Spec
    /\ WF_vars(Work) /\ WF_vars(ServiceRecovers) /\ WF_vars(CommonsRecovers)
    /\ WF_vars(ForgetOutage)

-----------------------------------------------------------------------------
(* Properties. *)

Innocent(i) == Kind(i) = "plain"

\* An image nothing is wrong with is spared however its neighbours, the
\* service and Commons behave (worker.py:1111-1112: "a failure is asked again
\* ... only an image that fails twice in a row is blamed"): every strike
\* against it costs two outages of the service, or the beginning or the end
\* of one of Commons.  Excepted is a strike given on an old canary, and a
\* statement that counts twice.
InnocentsAreSpared ==
    ~lateProof =>
    \A i \in Images :
        Innocent(i) => 2 * attempts[i] <= 4 * commonsOutages + outages + 2 * repeats

\* Only strikes, or a failure to store its faces, write such an image off:
\* not a refusal, a batch that failed, or a missing neighbour.
ErrorsAreEarned ==
    \A i \in Images :
        Innocent(i) /\ status[i] = "error" => attempts[i] >= MaxAttempts \/ faults > 0

\* An image is not detected a second time once its faces are stored: what is
\* in the table is what the detector found, once, plus once for each time the
\* faces were stored and the image was not marked, or a statement was sent
\* twice; and a processed image has its faces.
FacesAreStoredOnce ==
    \A i \in Images :
        /\ rows[i] <= FacesIn[i] * (1 + cuts + repeats)
        /\ status[i] = "processed" => rows[i] >= FacesIn[i]

\* projects.faces_confirmed is the number of targets the bootstrap has set,
\* as long as no step of recording them was lost or done twice.
ConfirmedIsExact ==
    cuts = 0 /\ repeats = 0 /\ at \notin {"confirm", "adopted"} =>
        confirmed = SumOver(targets)

\* The progress shown is exact when the worker rests, unless a run was cut
\* short before it counted again.
ProgressIsExact ==
    at = "idle" /\ stops = 0 /\ faults = 0 => processed = Cardinality(Finished)

\* The project is not completed while an image waits for detection, and
\* "no faces" means that none is stored (worker.py:3597-3602).
VerdictsWait ==
    [][project # "completed" /\ project' = "completed" /\ edits' = edits =>
          Pending = {} /\ (reason' = "no_faces" => SumOver(rows) = 0)]_vars

\* A wave that fails as a whole is retried one by one, and that ends: no image
\* stays pending while its project is active.
ImagesSettle ==
    Pending # {} ~> (Pending = {} \/ project # "active")

\* "Without this guard a transient outage is recorded as a permanent 'no faces
\* in this category' verdict" (worker.py:3599-3602): with the guard, an outage
\* of Commons alone does not end a project that has an image with a face.
OutagesCompleteNothing ==
    reason = "no_faces" /\ outages = 0 /\ faults = 0 /\ ~lateProof =>
        \A i \in Images : Innocent(i) => FacesIn[i] = 0
===============================================================================
