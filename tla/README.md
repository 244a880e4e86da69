# WikiVisage: TLA+ specification and proofs

WikiVisage lets Wikimedia volunteers find the photos of one person on Commons. A web app
collects human verdicts on detected faces, background workers crawl categories, detect
faces, classify the rest by a centroid model and write "depicts" statements (P180) to
Commons in a volunteer's name.

This directory holds TLA+ modules of the parts of the system where several processes meet
over shared state, TLC configurations that check them on small instances, and proofs for
the TLA+ proof system. All definitions are translated from the Python sources;
`PROJECT.json` maps each to its lines.

## Inventory

| Component | State | Operations | Interacts with |
|---|---|---|---|
| OAuth token refresh (`oauth_refresh.py`, `redis_lock.py`, `token_crypto.py`) | `users.refresh_token`, `token_expires_at`; Redis key `oauth-refresh:<user>` | `refresh_tokens`, `store_tokens`, `single_flight`, `oauth_callback` | token endpoint, every web request and worker call that needs a token |
| Project claims and main loop (`worker.py`) | `projects.worker_claimed_by`, `worker_claimed_at`; per process: executor threads, `seen_ids`, lists | the four claim queries, `_release_project`, `_refresh_claims`, `_run_cycle`, `_supervise`, shutdown | other workers through the table only; users through status and request flags |
| SDC writes (`worker.py` 2353-3131, handlers in `app.py`) | `faces.sdc_written`, `sdc_removal_pending`, `sdc_claims`, `projects.sdc_write_requested` | send, stop, write run, removal phase, undo, reject | Commons API; review handlers change the same faces during a run |
| Review (`app.py` 2605-3650) | `faces.is_target`, `classified_by`, box columns, `images.bootstrapped` | classify, undo, draw, reclassify, box edit | inference, SDC run |
| Inference (`worker.py` 2032-2333, `app.py` 4506-4671) | faces without a verdict, `min_confirmed`, `distance_threshold` | gate, snapshot, batches, re-run | review, claims, wake-ups |
| Image pipeline (`worker.py` 734-1675, 3547-3775, `face_client.py`) | `images.status`, `detect_attempts`, `detect_isolate`, `bootstrapped`; faces; `faces_confirmed`, `images_processed`; what the process remembers of outages | crawl, search, waves, solo retries, strikes, storing, verdict on the project | face service, Commons, settings |
| Wake-up counter (`wake.py`) | `worker_wake.seq`, per-worker baseline | `request_wake`, `prime`, `consume` | web app asks; the main loop of every worker looks while its threads run and while it sleeps |
| Heartbeat and stall detection (`worker.py` 292-453, `app.py` 996-1066) | `worker_heartbeat` | beat, probe | deployment's restart |
| LiftWing pre-filter (`liftwing_client.py`, `worker.py` 1764-2030) | `images` verdicts, service status | batch, sweep, probe | claims (own thread) |
| Membership and life cycle (`app.py` 1742-1823, 4102-4503, 4674-4764) | members, invitations, project status | invite, leave, ban, settings, delete, revive | purge, every handler's access check |
| Sessions (`app.py` 368-411) | `users.session_epoch` | login, logout everywhere | every request |
| Database pool (`database.py`) | pool, per-thread connections | `execute_query` (repeats a failed statement), `execute_insert`, `execute_transaction` | everything |
| Face client, model server, migrations, pages, scripts | - | numerics, HTTP, one-off DDL, rendering | - |

What is hard here: two worker processes with some ten threads each share projects through
two columns with an expiry; a request's copy of the user row goes stale while another
process rotates the token; long SDC runs and inference runs interleave with people who
change their verdict on the very faces being written; access is checked on one connection
and used on another; a failed request to the face service may be the fault of any of its
images or of none; processes are killed at any point; claims and locks time out under live
holders; and a worker sleeps on a counter it reads on its own schedule. The hazards are
listed with their lines in `PROJECT.json`, each with the properties about it.

## Modules

| Module | Models | Checked by | Proved in |
|---|---|---|---|
| `TokenRefresh` | refresh protocol of one user | `TokenLocked`, `TokenNoLock` | `TokenRefreshProofs` |
| `ProjectClaims` | claims, main loop, executors, sweep | `ClaimsOne`, `ClaimsFaults`, `ClaimsRestart`, `ClaimsSdcTwice` | `ProjectClaimsProofs` |
| `SdcClaims` | write runs, deduplication row, review handlers, one page and item | `SdcReview`, `SdcShared`, `SdcUndo` | `SdcClaimsProofs`, `SdcReviewProofs` |
| `ImagePipeline` | a project's images from the crawl to the verdict on the project | `Images`, `ImagesVerdict` | `ImagePipelineProofs`, `ImageWavesProofs` |
| `WakeSignal` | what the wake-up counter promises (abstract) | | |
| `WakeCounter` | the counter and the loops that watch it; implements `WakeSignal` | `ProjectLife` | `WakeCounterProofs` |
| `Inference` | verdicts on faces, inference runs, re-run, reviews | `ProjectLife` | `ProjectLifeProofs` |
| `ProjectLife` | members, requests and workers; composes `WakeCounter` and `Inference` | `ProjectLife` | `ProjectLifeProofs` |

`MCTokenRefresh`, `MCProjectClaims`, `MCSdcClaims`, `MCImagePipeline` and `MCProjectLife`
give the constants values for TLC.

How the modules meet. `ProjectClaims` says who works on a project; `ImagePipeline` and
`SdcClaims` are what one such job does, and assume what `ClaimsOne` shows of the claims
(one pipeline per project) or say where they do not (`ClaimsSdcTwice`). `ProjectLife`
assumes nothing about claims: its runs may all be on the same project. `SdcClaims` and
`Inference` see the same `faces` rows from two sides: the first keeps what is on Commons
and reduces a verdict to who may still want the statement, the second keeps verdicts and
authors and reduces the statement to "a removal is queued". A handler that does both
appears in both, each time as a whole for what the module keeps.

### TokenRefresh

`pc[p]` is where a call of `refresh_tokens` is, `cred` and `reply` its locals, `row` the
columns of the users row, `lock` the Redis key. One action stands for the code between two
accesses to shared state: `Acquire` (SET NX EX), `Reread`, `Exchange` (the POST), `Store`
(compare-and-swap UPDATE), `Winner`, `Wait` (the peer wait and the recursion), `Release`
(compare-and-delete). Web requests hold a copy from the start of the request (`StartWeb`);
worker calls read first (`StartWorker`) and do not read again under the lock. A refresh
token is the number under which the provider minted it and `token_expires_at` is the
number of its reply ("stamp"); the code only compares stamps for equality, and time passes
by moving `horizon`. Failures modelled: crash at any point, reply lost, store failed or
reported as failed although it took effect (`execute_query` repeats a statement on a
broken connection), Redis absent or failing at any command (`RedisFails`), TTL over while
the holder still works (`SlowHolders`), a login in between, an encryption key replaced.

What the provider does with a refresh token that was traded before is external. It
refuses it, and it may take the replay for a theft and cancel what the first exchange gave
out and everything issued for that since (`Replay`; `heirs` says what was issued for
what): redis_lock.py:5-8 and oauth_refresh.py:3-5 expect that, and the user is logged out
then. Which of the two happens is open at every replay, and its reply may be lost.
`superseded`, `orphaned` and `revoked` are histories: tokens with a stored successor,
tokens whose successor was lost before it was stored, and tokens a worker's replay has
cancelled (disagreement 4 below).

Expiry stamps are assumed distinct: the code stores whole seconds, so two replies in the
same second would share one.

### ProjectClaims

A project is reduced to the predicates the claim queries test (`status`, `pending`,
`unclassified`, `ready`, `unchecked`, `sdcReq`) and its claim (`owner`, `stale`). Each
worker has a main thread (`at`, `back`, `loop`: the position in `_run_cycle` and in
`_supervise`, from which `_process_sdc_writes` can be entered), executor threads
(`job[w][p]`) and the sweep thread (`sweep`). A claim grows stale (`Expire`) only when
nothing refreshes it (`KeptFresh`), unless `SlowJobs` lets a job's step outlast it. A
project that is claimed and waits for its turn loses its claim only behind SDC runs that
take longer than `CLAIM_EXPIRY_MINUTES`, which `LongEdits` admits.
Statements on the claim columns fail under `DbFails`. What a job does is reduced to what
the claim queries can see (`JobWork`, `Infer`); what it is in full is in `ImagePipeline`,
`Inference` and `SdcClaims`.

### SdcClaims

One Commons page with one item, an image of which every project has. `claims` is the
number of statements with that item on the page, `row` the page's row in `sdc_claims`, and
`verdict`, `replaced`, `by`, `written`, `removal` are columns of `faces` (`is_target`,
`superseded_by`, `classified_by` with its user, `sdc_written`, `sdc_removal_pending`). A
run is at the place `at[p]`, and every step of it is the code between two accesses to the
database or to Commons: the batch (`Select`, `NextFace`, `EndBatch`), one face (`Reserve`,
`Lookup`, `Adopt`, `Recheck`, `Edit`, `Record`), the removal phase (`Removing`,
`RemovalLookup`, `RemovalSend`, `Settle`, `ClearRow`) and `Finish`; `AbortRun` is every exit through
`_abort_sdc_run`. `NextFace` takes the faces of a batch in any order and may notice Stop
before any of them (the code looks every five faces, and the batch holds faces of other
pages too). A review handler of user `u` is in a phase `doing[u]`, with the columns it
read in `saw[u]`: reclassify, classify, undo, drawing a box, editing one, re-running
inference; `last` and `drawn` are the session's. Shutdown is a flag that a run notices
where the code looks at it, a crash ends the run at any place and leaves the request
standing.

What is simplified, and why it may be:

- Statements have no identity. A removal takes one off if there is one; the code removes
  the first with the item it finds. `ours` says that one was added by a run.
- The statements of `_reserve_claim` are one step, since only the insert and the takeover
  change the row and both are conditional in the database. The lookup and removal in
  `_remove_sdc_claim` are one step too, its failures included, and its delete of the row
  another (`Clear`).
- The reservation grows stale (`RowAges`) only while nobody works under it: on one page a
  run takes less than `CLAIM_EXPIRY_MINUTES`. What a run can do is go on with a row that
  has grown stale before.
- Authentication errors return a face to the queue (`TokenRefused`); that their number is
  bounded shows as an `AbortRun`. The lost reply of an edit is repeated once.
- Images that the crawl found with a statement (`bootstrapped` from the start, faces
  classified by bootstrap) are in `ImagePipeline` and `ProjectLife`; here an image becomes
  `bootstrapped` when the statement is found later.
- One run per project at a time. `ClaimsSdcTwice` shows that the claims do not guarantee
  it; two runs of one project would both go on with the row that is theirs, so what is
  proved about the page holds where that does not happen.

Three histories serve the properties. `promised` is the set of approved faces a request
was made for; `late` says that it was made when a run that had been stopped was past its
write phase (`Ending`), which `PromisesAreKept` excepts (disagreement 8). `accidents` records what the
properties except: a deduplication row taken away under a run ("row lost") and a repeated
edit ("reply lost"), against which the code has no defence, and handlers that revert or
replace a face ("reverted"), about which `UndoLeavesNoClaim` speaks.

### ImagePipeline

The tables are functions on images (`status`, `attempts` for `detect_attempts`, `isolate`,
`boot`; `rows`, `targets`, `queued` for the faces of an image), and `at` is where the
project's only pipeline is in `process_project`: crawl, search, count, pick a batch, start
a wave, download, canary, strikes, send, isolate, store, recount, verdict. The variables
from `todo` to `first` are the locals of the functions on the way. An action is the code
between two statements or two requests to a service; `BetweenStages` and `BetweenBatches`
are the checks of status and shutdown there. An image has a kind, which the world fixes
and the code has to find out: `plain`, `poison` (the service does not survive it),
`refused`, `unrenderable` (Commons answers 5xx), `missing`. `Replies` is what a request
yields of them, `ServiceAfter` how it leaves the service. The service may break, or run
another model, wherever it is used, since other projects share it; Commons may be busy or
down. `Fault` is a failed statement, `Repeat` one that is sent twice because its
connection broke (`_execute_with_retry`), `Crash` and `Stop` a killed and a terminated
worker.

Simplified: the kinds of error of a download are the two the code treats differently;
waits are their outcomes (`ServiceTested`, `GiveUp`); a face is a unit of a count and the
bootstrap verdict picks the only one; members of the category are found in any order and
page size. The stages after detection are only passed through (`Filter`). `cuts`,
`repeats` and `lateProof` are histories for what the properties except.

### WakeSignal and WakeCounter

`WakeSignal` is the comment at the head of wake.py as a specification: requests are
counted, some workers listen, and of those some have yet to look. `WakeCounter` is the
code: `seq` is the row, `seen[w]` the baseline, `hand[w]` the value `_read` returned (none
if it failed) until `prime` or `consume` compares it, so a request may come in between,
and `woken[w]` a `True` from `consume` on which the loop has not acted. `place[w]` is
where the main loop is: starting, drain (`_drain_inference_queue`), busy
(`_process_active_projects`), asleep, down. Under `Listening` (workers with a baseline)
and `Asked` (those whose baseline is not `seq`, or that are woken) it implements
`WakeSignal`.

A worker that could not read the counter at its start has no baseline and adopts the first
value it reads without waking: it does not listen before.

### Inference and ProjectLife

`Inference` has the verdicts: `verdict` and `by` are `is_target` and the author
(`classified_by_user_id`, or `classified_by` without one), `queued` is
`sdc_removal_pending`, `run[r]` a call of `run_autonomous_inference` in thread `r`: the
gate, the snapshot of candidates and matches, then one locked batch at a time, with the
settings it was started with; a failed statement (`Break`) leaves it half done. Distances
are constants: the centroid moves as people confirm, and what a run decides by them is
only checked against what may hold for any distances. Each human handler is its
transaction; where the handler decides by what it read before, or by what is on Commons,
any outcome is taken (`Approve`, `Reject`, the `due` of an undo).

`ProjectLife` adds what decides whether those handlers may run. A request is two steps,
`Arrive` (the check on the request's own connection) and its transaction, which checks
again under the project's lock for reviews and the re-run and does not for the owner's
single statements. `member`, `invited` are the rows of `project_members` and the invite
code, `last` is `session["last_classify"]`. A worker takes a turn at the project once per
cycle (`DrainRun`), once a minute while threads run (`KeepAlive`), and on a wake-up. Runs
of several threads are not kept apart.

Left out: what a run records about itself (`last_inference_*` is shown and decides
nothing), skipping a face, which image is shown next, free slots for other projects.

## Runs

All runs say `CHECK_DEADLOCK FALSE`: the numbers of calls, requests, stops and edits are
bounded, so a behaviour may end.

| Run | Instance | Shows |
|---|---|---|
| `TokenLocked` | 2 web requests, 1 worker, 1 call each, rotating provider | single flight, no replaced token sent after a re-read, the grant outlives everything but a lost successor and a worker's replay, every call returns |
| `TokenNoLock` | 1 web request, 1 worker, 1 login, Redis failing, locks expiring | the compare-and-swap alone keeps the row from regressing and logins from being overwritten |
| `ClaimsOne` | 2 workers, 1 project, sweeps, 1 request, 1 stop | whoever works on the project holds its claim, nobody else does |
| `ClaimsFaults` | 2 workers, 1 project, failing statements, slow jobs, 1 request | an unexpired claim is given up by its owner only |
| `ClaimsRestart` | 1 worker, 1 project, sweeps, owner deletes and revives, 1 request, 1 stop | requests are answered and work is picked up |
| `ClaimsSdcTwice` | 2 workers, 1 project, sweeps, 1 request | **violated**: two workers write the same SDC queue |
| `SdcReview` | 1 project, 1 detected face, 1 face that can be drawn or edited, 1 user, 2 handlers, 2 requests (Stop between them), 1 shutdown or crash, failing requests | no statement of a run is orphaned by a rejection; a silent end has done what was asked |
| `SdcShared` | 2 projects, 1 face each, 1 rejection or approval, 2 requests, 1 shutdown or crash, no failing requests | one writer per page, no second statement, a rejection in one project beside a run of the other, runs end |
| `SdcUndo` | 1 project, 1 face, classify and undo, no failures | **violated**: an undo strands a statement |
| `Images` | 2 images in 4 pairs of kinds, 1 face each, batches, waves and requests of 2, 2 strikes, cap of 1 bootstrap image; up to 2 outages, one of which may be a failed or repeated statement, a shutdown, a crash or saved settings | no image is written off for another's fault or an outage, faces are stored once, counts are exact, verdicts wait, and no image stays pending |
| `ImagesVerdict` | the same without mishaps | **violated**: an outage of Commons completes the project as "no faces" |
| `ProjectLife` | 1 worker with 1 inference thread, owner and guest, 1 image with a confirmed and an open face, 2 settings, batches of 1 face, 2 web requests, 2 wake-ups, 1 crash, failed read or failed run | the model gives way to people; revoked access and bans hold; waiting faces are classified; wake-ups are neither lost nor made up |

Bounds. `MaxCalls`, `MaxLogins`, `MaxRequests` and `MaxStops` cap otherwise unbounded
counters, and so do `MaxReviews` for the review handlers called and the one repetition of
a lost edit; `MaxPasses` is the code's `_SDC_BLOCKED_MAX_PASSES`, set to 2 so that both a
pass that goes on and the one that gives up occur. For the SDC runs two handlers around
one run are the interesting case (approve, then reject or undo while the run is at any
place); two faces on the image give a sibling that keeps or loses the statement. Two
projects with one face each are the least that compete for the row. The second request of
`SdcReview` can be made while the run of the first, stopped request is still under way, at
any of its places. `SdcReview` is stated
with a view (`ReviewView`: states that differ only in what no later step and no property
of the run reads are one) and a constraint (`RepliesArrive`: what comes after an edit that
was applied twice is not followed; `NoSecondClaim` excepts it and the proofs cover it).
One call per caller is enough for the token protocol: a call that waits starts over inside
itself, and a second call of a caller differs from the call of another caller only in
coming later. Three callers of two kinds give a holder, a waiter and an intruder. For the
claims two workers are the deployed number (`--worker-id` 0 and 1). A run with two
projects and two workers does not finish in minutes; the claims of different projects only
meet in `MaxConcurrent` and in the main thread's order, and the one disturbance they are
known to cause each other (a long SDC run on one project outlasting the claim of another
that waits in `listed`, so that a job starts beside inline inference of the same worker)
is named as a hazard. `ClaimsOne` excludes it (`LongEdits` is FALSE there and in the
theorems that cover any number of projects), the other runs of the claims admit it.

The pairs of `Images` put an ordinary image beside one that takes the service down, beside
a missing one that competes for the bootstrap cap, beside one that cannot be rendered, and
two that are given up; two images are a wave that fails for one of them, and the least
with an innocent. Two outages give the strikes of two waves, hence a write-off that the
code must not make. `MaxTimeouts` bounds waits for the service that end without it.

In `ProjectLife` two requests are enough for one that overtakes another (leave and ban,
review and delete, re-run and review), batches of one face let a person act between the
faces of a snapshot, and one failure is a crash, a missed read or a run that ends between
its batches. Two runs on one project and two workers on one counter do not finish in
minutes; they are covered by the proofs, which bound nothing.

Symmetry is used only in runs without liveness, over worker names that no definition tells
apart.

## Fairness

`TokenRefresh`: a call that has begun keeps running unless its process dies (no unbounded
wait in it has no timeout: the lock is not blocking, the HTTP calls have 10 s timeouts),
and Redis drops an expired key.

`ProjectClaims`: threads keep running; a stopped or crashed worker is started again by the
job framework; a claim that nothing refreshes expires. Strong fairness is assumed where
the code has a timer or jitter: the sleep between cycles ends after `POLL_INTERVAL` plus
jitter whatever wake-ups arrive (`NextCycle`), the supervise loop looks for SDC requests
every ten seconds (`SdcCheck`), and the random part of the sleep (worker.py:4207-4210)
keeps two workers from always missing each other's free moments (`SdcClaim` that takes
something). Users are never assumed to do anything.

`SdcClaims` (`SdcShared` only): weak fairness of the steps of each project's run. The
worker claims a project with a request again after a crash (that is `ClaimsRestart`) and
no wait inside a run is unbounded. Requests to Commons do not fail in that run: an endless
series of authentication errors is cut by `MAX_TOKEN_RETRIES`, which this module does not
count. Users and the ageing of the row get no fairness.

`ImagePipeline`: the pipeline goes on, both services come back, and the memory of an
outage (`DETECT_RECOVERY_WAIT`) fades. That waits for the service time out seldom is the
bound `MaxTimeouts`, and that mishaps are few is `MaxMishaps`: with a crash in every wave
no image settles.

`ProjectLife`: the threads of a run go on (WF), and so do the reactions to a value that
was read, and a worker that died is started again (WF of `WakeUp` and `Listen`). The main
loop's own steps have strong fairness, because a wake-up or the minute's check may disable
them again and again without keeping the loop from its next turn (`_supervise` runs
inference inline and then looks at its threads). A sleeping or starting worker reads the
counter again and again (SF of `Watch` there: `_sleep_until_next_cycle` polls). Web users
have no fairness.

## Proofs

`TokenRefreshProofs` proves, for every number of web requests, workers, calls and logins:

- `TypeCorrect`: the state is well typed (inductive invariant `TypeInv`: `TypeOK`, a
  caller inside the protocol has credentials with a token, a caller about to store has a
  reply).
- `SingleFlight`, assuming `LockWorks` (Redis answers, holders finish within the TTL): at
  most one caller refreshes at a time. `LockInv` adds that a caller in the section has
  acquired the lock and that the key then holds its name; without it the mutual exclusion
  is not inductive, because the expiry and the release look at the key and not at the
  callers.
- `RowIsSafe` and `NewerTokensWin`, with no assumption on Redis: the row never returns to
  a replaced token, and a store only replaces an older set. `StampInv` says why comparing
  stamps is enough: tokens in flight are unpublished, every reply and login has a stamp of
  its own, and a copy with the row's stamp is the row.
- `RereadersTradeCurrentTokens` (`LockWorks`): a caller that re-read sends no replaced
  token. Combines `LockInv` with `StampInv`.
- `GrantIsKept` (`LockWorks`, provider rotates): the stored token is dead only if its
  successor was lost before it was stored or a worker's replay cancelled it. `GrantInv`
  follows the live token through exchange, reply, store and login. Since a replay may
  cancel heirs, the proof has to show that what a caller sends after a re-read never hits
  the row's token, a reply on its way there or a login: while it is in the section nobody
  else is (`LockInv`), it sends no replaced token, and `HeirsInv` says of what a token can
  be an heir (the row's only of replaced ones, a reply's of the token it was traded for
  and of that token's ancestors, a login's of none).

`ProjectClaimsProofs` proves, for every number of workers and projects and under every
fault, `TypeCorrect` and `ForeignClaimsStay` (the action property of `ClaimsFaults`; one
case per action, with lemmas on what `Claim`, `Release` and the candidate sets can do to a
foreign claim). Assuming `Timely` (statements succeed, and no step of a job and no list of
SDC runs outlasts a claim), through crashes, restarts, shutdowns and deletions:

- `HandsAreSafe`: a project that a worker has in hand it has in hand once, under its own
  fresh claim. There are five ways to have one (`Kinds`): claimed and listed, in a job, in
  inline inference, in the sweep, in the list of an SDC run. What an SDC run found claimed
  by its own worker is no sixth: it gives nothing back. `HoldInv` has to say "once" and
  "fresh" together: a second thread could only come to a project through a claim query,
  which passes over it while its claim is fresh, and the claim can only be released by the
  one way that has it.
- `WorkStaysClaimed` (`WorkIsClaimed`) and `PipelinesStayApart` (`OnePipelinePerProject`)
  follow.

`SdcClaimsProofs` proves, for every number of projects, faces and users, with and without
failures:

- `PageKept`: the invariant `PageInv`. Its first part (`RowInv`) says that a run between
  reservation and record is the one the row names, and that the row is then not done,
  unless an accident took the row away. Its second (`ClearBeforeEdit`) says that a run
  about to edit a page with its row kept has found no statement there and nobody has added
  one since. Neither property is inductive without them: two runs past the reservation are
  excluded only through the row, and one statement at most only because the lookup still
  holds at the edit.
- `OneWriter` (`OneWriterPerPage`) and `NoSecondStatement` (`NoSecondClaim`) follow.

The step proof has a lemma per kind of step: steps that leave row, statements and runs
alone (`ElsewherePage`, all review handlers but three), steps that move one run
(`AwayPage`), and one lemma for each step that reserves, edits, records or deletes the
row.

`SdcReviewProofs` continues with what the review handlers may do beside the runs, for every
number of projects, faces and users:

- `TypesKept` and `TypeCorrect` (`TypeOK`): types of the whole state. `TypeInv` adds that a
  handler that changes a face has one in hand, and that an undo under way has something to
  undo.
- `RejectionsAreClean` (`RejectionsLeaveNoClaim`), under either of two assumptions. With
  `OneFaceEach` (a project has one face on the page) it holds for any number of projects
  and reviewers and through every crash and failure. With `OneCalmReviewer` (one person
  reviews, requests succeed, nothing stops a run) it holds for any number of faces. The
  invariant (`CalmInv`) finds for a statement of ours a face that stands for it, as a
  target or by a queued removal, and that no step under way is about to take back, or a
  run that has yet to record its edit. For that it relates the faces a run has ahead to
  what is on record (`AheadFits`) and to what a handler saw (`HandsFit`). Without the
  assumptions the property is false; see below.
- `PromisesKept` (`PromisesAreKept`), with no assumption. `PromiseInv` says that a face
  with a queued removal is no target, that promised faces are targets, and that a run past
  its last batch (`Ending`), unless it stops or owes a notice, or the request came when it was
  there already (`late`), leaves no promised face to write. A request made under a stopped
  run that is still writing is covered: the run selects its faces before it ends.

`ImagePipelineProofs` proves, for every set of images, every size and every number of
outages and mishaps:

- `TypeCorrect`: `TypeOK` is inductive as it stands, with `UsesImage` in `PlaceOK` (the
  image in hand is one) as its only part that is not a type.
- `OnlyEarnedErrors` (`ErrorsAreEarned`): the strengthening (`Earned`) adds that an answer
  "refused" comes only for an image the service refuses, and that the error path of
  `_persist_detection` is reached only by a failed statement.
- `ProgressIsCounted` (`ProgressIsExact`): `Counted` says it of every place but those
  between the start of a wave and the recount (`Uncounted`), not only of a worker at rest.
- `VerdictsRest` (`VerdictsWait`): where a verdict is about to be written, no image is
  pending and, for "no faces", no row is stored (`VerdictStands`); nobody but this
  pipeline adds any.

`ImageWavesProofs` proves what the waves leave behind, for the same constants. `Stages`
says which of a wave's variables are in use at which place, and the other invariants rest
on it.

- `FacesOnce` (`FacesAreStoredOnce`): `StoredInv` says that an image of the batch or on its
  way through a wave is stored as often as the cuts and repetitions before allow and not
  once more (`Fresh`), and that no image is in both.
- `InnocentsSpared` (`InnocentsAreSpared`): a strike is half paid by the outage that caused
  it when it becomes possible, long before it is given. `SparedInv` counts for each image
  what it has in store (`Owed2` a strike, `Owed1` half of one) against the outages that are
  not used up (`Budget`).
- `ConfirmedExactly` (`ConfirmedIsExact`): `ConfirmedInv` adds what is between a target and
  its count (`Owed`). The sum over all images is a fold over a set; that a fold changes by
  what one image changes by (`SumOfOneChange`) is proved by induction on the size of the
  set, from the well-foundedness of the naturals, since the library's induction theorems
  take an operator.

`WakeCounterProofs` proves the refinement (`CounterKeepsSignal`): `Baselines` says that
neither a baseline nor a value in hand runs ahead of the counter, nor a baseline ahead of
the value it is about to be compared with; without it `consume` could take a request back
(a baseline set to an older value) or wake twice. `Wakes` says who can be woken. Every
step maps to a step of `WakeSignal` or to a stutter: a read never shows, `consume` shows
only when it sets the first baseline.

`ProjectLifeProofs` proves, for any number of workers, threads, users, faces and images,
and with runs that overlap on one project: `LifeTypeCorrect` (with: a face has a verdict
exactly if it has an author), `RemovalIsNoMatch`, `MatchesGiveWay`, `HumansDecide`,
`AccessAtCommit`, `BansAreKept` and `LifeKeepsSignal`. The invariant has three parts that
hardly meet: the counter (`WakeInv`), the rows and runs (`RowsInv`, `RunInv`: a run holds
one match of an image, which the re-check of siblings does not ensure inside a batch) and
the requests (`DeskInv`). Three frame lemmas say which actions touch which part, so that
each part is proved over its own actions; the refinement of `WakeSignal` carries over
because the composition takes only `WakeCounter`'s steps.

All constants are constrained only by the named `ASSUME`s of the modules (finite sets,
natural bounds, special values that are not users), which TLC evaluates too.

Every invariant and every action property that a passing run checks is stated by a
theorem, under the assumptions named here. In one respect a run goes further than its theorem:
`SdcReview` admits failures with two faces on the image, one of which is drawn or edited,
and checks `RejectionsLeaveNoClaim` there for two handlers; the theorem has one face or no
failure.

Only model-checked is liveness, which is outside the prover's reach: `EveryCallReturns`,
`RequestsAreServed`, `WorkIsPickedUp`, `RunsEnd`, `ImagesSettle`,
`CandidatesAreClassified`, `RequestsAreSeen`.

## Disagreements between code and documents

Shown by a run:

1. `ClaimsSdcTwice`: the keep-alive of an SDC run is there so that no second worker writes
   the same queue (worker.py:2376-2378), but a job of the same worker that ends meanwhile
   releases the shared claim (worker.py:3417).
2. `SdcUndo`: app.py:2884 says undoing a target must not strand a statement.
   `_read_undo_claim_context` reads the faces first and the request last (app.py:2818,
   2835); a run that records its edit and ends in between is seen neither as a written
   face nor as a run in flight.
3. `ImagesVerdict`: worker.py:3599-3602 says its guard keeps a transient outage from being
   recorded as "no faces in this category". An outage during the first crawl is swallowed
   (worker.py:852, 1672), leaves no image pending and none stored, and completes the
   project; the guard in app.py:2359 asks for an image, the worker's does not.

Without a run of their own, but possible in the models:

4. oauth_refresh.py:9-10 promises that only one process calls the endpoint with a given
   refresh token, and redis_lock.py:5-8, oauth_refresh.py:3-5 and SECURITY.md:61 that the
   lock keeps refreshes from invalidating each other's tokens. A worker call reads the row
   before it takes the lock (line 186), and the re-read at 195 is for callers that brought
   a copy. So it may get the lock after a web request has traded the
   token, stored the new one and released, and send the old one: with a working lock the
   replay may cancel the new tokens and cost the user the grant. The compare-and-swap and
   the winner's re-read do not help, since the row then holds the cancelled token.
   `RereadersAreCurrent` is therefore about callers that re-read, and `GrantSurvivesRaces`
   excepts what such a replay cancels (`revoked`); without that exception TLC finds it
   violated in the instance of `TokenLocked`.
5. app.py:4679-4682 says a deleted project is hard-deleted once the worker confirms that
   it no longer processes it; the purge (worker.py:4009) looks at the status only.
6. SECURITY.md:73 says the `sdc_claims` table prevents duplicate statements. A run that
   finds an unwritten row of its own project goes on without renewing `claimed_at`
   (worker.py:2848-2854); when that row has grown stale, another project takes it over
   (worker.py:2857-2865) between the lookup and the edit. `NoSecondClaim` excepts rows
   that were lost.

7. app.py:3331 says a claim must not survive a rejection unless another face still
   confirms the target. Two reviewers who reject the two targets of an image at once each
   take the other's for that face (`has_sibling_match`, app.py:3339), so that neither
   queues a removal. And when a run ends between the edit and its record, of a face that
   an approved sibling has just replaced, nobody queues one either: the record was to do
   it (worker.py:2946). Both need two detected faces of a project on one image;
   `RejectionsLeaveNoClaim` is checked and proved where they cannot happen.
8. app.py:3661-3664 says the worker writes all unwritten approved faces of a request from
   its next poll cycle on. A request made after a Stop that the stopped run has not
   noticed, when the run is past its write phase, is lost. Stop clears
   `sdc_write_requested`, the new request sets it again, and a run that looks at the flag
   only between pages (worker.py:2978-2980), or no more, goes on and clears it at its end
   (worker.py:3105-3109) with no error, although faces approved since are unwritten.
   `PromisesAreKept` excepts such a request (`late`); without that exception TLC finds it
   violated in the instance of `SdcReview`. The user has to send again.

Behaviour the models show and no document rules out: `images_processed` stays stale after
a run that was cut short; an outage of Commons that begins within the minute of
`CANARY_PROOF_SECONDS` earns strikes (`lateProof`); a crash between storing an image's
faces and its status stores them again (`cuts`); an inference run may write below the gate
when a target is undone meanwhile, and an older run may write by the settings before a
re-run; an undo or a newer approval resets another reviewer's verdict on a sibling; a
classify page can leave two targets on one image; a join passes although the code was
revoked after its lookup; saving settings revives a deleted project that is not purged
yet; a wake-up that finds no free slot is spent; with confirmed faces of an older model
only, nothing is ever classified (`Waiting` asks for a usable target).

## Not modelled, and why

- Heartbeat and stall detection (worker.py 292-453, app.py 996-1066) compares ages of rows
  in real time and changes nothing that other parts read.
- Sessions: `session_epoch` is one counter, set and compared in single statements.
- The connection pool (database.py): its waits and limits are real time and sizes. What a
  failed or repeated statement does to the callers is a fault of the modules.
- LiftWing verdicts: in shadow mode no decision reads them; only the sweep's claims
  (`ProjectClaims`) and the stage's place (`ImagePipeline`) are modelled.
- The face service and its model server are external; the numbers (embeddings, distances,
  centroid) are arbitrary constants.
- Project creation, migrations, gallery, statistics, translations, skips, the
  `faces_confirmed` figure that review handlers update and the choice of the next image:
  sequential, or of no consequence to other components.
- Several pages, several items, and two runs of one project in `SdcClaims`; two projects
  of one worker in `ProjectClaims`, hence the wait of a claimed project behind another's
  SDC run (a listed hazard).
