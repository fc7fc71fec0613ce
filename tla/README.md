# Content Forge: a verification development

Content Forge turns captured media into approved, rendered and published short
videos on one machine. A phone captures and decides; a FastAPI process, a set of
SQLite tables and a directory of content-addressed files do the rest. What makes
it hard is not any single function but that a person, several request threads,
batch processes and a process that may die at any statement all change the same
rows and files, and that one step of the chain, the upload to YouTube, cannot be
undone or safely repeated.

This directory holds TLA+ models of those parts, TLC configurations that check
them on small instances, and TLAPS proofs of every safety property of the passing runs,
their refinements included, for every size of the instance. `PROJECT.json` lists the
components, the runs, the line ranges every definition stands for (`map`), one plausible
bug per checked property (`mutants`; in the modules they are the definitions commented
`Slip:`), the hazards and the findings. All paths below are relative to the repository.

Contents: 1 Inventory - 2 Conventions - 3 Modules - 4 Runs - 5 Findings -
6 Proofs - 7 What is not modelled - 8 Plan - 9 How to run

## 1. Inventory

`C` = `src/content_forge`.

| Component | State it keeps | Operations | Talks to |
|---|---|---|---|
| Publishing ledger and service (`C/storage/publishing*.py`, `C/application/publishing.py`, `C/api/publishing_routes.py`) | `publish_operations`, `publish_attempts`; per process: a "reconciled" flag under a lock | approve, execute, status, restart reconciliation; one `BEGIN IMMEDIATE` transaction per ledger operation | review (the delivered artifact), provider, runtime lease |
| Render jobs (`C/orchestration/_render_jobs_*.py`, `C/storage/job_state.py`) | `jobs` rows with a state and append-only receipts; a directory per job (plan, command, output, artifact and failure manifests) | submit, run_job, load_artifact, load_failure | database, FFmpeg, batch, review |
| Batch production (`C/batch/`) | the parent's row, attempt rows with a run-instance id, manifest, export sidecars and result files, `.run.lock` | prepare, run_batch with recovery and retry, result publication | render jobs, profile and localization snapshots |
| Review lifecycle (`C/application/_review_base.py`, `review*.py`) | the project manifest, written by compare-and-set of the whole JSON; job rows | resolve_task, render_preview, approve, reject, render_final, QC, restart recovery | render jobs, panel OCR, voiced story, scene presentation, shared scenes |
| Inbox intake (`C/application/inbox.py`, `idempotency.py`, `repository.py`) | intake receipts, staged uploads in `.incoming` | upload, URL/note capture, same-key retry, startup reconciliation | asset store, project repository, media probe |
| Asset store and provenance (`C/storage/asset_store.py`, `paths.py`, `database.py`) | content-addressed blobs, asset and source rows | ingest, verify, provenance | everything that reads media |
| Manual re-entry and bulk preparation (`C/application/review.py`, `review_pr32_presets.py`) | manual re-entry receipts in the job table | bootstrap_project, the re-entry of a project that needed manual setup, prepare_inbox_projects | review, inbox, presets |
| Pairing and sessions (`C/application/auth.py`) | challenges with an attempt count, sessions | start, exchange, authenticate, revoke | every route, the phone |
| Runtime lease (`C/application/runtime_lock.py`) | a lock file | acquire, release | start-up recovery |
| YouTube provider (`C/providers/youtube*.py`) | a thread-local prepared upload | health, preflight, publish, verify | publishing service |
| Publishing projection (`C/api/project_publishing_routes.py`) | none | status of a project's attempts | publishing ledger |
| Dialogue (`C/application/dialogue*.py`) | character registry, assignment tasks, accepted speakers | register, update, prepare, apply | panel OCR, review's manifest |
| TTS and voice cast (`C/application/tts.py`, `voice_cast*.py`) | cast revisions, bindings, receipts of spoken lines | bind, unbind, synthesise against a snapshot | dialogue, review's manifest |
| Voiced story and scene presentation (`C/application/voiced_*.py`) | derived timeline entries in the manifest | materialize, present | review, TTS |
| Panel OCR (`C/application/panel_ocr.py`) | extractions, correction tasks, a resume checkpoint | extract, correct | review |
| Long form and shared scenes (`C/application/long_form*.py`) | references and provenance in the host manifest | capture, materialize, dematerialize | review (as a render gate), the source projects |
| Profiles and presets (`C/application/production_*.py`) | numbered revisions, what a binding filled in, preset evidence | put, bind, unbind, create from a preset | batch, review |
| Analytics (`C/application/analytics.py`, `C/storage/analytics.py`) | append-only observations | collect, history | publishing ledger, YouTube reports |
| Production library (`C/storage/library_index*.py`) | tags, collections | queries, tag and collection writes | committed rows |
| Daily page (`C/api/daily_production_routes.py`) | none | attention queue, run of safe work | review, publishing ledger |
| Timeline compiler (`C/timeline/`) and chapters (`C/application/long_form.py`) | none | compile, validate | render jobs |
| Other pure code (audio policy, FFmpeg compilers, templates, variants, reuse) | none | compile, validate | render jobs |
| Phone web client (`C/web/static/`) | an IndexedDB share queue with a delivery key and the slot of the one bearer; per page: the active project and the loads and commands under way | enqueue, drain, pair, disconnect; open, decide, create | inbox, pairing, review and preset routes |

Behaviours that are hard, and the property that makes each part correct:

* **Publishing.** Recovery after a restart runs lazily, in the first request that
  needs the ledger, while other requests arrive on other threads. It must retire
  what a dead process left running and never what a live one runs. The remote
  call must be begun at most once per request over any history of approvals,
  retries, faults and deaths, and the ledger must never call a request retryable
  once the call may have begun.
* **Render jobs.** A job's truth is split between a row and five files. Every
  file operation can raise and every statement can be the last. In every terminal
  state the row and the files must agree, because every later reader trusts a
  file only by the digest in the row.
* **Batch.** A drain must tell an attempt that a dead drain left behind from one
  that is alive and from one that failed; retry only the first; publish one
  result; and never run a child of a batch that was not committed.
* **Review.** A render takes minutes between two writes. Edits, rejections, other
  renders and recovery happen in between. What is rendered and delivered must be
  exactly the approved revision, and a claim must never outlive its request.
* **Inbox.** From the acceptance receipt on, the bytes must survive process death
  and power loss, although most commits are not synced and a directory entry is
  durable only after an fsync of its directory; the same key must always mean the
  same bytes.
* **Dialogue, voices, scenes.** Several workflows write one manifest with their own
  resume states and receipts, and a recording or an OCR pass takes minutes between
  snapshot and write. Open work must stay answerable, an accepted speaker proven, a
  receipt in the voice of now; and whatever was derived, the author's scene must be
  restorable and no approval may survive a change of what was approved.
* **Setup.** Bootstrap, re-entry, profile binding and preset creation race on one
  project and may die between their transactions; a receipt must be the checkpoint.
* **YouTube.** What the provider verified before the upload (bytes, channel, schedule)
  must be what it uploads, though file, token and clock change in between.
* **Phone.** Pages and a service worker share a queue and a session slot, and every
  answer may be lost or late.
* **Timeline, analytics, library, daily page.** Boundaries of intervals and ranges, and
  reads that are put together from several transactions.

## 2. Conventions

* One action is one atomic step of the code: a transaction, a file operation that
  can fail on its own, a provider call, a lock operation. A worker's position
  between two such steps is a program counter (`pc`, `at`, `stage`).
* A raised exception is a disjunct of the step it comes from, or an action
  (`Fault`, `StorageFault`, `Abandon`) when the handling is the same for many
  steps. A process death is an action of its own (`Crash`, `Die`, `WorkerDies`,
  `PowerLoss`).
* Budgets (`MaxFaults`, `MaxCrashes`, `MaxDeaths`, `MaxLosses`, ...) bound faults and
  deaths and are counted in variables. They never restrict the code itself.
  Identities, digests and file contents are the smallest thing that tells apart
  what the code compares: who produced a file, a revision number, a model value.
* No fairness is ever assumed of a fault, a death, a person's decision or a
  change of the outside world.

## 3. Modules

### PublishLedger, Publishing, PublishOnce, PublishingProofs

`PublishLedger` is the repository: `operations` and `ledger[op]`, the states of
one request's attempts in attempt order. Each operator is one transaction with
the compare-and-set that `StorageConflictError` negates: `EnsureOperation`,
`InsertAttempt`, `MarkRunning`, `MarkSucceeded`, `MarkFailed`,
`MarkOutcomeUnknown`, `ReconcileInterrupted`.

`Publishing` runs the handlers over it. `pc[t]` walks through
`ensure_reconciled` (`Acquire`, `Reconcile`, `Release`), `approve` (`ReadExisting`,
`EnsureRow`, `Insert`) and `execute_prepared` (`Load`, `Authenticate`, `Health`,
`Preflight`, `Reject`, `Claim`, `CallPublish`, `Confirm`, `GiveUp`). `calls[op]`
counts the provider calls ever begun and belongs to the outside world: it survives
`Crash`, while the flag `reconciled` and the lock do not. `RuntimeLease` is the
premise that a new process starts only after the old one is gone (`Restart` needs
`~up`). The provider answers anything at each of its three calls. The read of
`prepare()` outside the inserting transaction is a step of its own.

`PublishOnce` is the abstract promise (open, approved, committed, published or
unknown; one call). `ImplementsPublishOnce` is `PublishOnce!Spec` under the mapping
of a request's newest attempt to its phase.

### RenderJobs, RenderOnce, RenderJobsProofs

`job` and `receipt` are the row, `disk` the job's directory, `at`/`mem` the workers
inside `run_job`. A file's content is the worker that produced it, so a digest
tells apart two encodes. `Claim`, `Compile`, `Encode`, `Audit`, `Seal`, `Commit`
are the run; `Discard`, `Explain`, `Close` its clean-up, in which every file
operation is best effort. `Create` is submit, `CreateTorn` the case where a
process-control exception arrives after the insert has committed: the code's
`except BaseException` then removes the directory of a row that stays.
`Cancellable` says whether the callers pass a cancellation token; batch does not.

`RenderOnce` is the promise to whoever submitted a job: it is begun at most once, by one
worker that runs nothing else; while that worker lives nobody else ends it (`Deliver`,
`GiveUp`), and others end it only when it is gone and with an explanation (`Vanish`, then
`Retire`); the film is that worker's own, and film and reason never change.
`ImplementsRenderOnce` maps rows and workers to it: `Status` the state column with held and
queued as waiting, `Runner` the worker inside `run_job`, `FilmOf` and `FailureOf` what
`load_artifact` and `load_failure` return, which read row *and* files. It is a property of
`RenderSpec`, where callers are independent, and of BatchRun, whose preparation cancels and
whose drains release and retire.

### BatchRun, BatchOutcome, BatchRunProofs

`BatchRun` EXTENDS `RenderJobs`: an attempt is the job `<<item, index>>`, and
`Render(w)` is `RunStep` of that module while the drain waits. `prepare` is
`HoldChild`, `CommitBatch`, `PrepareFails`, `CancelChild`, `AbortEnds` with their torn
variants; `run_batch` is `Acquire` (the advisory lock), `Index` (one scan of the
rows, which every later decision uses), `Enter`, then per item `Release` or `Pick`,
`Reload`, `ReviewFailed`, `Clear`, `WriteExcuse`, `Retire`, `Retry`, `Mark`,
`Render`, `Judge`, and at the end `WriteResult` and `Settle`. `seen[w]` is the
drain's in-memory index, kept apart from the rows because it may be stale.
Quality control (`qc.py`) is a nondeterministic verdict. `BatchOutcome` is the
abstract promise: nothing before the commit, each item successfully rendered at
most once, the verdicts published once and together.

### ReviewProject, ApprovedFilm, ReviewProjectProofs

One project (projects share only the runtime): `project` is the manifest,
`jobs` its render attempts, `compiles` whether the render gates (shared scenes,
voice cast, dialogue) accept it. Each mutation is a compare-and-set of the whole
manifest that the code retries on conflict, so it is one atomic step; running out
of retries is one of the faults. A revision digest is the revision number with the
state, which is what `_preview_revision_digest` keeps apart. The people's actions
are `Resolve`, `Approve`, `Reject`; the other workflows that write the manifest are
`Extract`, `Correct`, `Materialize`, `Present`; the requests are `render_preview`
(`p_*` positions) and `render_final` (`f_*`), and start-up recovery is `b_*` under
the identity `Boot`. `FindJob`, `StartJob` and `FinishJob` abstract `RenderJobs` to
what the review layer sees of it. Recovery is modelled without faults: a fault in it
aborts the start and is a `Crash`.

`ApprovedFilm` is the promise to the person who approves: a film is begun only of the
revision and look that carry the approval as they stand, nothing is edited while it is
made or delivered, the film has the approved look, and a failure, a lost artifact or a
recovery either leaves the approved revision as it was (`Withdraw`) or takes the approval
away with it (`Reopen`). `ImplementsApprovedFilm` maps the manifest to it: `CopyOf` its
revision and look, `SealOf` the revision and plan the approval names, `FilmOf` the look of
the receipt, `PhaseOf` the state; `active`, previews, tasks and the panel work are
invisible, and of the step from `rendering` to `qc` only the film that appears is seen.

### Inbox, AcceptedCapture, InboxProofs

Per key, `db.intake[k]` is the receipt and `at[k]` the one live operation on it
(the striped idempotency lock lets one request at a time run). `db` is the database
every transaction sees, `disk` what a power loss would leave: commits at
`synchronous=NORMAL` change only `db`, `CommitFull` and `WalSync` bring `disk` up. A
staging file has a name that is `live` in the directory and possibly `safe` on the
disk; a blob is `none`, `named` or `safe`. Upload is `Begin`, `Open`, `Fill`, `Accept`,
`Publish`, `Sync`, `Catalog`, `Link`, `Source`, `SaveProject`, `LinkProject`, `Probe`,
`Settle`, `Finish`; a retry is `Begin`, `Resume` or `Replay`; failure
classification is `Classify`, `ClassifyBlind`, `Refuse`; start-up reconciliation is
`BootTake` with `Recover`, `Verify`, `Discard` and `BootKeeps`, `BootFails`, `Purge`.

Abstractions: the failures are storage errors and the refusals the code itself
derives (`InboxError`); blobs are not corrupted; the order in which reconciliation
takes receipts is arbitrary; a request without a key is a key that is never retried;
a failing `get_intake` during reconciliation is a death; a thumbnail is only its
outcome. A note's acknowledgement is not protected from a power loss, since a note
has no bytes and commits at NORMAL; `AckIsKept` is about files.

`AcceptedCapture` is the promise to whoever captures a file: a key stands for the bytes
it accepted first, a 201 names these bytes while a durable copy is held, what was
acknowledged is never refused, and a copy is given up only of what is refused. A power
loss may take refusals and removals back that had not reached the disk (`Return`).
`ImplementsAcceptedCapture` maps the digest of the receipt to `accepted`, `Held` to `kept`
and a failed receipt with accepted bytes to `refused`; everything between acceptance and
answer, including which of the two databases knows it, is invisible.

### ProjectSetup

`draft` is the stored project from creation to its first approval, `receipts` the
re-entry rows, `thread[t]` the request a handler serves with the snapshot it took.
`Snapshot` and the commit of each operation (`Swap`) are separate steps, `Retry` is the
loop of `_mutate_project`, `Abandon` any refusal or death. `Enter` and `Decide` dispatch
to `BootstrapProject` or to the re-entry `BeginReentry`, `BootstrapProject`,
`SettlePayloads`, `Complete`; `CreateStart`/`CreateSave` are the preset's creation under
its request lock, `AskProfile`/`BindProfile` the profile workflow. `Fingerprint` is what a
recheck compares with the one noted before (`checked`); `SyncFingerprint` notes a new one.

### PanelDialogue, VoicedStory, SharedScenes

`PanelDialogue` has one manifest `panel` with texts, registry, tasks, accepted speakers
and the two resume states; `OcrStart`/`OcrFinish` stand around the provider. Short
operations are one step since the manifest is written by compare-and-set.
`VoicedStory` continues from accepted speakers: `bound` voices, `heard` receipts, the
story `told` over the scenes and the presentation `shown`. `Resolve`, `Speak`, `Record`
are one synthesis; `TellAgain` is `regenerate_line` with its two writes. Of review both
keep only what the workflows look at. `SharedScenes` has a `host` and its `origin`
scenes, which change at any time; `BeginShare`, `ReadOrigin` per reference and `Share` are
materialize, `BeginRender` to `RenderedPreview`/`ClaimedFinal` the render gate. Each request
is a thread of its own: a write of one overtakes what the others have under way
(`Overtaken`), as the compare-and-set of the manifest does.

### YouTubeUpload

The provider's three calls as `execute_prepared` makes them, with what it keeps per
thread (`service`, then `prepared`). File, token, clock and the videos change under it.
The ledger is reduced to the newest attempt of each request (Publishing has it in full)
and the order in which attempts were created (`began`); `Listed` is the phone's projection
of all of them.

### PhoneQueue, ProductionHome

`PhoneQueue`: `queue` and `slot` are IndexedDB, `drain[t]` and `dialog[t]` the two
asynchronous flows of a page, one step per await; `QueueShare` is the service worker.
The server's side is `exchange`, expiry and a durable verdict per share.
`ProductionHome`: `active`, `newest` (the generation counter) and `shown` are the page,
`loads` and `asked` the requests under way, carried out by the server in any order and
answered later or never.

### Timeline, ProductionLibrary, Analytics, DailyProduction

`Timeline` follows one call of `compile_timeline` over every bounded reel (`Schedule`,
`PlanMedia`, `PlanItem`, `Compose`) and compares its result with the plan's own
validators, translated separately (`ScenesAreValid`, `MediaIsValid`, `ItemIsValid`). The
start times of a schedule are a recursive function on the positions of the reel.
`ProductionLibrary` has the tags, collections and searches, the empty query included; a key
is a sequence of code points, and `PrefixIsExact` compares the index range with "begins with".
`Analytics` counts time in reporting days; the value of a metric is the number of days
it sums up, so a truncated number is visible. `DailyProduction` has the snapshot of the
attention queue (`ViewStart`, `ViewRisks`, `ViewRead`, `ViewEnd`) and the run of safe work
(`SafeStart` to `SafeEnd`) with the user beside them. A project has several finals, a final
several publish requests, and only an attempt of the same request stands in the way of
another, so several attempts of one project are active side by side: `Risk` is the strongest
of them. The attempts of one final are read in one step (the code lists them, then loads
each), and the summaries of raw sources, of which a card makes no use, are not read.

### StorefrontProofs, DialogueProofs, WorkshopProofs

The proofs about the smaller modules, each theorem about one module's own specification
(they share no variables): `StorefrontProofs` has PhoneQueue, YouTubeUpload, Analytics and
ProductionHome, `DialogueProofs` PanelDialogue, VoicedStory and SharedScenes,
`WorkshopProofs` DailyProduction, ProjectSetup, ProductionLibrary and Timeline.

### MCWorkshop, MCStorefront

These check independent modules side by side in one run. `part` picks one at the start;
the others keep a single initial state, so the states are the sum of the parts' states
and each part behaves as under its own specification. `MCWorkshop`: RenderJobs,
PanelDialogue, VoicedStory, SharedScenes, Timeline, ProjectSetup, ProductionLibrary,
DailyProduction. `MCStorefront`: YouTubeUpload, PhoneQueue, Analytics, ProductionHome.

## 4. Runs

Every run checks the unmodified module under the constants of its cfg. The bounds
are chosen so that each hazard's interleaving fits, and the state counts show that
they do.

| Run | Question | Bounds | Distinct states |
|---|---|---|---|
| `publishing` | safety, finality, refinement and the one liveness property of publishing | 1 request, 3 threads, 2 attempts, 2 deaths, 1 fault | 734k |
| `workshop` | `RenderInv`, `PanelReviewInv`, `VoiceInv`, `SharedInv`, `TimelineInv`, `SetupInv`, `LibraryInv`, `DailyInv`; final evidence, kept looks, setup not undone, safe work decides nothing | render: 2 jobs, 2 workers, 2 faults, 1 death. panel: 2 panels, 1 character, 2 OCR threads. voice: 2 scenes, 2 takes. shared: 2 origins with 2 looks, 2 requests at once. timeline: 3 scenes of length 1-2. setup: 2 handlers, 4 commits, 1 profile revision. library: keys of one of the code points 0..3 with one surrogate, of two tags at most. daily: 2 projects, one raw, 2 finals each, 2 publish requests | 2.0M |
| `storefront` | `UploadInv`, `PhoneInv`, `AnalyticsInv`, `HomeInv`; the late answer to a request that carried a bearer never ends another, live session | upload: 2 requests, 1 thread used again, 2 attempts, 1 restart. phone: 2 tabs, 2 shares, 2 challenges, 2 sessions, a queue of 1. analytics: 3 metrics, 3 days, 2 records. home: 2 projects, 3 loads, 1 command under way | 2.9M |
| `phone_session` | violation: a live session is ended by an older request | as `storefront` | - |
| `batch_safety` | nothing before the commit, live work not stolen (`BatchInv`), only interruptions retried, a true result (`VerdictInv`) that is final, refinement | 2 items, attempts 0..3, 2 processes, 1 fault, 2 deaths | 2.4M |
| `batch_liveness` | a committed batch ends, and its attempts implement `RenderOnce` | 1 item, 2 processes, 1 fault, 2 deaths | 151k |
| `batch_release` | violation: a held child of a closed batch | 1 item, no fault, no death | - |
| `review` | approved = rendered = delivered, honest candidates (`ReviewInv`), no orphan or stolen claim, the lifecycle implements `ApprovedFilm`, renders end | 2 requests, 2 looks, 3 revisions, 3 attempts, 1 gate change, 1 lost artifact, 1 fault, 1 death | 447k |
| `review_reopen` | violation: a newer decision is undone | 2 requests, 4 revisions, nothing fails | - |
| `inbox` | durable catalog and complete chains (`InboxInv`), kept acknowledgements; the last durable copy is kept; the whole implements `AcceptedCapture`; captures finish | 1 key, 2 contents, 2 staging files, 2 faults, 2 deaths, 1 power loss | 370k |
| `inbox_preserved` | violation: accepted bytes end failed | 1 key, 2 contents, 3 deaths | - |
| `setup_reentry` | violation: a completion ends another re-entry | 2 handlers, 6 commits, no profile | - |

Why these bounds are enough to be interesting:

* Publishing: two threads race for one attempt while a third makes the recovery
  pass; two attempts are needed for "approve again after a failure", two deaths for
  "the first recovery is itself interrupted". More requests do not interact except
  through the recovery lock, which the proofs cover for any number.
* Render jobs and batch: one fault hits the main path, the second the clean-up of
  the first. `MaxRetry = MaxDeaths + MaxFaults` (`BatchAssumption`) is not a bound of
  the code but what deaths and faults can cause at most, so no run is cut off by it.
* Review: three revisions are an edit and an approval with one concurrent edit or
  rejection; two looks tell an approved plan from a newer one; three attempts are a
  preview, a final and one more of either.
* The parts of `workshop` and `storefront`: two of what races (threads, tabs, handlers,
  panels, origins) and values enough for "changed meanwhile" to be visible. For the
  library the four code points include the last one and the gap, and two tags can be given
  the same key. For the daily page two publish requests are two of one final, or of the old
  and the new final of a project that was re-opened in between, or of a project whose
  attempt is settled while the other one's still runs. A host has a
  record of its own that one source or both have too, or none while the sources share
  theirs (`OneOfAKind` in MCWorkshop), and at most one upload request is scheduled or
  carries declarations (`MostlyPlain` in MCStorefront).
* Phone: a queue of one makes it full beside a second share; two challenges and sessions
  are an old pairing and a new one.
* Inbox: two staging files are a left-over beside a new one; the second death is the one
  of a start-up. One key is enough for its own retries, with the same and with other
  bytes. Keys meet only in the catalog and the blobs they share, which the theorems cover
  for any number of keys (`Elsewhere` in InboxProofs).
* `setup_reentry`: six commits are what two re-entries and an overtaken completion take;
  the four of `workshop` hold one re-entry with everything that can happen beside it.

Invariants that several things together make true are conjunctions of named parts
(`RenderInv`, `BatchInv`, `VerdictInv`, `ReviewInv`, `InboxInv`, and the `Inv` of each part
of `workshop` and `storefront`): the type invariant and the parts each stated and
commented in the module.

Symmetry: workers (`batch_safety`), keys and contents (`inbox_preserved`), request threads
(`review_reopen`, `workshop`), and shares, tabs and sessions (`storefront`) are interchangeable,
and the invariants and action properties quantify over all of them. A set that shares
its values with another (requests, videos and shares of `storefront`; readers, sharers and
handlers of `workshop`) is permuted with it. No run that checks liveness uses symmetry.

Deadlock checking is off (`CHECK_DEADLOCK FALSE`) in the review, inbox, workshop, setup
and storefront runs: a project that is done, or one whose revision bound is used up, waits for
a person; an inbox whose captures are all finished waits for the next one; a compiled
timeline has no next step.

### Fairness

* Publishing: weak fairness of each handler's steps (threads of a pool are
  scheduled), of `Restart` (the supervisor or the person starts the app again) and
  of `Arrive` per thread (the PWA polls status, and recovery happens in such a
  request). The last is what `StaleRunIsSettled` needs: the code has no background
  recovery for publishing.
* Batch: weak fairness of each drain's steps and of `Acquire` (the operator runs an
  unfinished batch again; the code has no daemon that does).
* `workshop` and `storefront` check safety only and assume no fairness.
* Review: weak fairness of each request's steps, of `Restart` and of `Recover`; people
  decide when they like. `RendersEnd` excludes histories with a fault, since a claim whose
  clean-up also failed waits for the next start.
* Inbox: weak fairness of each handler's steps, of `Serve` and `Restart`, and of a
  client that keeps a capture in its queue until it has a 201 (`Resume`, and `Begin`
  of a note). `CaptureFinishes` leaves out a receipt several staging files claim: a
  request refuses it and only a start-up ends it (see finding 3).

### Properties worth reading first

`LiveCallOwnsAttempt` (recovery never retires an upload under a live handler),
`ImplementsPublishOnce`, `ArtifactLoadable` and `RunnerOwnsJob`, `ImplementsRenderOnce`,
`OnlyInterruptionIsRetried` and `ResultIsTruthful`, `RenderedIsApproved` and
`ClaimIsNotStolen`, `ImplementsApprovedFilm`, `CatalogIsBacked`, `LastCopyIsKept` and
`ImplementsAcceptedCapture`, `OpenWorkIsActionable`,
`AuthorIsRestorable`, `HostIsRestorable`, `ReceiptIsTheCheckpoint`, `RemoteIsAccountedFor`,
`CapturedIsKept`, `ScreenIsCurrent`, `WindowIsFullyCounted`, `NoRiskIsHidden`.

## 5. Findings

Five runs show that the code does not do what a document or a comment of the
repository says.
Each was met while modelling and stays as a run so that a fix can be checked.

1. `batch_release`: `run_batch` scans the attempts before it reads the parent's row.
   If `prepare` commits in between, the batch is closed as failed and its child stays
   held for ever. No fault or death is needed. (`docs/pr17-batch-qc.md:52`)
2. `review_reopen`: `render_final` decides on a snapshot that the project must go back
   to review and then writes this to whatever the project is by then, undoing newer
   decisions. (`docs/pr10-review-preview.md:54`, `:58`)
3. `inbox_preserved`: a start-up that dies between failing an unaccepted upload and
   discarding its staging file leaves a file that nothing removes; the retry of the key
   is accepted beside it, and one more death later the next start-up calls the
   receipt ambiguous, ends it failed and deletes both files.
   (`docs/pr8-local-api.md:81`)
4. `phone_session`: `drainQueue` ends the session with `requestBearer || bearerToken`. A
   note sent when its page had just lost its bearer, in the middle of a drain, carries
   none; if it is answered 401 after a new pairing, it ends the new session. What holds instead is
   `BearersAnswerForThemselves`. (`C/web/static/app.js:115`)
5. `setup_reentry`: `_complete_manual_reentry` reads the project anew and checks its
   receipt, but not that this re-entry was bootstrapped. A request that waits to complete
   one re-entry ends the next, which another request has just begun; the project is then
   neither pending nor initialized, has open tasks, and every later bootstrap refuses it.
   (`C/application/review.py:317`, `:520`)

### Observations without a run

Met while modelling; in the models where the place is named, but no property claims them.

* Submit's clean-up on `BaseException` also runs when the exception arrives after
  `create_job` committed; the queued row then has no `plan.json`
  (`docs/pr17-batch-qc.md:14`; `CreateTorn` in RenderJobs, `SubmitTorn` in BatchRun).
* `PanelDialogue` reaches needs_review without open work: OCR of one panel, run while the
  speaker assignment of another is open, notes needs_review as the state to return to
  (`C/application/panel_ocr.py:319`); once the assignment and then the OCR task are
  resolved, the project stays in needs_review with no task, although
  `docs/architecture.md:263` lets the tasks say what blocks. The preview review, opened
  later, ends it.
* The project screen sets `activeProjectId` before the new project is loaded, so for a
  while the body still shows the previous one (`C/web/static/production-home.js`); what
  protects decisions is the lookup of tasks in the path's project
  (`DecisionsHitTheirProject`).
* `C/web/static/attention-queue.js:20` looks for `production-home-create-video`; the
  page's element is `production-home-create`, so the script returns at once.
* The built-in bootstrap of a project with a bound profile copies its metadata without
  thawing nested values and fails before its commit (`Nested` in ProjectSetup); only the
  preset variant copies them.
* `authorize_youtube` and the refresh of a token replace one file without coordinating.
* Safe work reads the publications at risk once; one approved later may still be rendered
  (a local step, which `SafeWorkDecidesNothing` allows).

## 6. Proofs

Every theorem below holds for all values of the constants that satisfy the module's
`ASSUME`; no other hypothesis is used. The bounds (`MaxFaults`, `MaxDeaths`, `MaxCommits`,
...) are any naturals, so they stop neither faults nor deaths, and the sets of threads,
keys, jobs, projects are any sets, finite where the code counts them.

| Module of proofs | Theorem | States |
|---|---|---|
| `PublishingProofs` | `PublishingSafety`, `LiveCallIsOwned` | `PublishingInv`, `LiveCallOwnsAttempt` |
| | `OutcomesAreFinal`, `ApprovalsSurvive` | `SettledIsFinal`, `ApprovalSurvivesRecovery` |
| | `RefinesPublishOnce` | `ImplementsPublishOnce` |
| `RenderJobsProofs` | `RenderSafety`, `RenderEvidence` | `RenderInv`, `EvidenceIsFinal` |
| | `RenderRefines` | `ImplementsRenderOnce`, of `RenderSpec` |
| `BatchRunProofs` | `BatchSafety`, `BatchEvidence`, `BatchVerdicts`, `BatchClosed` | `BatchInv`, `OnlyInterruptionIsRetried`, `VerdictInv`, `ClosedBatchIsFinal` |
| | `BatchRefines`, `BatchRendersOnce` | `ImplementsBatchOutcome`, `ImplementsRenderOnce` |
| `ReviewProjectProofs` | `ReviewSafety`, `ReviewClaimsOwned`, `ReviewClaimNotStolen` | `ReviewInv`, `NoOrphanClaim`, `ClaimIsNotStolen` |
| | `ReviewRefinesContract` | `ImplementsApprovedFilm` |
| `InboxProofs` | `InboxSafety`, `InboxAcknowledges`, `InboxKeepsLastCopy` | `InboxInv`, `AckIsKept`, `LastCopyIsKept` |
| | `InboxFreezes` | `ReceiptIsFrozen`, the part of `ImplementsAcceptedCapture` the receipt's digest is about |
| | `InboxKeepsPromise` | `ImplementsAcceptedCapture` |
| `StorefrontProofs` | `PhoneSafety`, `PhoneBearersAnswer`, `UploadSafety`, `AnalyticsSafety`, `HomeSafety` | `PhoneInv`, `BearersAnswerForThemselves`, `UploadInv`, `AnalyticsInv`, `HomeInv` |
| `DialogueProofs` | `PanelSafety`, `VoiceSafety`, `VoiceLookIsApproved`, `SharedSafety` | `PanelReviewInv`, `VoiceInv`, `ApprovedLookIsKept`, `SharedInv` |
| `WorkshopProofs` | `DailySafety`, `DailyWorkIsSafe`, `SetupSafety`, `SetupGoesForward`, `LibrarySafety`, `TimelineSafety` | `DailyInv`, `SafeWorkDecidesNothing`, `SetupInv`, `SetupIsNotUndone`, `LibraryInv`, `TimelineInv` |
| | `PrefixRange` | `InRange(k, p) <=> IsPrefix(p, k)` for keys and prefixes of any length |

None of the checked invariants is inductive as it stands. What each strengthening adds:

* **Publishing, `Inv`.** "At most one call" does not carry itself: a second call is
  excluded because a handler at `publish` owns a *running* attempt of a request with no
  call yet (`CallCount`, `LiveCallOwnsAttempt`), a running attempt excludes any other
  active or settled one (`OnlyNewestIsOpen`), and once a call was made the newest attempt
  can never again be prepared or failed (`LedgerKnowsTheRisk`). That recovery keeps
  `LiveCallOwnsAttempt` is the heart of it: `Reconcile` turns every running attempt into
  unknown, so no handler may be past its claim when it runs. `Gate` says why: such a
  handler was admitted, admission needs the flag, and `Reconcile` runs only under the
  lock with the flag down. `Target` keeps a handler's attempt in existence.
* **RenderJobs, `RenderIInv`.** What a worker's local variables say of the files:
  `Tells(w)` follows the digests from `compile` to `commit` and from `discard` to `close`;
  an open job has no receipts and a success keeps its plan. A worker is alone with its job,
  so the files of a job change only under the worker `Tells` speaks of. For the refinement
  `Tells` also says that the digest a worker seals and commits is of its own output:
  `RenderInv` alone would allow it to publish what another one had left there.
* **BatchRun, `BatchIInv`** uses `RenderIInv` as it is (a batch step is a render step, a
  step of the drain, or of the preparation). The core is `Informed(w)`: the index a drain
  took when it started is right about every row *ahead* of it, except that the
  preparation may have held or cancelled a first attempt since. `AtStage`, `Reports` and
  `Sound` carry what was judged to the published result.
* **ReviewProject, `ReviewIInv`.** `Sane` (only a project under review has an open
  preview; every approved, delivered or offered attempt `Shows` its plan), `Holds` (what
  a request carries between its writes is an attempt that shows its plan), `Recovering`
  (what recovery has already ended) and `Owned` (every claim has a request that will end
  it, while requests are served and no clean-up has failed). The refinement needs nothing
  more: `ReviewIInv` says that what is being rendered carries the approval of the current
  revision, and that a receipt has the approved look.
* **Inbox, `InboxIInv`.** `Whole` of *both* databases, `Lag` (how far the disk may be
  behind: never in the accepted bytes), `Along` (what an intake's place says of its
  receipt and rows) and `Told`. A step concerns one intake; `Elsewhere` is the lemma that
  the others keep all of it, also with the same bytes under two keys. `InboxStagedIInv`
  adds the staging file an acceptance stands on (`Staged`), and `StepsAreSteady` what no
  step takes away: from it follow frozen receipts, the kept copy and the refinement.
* **PhoneQueue** adds that no bearer is issued twice and that a page deletes a bearer only
  after it has ended; **YouTubeUpload** what a thread keeps between the provider's calls
  (`Thread`, `Exclusive`); **Analytics** what a collection relies on between its reads
  (`Collecting`, `SoundQuery`); **ProductionHome** what the newest load of the active
  project will bring (`LoadsAreFresh`).
* **PanelDialogue, VoicedStory, SharedScenes.** A write replaces one manifest, so the
  invariant is a predicate on manifests (`Answerable`, `SoundStory`, `SoundHost`) with what
  a snapshot that is still fresh says of the stored one (`ReadsFresh`, `SpeaksFresh`,
  `RendersFresh`).
* **DailyProduction** says what the lists of a run can hold (`ListsAreSafe`), that a project
  which may still be rendered has room for one more final (`FinalsFit`), and what the
  snapshot knows (`RisksAreKnown`): of an attempt that stood still, that one or a stronger
  one of its project; of a project all of whose attempts did, exactly the strongest.
* **ProjectSetup, `SetupIInv`.** `Sound(draft, receipts, revisions)` is a predicate on the
  stored state, proved of each operation's result; `Keeps` says which requests can still
  be under way with it, and that what a request saw initialized under a receipt still is.
* **ProductionLibrary.** `PrefixRange` is about sequences of any length. The step over the
  surrogate gap and the end of the alphabet is by the last position that can be raised,
  found as a least element.
* **Timeline, `TimelineIInv`.** `Follows` says of a schedule that every scene starts where
  the one before it ended, less what they share, and ends its own length later. A recursive
  function on a finite domain has no induction here: `StartsExist` takes the least position
  up to which it would not exist, `ScheduledUnfolds` unfolds it once. From `Follows` the
  scenes are in order (`ScenesInOrder`), one or two are shown at any instant
  (`OneOrTwoShown`), the last one ends the film (`LastEndsTheFilm`), and items placed inside
  their scene are inside the film (`ItemFits`).

The lemmas about helpers are stated once and cited: the effect of a ledger transaction
(`MoveEffect`, `InsertEffect`, `ReconcileEffect`), the newest attempt of an item, least
elements of sets of naturals (`LeastNat` and its relatives), the phases under a
refinement mapping (`PhaseCases`). Every action has a lemma of its own.
The refinements have the initial states and one or more lemmas for the steps. For
`RenderOnce`, `SeenByOwner` first turns what is loaded from files into what the row says
(the invariant makes them agree, in the state and in the next one); then a step touches one
job (`Elsewhere`) and what it does there is one of `Acts`, which is a step of `RenderOnce`
(`ActsIsAStep`). The batch adds three ways to change a row outside `run_job` (`RowActs`);
that nobody runs the attempt a drain retires is `NobodyInside`. A
recovery pass of publishing is `LoseTrack` of the set of committed requests. In review every
edit of a project under review is `Edit`, a claim of the final render `Begin`, a recovered
or failed one `Withdraw` or `Reopen`. In the Inbox `Accept` is `Accept`, an answer `Tell`, a
failed receipt with accepted bytes `Refuse`, its purge `Drop`; all others are `Return`, most
of them with nothing to return. Elsewhere the abstract step has the transition's name or
nothing is seen of it.

What the proofs found:

* The induction for `SetupInv` failed at `Complete`: a completion ends whatever re-entry
  it reads. The run at four commits could not show it; six do (`setup_reentry`, finding
  5). `TasksTellTheSetup` now names that one way out (`OvertakenReentry`) and is proved
  with it.
* `NoVerdictByInterruption` was false beyond the checked bounds: with three deaths the
  retry of an attempt may itself be torn and then interrupted, and an attempt without a
  plan cannot be tried again. The property now says so (`~disk[j].plan`).
* The branches of `Recover` in Inbox overlapped as a `CASE`, whose choice is then not
  determined; they are now an `IF` chain in the order of the code.
* `RecordAssumption` of ReviewProject (the model value `None` is no approval and no
  receipt), without which "is not approved" may be true of an approval.
* Bounds and identities that TLC's instances satisfied silently are now stated:
  finiteness of `Handlers` in ReviewProject and of `Shares` and `Requests` in PhoneQueue
  and YouTubeUpload, model values outside the sets they are absent from, `MaxKey` a
  natural in ProductionLibrary.

Only model-checked:

* Liveness: `StaleRunIsSettled`, `BatchFinishes`, `RendersEnd`, `CaptureFinishes`. Liveness
  under fairness and `ENABLED` are out of the prover's reach.
* The five findings: they are counterexamples, and stay runs.

No module declares a recursive operator.

## 7. What is not modelled, and why

Not modelled, as components: reproducible reuse (a lookup over job rows that checks an
artifact as RenderJobs does); audio policy, mastering and cache (arithmetic over
floating-point numbers, one writer); the FFmpeg compilers (text; what can fail in them is a
fault of `RenderJobs`); templates and components, variants and localization (data and
single calls without state); the pages of the web client other than `app.js`, `shared.js`,
`sw.js` and `production-home.js` (single requests each).

Not modelled, inside modelled components: the lock file protocol of the runtime lease (its
effect is a premise of Publishing, ReviewProject and Inbox); corrupted blobs;
OAuth consent; `prepare_inbox_projects` (a loop of bootstraps); limits and pagination of
lists; the composition of the parts of `workshop` and `storefront` with each other, which
share the project manifest only through its compare-and-set.

Inside the modelled parts the following is abstracted: the content of plans,
manifests and reports; QC's checks; OCR text and thresholds; the length and order of
queues; wording and logging; clocks (no modelled decision depends on the value of one).

## 8. Plan

Modelled and checked: everything listed in section 3. Proved: every invariant, action
property and refinement of the passing runs; only liveness is left to TLC. Next:

1. Corrupted blobs in Inbox, with the `size_bytes` overwrite listed under hazards: `Held`
   then needs a verified blob where it has a durable one.
2. One manifest for ReviewProject, PanelDialogue, VoicedStory and SharedScenes, with the
   compare-and-set as their only contact.
3. ReviewProject over `RenderOnce`: its `FindJob`, `StartJob` and `FinishJob` as steps of
   the render jobs that RenderJobs is proved to implement.

## 9. How to run

    tlc -workers 2 -config Publishing.cfg MCPublishing
    tlapm PublishingProofs.tla        (and each other *Proofs module)

Each `MC*` module extends the specifications it checks and names the symmetry set of its cfgs;
`PROJECT.json` says which cfg belongs to which run.
