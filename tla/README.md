# FootballAI V2 execution platform: verification project

FootballAI V2 takes football videos through an HTTP API and runs each one through a
nine-stage analysis in separate worker processes. This directory specifies the part of
it that decides whether the platform can be trusted with a match: how an *attempt* of an
analysis is created, queued, executed, cancelled, retried and finished while requests,
workers, crashes and redeliveries interleave. The specifications are TLA+ modules checked
with TLC; the main safety properties are proved with TLAPS for every number of attempts,
workers, requests, stages, artifacts and deliveries.

File names below are relative to `src/v2/src/footballai_v2/` unless they start with `src/`.

## 1. Inventory

### Components

| Component | State it keeps | Operations that change state | What makes it correct |
|---|---|---|---|
| Run contract (`contracts/v1/analysis_run.py`) | none (immutable values) | `new`, `retry_from`, `start`, `with_stages`, `succeed`, `complete_partial`, `fail`, `cancel`, each validated by `__post_init__` | no run that contradicts its stages can be built; a retry links to its predecessor |
| Lifecycle rules (`storage/lifecycle.py`) | none | `ensure_creatable`, `ensure_transition_allowed` | terminal attempts are immutable, provenance never changes |
| PostgreSQL control plane (`storage/postgres/`) | one row per attempt: manifest, version, `cancel_requested` | `create`, `save`, `request_cancellation` | every change obeys the lifecycle rules, one attempt per number |
| Local run store (`storage/local_analysis_runs.py`) | one directory per run: manifest, input, artifacts, cancel marker | the same, plus `write_artifact`, `put_input_file`, `copy_input` | the same rules without a database |
| Azure object storage (`storage/object_storage/azure_blob.py`) | inputs and artifacts of each run | `write_artifact`, `put_input_file`, `copy_input`, `authorize_upload`, `finalize_upload` | write-once artifacts, an input is complete when it is visible |
| Service Bus queue (`execution/queue/azure_service_bus.py`, `lock_renewal.py`) | messages, locks, jobs in flight | `enqueue`, `claim`, `complete`, `fail`, `cancel` | no job is lost, a finished attempt is not executed again |
| Local queue (`execution/queue/local_filesystem.py`) | one file per job in a directory per state | `enqueue`, `claim`, `complete`, `fail`, `cancel`, `recover_abandoned` | a job is in one state, held by at most one worker, never lost |
| Coordinator (`execution/coordinator.py`) | none of its own | `create_analysis`, `retry`, `clone` | an attempt is either queued with an input or failed |
| Direct upload (`storage/upload_service.py`) | none of its own | `authorize`, `finalize` | exactly one job per finalized upload |
| Executor (`execution/executor.py`) | its own copy of the run, the active stage, published artifacts | `execute` | the stored outcome is what really happened |
| Worker (`worker.py`) | the job in hand | claim, execute, settle | a job is settled only when its attempt is over |
| API (`api/app.py`) | none of its own | create, finalize, cancel, retry, clone | decisions taken on a loaded run survive races |
| Lock renewal (`execution/queue/lock_renewal.py`) | a thread per delivery, its stop event and elapsed time | `start`, `_run`, `stop` | a lock is lost only for a reason, every message is settled |
| V1-compatible pipeline (`execution/adapters/v1_compat_pipeline.py` and its neighbours) | child processes, a working tree per run | readiness, `_execution_config`, `_run`, `build_artifacts` | children are stopped, payloads belong to the input |
| Progress and timestamps (`execution/progress.py`, the contract) | none beyond the manifest | `overall_progress`, the constructors' clock reads | progress never falls, times are in order |
| Readiness (`runtime_readiness.py`) | one cached result per plane | `ready`, `checks_ready` | answers rest on recent checks |
| Legacy importer (`importers/legacy_v1.py`) | none of its own | `import_directory` | an import that ends is its source |
| V1 statistics (`src/pipeline/02_stats.py`, `03_fatigue.py`, `v1_compat_tracking.py`) | CSV files | filter, stitch, aggregate, compare halves | no reported track is lost, steady tracks show no drop |
| CLI, composition, demo pipeline, legacy adapter, dashboards, V1 detection and features, migrations, infrastructure | - | - | not about interaction; listed in `PROJECT.json` with reasons |

### How they interact

A request of the API creates the attempt row first, then stores its input, then enqueues a
job that carries only identifiers. A worker receives the job, asks the control plane
whether the attempt is already over, and executes it: it saves the row before and after
each stage, looks at `cancel_requested` at checkpoints, publishes write-once artifacts,
re-reads the row and saves the final state; only then does it settle the message. The API
cancels a queued attempt by saving it as cancelled, and a running one by setting the flag.
There is no transaction across the control plane, the queue and object storage, and the
version counter of the row is never used, so all that protects an attempt are the
per-call rules: the row lock and the transition table, the unique constraint, write-once
objects and the lock of the message.

### What is hard about it

Stale copies (the executor, the cancel endpoint and the ingestion handlers save runs they
loaded or built several calls earlier); at-least-once delivery with crashes between any
two calls; two executors on one attempt after a lost lock; calls that raise although they
took effect; cancellation racing with start, stages and completion; concurrent retries;
write-once publication met by a second execution. `PROJECT.json` lists each hazard at its
line with the properties that cover it, or the reason none does yet.

## 2. Modules

Four families, which meet where the code's components meet.

| Module | Models | Notes |
|---|---|---|
| `AnalysisRun` | `contracts/v1/analysis_run.py`, `storage/lifecycle.py` | operators only; a run is status, stage statuses, logical id, number, previous id |
| `PostgresRepository` | `storage/postgres/` | `row`, `cancelRequested`; one operator per transaction |
| `ServiceBus` | `execution/queue/azure_service_bus.py` and the broker as it uses it | `message`: state and delivery count of the one message of an attempt |
| `AnalysisExecution` | executor, worker, coordinator, direct upload, API, object storage, lock renewal | adds `object`, `input`, `worker`, `client`; the next-state relation |
| `AttemptLifecycle` | what the platform promises about attempts | abstract specification, implemented by `AnalysisExecution` |
| `Deployment` | the run ids and API requests that both kinds of store serve | constants only |
| `BlobStorage` | inputs in `storage/object_storage/azure_blob.py` | `blob`, `grant`; one operator per remote call |
| `InputIngestion` | multipart and direct uploads, retries and clones over `BlobStorage` | concurrent requests; control plane and queue reduced to `row` and `jobs` |
| `LocalRunStore` | `storage/local_analysis_runs.py` | the files of each run; one operator per visible file operation |
| `LegacyImport` | `importers/legacy_v1.py` on `LocalRunStore` | the importing process and its changing source |
| `LocalPlatform` | executor, coordinator and API on the local store, beside an import | the composition of the two modules above |
| `LocalQueue` | `execution/queue/local_filesystem.py`, the worker loop and the API requests as they use it | one step per system call |
| `LockRenewal` | `execution/queue/lock_renewal.py` and the deliveries around it | time in ticks, one thread per delivery |
| `V1CompatPipeline` | `execution/adapters/v1_compat_*.py` | executions, children, operators on one host |
| `AttemptTimeline` | timestamps of the contract, `execution/progress.py`, the list of runs | one attempt on hosts whose clocks differ |
| `TrackStatistics` | `v1_compat_tracking.py`, `src/pipeline/02_stats.py`, `03_fatigue.py` | a track is a set of rows |
| `CapabilityProbe` | `runtime_readiness.py` | requests race on the cached checks of all planes |
| `AnalysisExecutionProofs`, `OutcomeProofs`, `LifecycleProofs`, `SubmissionProofs` | - | theorems about `AnalysisExecution` (section 4) |
| `LocalPlatformProofs`, `LocalQueueProofs`, `InputIngestionProofs` | - | theorems about the local store and readiness, the filesystem queue, and `InputIngestion` |
| `WorkerHostProofs` | - | theorems about `V1CompatPipeline`, `LockRenewal`, `AttemptTimeline`, `TrackStatistics` and their composition |

`AnalysisRun`, `PostgresRepository`, `ServiceBus` and `AnalysisExecution` each extend the
one before; so do `Deployment`, `BlobStorage` and `InputIngestion`, and `Deployment`,
`LocalRunStore`, `LegacyImport` and `LocalPlatform`. The others stand alone. The `MC*`
modules are described in section 3.

**State.** `row[r]` is the stored manifest of run id `r`, `cancelRequested[r]` its flag;
`message[r]` its Service Bus message; `object[r][a]` the delivery that published artifact
`a`, 0 when absent; `input[r]` whether its input exists. `worker[w]` is one worker
process: its program counter, the claimed job (run id and delivery, the delivery serving
as lock token), the stage and artifact index, and `local`, the `AnalysisRun` object the
executor holds or is about to save. `client[c]` is one API request with the run it acts on
and the `AnalysisRun` object it holds.

**Atomicity.** Every call to the repository, the queue or object storage is one step, and
a decision on what a call returned goes with that call. Between two calls anything may
happen. A repository call is one transaction that locks the row, so it is one step. The
integrity gate reads objects that are never deleted or replaced, so it is one step; a
finalized upload is verified and its attempt created in one step, because nobody looks at
the input before the row exists.

**Actions** follow the code from top to bottom: `Receive`, `DeadLetterOverDelivered`,
`CheckExecutable`, `Complete` for `claim` and settling; `LoadRun`, `CheckQueued`,
`SaveStart`, `PassFinishedStage`, `SkipOptional`, `BeginStage`, `SaveRunning`, `EndStage`,
`SaveDone`, `CancelRebuild`, `PublishArtifact`, `VerifyArtifacts`, `FinishRun`, `SaveFinal`,
`HandleCancellation`, `SaveCancelled`, `HandleFailure`, `SaveFailed` for `execute`;
`Submit`, `FinalizeUpload`, `LoadForRetry`, `LoadForClone`, `CreateAttempt`, `StoreInput`,
`EnqueueJob`, `FailIngestion`, `CreateRaises`, `StoreRaises`, `LoadForCancel`,
`CancelQueued`, `RequestCancel` for the API. The profile of the job is in the constants:
`Optional` is non-empty for `v1_compat`, whose unsupported stages are skipped and whose
payloads are built by the stage `Detection` or, in a resumed execution, after the stages.

**Faults** are enabled by the constant `Faults`: `crash` (a worker dies between two
calls), `lock` (the lock of a job in execution is lost: renewals fail, or the renewer's
lifetime cap), `raise` (a stage, the pipeline or object storage raises inside the `try` of
`execute`), `send` (a call made for a submission inside its `try` raises, possibly after it
took effect), `store` (a write of a request to the control plane raises outside of it: a
`create` that has or has not stored the attempt, `CreateRaises` and `StoreRaises`, the save
with which the handler of a failed submission records the failure, the writes of a
cancellation), `request` (the API process dies in the middle of a request). A raising save
of the handler or of a cancellation changes nothing in the model; one that raises after its
commit is, for the attempt, the save that succeeds.

**Abstractions.** Message bodies, timestamps, texts, metrics and provenance other than the
identity of an attempt are left out, except that the contract refuses a partial last stage
which has not ended (`Completable`), as happens when a second executor rewound it. A
manifest's artifact list is non-empty exactly when its status is succeeded or partial, so it
is not kept. The broker counts deliveries from 1 as the adapter's default does. A message is
sent only for a stored run and at most once per run, so unreadable bodies and unknown runs
do not arise. A seeded fault (an operator so marked, just before the definition it would
replace) is a plausible bug in that definition, used to see that a property notices it; no
specification uses it.

**The filesystem queue** (`LocalQueue`) has no lock and no server, so its steps are the
system calls: `file[d][j]` is the record of job `j` in directory `d`, reduced to its
`claimed_at` (null, recent, older than the timeout), because a record is always published
by a rename or a link and is therefore complete. `proc[p]` is where a worker process or an
API request is within `claim`, `cancel`, `recover_abandoned`, `_move_raw` or
`_terminal_move`, with the directory listing it still has to look at. A cancellation reads
the records of other jobs too, in any order, and may end with an exception when one of them
is taken away under its eyes. `_read` of a record
that was just taken away may fail in `stat` or later; both outcomes are kept, since the
callers treat them differently. The executor and the run store are reduced to the status
of a run, and a save to one step that refuses terminal runs; that the local store checks
and replaces in two steps is in `LocalPlatform`. Faults are `crash`, between any two
calls of a worker, and `slow`, an execution longer than the claim timeout. A worker that
ends on an unhandled exception and one that is started late need no fault.

**Inputs** (`BlobStorage`, `InputIngestion`). The bytes of an object are a model value
together with the checksum in its metadata, the copy that wrote it and the requests that
hold its current etag. Each request is a sequence of remote calls and any of them may
raise, before or after it took effect. A server-side copy is pending until the service
completes or fails it, at any time: before the poll, between its time-out and the abort, or
after the deletion has been tried. A browser may repeat its PUT for as long as its grant
lives. Control plane and queue are what ingestion sees of them: a status, the recorded
checksum, a count of jobs; an external step executes a queued attempt that has a job.

**The local store** (`LocalRunStore`, `LegacyImport`, `LocalPlatform`). A save is a check
(the loaded status) and a replacement, a cancellation a check and a marker, an input is
written in place, an artifact is linked once; other processes come between. The job queue
is external, and hands a job to two executors at a time, as `LocalQueue` and `ServiceBus`
both can. An import is sequential but its source is not its own: V1 may rewrite or remove a
file between any two of its steps. Imports have no job and no successor, so the model keeps
them and other attempts apart, except for cancellations.

**Around an execution.** `LockRenewal` gives the lock and the renewer a clock: waits,
renewals that fail or take longer than the join waits, the lifetime cap, and deaths of the
process. `V1CompatPipeline` has readiness, the fixed configuration, the poll loop with
cancellation and time limit, terminate, wait and kill, and the files as what they were
derived from; an operator may replace the weights, a poll may raise, a worker may die.
`AttemptTimeline` keeps the times of a manifest and of its stages; hosts read clocks that
are at most `Skew` apart, and the contract's refusals are where the code has them, inside or
outside the `try` of `execute`. It also knows which stages an attempt requires: all of them
when it was uploaded directly. `AnalysisExecution` takes the required stages from the
profile and does not combine the two. `CapabilityProbe` has a step for each access to
`_ready` and `_checked_at`; whether a dependency serves is open at every check.
`TrackStatistics` runs the three scripts once over every possible video of its bounds; the
order of tracks that are equally active is open. A track moves at one speed, so the distance
of a step is its time, and none when the track was lost for longer than `MaxGap`;
`MinCoverage` is the gate on blocks, in percent.

## 3. Runs

Each `MC` module puts related components or scenarios into one run; a variable (`scenario`,
`focus`) fixed in the initial state says which of them takes steps, the others stay in one
initial state. Identifiers are model values, with symmetry where no liveness is checked.

| Run | Module | Content and bounds | Shows |
|---|---|---|---|
| `Race.cfg` | `MCAnalysisExecution` | "race": 1 attempt, 2 workers, 1 request at a time, all faults; "attempts": 3 attempts, 2 requests that submit, retry and clone while calls and writes raise, one steady worker. 2 stages (1 optional), 2 artifacts, 2 deliveries | `TypeOK`, `SucceededIsComplete`, `SingleProducer`, `SettledIsTerminal`, `JobHasInput`, `RetryChain`, `SubmissionsStrandNothing`, `TerminalImmutable`, and the refinement `ImplementsLifecycle` |
| `Live.cfg` | `MCExecutionFaults` | 1 attempt, 2 workers, 2 stages, 2 deliveries, `crash`, `lock`, `raise`, fairness | `JobsAreResolved`, `EarlyCancellationWins`, `FailureNeedsPublication` |
| `Queue.cfg` | `MCLocalQueue` | "race": 1 job, 2 workers, 2 requests, fairness; "crash": 2 jobs, 1 worker, 1 request, 2 crashes, `slow` | `TypeOK`, `RacingClaimsAreExclusive`, `UnfinishedJobsAreKept`, `OneLiveRecord`, `RetiredRunsAreOver`, `RacingJobsEnd` |
| `LocalStore.cfg` | `MCLocalPlatform` | "store": 2 runs, 2 executors, 2 requests, an import of 2 files with 1 edit; "ingestion": 2 attempts, 2 requests, 2 contents (one too large), 2 PUTs; "probe": 2 readiness requests, 2 planes, 4 moments | `LocalTypeOK`, `OutcomeMatchesFiles`, `EnqueuedInputIsWhole`, `ImportMatchesSource`, `UndisturbedImportEnds`; `IngestionTypeOK`, `EnqueuedInputIsRecorded`, `VerifiedTags`, `OneJobPerAttempt`, `ScratchIsAccounted`; `AnswersAreRecent` |
| `Host.cfg` | `MCWorkerHost` | "share": 2 executions on one host, a failing poll; "change": one worker that dies, changing weights, defective hosts; "lock": 1 message, 2 workers, 3 deliveries; "timeline": 2 hosts, 3 stages, skew 1; "tracks": 3 tracks in 4 frames, gaps over 2 frames, coverage from 60 %; fairness | `TypeOK`, `PayloadsMatchInput`, `ChildrenStopped`, `ExecutionsEnd`, `LockLossIsExplained`, `MessagesSettle`, `ClockFaultsNeedSkew`, `ProgressNeverFalls`, `ReportedTracksSurvive` |
| `Redelivery.cfg` | `AnalysisExecution` | crashes only, 2 artifacts, 2 deliveries | violated: `RedeliveryIsIdempotent` |
| `DirectUpload.cfg` | `AnalysisExecution` | one finalized upload, `send` | violated: `NoStrandedAttempt` |
| `QueueRecovery.cfg` | `LocalQueue` | 1 job, 2 workers, 1 crash | violated: `ClaimsAreExclusive` |
| `QueueAbandoned.cfg` | `LocalQueue` | 1 job, 1 worker, 1 crash | violated: `AbandonedClaimsAreRecoverable` |
| `LocalOverwrite.cfg` | `MCLocalOverwrite` | 1 run, 1 executor, 1 request | violated: `TerminalManifestsStay` |
| `Workspace.cfg` | `V1CompatPipeline` | downloaded inputs, 1 worker, 2 executions, a failing poll | violated: `PayloadsMatchInput` |
| `TrackHalves.cfg` | `TrackStatistics` | 2 tracks, 4 frames, blocks of 3 | violated: `SteadyTracksShowNoDrop` |

**History variables.** `MCExecutionFaults` records whether any step of a `try` block has
raised and whether two executors ever worked on one attempt. `FailureNeedsPublication` is
about behaviours in which nothing raised. `EarlyCancellationWins` is about cancellations
requested before executors overlapped: a stale copy of the stages saved by a second
executor can rewind the stored ones, so that "the last stage is still queued" no longer
says that it has not begun. `MCAnalysisExecution` keeps in `forsaken` the attempts of
requests that ended with an exception of the two writes outside every handler: a `create`
that raised once the attempt was stored, and the save of a failure. The code leaves these
queued with no job; `SubmissionsStrandNothing` says that it leaves no other.
`MCLocalOverwrite` keeps the outcome each run was first stored with.

**Why the bounds suffice.** Attempts of different run ids share nothing but the unique
constraint, so executions are checked on one attempt and the constraint on three, enough
for a retry of a retry and for two requests racing on the same one. Two workers are the
overlap a lost lock causes; two deliveries let an execution be abandoned or overlapped and
then resumed, the third being dead-lettered (the theorems cover every limit). Two stages,
one optional, give the loop a skipped and a worked stage. Two artifacts let a publication
be interrupted in the middle. In the local queue every race on a record is between two
processes, a third only adding another loser; two jobs matter only in a listing that a
recovery walks, and two crashes are one before and one inside a recovery. In ingestion two
attempts are a source and a copy, two requests any race on them, two PUTs a replaced
upload. In `LocalStore.cfg` two executors publish contents of their own, so a mixed outcome
would show; an artifact of theirs and two files of an import are the first and the last of
a loop, and one edit can fall between any two readings. `LockDuration` 5,
`RenewInterval` 2 and `RenewLifetime` 6 keep what matters of 5 min, 30 s and 4 h: a lock
survives one failed renewal but not two, and a renewer gives up while deliveries are left.
Readiness needs `LastMoment` to reach past `Ttl + 2 * Patience`, and a plane that is
trusted next to one that is asked. Four frames give each half two, and three tracks one
more than a stitched pair; a gap of three frames is too long and one of two is not, and with
two blocks a track of one block misses the coverage gate.

**Symmetry by hand.** Where liveness is checked, the `MC` module lets a fixed process take
the first step (the first analyst, the consumer that receives first, the API host): the
processes are alike, so nothing is lost. Executions on a shared host start from a healthy
one, and directly uploaded attempts are looked at with clocks that agree, because the two
questions do not meet.

**Deadlock** is not checked in the passing runs: each of them comes to rest when every run
id is used and every attempt, job or script is over, or the bounds on executions and PUTs
are used up. `Live.cfg` checks it, with requests that can always come and be refused.

**Fairness.** `Live.cfg`: weak fairness of each worker's own steps and of the expiry of
locks nobody renews. A worker is a loop in a process that the platform restarts (the restart
policy of the containers, or the next execution of the worker job), and the broker's locks
have a bounded duration. Nothing is assumed of API requests, and faults are never forced.
`Queue.cfg`, in "race" only: each worker, each request once begun (a thread of a server that
is not killed) and the clock for claims nobody holds. `Host.cfg`: each execution's own steps
but not its child's, which may hang (the time limit is a step of the execution); each
consumer, the clock, and the renewer threads' waking up.

### Findings

* `Redelivery.cfg`: `executor.py:90-97` publishes write-once objects before the outcome is
  saved. After a crash in between, the redelivered job collides with the objects of the
  first execution and the handler at 121-134 stores `failed`, although
  `azure_service_bus.py:3-4` requires the execution path to be idempotent. No artifact is
  lost and the attempt can be retried; what is lost is an attempt that nothing was wrong
  with. `Live.cfg` shows the converse: a crash before publication never fails one.
* `DirectUpload.cfg`: `upload_service.py:112` has no handler, unlike the coordinator's three
  entry points (for which `Race.cfg` shows that an enqueue that raises strands nothing), and
  a repeated `finalize` returns the stored attempt without enqueuing. The docstring promises
  exactly one job.
* `QueueRecovery.cfg`: `local_filesystem.py:134-135` requeues a record by a rename and a
  rewrite. A running worker may claim it in between; the rewrite then puts a second copy
  into `queued/`, and the job is executed twice at once. `Queue.cfg` shows that without
  a recovery of stale claims, claims are exclusive, as the docstring says. The same
  invariant also fails with the fault `slow` and two workers: line 131 goes by the age of
  the claim alone and nothing renews it, so a worker that starts while another is busy for
  longer than the timeout takes its job. `Queue.cfg` has `slow` enabled with one worker.
* `QueueAbandoned.cfg`: `claim` renames (90) before it writes `claimed_at` (93). A crash in
  between leaves a claim that line 131 ignores at every later start, so the attempt stays
  queued, although abandoned claims are documented to be recovered.

* `Workspace.cfg`: `v1_compat_pipeline.py:101` derives the working tree from the place of
  the input. For a downloaded blob that place is the temporary directory of the host, so
  every run of a worker uses one tree. When the cancellation poll raises, the child is left
  behind; it goes on writing while the worker executes the next run, which then reports the
  tracks of another video. `Host.cfg` shows that with inputs of the local store, in a tree
  per run, payloads do match.
* `TrackHalves.cfg`: `src/pipeline/02_stats.py:224` gives a 15-minute block to the half of
  its first frame, so a block that reaches over half time counts for the first half as a
  whole, and `03_fatigue.py` reports a drop of distance for a track that moves evenly.

* `LocalOverwrite.cfg`: `local_analysis_runs.py:142` replaces a manifest that was checked
  earlier (101-141), and nothing locks it in between. A request stores a queued run as
  cancelled while the executor is about to replace the same manifest with `running`; the
  outcome is gone. `ANALYSIS_EXECUTION.md:31` says that terminal manifests are immutable,
  and `MILESTONE_2.md:114-116` that the local adapter provides terminal immutability.

A document is contradicted by one more behaviour, which no run is about:
`production-cloud-adapters.md:143-145` says that finalization uses a server-side copy into
the immutable, write-once attempt key. `finalize_upload` (`azure_blob.py:331-370`) makes no
copy, it tags the object the browser wrote, so a browser can replace the input of a finalized
upload until its grant expires. `BlobStorage!Upload` has this step, `VerifiedTags` says what
holds of the checksum nevertheless (a PUT drops it), and `EnqueuedInputIsRecorded` leaves
the identity of such inputs out.

Known limits that no document contradicts are listed as hazards instead: dead-lettered
attempts stay queued or running; a request that dies between two calls strands its attempt,
and so do a `create` that raises once its attempt is stored and a handler whose save raises
(`coordinator.py:187, 206, 219` and `196, 211, 224`). A directly uploaded attempt
marks every stage as required, so stages its profile does not support end as succeeded;
`AttemptTimeline` models it, and no property is stated of it.

## 4. Proofs

The theorems hold for every value of the constants that satisfies the named assumptions in
the modules: run ids distinct from the null id; at least one stage, artifact and delivery;
`Optional` and `Detection` among the stages; known faults and endpoints; for the local
store, executors that are contents other than 0 and distinct from requests; for ingestion,
finitely many requests, and contents of which only "nothing" has no bytes; finitely many
tracks and frames; and stage weights that are natural numbers with the sum 100, as the
table of `progress.py` is. A theorem that needs more names it in an `ASSUME` of its own:

| Assumption | Where | Why the code justifies it |
|---|---|---|
| `PlainRequests` | `FailuresFollowPublication` | a retry or clone whose source input is missing fails its new attempt at once, without any execution; a `send` that raises does the same |
| `LastRequired` | `EarlyCancellationsWin` | the last stage, artifact publication, is required in both profiles; an optional one would be passed without ever beginning |
| no `request` fault, no `store` fault, no `send` fault in `finalize` | `OnlyAbandonedRequestsStrand` | these three do strand attempts, see the findings and the known limits |
| `Private` | `PayloadsAreTraceable` | the local store lends inputs in a directory of their run; downloaded inputs are the finding of `Workspace.cfg` |
| `LockOutlastsFailure` | `LockLossExplained` | the queue's lock lasts PT5M and is renewed every 30 s |
| `Faults = {}`, or a single worker | `CalmQueue`, `LoneWorkerQueue` | the two kinds of deployment that keep the queue's promises |

**The Azure platform** (`Spec` of `AnalysisExecution` and its histories)

* `AnalysisExecutionProofs!TypeCorrect`: `Spec => []TypeOK`. `TypeOK` alone is not
  inductive: that a worker in a given program counter has a run, an index within the
  stages or a positive delivery is needed to type the next step, so the invariant adds a
  condition per program counter of workers and of requests.
* `AnalysisExecutionProofs!TerminalAttemptsImmutable`: every step either leaves `row`
  alone, or is a `Save`, or creates an attempt (lemma `RowStep`); `Save` refuses to replace
  a terminal row.
* `OutcomeProofs`: `SettledJobsAreTerminal`, `OneProducer`, `SuccessIsComplete` come from
  one inductive invariant, `OutcomeInv`. It says what each worker may rely on at each
  program counter (a worker about to settle has a terminal row; a worker publishing artifact
  `n` holds that the first `n - 1` objects are its own; a worker about to save success has
  every object), that a request can only hold a queued or running copy that cannot become
  a success, and that the first artifact decides the producer of all the others: objects
  appear in order and are write-once, so an execution that published the second object had
  published the first.
* `OutcomeProofs!FailuresFollowPublication`: while nothing has raised, each executor that
  is on its way to fail its attempt can point to an object of that attempt
  (`WorkersAccountable`), and no request fails one.
* `OutcomeProofs!EarlyCancellationsWin`: two invariants. Until executors overlap, what an
  executor holds of the last stage agrees with the stored row (`ExecutorsInStep`). From a
  cancellation requested before the last stage began, the attempt is `Doomed`: its row is
  over without a result or has the last stage unfinished, and none of its executors gets
  past that stage. The property then follows step by step, without
  reasoning about nested temporal operators.
* `LifecycleProofs`: `PlatformImplementsLifecycle` proves that initial states map to
  initial states and every step to a step or a stutter of `AttemptLifecycle`, and
  `RetriesFormChains` the retry chain. The invariant `LifecycleInv` adds `RequestsLinked`:
  a request about to create a retry still finds its predecessor terminal, because terminal
  rows do not change, and its successor is built from that row.
* `SubmissionProofs!JobsHaveInput`: no job is sent before its attempt and its input are
  stored. The invariant `SubmissionInv` says that a request on its way to a job is the only
  one with its run id, that the job of that run is unsent, and which of row and input it
  has stored by then. That a fresh run id can be inserted at all needs `RowsRooted`: every
  row belongs to an analysis whose first attempt is stored.
* `SubmissionProofs`: `NothingStranded` (in the scenario of `Race.cfg`) and
  `OnlyAbandonedRequestsStrand` (of `Spec`). Every live attempt is attended: its job is
  sent, or one request is on its way to send it or to fail it, and the save of that
  failure is one the row accepts (`HandlersOK`). In the first theorem calls may raise
  anywhere, and the attempts that are not attended are exactly accounted for by `forsaken`.
  The second has no such exception and names instead what must not happen: an API process
  that dies, a write of a request that raises outside its `try`, and a `send` that raises in
  `finalize`. Calls inside the `try` blocks may raise, workers die, locks be lost.

**The local platform**

* `LocalPlatformProofs!OutcomesMatchFiles`. The store has no locks,
  so the invariant `StoreInv` is about what each process knows between its calls: files
  under their final names never change, so what an executor or an import has verified
  stays true until it writes the manifest that names it, although two processes may be
  about to replace the same manifest. A name reserved by a process is its own until it
  writes the first manifest.
* `LocalPlatformProofs!EnqueuedInputsAreWhole`: until its job is enqueued, the input of a
  run has one process that writes it (`InputInv`), and that process enqueues only once the
  input is whole; processes that read or copy it meanwhile change nothing of it.
* `LocalPlatformProofs`: `ImportsMatchSources` and `UndisturbedImportsEnd`. `ImportInv`
  relates the importer to the changes of its source: every change makes a version that no
  recorded checksum has, so what was copied from a source that still has its checksum, or
  has it again at the second reading, is what was hashed. The run of the import has no other
  writer than requests that cancel it, and as long as V1 changes nothing the sources are
  those that were found.
* `LocalPlatformProofs!ReadinessRecent`: threads that share a cache can leave a stamp of one
  check beside the answer of another, but by `ProbeInv` that check is older than the stamp
  by no more than a request takes; a request counts its own waiting on top.
* `LocalQueueProofs`: the five promises of `LocalQueue` hold in the scenarios of
  `Queue.cfg` for any number of jobs, workers and requests (in "crash", of the one worker
  that acts there), and of `Spec` itself in `CalmQueue` and `LoneWorkerQueue`. The
  invariant `QueueInv(A, calm)` takes the set `A` of workers that act and whether they are
  calm: a record sent to the queue is queued or claimed but never both, or its run is over
  or about to be ended; while workers are calm a claim without a holder is the remains of
  a run that is over, so no recovery requeues it; otherwise the worker that requeues one is
  alone. For several workers of which one dies or outlasts the claim timeout the promises
  do not hold, so there is no theorem of that case (`QueueRecovery.cfg` shows two workers
  with one job).

**One worker host.** `WorkerHostProofs` proves the properties of each component from its
own specification; the lemmas `HostRunsPipeline`, `HostRunsLocks`, `HostRunsTimeline` and
`HostRunsStatistics` show that every behaviour of `Host.cfg` satisfies each of these
specifications.

* `ChildrenAreStopped` and `PayloadsAreTraceable`, from `PipeInv`: a child belongs to an
  execution exactly when this one waits for it; and, with `Private`, every file of a run's
  working tree, every child and every result carries that run's video and, unless an
  operator replaced the weights, the weights recorded for it. Without `Private` two runs
  share a tree and that is false (`Workspace.cfg`).
* `LockLossExplained`, from `LockInv`: as long as a delivery is served and its renewer is
  not excused (lifetime reached, two failures in a row, a slow call), what is left of the
  lock is at least the time until the renewer wakes plus a margin that one failed renewal
  does not use up. The margin is where the assumption on the two durations enters.
* `ClockFaultsExplained` and `ProgressRises`, from `TimelineInv`: an attempt in
  progress has its finished stages before those still queued, an execution knows which
  ones, and, while clocks agree, no stamp lies in the future of any host. Progress is a
  fold over the stages; that the sum of a function exists, grows with its values and
  carries a common factor (`SumsExist`, `SumsGrow`, `SumsScale`) is derived from smallest
  counterexamples (`SmallestBadSet`, `SmallestBadNumber`) in place of the induction
  theorems, which take an operator the provers cannot instantiate.
* `ReportedTracksAreCounted`: stitching can give a track less than it had and leave another
  one more. `StitchingKeepsRows` shows that, whichever way ties are ranked, some track has
  at least as many rows afterwards as any given track had before.
* `HostTypeCorrect`: all variables of all components keep their types.

So every invariant and every action property that a passing run checks is proved for all
constants. Only model-checked are the liveness properties (`JobsAreResolved`,
`RacingJobsEnd`, `ExecutionsEnd`, `MessagesSettle`), because fairness and
`ENABLED` are out of the prover's reach, and the properties of the runs that expect a
violation, which TLC refutes.

## 5. Not modelled, and the plan

Modelled so far: the Azure composition first, because it is the production deployment and
its actors are the most independent; then the filesystem queue, the local store with the
importer, ingestion over blob storage, lock renewal, the compatibility pipeline, time and
progress, readiness, and the V1 statistics. What is worth doing next:

1. An abstract job queue that `LocalQueue` implements while no claim is recovered, with the
   step-by-step proof; the invariant `QueueInv` already contains what it needs.
2. The refinement of `AttemptLifecycle` by the local platform, restricted to saves between
   whose check and replacement no other save of the run comes; without the restriction
   `LocalOverwrite.cfg` refutes it.
3. Serialisation of the run contract, and the read side of the API (artifact access,
   listing) as pure operators over bounded inputs.

Left out for good, each with its reason in `PROJECT.json`:

* numeric video processing (detection, features, speeds, heat maps) and the shape of the
  payloads: no control state, and nothing the properties could tell apart;
* reading endpoints, response models, error texts, dashboards and the legacy artifact
  adapter: they read and format;
* the demo pipeline and the in-memory object storage: fixed payloads and a test double;
* composition, configuration, logging, command line tools: wiring and sequential scripts;
* migrations, containers, infrastructure and CI: what they promise (a worker is restarted,
  a lock has a duration) is assumed where it is used.
