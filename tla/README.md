# ChallengeForge: TLA+ models, checks and proofs

ChallengeForge is a hackathon platform: participants upload submissions to a
FastAPI application backed by PostgreSQL and a blob directory; separate worker
processes evaluate submissions and ingest their artifacts. This directory holds
TLA+ models of the parts that keep state across processes, the TLC runs that
check them on small instances, and TLAPS proofs of the core. `PROJECT.json`
maps every definition to the lines it models.

## 1. Inventory

| Component | State | Operations | Hard behaviour |
|---|---|---|---|
| Evaluation queue (`persistence/repositories.py`) | `evaluations` rows, singleton scheduler row | create, claim, requeue, defer, succeed, fail, record attempt, recover | claims of several workers interleave; rows are recovered while their worker still runs |
| Evaluation worker (`worker/`) | the claimed evaluation, a child process | recover, poll, claim, run, write result | crash at any point; late answers; no transaction is held while work runs |
| Progressive evaluation (`evaluation/`) | current stage | run stages, finish, defer | deferral returns the row to the queue with another class |
| Process executor and ownership (`execution/`) | process tree, workspace, recorded attempt | start, watch limits, terminate, contain | orphans, failed containment, Popen before the record |
| Resource runtime (`runtime/`) | adaptive worker count, pressure, interactive level | tick: classify, adjust, admit | stale snapshots, hysteresis, limits that reach zero |
| Ingestion (`ingestion/`) | `ingestion_jobs`, `document_chunks`, output blobs | enqueue, claim, process, retry, recover, clean up | clean-up of a late worker against the outputs of a newer attempt |
| Submissions, challenges (`application/`) | submissions, challenges, idempotency keys | create, update, submit, cancel, publish, close | check-then-act without a lock; several commits per request |
| Artifacts and uploads (`application/`, `storage/`) | blob files, incoming files | put, delete, compensate, reconcile | files and rows are not in one transaction |
| Interactive feedback (`runtime/interactive_signal.py`, `api/interactive_metrics.py`) | sample window, published hint, level | record, publish, read the hint, change the level | awaits between snapshot, write and bookkeeping; failed writes; restarts of either process |
| Coalescer (`runtime/coalescing.py`) | in-flight calls | share one computation | the leader fails or is cancelled |
| Chunking (`ingestion/canonical.py`, `chunking.py`) | the text and the lists its loops build | normalise, split into units, pack, cut | offsets, budgets and line numbers at every boundary |
| Retrieval (`retrieval/`) | none | three ways to rank chunks, metrics | ties, boosts |
| API (`api/`, `application/evaluations.py`) | none | authorize, read, count | several statements per answer |
| Schema (`alembic/`, `persistence/models.py`) | the schema, its revision | upgrade, downgrade, create_all | rows of older versions; two ways to build a database |
| Load experiments (`scripts/`) | database, server and worker processes, reports | prepare, enqueue, drive, drain, collect, stop | exceptions in any call; processes that outlive a scenario |
| Web pages, configuration, logging | none | | |

Interaction: the API inserts an evaluation row with the submission's transition
to SUBMITTED and an ingestion job after the artifact is stored; workers meet
only in the database and, for executions, in the process table. The resource
runtime of each worker decides, from a snapshot of the tables, the limits its
next claim uses.

## 2. Modules

| Module | What it is |
|---|---|
| `EvaluationQueue` | the evaluations table, the scheduler row, the workers, their processes |
| `EvaluationLifecycle` | what a job table promises: ALLOWED_TRANSITIONS, bounded concurrency, bounded starts |
| `BypassHistory` | `EvaluationQueue` with a history variable that counts bypasses independently of the scheduler row |
| `ResourceRuntime` | extends `EvaluationQueue`: each worker computes the limits of its polls from its own adaptive runtime |
| `IngestionPipeline` | ingestion jobs, chunk rows, output blobs and the ingestion workers |
| `SubmissionLifecycle` | a challenge, its submissions, their artifact blobs and staged uploads, the requests on them, the orphan scan |
| `InteractiveFeedback` | from measured requests to the level of the worker's feedback controller |
| `RequestCoalescer` | `InProcessCoalescer.do` |
| `ProcessExecutor` | one execution of a corpus program: process tree, Job Object, readers, polls, clean-up, classification, retry |
| `ProgressiveEvaluation` | one evaluation in its stages, with the policy and the record of the work |
| `Chunking` | canonical text and both chunkers |
| `LexicalRetrieval` | `retrieve` and the metrics |
| `ParticipantApi` | what the API shows to whom, statement by statement |
| `SchemaMigrations` | the thirteen revisions, the models, `create_all` |
| `ExperimentHarness` | how five load experiments run their scenarios |
| `MCEvaluationQueue`, `MCResourceRuntime`, `MCIngestionPipeline`, `MCSubmissionLifecycle` | instances for TLC |
| `MCEvaluation`, `MCLiveness` | the instances of the queue and its runtime whose safety and whose progress are checked, in one run each |
| `MCComponents`, `MCProgress` | instances of the components that share no modelled state, in one run each |
| `EvaluationQueueProofs`, `BypassProofs`, `ResourceRuntimeProofs`, `SubmissionProofs`, `IngestionProofs` | TLAPS proofs about the modules they are named after |
| `ProgressProofs` | TLAPS proofs about `RequestCoalescer` and `InteractiveFeedback` |
| `ComponentProofs` | TLAPS proofs about `ProgressiveEvaluation`, `ParticipantApi`, `ExperimentHarness`, `LexicalRetrieval`, `Chunking` and `ProcessExecutor` |
| `CompositionProofs` | TLAPS proofs about `MCComponents`, the composition of these and `IngestionPipeline` |

### EvaluationQueue

A row carries status, workload class, mode, stage, `attempt_count`,
`worker_id` and the attempt whose process `execution_attempt` names. Rows are
ranked by (created_at, id); a rank may become visible late because created_at
is taken before the commit. `claim_next` is split where PostgreSQL's READ
COMMITTED lets other transactions commit: `ClaimLock` (SELECT ... FOR UPDATE of
the scheduler row and the RUNNING count), `ClaimSelect` (the oldest QUEUED
row), `ClaimHead`/`ClaimBlocked` (the decision about a HEAVY head) and
`ClaimBypass` (its FIFO successor); each path that returns None rolls back
(`GiveUp`). Result writes (`MarkSucceeded`, `MarkFailed`, `ReleaseForRetry`,
`DeferEscalation`) are one conditional UPDATE each, on status and worker_id.
`Spawn`, `PersistStarted`, `ExecutorReturns` and `ProcessExits` model the
process of the synthetic_execution mode, which outlives its worker unless a Job
Object owns it. `Recover` contains recorded processes and requeues, fails or
quarantines any set of RUNNING rows: staleness is a matter of clocks, so any
RUNNING row may be stale. `Crash` may strike whenever a worker is not idle, and
the worker id comes back.

### EvaluationLifecycle and the refinement

`EvaluationLifecycle` has `Accept`, `Start` and `Settle` over two functions,
status and tries. `ImplementsLifecycle` maps status to the status column and
tries to attempt_count.

### ResourceRuntime

`EvaluationQueue` lets every poll pass any limits of the set `Limits`. Here
`Poll` is replaced by what `process_one` does: `Tick` reads the queue
(`plane_snapshot`) and the host, classifies the pressure, merges the
interactive level, adjusts the worker's own concurrency and decides about
admission; `PersistRuntimeState`, one transaction later, waits for the lock of
the scheduler row and goes on to claim or back to sleep. Other workers may
commit between the two and before the claim. A restarted worker has a new
controller (`FreshRuntime`). A host is abstracted to the side of each threshold
its samples are on and may change at any time; so may the interactive level,
whose controller is `InteractiveFeedback`. `ImplementsQueue` says that the
composition is an `EvaluationQueue`.

### IngestionPipeline

A transaction is one action, except `replace_for_job`, whose DELETE
(`ReplaceDelete`) and INSERT (in `MarkSucceeded`, with the conditional UPDATE
of the job) another worker's commit may separate: the second INSERT then meets
the unique constraint and the worker ends. Blobs are outside the database, so
`PutCanonical`, `PutResult`, `CleanResult` and `CleanCanonical` are actions of
their own. `HandleRetryable` and `RecoverStale` commit the requeue first and
clean up afterwards. An artifact may be good, fail transiently, be poisonous,
or be gone because the submission's artifact was replaced (`ArtifactReplaced`).
The job table is shown to implement `EvaluationLifecycle`, with no bound on
concurrency.

### SubmissionLifecycle

API requests of one participant on one challenge, one statement, commit or file
operation at a time. A request makes at most one submission id and one artifact
key, both new uuids, so it names both. `pc` says where it is: a create looks up
its key (`FindByIdempotency`), locks the challenge row FOR SHARE
(`LockOpenChallenge`), may store a blob (`PutArtifact`) and inserts
(`InsertCommit`, or `InsertDuplicate` when the unique index refuses it); an
update or attach may stage its upload (`StreamToIncoming`), reads the row
without a lock (`ReadCreated`), publishes its blob (`PublishBlob`), updates the
row by its id (`UpdateCommit`) and drops the previous blob (`DropPrevious`).
Both enqueue an ingestion job in a transaction of their own (`Enqueue`). Any
commit may fail (`CommitFails`), or take effect although it raises
(`InsertUnacknowledged`, `UpdateUnacknowledged`), and is compensated by deleting
the blob (`Compensate`); a delete may fail; a request may stop anywhere
(`Stop`). `Submit` and `Cancel` are one conditional UPDATE each.

The orphan scan goes as the code goes: the caller lists the referenced keys
(`ScanList`), `reconcile_orphans` reads its clock (`ScanClock`), walks the files
and compares their mtimes with that clock (`ScanFiles`), and deletes one by one
(`ScanDelete`); requests store blobs and commit between any two of these. `old`
holds the files past the grace now, `aged` those that were so by the clock. The
grace period is taken to be longer than a request needs from its file to its
commit, and than a scan needs from its listing to its clock besides
(`WithinGrace`): this is the design's assumption, and nothing in the code
enforces it. A walk may take any time. `everClosed`, `late` and `lost` are
history variables: whether a close has committed, what was accepted after it,
and whose commit was not acknowledged. The last is the exception in
`ReferencedExists`: after a lost acknowledgement, `compensate_delete` removes a
blob that the database names.

Three things the documents say do not hold, and each has a run of its own
(section 3). A challenge may be reopened (`NoAcceptanceAfterClose` with two
publish requests). The artifact of a submitted submission can still change,
because the UPDATE of a replacement does not check the status again
(`ArtifactSettled`). And a retry with an idempotency key is answered from the
row alone: after a lost acknowledgement it names a submission whose blob was
deleted and for which no job exists (`NothingAnsweredIsLost`). A request that
stops between the commit of the artifact key and the enqueue also leaves an
artifact without an ingestion job, and a retry is answered with that submission
too. So `AnsweredIsEnqueued`, which holds, is about the request that brought the
artifact only: when that one is answered, the job exists.

### InteractiveFeedback

`RecordWall` adds a sample and sets `dirty`. `PublisherWakes` takes the
snapshot, `PersistCommit` or `PersistFail` ends the write, and only then
`dirty` is cleared: a request in between is recorded but no longer announced.
`StopBackground`, `CancelPublisher`, `FinalFlush`, `KillApi` and `StartApi` are
the ways a publisher stops and comes back; a write that the cancellation
interrupts may or may not have been committed. `Update` is the controller: hints
with too few samples are skipped, a candidate level has to last
`SustainTicks`, and two changes are a cooldown apart. Time is a counter of
ticks that stops counting where it no longer matters. The ghost `steady` is
what the usable hints have asked for and since when.

### RequestCoalescer

Everything between two awaits is one action. `LeaderCancelled` leaves the
future pending, because `except Exception` does not catch `CancelledError`;
`JoinersReleased` names that exception.

### ProcessExecutor

The programs of `execution/workloads.py` are records (how many processes they
fork, how much they write, how they may end, what they grow);
`ResolveWorkload` picks one as `resolve_workload` does. The program's steps
(`Fork`, `WriteOutput`, `RootExits`, `ChildExits`, `ForkRefused`, `JobTimeUp`)
interleave with the executor's (`Prepare`, `Popen`, `Assign`, the polls,
`ListTree`, `KillTargets`, `CloseJob`, `CleanWorkspace`, `Report`, `Retry`) and
with the reader thread (`ReaderReads`). A psutil listing walks the tree from
the root, so it is empty once the root has gone (`Tree`).

`ExecutionAccounted` says what the clean-up achieves. Where the job has every
process, none survives (`ContainedIsClean`); a member of the job, and a process
that was listed, ends or is reported (`ListedAreReported`); a score is given
only to an exit with 0 without a reported limit or leak, and not to cut output
unless some process still held the pipe (`ScoreIsEarned`). It does not say that
nothing is left behind: a child that is in neither the job nor the listing
lives on beside a SUCCESS, which the documents rule out and
`executor_survivor_documented` shows.

### ProgressiveEvaluation

The evidence tables of `workload_v3.py` in units of 0.05, with hashes as
choices made with the submission, the policy (`DecideStage`), and the row with
`current_stage`, the log of stages and the cost. Two workers may hold the row
one after the other while the first still runs; every write is conditional on
status and worker_id, as in `EvaluationQueue`.

### Chunking and LexicalRetrieval

Pure algorithms, checked on every document of up to three lines out of eleven
kinds, for two budgets and every overlap, and on every index of three chunks.
The reference definitions are independent of the code: ink that must be
covered, newlines counted from the start, hits counted as sets.

In `Chunking` one step is one iteration of a loop of the code and `ckAt` names
the loop: lines are joined (`JoinLine`), put into units (`UnitizeStep`), units
are split and pieces packed (`PackStep`), groups become drafts (`DraftStep`);
`chunk_fixed_chars` has one loop of its own (`FixWindow`). `units`, `pieces`,
`groups` and `drafts` are the lists these loops append to. A line is named by
what the code's tests on it can tell, and its characters are ink ("x"), spaces
and newlines; a unit is its span, since its text is always the slice.

### ParticipantApi

One request at a time (`Ask` ... `Deliver`) reads in as many steps as the
handler has statements, while organizers, participants and workers go on
(`WorldStep`). `seen` records the least and the greatest depth and age during a
request and who was undecided when the row was read.

### SchemaMigrations

A schema is a set of named items; a migration is a sequence of additions, drops
and data statements, applied in one transaction or not at all. `SchemaAt[n]` is
what the upgrades build from nothing. The rows are the ones a migration treats
specially: a submission with or without a key, an evaluation with a mode, the
scheduler's singleton.

### ExperimentHarness

The five experiments make the same calls in different orders (`Calls`). The
feeder and the workers run beside the harness. `Raise` may strike in any call:
the server is stopped on the way out, but the workers only in `isolated` and
`capacity`, whose calls are inside a `try` that stops them; the others leave
them to the end of the process. The position bench of `isolated` asserts
`ahead == depth - 1`, which needs that no worker is left.

## 3. Runs

| Run | Instance | Shows |
|---|---|---|
| `evaluation_safety` | scheduling: 3 rows, 2 workers, limits that change between polls, 1 crash | `ConcurrencyBound`, `BypassStreakBound` |
| | execution: 2 synthetic or adaptive rows, 2 workers, 2 attempts, 1 crash | `TypeOK`, `AttemptBound`, `RecordedProcessIsCurrent`, `FencedByWorkerId`, `NoLateResult`, `TerminalIsFinal`, `ImplementsLifecycle` |
| | runtime: a HEAVY and a LIGHT row, 2 workers with controllers of their own, hosts calm or overloaded | `RuntimeTypeOK`, `NoHeavyWhenDegraded`, `AdaptiveBound`, `ImplementsQueue` |
| `evaluation_liveness` | queue: 2 HEAVY rows and a LIGHT one, 2 fair workers, 1 crash, HEAVY slots granted | `QueueDecides` |
| | runtime: 2 HEAVY rows with processes, 1 worker, every kind of host, 1 crash | `RuntimeDecides` |
| `components` | eight components, one instance each (below) | `ComponentTypes`, `FencedByWorkerId`, `ImplementsLifecycle` (ingestion: 2 jobs, 2 workers, 2 attempts, 1 crash); `DecidedAsTruth`, `StagesAccounted`; `ChunkingFaithful`; `RetrievalSound`; `SchemaSound`; `AnswersAreAuthorized`, `ViewsAreOfTheQueue`; `ExecutionAccounted`; `HarnessIsolates` |
| `component_progress` | three components, with what they must eventually do | `ProgressTypes`, `SucceededIsDurable`, `JobsDecided` (ingestion: 2 jobs, 1 worker, 3 attempts, 2 crashes); `OneComputationPerKey`, `JoinersGoOn`; `LevelEarned`, `CalmRecovers` |
| `submission_lifecycle` | 3 requests, 1 idempotency key, 2 fingerprints, 1 publish request | `TypeOK`, `ReferencedExists`, `NoAcceptanceAfterClose`, `SameKeySameAnswer`, `AnsweredIsEnqueued` |

`evaluation_safety` and `evaluation_liveness` put instances of one
specification into a run. `focus`, chosen at the start, says which rows arrive
and what the workers do; the properties are checked on all of them, each on the
instance made for it above.

- scheduling: two rows of either class with a LIGHT one behind them, polls that
  grant two workers with or without a HEAVY slot.
- execution: one row in a process, another in a process or in stages.
- runtime (safety): idle workers restart, but none crashes over a claim and no
  RUNNING row is requeued; these are met in the other two instances, where they
  do not depend on a tick.
- queue (liveness): while one HEAVY row runs, the other is a blocked head; the
  LIGHT row passes it, which spends `LightBypassLimit` = 1, and the head then
  stops every claim until the slot is free.
- runtime (liveness): one worker, whose host is loaded in every way, one
  attempt per row, crashes and recoveries included.

`EventuallyDecided` says that again and again no row is QUEUED or RUNNING: with
finitely many rows, and decided ones that stay so (`TerminalIsFinal`), this is
that every row is decided. `QueueDecides` and `RuntimeDecides` state the two
promises with the fairness of their instance as premise.

`submission_lifecycle` has a `focus` too: either requests with keys, submits
and a close, without a scan, or a scan against creates and replacements of
CREATED submissions without keys.

`components` and `component_progress` put components that have no modelled
state in common into one run. `focus`, chosen at the start, names the one that
moves; the others stay in their initial states, so the reachable states are the
disjoint union of each component's own, and an invariant says of each component
what it would say in a run of its own. A component that is not in focus takes
no step, so a liveness promise is stated with the component's fairness as its
premise (`JobsDecided`, `JoinersGoOn`, `CalmRecovers`).

Seven runs show a disagreement between the code and what the repository says of
it; the lines are quoted under "findings" in `PROJECT.json`.

| Run | What TLC finds |
|---|---|
| `duplicate_execution` | a worker that dies between Popen and the commit of the process's pid leaves a process nothing contains; the requeued row gets a second one |
| `ingestion_durable_documented` | a worker deletes the blobs of an attempt after it has committed the requeue, when another worker may have published the next attempt's under the same keys: a SUCCEEDED job without its outputs |
| `runtime_deep_queue_documented` | a queue at the hard depth is DEGRADED, DEGRADED starts no HEAVY row, and with HEAVY rows ahead the queue never gets shorter, on idle hosts |
| `acceptance_after_close_documented` | `publish_challenge` checks the status without a lock and saves PUBLISHED unconditionally: of two publish requests the late one reopens a challenge that was closed in between |
| `answered_is_lost_documented` | a commit takes effect but raises, compensation deletes the blob the row names, and a retry with the same key is answered with that submission: no blob, no job |
| `artifact_replaced_documented` | an upload that read CREATED replaces the artifact of a submission that has been submitted since |
| `executor_survivor_documented` | a child that is not in the Job Object outlives its root, which psutil can no longer list from, and the execution is a SUCCESS |

`SucceededIsDurable` holds, then, with one ingestion worker process at a time,
wherever it crashes, and not with two; `DecidedOnceCalm` holds while the queue
stays below the hard depth; `NoAcceptanceAfterClose` holds for one publish
request and not for two. `AttemptBound` allows a deferred evaluation one claim
more than `evaluation_max_attempts`, because `defer_escalation` requeues a row
whatever its attempt count is; `BypassStreakBound` counts the bypasses of a head
since a head was last claimed, so a head that rows keep sorting in front of may
be passed more often in all.

Bounds. Two workers are enough for every race of two claims, of a claim and a
recovery, and of a late and a new owner of a row; three rows give a
running HEAVY row, a blocked HEAVY head and its successor, and a row that
changes the order; two attempts give a
first and a last one. `MaxCrashes` bounds crashes; a row is recovered any
number of times within its attempt budget without a crash. Two rows with a
maximum of two workers let the controller move between both its limits, and
queue depths of two and three give the soft threshold without the hard one. Three requests give a create and two replacements of its
artifact, or two creates with one key and an update, against a scan.

In `components`: two runners, two claims and one crash or recovery give an
evaluation a first and a resumed run and a late writer; three lines give a
heading, a block and what follows it, and budgets of 4 and 9 characters are
below and above the length of a line; three chunks give a tie and a winner; two
participants and two organizers give an owner, a stranger and someone ahead in
the queue; two children give one inside the Job Object and one outside, and an
output cap of 1 the unit that exceeds it; two scenarios of two rows give a pool
something to take from the next one. The schema run has no bound: revisions and
rows are finite. In `component_progress`: three calls on two keys give a
leader, a joiner and a successor; latencies of 1, 3 and 5 are on the three
sides of the two thresholds, and two samples are the least that are not too
few when one is.

Fairness. `run_forever` loops without an exit and every call it waits for ends,
so a worker that is up takes its next step (weak fairness of `Poll` or `Tick`,
and of the claim, execution, clean-up and result steps). Every iteration calls
`recover_stale`, and a row that stays RUNNING stays stale, so it is recovered
if again and again some worker is between two jobs (strong fairness of
`RecoverRow`, `RecoverEffect` and `RecoverSome`). A QUEUED ingestion job
becomes the oldest one whose `available_at` has passed, so a worker that again
and again looks for a job takes it (strong fairness of `ClaimSome`). PostgreSQL
grants a row lock in the order of the requests, so a worker that waits for the
scheduler row while others take and release it gets it (strong fairness of
`PersistRuntimeState`). A cooldown is a span of time (weak fairness of
`CooldownEnds`). A computation ends and the event loop resumes a task whose
future is done (weak fairness in `CoFairness`). The publisher's loop and the
worker's ticks go on and a stopped service is started again; that requests keep
coming, in numbers, is a fairness condition on the environment without which
there is no window to publish (`FbFairness`). Nothing is assumed about hosts: that they calm down is the
premise of `DecidedOnceCalm`, which `RuntimeDecides` checks.

## 4. Proofs

`EvaluationQueueProofs` proves, for every set of rows, workers, kinds and
limits that satisfies the named assumptions, that `IInv` is inductive, and from
it the invariants, action properties and refinement of the scheduling and
execution instances of `evaluation_safety`, the bypass bound excepted.

None of the safety properties is inductive alone. `ConcurrencyBound` needs that
the count a claim has read still holds when the row is marked (`ClaimInv`),
which needs that only the lock holder marks rows (`LockInv`).
`FencedByWorkerId` needs that no two busy workers run the same attempt and none
runs an attempt that was never claimed (`JobInv`). `RecordedProcessIsCurrent`
needs that processes belong to claimed attempts and that a row names none
before its Popen (`ProcessInv`). `AttemptBound` needs that a QUEUED row has an
attempt left (`RowInv`). `IInv` is the conjunction. The proof has one lemma per
action and, inside, one step per conjunct the action can disturb.

`BypassProofs` proves the bypass bound. `HistoryObserves`: the history
variable of `BypassHistory` only observes, so every theorem about the queue
holds there too. `BypassBounded` needs that the scheduler row names a HEAVY row
that is still QUEUED (`MarkInv`), that a head with passes on record still
waits, not before the marked one, and that the counter covers the passes of the
marked head (`StreakInv`), and that a claim that has selected a head, under the
lock, has selected none behind these (`HeadInv`). A row that sorts in front of
the marked head starts the counter anew; the bound survives because the older
head is not passed again before the new one has been claimed, and that claim
clears the mark.

`ResourceRuntimeProofs` proves the four properties of the runtime instance for
every budget, threshold and set of hosts. `RuntimeInv` adds `CarriedInv` to the
queue's invariant: the limits that a worker carries from its tick to its claim
still agree with its controller and its pressure, because nothing but the next
tick changes these, and the next tick waits for the claim to end. Each step of
the composition is a step of the queue or leaves it alone
(`QueueSimulation`); hence `RuntimeImplementsQueue`, and with it every theorem
about the queue holds of workers with adaptive runtimes;
`RuntimeConcurrencyBounded` states that for the concurrency bound. The two
action properties rest on `StartIsClaim`: a row is started only by a claim that
has counted the RUNNING rows under the lock.

`SubmissionProofs` proves the properties of `submission_lifecycle` for any
number of requests, keys and fingerprints (`NoAcceptanceAfterClose` for one
publish request). `ReferencedExists` needs that at most one row names a blob,
and only after its request has committed (`OwnerInv`), that the key an update
has read is still its row's or no row's any more (`PreviousInv`), that files are
young until the commit (`FileInv`), and that a file which a row names and the
listing missed is young by the clock of the scan, so that it is not among what
the walk finds (`ScanInv`). `SameKeySameAnswer` needs that a key has one holder and
an answered request names it (`KeyInv`). `NoAcceptanceAfterClose` rests on
`GateInv`: while a request holds the share lock the challenge is published, and
a closed one stays closed because no publish request is left that has read
DRAFT. `AnsweredIsEnqueued` needs that a request is answered last and knows,
until then, which row names its artifact (`EnqueuedInv`).

`IngestionProofs` proves types, the bound on attempts, fencing and the life
cycle for any number of jobs and workers. A requeue keeps the bound because the
worker that writes it owns the row and hence runs its latest attempt, so that
`FencedByWorkerId` and `RowInv` (a claimable job has an attempt left) hold only
together. `SucceededIsDurable` is proved for a single worker, from `SoleInv`:
it owns its job until it settles it, has published what its place in the loop
says, and cleans up only jobs that have not succeeded. With two workers it is
false (`ingestion_durable_documented`).

`ProgressProofs` proves `OneComputationPerKey` from `Registered`: a call
computes exactly while its key's entry is its own, cancellation included. It
proves `LevelEarned` for all thresholds and times: `EarnedInv` says of a
candidate level that every usable hint has asked for it at least as long as it
has been the candidate, and that it became the candidate a cooldown after the
last change; time ages all three together. `FeedbackTyped` adds the rolling
window: `_trim` stops at the first sample that is young enough, so that no old
one is left needs that samples are in order (`InOrder`), and the published p95
is a wall time that was measured because the rank of `percentile` is one of the
window's (`PercentileIsMeasured`, from the least and greatest members of finite
sets of numbers). `ComposedTypes` states the types of the composition that
`component_progress` runs.

`ComponentProofs` has six independent parts.

- `ProgressiveEvaluation`, for any number of runners, claims and crashes.
  `DecidedAsTruth` rests on `FinishInv`: a run is about to finish only with the
  score its label asks for, by cases over the evidence tables. `StagesAccounted`
  rests on `RunRecorded`: what a runner took over and what it did add up to the
  stages before its own, and on `ResumeInv`: a row is resumed at its start or,
  as HEAVY work, at the heavy stage.
- `ParticipantApi`, for any finite set of participants. What a request has read
  and checked must still be so when it answers (`ReadInv`): nothing is
  unpublished and no hackathon changes hands. `AheadInv` and `BacklogInv` carry
  the queue from statement to statement: whoever is ahead of a row that has
  been read was so then, and depth and age stay within what the request has
  lived through.
- `ExperimentHarness`, for any number of scenarios and rows. `QuietInv` says in
  which calls workers and the enqueueing task exist, `DrainedInv` that an empty
  queue stays empty, `SettledInv` that a report still agrees with the table,
  and `EndInv` that a run that raised goes no further.
- `LexicalRetrieval`, for any finite set of chunks, any ranks and any `top_k`.
  `ORDER BY score DESC, id ASC` is a total order, so the place of a chunk in an
  answer is the number of candidates not behind it (`PlaceIsRank`), whatever
  the LIMIT: longer answers continue shorter ones, and no induction over lists
  is needed. `LexInv` says that the answers kept are those of the present query
  on the present rows.
- `Chunking`, for artifacts of any length, every budget and every overlap.
  `CkInv` follows the text through the loops. `DocInv`: each line begins at its
  entry of `starts` and only a newline separates it from the line before, so
  the line found by
  `_line_of` is the one found by counting newlines, because the newlines before
  an offset and the later lines that begin at or before it correspond one to
  one (`LineOfIs`, a bijection instead of an induction). `UnitInv`,
  `PieceInv`, `GroupInv` and `DraftInv` say of each loop that what it has built
  is in document order and that every visible character is in it or still
  waits in what the loop has not reached (`Waits`, `Pending`): a cut takes at
  least one character and leaves the rest of its unit waiting, a group is a run
  of pieces without a gap, a window begins no later than the one before it ends.
  The heading stack holds only headings at or before the present line
  (`AreHeadings`), and `_pack` keeps groups within the budget, so the
  truncation in `chunk_hybrid` never cuts anything off.
- `ProcessExecutor`, for every program of the corpus, any set of children, all
  limits and hosts with and without Job Objects. `ExecutorInv` says where
  processes may be (`TreeInv`: members of the job only live under an open
  handle, what was listed and lives on is leaked), that the root speaks once
  and the verdict rests on it (`VerdictInv`), that an execution that was never
  started has no process (`FreshInv`, which a retry needs), and what the
  clean-up leaves (`WorkspaceInv`).

`CompositionProofs` shows that the run `components` is about the components'
own specifications: a step of the composition is a step of one component and a
stutter of each other one, so the composition implements every
one that has theorems (`CompositionImplements`). Hence `ComponentsTypeCorrect`, and `ComponentsSafe`:
every safety property the run checks holds for all values of the constants,
`SchemaSound` excepted.

Assumptions: sets of rows, jobs and workers as the modules declare them, the
budgets as `ResourceBudget.from_settings` clamps them, limits as a tick can
compute them, `None` neither a request nor a key, finitely many participants
and chunks, thresholds in their order, and a `max_chars` of at least 1, which
`chunk_hybrid` insists on. TLC evaluates all of them.

Only model-checked:

- Liveness (`QueueDecides`, `RuntimeDecides`, `JobsDecided`, `JoinersGoOn`,
  `CalmRecovers`): fairness is out of TLAPS's reach.
- `SchemaSound`: `SchemaMigrations` has no constants, so the run visits every
  state there is and a theorem would say no more.

## 5. Observations

What modelling showed of the code, beyond the seven violation runs above. Where a property
has an exception for one of these, its comment names it.

- Feedback: `persist_now` clears `_dirty` behind its awaits, so a sample
  recorded during the write waits for the next one to be announced;
  `material_change` ignores the sample count, so a hint that rests on too few
  samples stays until the p95 moves; a candidate level survives gaps without
  usable hints; from CRITICAL the controller goes straight to HEALTHY when the
  p95 is between the recovery and the warning threshold.
- Coalescer: a cancelled leader leaves its joiners waiting.
- Executor: a workspace that could not be removed does not change the outcome,
  although `workspace_cleaned` says so; a "succeeded"
  may carry output that was cut when the reader's join timed out; limits the
  program reports are read after the clean-up, so the workspace of such a
  failure is not retained; the process limit is reached at
  `max_process_count`, not above it.
- Progressive evaluation: a resumed run does not look at the pressure before
  its first stage; a deferral consumes a claim; a final heavy stage reports
  safe_early_exit.
- API: any organizer may list a user's submissions; depth and age of the
  backlog come from separate statements; an evaluation that was created
  earlier and committed later can raise a position.
- Schema: the downgrade through 0010 is refused while rows have the
  synthetic_execution mode; the backfilled fingerprint of a submission that was
  patched is not the one of its request; `create_all` on a partly migrated
  database makes later upgrades fail.
- Experiments: `hard_mix` reports before it stops its workers, so a report
  after a drain that timed out is not final; an exception leaves the workers of
  `hard_mix`, `feedback` and `hotpath` running until the harness exits; the
  wait for the server is outside the `try` that stops it; a harness that is
  killed leaves its daemon processes behind (not modelled).

## 6. Not modelled

- Estimated waits, service rates, latency percentiles and the verdicts of the
  experiments: floating-point statistics without state.
- The other scripts under `scripts/`, which call the modelled components in one
  fixed order from one process.
- Text search itself (`tsvector`, `ts_rank_cd`): PostgreSQL's; `Chunking` and
  `LexicalRetrieval` meet only in the chunk rows.
- Request validation, rendering, row mapping, settings, logging, the
  description of the execution environment: no state, or only a process's own
  start.
- PostgreSQL's failure, and time beyond ticks and grace periods.

## 7. Plan

What would come next: the composition of `InteractiveFeedback` with
`ResourceRuntime`, so that the interactive level is the controller's own.
