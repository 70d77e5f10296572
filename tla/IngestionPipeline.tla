-------------------------- MODULE IngestionPipeline --------------------------
(***************************************************************************)
(* The ingestion queue of ChallengeForge and its workers: rows of          *)
(* "ingestion_jobs", the "document_chunks" of each job, the two blobs      *)
(* ingestion/{job_id}/canonical.txt and result.json, and any number of     *)
(* IngestionWorker processes that recover stale jobs, claim one, process   *)
(* its artifact and commit, retry or fail it.                              *)
(*                                                                         *)
(* A database transaction is one action, except replace_for_job, whose     *)
(* DELETE and INSERTs another commit may separate.  Blobs are outside the  *)
(* database: every put and every delete is an action of its own.           *)
(*                                                                         *)
(* Abstracted: the text of documents and chunks.  What an attempt writes   *)
(* depends only on the artifact and the versions, so a job's chunk set is  *)
(* there or not, and each blob is there or not.  available_at and          *)
(* SKIP LOCKED let a claim take a queued row that is not the oldest, so    *)
(* any queued row may be claimed.  Any RUNNING row may be stale.           *)
(***************************************************************************)
EXTENDS Naturals, FiniteSets

CONSTANTS
    Jobs,         \* ingestion jobs
    NoJob,        \* no job: the worker is idle
    Workers,      \* worker ids
    NoWorker,     \* worker_id IS NULL
    Artifacts,    \* what the artifacts of new jobs may be like
    MaxAttempts,  \* ingestion_max_attempts
    MaxCrashes    \* bound: worker crashes in one behaviour

ArtifactKinds == {"good", "transient", "poison", "missing"}
Statuses      == {"none", "queued", "running", "succeeded", "failed"}
Terminal      == {"succeeded", "failed"}
Outputs       == {"canonical", "result"}

ASSUME JobsAssumption == IsFiniteSet(Jobs) /\ NoJob \notin Jobs

ASSUME WorkersAssumption == NoWorker \notin Workers

ASSUME IngestionAssumption ==
    /\ Artifacts \subseteq ArtifactKinds
    /\ MaxAttempts \in Nat \ {0}
    /\ MaxCrashes \in Nat

VARIABLES
    job,       \* the ingestion_jobs table
    chunks,    \* whether the chunk set of a job is committed
    blobs,     \* the output blobs of a job that exist
    artifact,  \* what a job's artifact is like
    pc,        \* where each worker is in its loop
    mine,      \* the job it works on
    att,       \* attempt_count returned by its claim
    saw,       \* its DELETE removed the chunk set of an earlier attempt
    toClean,   \* requeued jobs whose outputs its recovery has yet to clean
    crashes    \* number of worker crashes so far

workerVars == <<pc, mine, att, saw, toClean>>
vars       == <<job, chunks, blobs, artifact, workerVars, crashes>>

Job == [status : Statuses, attempts : Nat, owner : Workers \cup {NoWorker}]

Processing == {"claimed", "half", "processed", "replacing"}
Recovering == {"rec_result", "rec_canonical", "rec_chunks"}
PCs        == Processing \cup Recovering
              \cup {"idle", "fail_result", "fail_canonical"}

Running == {j \in Jobs : job[j].status = "running"}

Init ==
    /\ job = [j \in Jobs |-> [status |-> "none", attempts |-> 0,
                              owner |-> NoWorker]]
    /\ chunks = [j \in Jobs |-> FALSE]
    /\ blobs = [j \in Jobs |-> {}]
    /\ artifact = [j \in Jobs |-> "missing"]
    /\ pc = [w \in Workers |-> "idle"]
    /\ mine = [w \in Workers |-> NoJob]
    /\ att = [w \in Workers |-> 0]
    /\ saw = [w \in Workers |-> FALSE]
    /\ toClean = [w \in Workers |-> {}]
    /\ crashes = 0

-----------------------------------------------------------------------------
(* The application's side. *)

\* enqueue: one QUEUED row for an artifact stored before.
Enqueue(j, a) ==
    /\ job[j].status = "none"
    /\ job' = [job EXCEPT ![j].status = "queued"]
    /\ artifact' = [artifact EXCEPT ![j] = a]
    /\ UNCHANGED <<chunks, blobs, workerVars, crashes>>

\* The submission got another artifact and the replaced blob is deleted.
ArtifactReplaced(j) ==
    /\ job[j].status # "none"
    /\ artifact[j] # "missing"
    /\ artifact' = [artifact EXCEPT ![j] = "missing"]
    /\ UNCHANGED <<job, chunks, blobs, workerVars, crashes>>

-----------------------------------------------------------------------------
(* run_once. *)

\* claim_next and its commit.
ClaimNext(w, j) ==
    /\ pc[w] = "idle"
    /\ job[j].status = "queued"
    /\ job' = [job EXCEPT ![j] = [status |-> "running",
                                  attempts |-> job[j].attempts + 1,
                                  owner |-> w]]
    /\ pc' = [pc EXCEPT ![w] = "claimed"]
    /\ mine' = [mine EXCEPT ![w] = j]
    /\ att' = [att EXCEPT ![w] = job[j].attempts + 1]
    /\ UNCHANGED <<chunks, blobs, artifact, saw, toClean, crashes>>

\* claim_next finds nothing: run_once returns and the worker sleeps.
EmptyPoll(w) ==
    /\ pc[w] = "idle"
    /\ \A j \in Jobs : job[j].status # "queued"
    /\ UNCHANGED vars

\* The artifact can be read, decoded and, for a synthetic transient one, is no
\* longer in its first attempt.
Readable(w) == \/ artifact[mine[w]] = "good"
               \/ artifact[mine[w]] = "transient" /\ att[w] >= 2

\* process_artifact up to the publication of canonical.txt.
PutCanonical(w) ==
    /\ pc[w] = "claimed"
    /\ Readable(w)
    /\ blobs' = [blobs EXCEPT ![mine[w]] = @ \cup {"canonical"}]
    /\ pc' = [pc EXCEPT ![w] = "half"]
    /\ UNCHANGED <<job, chunks, artifact, mine, att, saw, toClean, crashes>>

\* The rest of process_artifact: publish result.json.
PutResult(w) ==
    /\ pc[w] = "half"
    /\ blobs' = [blobs EXCEPT ![mine[w]] = @ \cup {"result"}]
    /\ pc' = [pc EXCEPT ![w] = "processed"]
    /\ UNCHANGED <<job, chunks, artifact, mine, att, saw, toClean, crashes>>

\* Faulty variant: the WHERE clause forgets worker_id.
Owns_StatusOnly(w) == job[mine[w]].status = "running"

\* The WHERE clause of every result write.
Owns(w) ==
    /\ job[mine[w]].status = "running"
    /\ job[mine[w]].owner = w

\* The conditional UPDATE of the job's row.
Settled(w, s, o) ==
    IF Owns(w)
    THEN [job EXCEPT ![mine[w]] = [@ EXCEPT !.status = s, !.owner = o]]
    ELSE job

\* Another transaction has deleted the chunk rows of j and not yet committed.
ChunksLocked(j) == \E v \in Workers :
                      pc[v] = "replacing" /\ mine[v] = j /\ saw[v]

\* replace_for_job, DELETE.  Behind the lock of another replacement the rows
\* it is after are gone or, if that one rolls back, still there.
ReplaceDelete(w) ==
    /\ pc[w] = "processed"
    /\ \E s \in IF ChunksLocked(mine[w]) THEN BOOLEAN ELSE {chunks[mine[w]]} :
          saw' = [saw EXCEPT ![w] = s]
    /\ pc' = [pc EXCEPT ![w] = "replacing"]
    /\ UNCHANGED <<job, chunks, blobs, artifact, mine, att, toClean, crashes>>

\* The worker is back at the top of its loop, or restarted there.
BackToIdle(w) ==
    /\ pc' = [pc EXCEPT ![w] = "idle"]
    /\ att' = [att EXCEPT ![w] = 0]
    /\ saw' = [saw EXCEPT ![w] = FALSE]
    /\ toClean' = [toClean EXCEPT ![w] = {}]
    /\ mine' = [mine EXCEPT ![w] = NoJob]

\* Faulty variant: the success is written whoever owns the row by now.
MarkSucceeded_Unconditional(w) ==
    /\ pc[w] = "replacing"
    /\ chunks' = [chunks EXCEPT ![mine[w]] = TRUE]
    /\ job' = [job EXCEPT ![mine[w]].status = "succeeded"]
    /\ BackToIdle(w)
    /\ UNCHANGED <<blobs, artifact, crashes>>

\* Faulty variant: the success commits before the chunks are written.
MarkSucceeded_WithoutChunks(w) ==
    /\ pc[w] = "replacing"
    /\ job' = Settled(w, "succeeded", w)
    /\ BackToIdle(w)
    /\ UNCHANGED <<chunks, blobs, artifact, crashes>>

\* The INSERTs of replace_for_job meet the unique (job, ordinal) constraint:
\* another attempt has committed its chunks since the DELETE.
InsertRaises(w) == chunks[mine[w]] /\ ~saw[w]

\* replace_for_job, INSERTs, mark_succeeded and commit: the chunks are written
\* even when the row is no longer this worker's.  Nothing catches the violated
\* constraint: the transaction rolls back and the worker ends.
MarkSucceeded(w) ==
    /\ pc[w] = "replacing"
    /\ IF InsertRaises(w)
       THEN UNCHANGED <<job, chunks>>
       ELSE /\ chunks' = [chunks EXCEPT ![mine[w]] = TRUE]
            /\ job' = Settled(w, "succeeded", w)
    /\ BackToIdle(w)
    /\ UNCHANGED <<blobs, artifact, crashes>>

\* One transaction: delete_for_job and the conditional write of status s.
Abandon(w, s, o) ==
    /\ ~ChunksLocked(mine[w])
    /\ chunks' = [chunks EXCEPT ![mine[w]] = FALSE]
    /\ job' = Settled(w, s, o)
    /\ pc' = [pc EXCEPT ![w] = "fail_result"]
    /\ UNCHANGED <<blobs, artifact, mine, att, saw, toClean, crashes>>

\* DeterministicIngestError: the job fails at once.
MarkFailed(w) ==
    /\ pc[w] = "claimed"
    /\ artifact[mine[w]] \in {"poison", "missing"}
    /\ Abandon(w, "failed", w)

\* Faulty variant: a status of its own for jobs that wait for a retry.
HandleRetryable_OwnStatus(w) ==
    /\ pc[w] \in {"claimed", "half"}
    /\ \/ att[w] >= MaxAttempts /\ Abandon(w, "failed", w)
       \/ att[w] < MaxAttempts /\ Abandon(w, "retryable_failure", NoWorker)

\* _handle_retryable: a transient error, or any other exception of
\* process_artifact, such as a failing disk or another attempt's worker that
\* has moved the incoming file both use.
HandleRetryable(w) ==
    /\ pc[w] \in {"claimed", "half"}
    /\ \/ att[w] >= MaxAttempts /\ Abandon(w, "failed", w)
       \/ att[w] < MaxAttempts /\ Abandon(w, "queued", NoWorker)

-----------------------------------------------------------------------------
(* Recovery and clean-up. *)

\* Faulty variant: recovery forgets to look at attempt_count.
Recovered_NoBudget(j) == [job[j] EXCEPT !.owner = NoWorker, !.status = "queued"]

\* Faulty variant: the row is taken from its worker but stays RUNNING.
Recovered_OwnerOnly(j) == [job[j] EXCEPT !.owner = NoWorker]

\* What recover_stale_running makes of a stale row.
Recovered(j) ==
    [job[j] EXCEPT !.owner = NoWorker,
                   !.status = IF job[j].attempts >= MaxAttempts
                              THEN "failed" ELSE "queued"]

\* recover_stale on the stale rows S, up to its commit.  The outputs of the
\* requeued ones are cleaned afterwards, one by one.
RecoverStale(w, S) ==
    /\ pc[w] = "idle"
    /\ S # {} /\ S \subseteq Running
    /\ job' = [j \in Jobs |-> IF j \in S THEN Recovered(j) ELSE job[j]]
    /\ LET requeued == {j \in S : job[j].attempts < MaxAttempts}
       IN  /\ toClean' = [toClean EXCEPT ![w] = requeued]
           /\ \/ requeued = {} /\ UNCHANGED <<pc, mine>>
              \/ \E j \in requeued :
                   /\ mine' = [mine EXCEPT ![w] = j]
                   /\ pc' = [pc EXCEPT ![w] = "rec_result"]
    /\ UNCHANGED <<chunks, blobs, artifact, att, saw, crashes>>

\* cleanup_partial_result, first key.
CleanResult(w) ==
    /\ pc[w] \in {"fail_result", "rec_result"}
    /\ blobs' = [blobs EXCEPT ![mine[w]] = @ \ {"result"}]
    /\ pc' = [pc EXCEPT ![w] = IF @ = "rec_result" THEN "rec_canonical"
                               ELSE "fail_canonical"]
    /\ UNCHANGED <<job, chunks, artifact, mine, att, saw, toClean, crashes>>

\* cleanup_partial_result, second key.
CleanCanonical(w) ==
    /\ blobs' = [blobs EXCEPT ![mine[w]] = @ \ {"canonical"}]
    /\ \/ pc[w] = "fail_canonical" /\ BackToIdle(w)
       \/ /\ pc[w] = "rec_canonical"
          /\ pc' = [pc EXCEPT ![w] = "rec_chunks"]
          /\ UNCHANGED <<mine, att, saw, toClean>>
    /\ UNCHANGED <<job, chunks, artifact, crashes>>

\* The rest of _cleanup_job_outputs, then on to the next requeued job.
CleanChunks(w) ==
    /\ pc[w] = "rec_chunks"
    /\ ~ChunksLocked(mine[w])
    /\ chunks' = [chunks EXCEPT ![mine[w]] = FALSE]
    /\ LET rest == toClean[w] \ {mine[w]}
       IN  \/ rest = {} /\ BackToIdle(w)
           \/ \E j \in rest :
                /\ mine' = [mine EXCEPT ![w] = j]
                /\ toClean' = [toClean EXCEPT ![w] = rest]
                /\ pc' = [pc EXCEPT ![w] = "rec_result"]
                /\ UNCHANGED <<att, saw>>
    /\ UNCHANGED <<job, blobs, artifact, crashes>>

\* The worker process dies, its transaction is rolled back, and a process
\* with the same worker id takes its place.
Crash(w) ==
    /\ crashes < MaxCrashes
    /\ pc[w] # "idle"
    /\ crashes' = crashes + 1
    /\ BackToIdle(w)
    /\ UNCHANGED <<job, chunks, blobs, artifact>>

-----------------------------------------------------------------------------
ProcessStep(w) ==
    \/ PutCanonical(w) \/ PutResult(w) \/ ReplaceDelete(w) \/ MarkSucceeded(w)
    \/ MarkFailed(w) \/ HandleRetryable(w)

CleanStep(w) == CleanResult(w) \/ CleanCanonical(w) \/ CleanChunks(w)

Next ==
    \/ \E j \in Jobs : \/ \E a \in Artifacts : Enqueue(j, a)
                       \/ ArtifactReplaced(j)
    \/ \E w \in Workers :
         \/ \E j \in Jobs : ClaimNext(w, j)
         \/ EmptyPoll(w)
         \/ ProcessStep(w)
         \/ \E S \in SUBSET Running : RecoverStale(w, S)
         \/ CleanStep(w)
         \/ Crash(w)

Spec == Init /\ [][Next]_vars

(* Fairness.  run_forever loops until it is told to stop; processing is a *)
(* finite computation and transactions end, so a worker that is up takes   *)
(* its next step.  A QUEUED job becomes the oldest available one, and a    *)
(* job that stays RUNNING becomes stale; every iteration of every worker   *)
(* looks for both.                                                         *)

ClaimSome(j) == \E w \in Workers : ClaimNext(w, j)

RecoverSome(j) == \E w \in Workers : \E S \in SUBSET Running :
                     j \in S /\ RecoverStale(w, S)

WorkersGoOn ==
    /\ \A w \in Workers : WF_vars(ProcessStep(w)) /\ WF_vars(CleanStep(w))
    /\ \A j \in Jobs : SF_vars(ClaimSome(j)) /\ SF_vars(RecoverSome(j))

FairSpec == Spec /\ WorkersGoOn

-----------------------------------------------------------------------------
(* Properties. *)

\* Types; in particular the handlers write only statuses of IngestionStatus.
TypeOK ==
    /\ job \in [Jobs -> Job]
    /\ chunks \in [Jobs -> BOOLEAN]
    /\ blobs \in [Jobs -> SUBSET Outputs]
    /\ artifact \in [Jobs -> ArtifactKinds]
    /\ pc \in [Workers -> PCs]
    /\ mine \in [Workers -> Jobs \cup {NoJob}]
    /\ att \in [Workers -> Nat]
    /\ saw \in [Workers -> BOOLEAN]
    /\ toClean \in [Workers -> SUBSET Jobs]
    /\ crashes \in Nat

\* Whatever is recovered, retried or requeued while its worker still runs, no
\* job is claimed more than MaxAttempts times.
AttemptBound == \A j \in Jobs : job[j].attempts <= MaxAttempts

\* A worker that passes the check on status and worker_id is running the job's
\* latest attempt, although attempt_count is not checked.
FencedByWorkerId ==
    \A w \in Workers :
        pc[w] \in Processing /\ Owns(w) => att[w] = job[mine[w]].attempts

\* Success as documented: a SUCCEEDED job has its chunk rows, its canonical
\* text and its manifest.
SucceededIsDurable ==
    \A j \in Jobs :
        job[j].status = "succeeded" => chunks[j] /\ blobs[j] = Outputs

\* Every job is eventually decided, although its worker crashes, retries, is
\* recovered from, or finds its artifact replaced.
EventuallyDecided ==
    \A j \in Jobs : job[j].status = "queued" ~> job[j].status \in Terminal

-----------------------------------------------------------------------------
Lifecycle == INSTANCE EvaluationLifecycle
             WITH Evals      <- Jobs,
                  MaxRunning <- Cardinality(Jobs),
                  MaxTries   <- MaxAttempts,
                  status     <- [j \in Jobs |-> job[j].status],
                  tries      <- [j \in Jobs |-> job[j].attempts]

\* The table of jobs moves only along its ALLOWED_TRANSITIONS, the same as
\* those of evaluations: in particular SUCCEEDED and FAILED are final for late
\* workers, retries and recoveries.
ImplementsLifecycle == Lifecycle!LSpec
-----------------------------------------------------------------------------
(* The inductive invariants behind these properties. *)

\* A job that can be claimed has an attempt left.
RowInv ==
    \A j \in Jobs :
        /\ job[j].status = "none" => job[j].attempts = 0
        /\ job[j].status = "queued" => job[j].attempts < MaxAttempts

MineInv == \A w \in Workers : pc[w] # "idle" => mine[w] \in Jobs

IngestionInv == TypeOK /\ AttemptBound /\ FencedByWorkerId /\ RowInv /\ MineInv

\* A worker that is alone keeps its job until it settles it, and what it
\* deletes is the output of a job that has not succeeded.
SoleInv ==
    /\ SucceededIsDurable
    /\ \A w \in Workers :
         /\ pc[w] \in Processing => Owns(w)
         /\ pc[w] = "half" => "canonical" \in blobs[mine[w]]
         /\ pc[w] \in {"processed", "replacing"} => blobs[mine[w]] = Outputs
         /\ pc[w] \in Recovering => mine[w] \in toClean[w]
         /\ pc[w] \in {"fail_result", "fail_canonical"} =>
              job[mine[w]].status # "succeeded"
         /\ \A j \in toClean[w] : job[j].status = "queued"
         /\ pc[w] = "idle" => toClean[w] = {}
=============================================================================
