--------------------------- MODULE IngestionProofs ---------------------------
(***************************************************************************)
(* Machine-checked proofs about IngestionPipeline, for every set of jobs,  *)
(* workers and artifacts and every number of attempts.                     *)
(***************************************************************************)
EXTENDS IngestionPipeline, FiniteSetTheorems, TLAPS

-----------------------------------------------------------------------------
(* What the writers of ingestion_jobs change, field by field. *)

LEMMA EnqueueEffect ==
    ASSUME TypeOK, NEW j \in Jobs, NEW a, Enqueue(j, a)
    PROVE  /\ job' \in [Jobs -> Job]
           /\ \A i \in Jobs : /\ i # j => job'[i] = job[i]
                              /\ job'[i].attempts = job[i].attempts
           /\ job[j].status = "none" /\ job'[j].status = "queued"
<1> DEFINE new == [job[j] EXCEPT !.status = "queued"]
<1>1. job[j] \in Job /\ job' = [job EXCEPT ![j] = new]
  BY DEF TypeOK, Enqueue
<1>2. new \in Job /\ new.status = "queued" /\ new.attempts = job[j].attempts
  BY <1>1 DEF Job, Statuses
<1> HIDE DEF new
<1> QED
  BY <1>1, <1>2 DEF TypeOK, Enqueue

LEMMA ClaimEffect ==
    ASSUME TypeOK, NEW w \in Workers, NEW j \in Jobs, ClaimNext(w, j)
    PROVE  /\ job' \in [Jobs -> Job]
           /\ \A i \in Jobs : i # j => job'[i] = job[i]
           /\ job[j].status = "queued" /\ job'[j].status = "running"
           /\ job'[j].owner = w /\ job'[j].attempts = job[j].attempts + 1
<1> DEFINE new == [status |-> "running", attempts |-> job[j].attempts + 1,
                   owner |-> w]
<1>1. job[j] \in Job /\ job' = [job EXCEPT ![j] = new]
  BY DEF TypeOK, ClaimNext
<1>2. /\ new \in Job /\ new.status = "running" /\ new.owner = w
      /\ new.attempts = job[j].attempts + 1
  BY <1>1 DEF Job, Statuses
<1> HIDE DEF new
<1> QED
  BY <1>1, <1>2 DEF TypeOK, ClaimNext

\* A result write changes the worker's own job, and only while it owns it.
LEMMA SettledEffect ==
    ASSUME TypeOK, NEW w \in Workers, mine[w] \in Jobs,
           NEW s \in {"succeeded", "failed", "queued"},
           NEW o \in Workers \cup {NoWorker}, job' = Settled(w, s, o)
    PROVE  /\ job' \in [Jobs -> Job]
           /\ \A i \in Jobs : /\ i # mine[w] => job'[i] = job[i]
                              /\ job'[i].attempts = job[i].attempts
           /\ Owns(w) => job'[mine[w]].status = s
           /\ ~Owns(w) => job' = job
<1> DEFINE j == mine[w]
           new == [job[j] EXCEPT !.status = s, !.owner = o]
<1>1. job[j] \in Job
  BY DEF TypeOK
<1>2. new \in Job /\ new.status = s /\ new.attempts = job[j].attempts
  BY <1>1 DEF Job, Statuses
<1>3. CASE Owns(w)
  <2>1. job' = [job EXCEPT ![j] = new]
    BY <1>3 DEF Settled
  <2> HIDE DEF new
  <2> QED
    BY <1>2, <1>3, <2>1 DEF TypeOK
<1>4. CASE ~Owns(w)
  BY <1>4 DEF Settled, TypeOK
<1> QED
  BY <1>3, <1>4

LEMMA RecoverEffect ==
    ASSUME TypeOK, NEW w \in Workers, NEW S \in SUBSET Running,
           RecoverStale(w, S)
    PROVE  /\ job' \in [Jobs -> Job]
           /\ \A i \in Jobs : /\ i \notin S => job'[i] = job[i]
                              /\ job'[i].attempts = job[i].attempts
                              /\ i \in S =>
                                   /\ job[i].status = "running"
                                   /\ job'[i].status =
                                        IF job[i].attempts >= MaxAttempts
                                        THEN "failed" ELSE "queued"
<1>1. ASSUME NEW i \in Jobs
      PROVE  /\ Recovered(i) \in Job
             /\ Recovered(i).attempts = job[i].attempts
             /\ Recovered(i).status = IF job[i].attempts >= MaxAttempts
                                      THEN "failed" ELSE "queued"
  <2>1. job[i] \in Job
    BY DEF TypeOK
  <2> QED
    BY <2>1 DEF Recovered, Job, Statuses
<1>2. job' = [i \in Jobs |-> IF i \in S THEN Recovered(i) ELSE job[i]]
  BY DEF RecoverStale
<1>3. \A i \in S : job[i].status = "running"
  BY DEF Running
<1> HIDE DEF Recovered
<1> QED
  BY <1>1, <1>2, <1>3 DEF TypeOK

-----------------------------------------------------------------------------
(* The steps of the table of jobs. *)

Settles(w) == /\ pc[w] \in Processing
              /\ \/ job' = Settled(w, "succeeded", w)
                 \/ job' = Settled(w, "failed", w)
                 \/ /\ att[w] < MaxAttempts
                    /\ job' = Settled(w, "queued", NoWorker)

\* Only five kinds of steps write the table.
LEMMA TableStep ==
    ASSUME [Next]_vars
    PROVE  \/ job' = job
           \/ \E j \in Jobs, a \in Artifacts : Enqueue(j, a)
           \/ \E w \in Workers, j \in Jobs : ClaimNext(w, j)
           \/ \E w \in Workers : Settles(w)
           \/ \E w \in Workers, S \in SUBSET Running : RecoverStale(w, S)
<1>1. ASSUME NEW w \in Workers, ProcessStep(w)
      PROVE  job' = job \/ Settles(w)
  <2>1. CASE PutCanonical(w) \/ PutResult(w) \/ ReplaceDelete(w)
    BY <2>1 DEF PutCanonical, PutResult, ReplaceDelete
  <2>2. CASE MarkSucceeded(w)
    BY <2>2 DEF MarkSucceeded, Settles, Processing
  <2>3. CASE MarkFailed(w) \/ HandleRetryable(w)
    BY <2>3 DEF MarkFailed, HandleRetryable, Abandon, Settles, Processing
  <2> QED
    BY <1>1, <2>1, <2>2, <2>3 DEF ProcessStep
<1>2. ASSUME NEW w \in Workers, CleanStep(w) \/ Crash(w) \/ EmptyPoll(w)
      PROVE  job' = job
  BY <1>2 DEF CleanStep, CleanResult, CleanCanonical, CleanChunks, Crash,
     EmptyPoll, vars
<1>3. ASSUME NEW j \in Jobs, ArtifactReplaced(j) PROVE job' = job
  BY <1>3 DEF ArtifactReplaced
<1>4. CASE UNCHANGED vars
  BY <1>4 DEF vars
<1> QED
  BY <1>1, <1>2, <1>3, <1>4 DEF Next

\* The budget of attempts: a job that is requeued has an attempt left, because
\* the worker that requeues it ran its latest attempt.
LEMMA RowNext ==
    ASSUME IngestionInv, [Next]_vars
    PROVE  job' \in [Jobs -> Job] /\ RowInv' /\ AttemptBound'
<1> USE IngestionAssumption
<1>1. TypeOK /\ RowInv /\ AttemptBound
  BY DEF IngestionInv
<1>2. \A i \in Jobs : job[i].attempts \in Nat
  BY <1>1 DEF TypeOK, Job
<1>3. CASE job' = job
  BY <1>1, <1>3 DEF TypeOK, RowInv, AttemptBound
<1>4. ASSUME NEW j \in Jobs, NEW a \in Artifacts, Enqueue(j, a)
      PROVE  job' \in [Jobs -> Job] /\ RowInv' /\ AttemptBound'
  BY <1>1, <1>2, <1>4, EnqueueEffect DEF RowInv, AttemptBound
<1>5. ASSUME NEW w \in Workers, NEW j \in Jobs, ClaimNext(w, j)
      PROVE  job' \in [Jobs -> Job] /\ RowInv' /\ AttemptBound'
  <2>1. /\ job' \in [Jobs -> Job]
        /\ \A i \in Jobs : i # j => job'[i] = job[i]
        /\ job[j].status = "queued" /\ job'[j].status = "running"
        /\ job'[j].attempts = job[j].attempts + 1
    BY <1>1, <1>5, ClaimEffect
  <2> QED
    BY <1>1, <1>2, <2>1 DEF RowInv, AttemptBound
<1>6. ASSUME NEW w \in Workers, Settles(w)
      PROVE  job' \in [Jobs -> Job] /\ RowInv' /\ AttemptBound'
  <2>1. mine[w] \in Jobs
    BY <1>6 DEF Settles, Processing, IngestionInv, MineInv
  <2>2. /\ job' \in [Jobs -> Job]
        /\ \A i \in Jobs : /\ i # mine[w] => job'[i] = job[i]
                           /\ job'[i].attempts = job[i].attempts
        /\ Owns(w) => job'[mine[w]].status \in {"succeeded", "failed", "queued"}
        /\ Owns(w) /\ job'[mine[w]].status = "queued" => att[w] < MaxAttempts
        /\ ~Owns(w) => job' = job
    BY <1>1, <1>6, <2>1, SettledEffect DEF Settles
  <2>3. Owns(w) => att[w] = job[mine[w]].attempts
    BY <1>6 DEF Settles, IngestionInv, FencedByWorkerId
  <2> QED
    BY <1>1, <2>1, <2>2, <2>3 DEF RowInv, AttemptBound
<1>7. ASSUME NEW w \in Workers, NEW S \in SUBSET Running, RecoverStale(w, S)
      PROVE  job' \in [Jobs -> Job] /\ RowInv' /\ AttemptBound'
  BY <1>1, <1>2, <1>7, RecoverEffect DEF RowInv, AttemptBound
<1> QED
  BY <1>3, <1>4, <1>5, <1>6, <1>7, TableStep
-----------------------------------------------------------------------------
(* Types, and the job of a busy worker. *)

\* A worker that goes back to the top of its loop keeps no job.
LEMMA BackToIdleType ==
    ASSUME TypeOK, MineInv, NEW w \in Workers, BackToIdle(w)
    PROVE  /\ pc' \in [Workers -> PCs] /\ mine' \in [Workers -> Jobs \cup {NoJob}]
           /\ att' \in [Workers -> Nat] /\ saw' \in [Workers -> BOOLEAN]
           /\ toClean' \in [Workers -> SUBSET Jobs] /\ MineInv'
           /\ pc'[w] = "idle" /\ toClean'[w] = {}
           /\ \A v \in Workers : v # w =>
                /\ pc'[v] = pc[v] /\ mine'[v] = mine[v] /\ att'[v] = att[v]
                /\ toClean'[v] = toClean[v]
<1>1. MineInv'
  BY DEF TypeOK, BackToIdle, MineInv
<1>2. saw' \in [Workers -> BOOLEAN]
  BY Zenon DEF TypeOK, BackToIdle
<1> QED
  BY <1>1, <1>2 DEF TypeOK, BackToIdle, PCs

\* The types of what the application and recovery write.
LEMMA TypeJobSteps ==
    ASSUME IngestionInv, job' \in [Jobs -> Job],
           \/ \E j \in Jobs : \/ \E a \in Artifacts : Enqueue(j, a)
                              \/ ArtifactReplaced(j)
           \/ \E w \in Workers : \/ \E j \in Jobs : ClaimNext(w, j)
                                 \/ \E S \in SUBSET Running : RecoverStale(w, S)
    PROVE  TypeOK' /\ MineInv'
<1> USE IngestionAssumption DEF IngestionInv
<1>1. TypeOK /\ MineInv
  OBVIOUS
<1>2. ASSUME NEW j \in Jobs, NEW a \in Artifacts, Enqueue(j, a)
      PROVE  TypeOK' /\ MineInv'
  BY <1>1, <1>2 DEF TypeOK, MineInv, Enqueue, workerVars
<1>3. ASSUME NEW j \in Jobs, ArtifactReplaced(j) PROVE TypeOK' /\ MineInv'
  BY <1>1, <1>3 DEF TypeOK, MineInv, ArtifactReplaced, workerVars, ArtifactKinds
<1>4. ASSUME NEW w \in Workers, NEW j \in Jobs, ClaimNext(w, j)
      PROVE  TypeOK' /\ MineInv'
  <2>1. job[j].attempts + 1 \in Nat
    BY <1>1 DEF TypeOK, Job
  <2> QED
    BY <1>1, <1>4, <2>1 DEF TypeOK, MineInv, ClaimNext, PCs, Processing
<1>5. ASSUME NEW w \in Workers, NEW S \in SUBSET Running, RecoverStale(w, S)
      PROVE  TypeOK' /\ MineInv'
  <2>1. S \subseteq Jobs
    BY DEF Running
  <2>2. PICK R \in SUBSET Jobs :
          /\ toClean' = [toClean EXCEPT ![w] = R]
          /\ \/ UNCHANGED <<pc, mine>>
             \/ \E j \in R : /\ mine' = [mine EXCEPT ![w] = j]
                             /\ pc' = [pc EXCEPT ![w] = "rec_result"]
    <3> DEFINE R == {j \in S : job[j].attempts < MaxAttempts}
    <3>1. R \in SUBSET Jobs
      BY <2>1
    <3> QED
      BY <1>5, <3>1 DEF RecoverStale
  <2>3. UNCHANGED <<chunks, blobs, artifact, att, saw, crashes>>
    BY <1>5 DEF RecoverStale
  <2> QED
    BY <1>1, <2>2, <2>3 DEF TypeOK, MineInv, PCs, Recovering
<1> QED
  BY <1>2, <1>3, <1>4, <1>5

\* The types of what a worker writes while it processes its job, cleans up or
\* dies.
LEMMA TypeWorkerSteps ==
    ASSUME IngestionInv, job' \in [Jobs -> Job], NEW w \in Workers,
           ProcessStep(w) \/ CleanStep(w) \/ Crash(w)
    PROVE  TypeOK' /\ MineInv'
<1> USE DEF IngestionInv
<1>1. TypeOK /\ MineInv
  OBVIOUS
<1>2. pc[w] # "idle" /\ mine[w] \in Jobs
  <2>1. pc[w] # "idle"
    BY DEF ProcessStep, PutCanonical, PutResult, ReplaceDelete, MarkSucceeded,
       MarkFailed, HandleRetryable, CleanStep, CleanResult, CleanCanonical,
       CleanChunks, Crash
  <2> QED
    BY <1>1, <2>1 DEF MineInv
<1>3. CASE PutCanonical(w) \/ PutResult(w)
  BY <1>1, <1>2, <1>3 DEF PutCanonical, PutResult, TypeOK, MineInv, PCs,
     Processing, Outputs
<1>4. CASE ReplaceDelete(w)
  <2>1. saw' \in [Workers -> BOOLEAN]
    <3>1. PICK s \in BOOLEAN : saw' = [saw EXCEPT ![w] = s]
      BY <1>1, <1>2, <1>4 DEF ReplaceDelete, TypeOK
    <3> QED
      BY <1>1, <3>1, Zenon DEF TypeOK
  <2> QED
    BY <1>1, <1>2, <1>4, <2>1 DEF ReplaceDelete, TypeOK, MineInv, PCs, Processing
<1>5. ASSUME Abandon(w, "failed", w) \/ Abandon(w, "queued", NoWorker)
      PROVE  TypeOK' /\ MineInv'
  BY <1>1, <1>2, <1>5 DEF Abandon, TypeOK, MineInv, PCs
<1>6. CASE MarkSucceeded(w)
  <2>1. chunks' \in [Jobs -> BOOLEAN]
    BY <1>1, <1>2, <1>6 DEF MarkSucceeded, TypeOK
  <2>2. UNCHANGED <<blobs, artifact, crashes>> /\ BackToIdle(w)
    BY <1>6 DEF MarkSucceeded
  <2> QED
    BY <1>1, <2>1, <2>2, BackToIdleType DEF TypeOK
<1>7. CASE CleanResult(w)
  BY <1>1, <1>2, <1>7 DEF CleanResult, TypeOK, MineInv, PCs, Recovering
<1>8. CASE CleanCanonical(w)
  <2>1. blobs' \in [Jobs -> SUBSET Outputs] /\ UNCHANGED <<chunks, artifact, crashes>>
    BY <1>1, <1>2, <1>8 DEF CleanCanonical, TypeOK
  <2>2. CASE BackToIdle(w)
    BY <1>1, <2>1, <2>2, BackToIdleType DEF TypeOK
  <2>3. CASE /\ pc' = [pc EXCEPT ![w] = "rec_chunks"]
             /\ UNCHANGED <<mine, att, saw, toClean>>
    BY <1>1, <1>2, <2>1, <2>3 DEF TypeOK, MineInv, PCs, Recovering
  <2> QED
    BY <1>8, <2>2, <2>3 DEF CleanCanonical
<1>9. CASE CleanChunks(w)
  <2>1. chunks' \in [Jobs -> BOOLEAN] /\ UNCHANGED <<blobs, artifact, crashes>>
    BY <1>1, <1>2, <1>9 DEF CleanChunks, TypeOK
  <2>2. CASE BackToIdle(w)
    BY <1>1, <2>1, <2>2, BackToIdleType DEF TypeOK
  <2>3. CASE ~BackToIdle(w)
    <3> DEFINE rest == toClean[w] \ {mine[w]}
    <3>1. rest \in SUBSET Jobs
      BY <1>1 DEF TypeOK
    <3>2. PICK j \in rest :
            /\ mine' = [mine EXCEPT ![w] = j]
            /\ toClean' = [toClean EXCEPT ![w] = rest]
            /\ pc' = [pc EXCEPT ![w] = "rec_result"]
            /\ UNCHANGED <<att, saw>>
      BY <1>9, <2>3 DEF CleanChunks
    <3> HIDE DEF rest
    <3> QED
      BY <1>1, <2>1, <3>1, <3>2 DEF TypeOK, MineInv, PCs, Recovering
  <2> QED
    BY <2>2, <2>3
<1>10. CASE Crash(w)
  <2>1. UNCHANGED <<chunks, blobs, artifact>> /\ BackToIdle(w) /\ crashes' \in Nat
    BY <1>1, <1>10 DEF Crash, TypeOK
  <2> QED
    BY <1>1, <2>1, BackToIdleType DEF TypeOK
<1> QED
  BY <1>3, <1>4, <1>5, <1>6, <1>7, <1>8, <1>9, <1>10
  DEF ProcessStep, CleanStep, MarkFailed, HandleRetryable
-----------------------------------------------------------------------------
(* Fencing. *)

\* A worker that is processing after a step has claimed in that step, or was
\* processing the same attempt before.
LEMMA ProcessingStep ==
    ASSUME IngestionInv, [Next]_vars, NEW v \in Workers, pc'[v] \in Processing,
           ~\E j \in Jobs : ClaimNext(v, j)
    PROVE  pc[v] \in Processing /\ mine'[v] = mine[v] /\ att'[v] = att[v]
<1>1. TypeOK /\ MineInv
  BY DEF IngestionInv
<1>2. CASE UNCHANGED workerVars
  BY <1>2 DEF workerVars
<1>3. ASSUME NEW w \in Workers, NEW j \in Jobs, ClaimNext(w, j)
      PROVE  pc'[v] = pc[v] /\ mine'[v] = mine[v] /\ att'[v] = att[v]
  BY <1>1, <1>3 DEF ClaimNext, TypeOK
<1>4. ASSUME NEW w \in Workers, BackToIdle(w)
      PROVE  pc'[v] = pc[v] /\ mine'[v] = mine[v] /\ att'[v] = att[v]
  <2>1. v # w
    BY <1>1, <1>4, BackToIdleType DEF Processing
  <2> QED
    BY <1>1, <1>4, <2>1, BackToIdleType
<1>5. ASSUME NEW w \in Workers,
             PutCanonical(w) \/ PutResult(w) \/ ReplaceDelete(w)
      PROVE  pc[v] \in Processing /\ mine'[v] = mine[v] /\ att'[v] = att[v]
  BY <1>1, <1>5 DEF PutCanonical, PutResult, ReplaceDelete, TypeOK, Processing
<1>6. ASSUME NEW w \in Workers, MarkFailed(w) \/ HandleRetryable(w) \/ CleanResult(w)
      PROVE  pc'[v] = pc[v] /\ mine'[v] = mine[v] /\ att'[v] = att[v]
  BY <1>1, <1>6 DEF MarkFailed, HandleRetryable, Abandon, CleanResult, TypeOK,
     Processing
<1>7. ASSUME NEW w \in Workers, NEW S \in SUBSET Running, RecoverStale(w, S)
      PROVE  pc'[v] = pc[v] /\ mine'[v] = mine[v] /\ att'[v] = att[v]
  <2>1. v # w
    BY <1>1, <1>7 DEF RecoverStale, TypeOK, Processing
  <2> QED
    BY <1>1, <1>7, <2>1 DEF RecoverStale, TypeOK
<1>8. ASSUME NEW w \in Workers, CleanCanonical(w) \/ CleanChunks(w)
      PROVE  pc'[v] = pc[v] /\ mine'[v] = mine[v] /\ att'[v] = att[v]
  <2>1. CASE BackToIdle(w)
    BY <1>4, <2>1
  <2>2. CASE ~BackToIdle(w)
    <3>1. /\ pc'[w] \notin Processing /\ att' = att
          /\ \A u \in Workers : u # w => pc'[u] = pc[u] /\ mine'[u] = mine[u]
      BY <1>1, <1>8, <2>2 DEF CleanCanonical, CleanChunks, TypeOK, Processing
    <3> QED
      BY <3>1
  <2> QED
    BY <2>1, <2>2
<1> QED
  BY <1>2, <1>3, <1>4, <1>5, <1>6, <1>7, <1>8
  DEF Next, ProcessStep, CleanStep, MarkSucceeded, Crash, EmptyPoll, Enqueue,
      ArtifactReplaced, vars, workerVars

\* A row that a worker owns after a step was its own before, in the same
\* attempt, or was claimed by it in that step.
LEMMA OwnedStep ==
    ASSUME IngestionInv, [Next]_vars, NEW v \in Workers, NEW j \in Jobs,
           job'[j].status = "running", job'[j].owner = v, ~ClaimNext(v, j)
    PROVE  job[j].status = "running" /\ job[j].owner = v
           /\ job'[j].attempts = job[j].attempts
<1>1. TypeOK /\ MineInv
  BY DEF IngestionInv
<1>2. ASSUME NEW i \in Jobs, NEW a \in Artifacts, Enqueue(i, a)
      PROVE  job'[j] = job[j]
  BY <1>1, <1>2, EnqueueEffect
<1>3. ASSUME NEW w \in Workers, NEW i \in Jobs, ClaimNext(w, i)
      PROVE  job'[j] = job[j]
  BY <1>1, <1>3, ClaimEffect
<1>4. ASSUME NEW w \in Workers, Settles(w) PROVE job'[j] = job[j]
  <2>1. mine[w] \in Jobs
    BY <1>1, <1>4 DEF Settles, Processing, MineInv
  <2> QED
    BY <1>1, <1>4, <2>1, SettledEffect DEF Settles
<1>5. ASSUME NEW w \in Workers, NEW S \in SUBSET Running, RecoverStale(w, S)
      PROVE  job'[j] = job[j]
  BY <1>1, <1>5, RecoverEffect
<1> QED
  BY <1>2, <1>3, <1>4, <1>5, TableStep

\* Every step keeps the fence.
LEMMA FencedNext ==
    ASSUME IngestionInv, [Next]_vars
    PROVE  FencedByWorkerId'
<1> SUFFICES ASSUME NEW v \in Workers, pc'[v] \in Processing, Owns(v)'
             PROVE  att'[v] = job'[mine'[v]].attempts
  BY DEF FencedByWorkerId
<1>1. TypeOK
  BY DEF IngestionInv
<1>2. ASSUME NEW j \in Jobs, ClaimNext(v, j)
      PROVE  att'[v] = job'[mine'[v]].attempts
  <2>1. mine'[v] = j /\ att'[v] = job[j].attempts + 1
    BY <1>1, <1>2 DEF ClaimNext, TypeOK
  <2> QED
    BY <1>1, <1>2, <2>1, ClaimEffect
<1>3. CASE ~\E j \in Jobs : ClaimNext(v, j)
  <2>1. pc[v] \in Processing /\ mine'[v] = mine[v] /\ att'[v] = att[v]
    BY <1>3, ProcessingStep
  <2>2. mine[v] \in Jobs
    BY <2>1 DEF IngestionInv, MineInv, Processing
  <2>3. Owns(v) /\ job'[mine[v]].attempts = job[mine[v]].attempts
    BY <1>3, <2>1, <2>2, OwnedStep DEF Owns
  <2> QED
    BY <2>1, <2>3 DEF IngestionInv, FencedByWorkerId
<1> QED
  BY <1>2, <1>3

-----------------------------------------------------------------------------
(* The invariant, and what it implies. *)

\* IngestionInv is inductive: no step of the application, of a worker, of a
\* recovery or of a crash leaves it.
THEOREM IngestionInductive == Spec => []IngestionInv
<1>1. Init => IngestionInv
  BY IngestionAssumption, WorkersAssumption
  DEF Init, IngestionInv, TypeOK, AttemptBound, FencedByWorkerId, RowInv,
      MineInv, Job, Statuses, ArtifactKinds, PCs, Processing
<1>2. IngestionInv /\ [Next]_vars => IngestionInv'
  <2> SUFFICES ASSUME IngestionInv, [Next]_vars PROVE IngestionInv'
    OBVIOUS
  <2>1. job' \in [Jobs -> Job] /\ RowInv' /\ AttemptBound' /\ FencedByWorkerId'
    BY RowNext, FencedNext
  <2>2. CASE UNCHANGED vars \/ \E w \in Workers : EmptyPoll(w)
    <3>1. TypeOK' /\ MineInv'
      BY <2>2 DEF IngestionInv, TypeOK, MineInv, EmptyPoll, vars, workerVars
    <3> QED
      BY <2>1, <3>1 DEF IngestionInv
  <2>3. CASE ~(UNCHANGED vars \/ \E w \in Workers : EmptyPoll(w))
    <3>1. TypeOK' /\ MineInv'
      BY <2>1, <2>3, TypeJobSteps, TypeWorkerSteps DEF Next
    <3> QED
      BY <2>1, <3>1 DEF IngestionInv
  <2> QED
    BY <2>2, <2>3
<1> QED
  BY <1>1, <1>2, PTL DEF Spec

\* Types: every handler of the ingestion worker writes only statuses of
\* IngestionStatus, and a busy worker's variables stay in range.
THEOREM IngestionTypeCorrect == Spec => []TypeOK
<1>1. IngestionInv => TypeOK
  BY DEF IngestionInv
<1> QED
  BY <1>1, IngestionInductive, PTL

\* No job is claimed more than ingestion_max_attempts times, whatever is
\* recovered, retried or requeued while its worker still runs.
THEOREM IngestionAttemptsBounded == Spec => []AttemptBound
<1>1. IngestionInv => AttemptBound
  BY DEF IngestionInv
<1> QED
  BY <1>1, IngestionInductive, PTL

\* The check on status and worker_id in every result write admits only the
\* job's latest attempt, although attempt_count is not part of it.
THEOREM IngestionFenced == Spec => []FencedByWorkerId
<1>1. IngestionInv => FencedByWorkerId
  BY DEF IngestionInv
<1> QED
  BY <1>1, IngestionInductive, PTL
-----------------------------------------------------------------------------
(* The life cycle. *)

\* Every step of the pipeline is a step of the abstract life cycle, or one it
\* does not see.
LEMMA IngestionLifecycleStep ==
    ASSUME IngestionInv, [Next]_vars
    PROVE  [Lifecycle!LNext]_(Lifecycle!lifecycleVars)
<1> DEFINE status == [j \in Jobs |-> job[j].status]
           tries  == [j \in Jobs |-> job[j].attempts]
<1>0. TypeOK /\ RowInv /\ MineInv
  BY DEF IngestionInv
<1>1. CASE job' = job
  <2>1. status' = status /\ tries' = tries
    BY <1>1
  <2> QED
    BY <2>1 DEF Lifecycle!lifecycleVars
<1>2. ASSUME NEW j \in Jobs, NEW a \in Artifacts, Enqueue(j, a)
      PROVE  Lifecycle!LNext
  <2>1. status[j] = "none" /\ status' = [status EXCEPT ![j] = "queued"]
        /\ tries' = tries
    BY <1>0, <1>2, EnqueueEffect
  <2> QED
    BY <2>1 DEF Lifecycle!LNext, Lifecycle!Accept
<1>3. ASSUME NEW w \in Workers, NEW j \in Jobs, ClaimNext(w, j)
      PROVE  Lifecycle!LNext
  <2>1. /\ status[j] = "queued"
        /\ status' = [status EXCEPT ![j] = "running"]
        /\ tries' = [tries EXCEPT ![j] = tries[j] + 1]
    <3>1. /\ \A i \in Jobs : i # j => job'[i] = job[i]
          /\ job[j].status = "queued" /\ job'[j].status = "running"
          /\ job'[j].attempts = job[j].attempts + 1
      BY <1>0, <1>3, ClaimEffect
    <3> QED
      BY <3>1
  <2>2. tries[j] < MaxAttempts
    BY <1>0, <2>1 DEF RowInv
  <2>3. Lifecycle!InProgress \in SUBSET Jobs /\ Lifecycle!InProgress # Jobs
    BY <2>1 DEF Lifecycle!InProgress
  <2>4. Cardinality(Lifecycle!InProgress) < Cardinality(Jobs)
    BY <2>3, JobsAssumption, FS_Subset, FS_CardinalityType
  <2>5. \A T : Lifecycle!Cardinality(T) = Cardinality(T)
    BY DEF Lifecycle!Cardinality, Cardinality
  <2>6. Lifecycle!Start(j)
    BY <2>1, <2>2, <2>4, <2>5 DEF Lifecycle!Start
  <2> QED
    BY <2>6 DEF Lifecycle!LNext
<1>4. ASSUME NEW S, S # {}, S \subseteq Running,
             \A i \in Jobs : i \notin S => job'[i] = job[i],
             \A i \in S : /\ job'[i].status \in {"succeeded", "failed", "queued"}
                          /\ job'[i].attempts = job[i].attempts
      PROVE  Lifecycle!LNext
  <2> DEFINE to == [i \in S |-> job'[i].status]
  <2>1. S \in SUBSET Jobs /\ S \subseteq Lifecycle!InProgress
    BY <1>4 DEF Running, Lifecycle!InProgress
  <2>2. to \in [S -> {"succeeded", "failed", "queued"}]
    BY <1>4
  <2>3. status' = [i \in Jobs |-> IF i \in S THEN to[i] ELSE status[i]]
    BY <1>4, <2>1
  <2>4. tries' = tries
    BY <1>4, <2>1
  <2>5. Lifecycle!Settle(S)
    BY <1>4, <2>1, <2>2, <2>3, <2>4 DEF Lifecycle!Settle
  <2> QED
    BY <2>1, <2>5 DEF Lifecycle!LNext
<1>5. ASSUME NEW w \in Workers, Settles(w)
      PROVE  Lifecycle!LNext \/ job' = job
  <2>1. mine[w] \in Jobs
    BY <1>0, <1>5 DEF Settles, Processing, MineInv
  <2>2. /\ \A i \in Jobs : /\ i # mine[w] => job'[i] = job[i]
                           /\ job'[i].attempts = job[i].attempts
        /\ Owns(w) => job'[mine[w]].status \in {"succeeded", "failed", "queued"}
        /\ ~Owns(w) => job' = job
    BY <1>0, <1>5, <2>1, SettledEffect DEF Settles
  <2>3. CASE Owns(w)
    <3>1. {mine[w]} # {} /\ {mine[w]} \subseteq Running
      BY <2>1, <2>3 DEF Owns, Running
    <3> QED
      BY <1>4, <2>1, <2>2, <2>3, <3>1
  <2> QED
    BY <2>2, <2>3
<1>6. ASSUME NEW w \in Workers, NEW S \in SUBSET Running, RecoverStale(w, S)
      PROVE  Lifecycle!LNext
  <2>1. S # {} /\ S \subseteq Running /\ S \subseteq Jobs
    BY <1>6 DEF RecoverStale, Running
  <2>2. /\ \A i \in Jobs : i \notin S => job'[i] = job[i]
        /\ \A i \in S : /\ job'[i].status \in {"succeeded", "failed", "queued"}
                        /\ job'[i].attempts = job[i].attempts
    BY <1>0, <1>6, <2>1, RecoverEffect
  <2> QED
    BY <1>4, <2>1, <2>2
<1> QED
  BY <1>1, <1>2, <1>3, <1>5, <1>6, TableStep

\* The table of ingestion jobs moves only along its ALLOWED_TRANSITIONS:
\* claims, results, retries and recoveries of any number of workers implement
\* the life cycle, and a finished job stays as it is.
THEOREM PipelineImplementsLifecycle == Spec => ImplementsLifecycle
<1>1. Init => Lifecycle!LInit
  BY DEF Init, Lifecycle!LInit
<1> QED
  BY <1>1, IngestionLifecycleStep, IngestionInductive, PTL
  DEF Spec, ImplementsLifecycle, Lifecycle!LSpec
-----------------------------------------------------------------------------
(* Durability, when one worker is alone with the queue. *)

\* The steps outside a worker's loop keep the invariant.
LEMMA SoleOutside ==
    ASSUME IngestionInv, SoleInv, NEW j \in Jobs,
           ArtifactReplaced(j) \/ \E a \in Artifacts : Enqueue(j, a)
    PROVE  SoleInv'
<1>1. TypeOK /\ MineInv
  BY DEF IngestionInv
<1>2. UNCHANGED <<chunks, blobs, workerVars>>
  BY DEF ArtifactReplaced, Enqueue
<1>3. /\ \A i \in Jobs : i # j => job'[i] = job[i]
      /\ job[j].status = "none" \/ job'[j] = job[j]
      /\ job'[j] # job[j] => job'[j].status = "queued"
  BY <1>1, EnqueueEffect DEF ArtifactReplaced
<1>4. ASSUME NEW w \in Workers
      PROVE  /\ pc[w] \in Processing => job'[mine[w]] = job[mine[w]]
             /\ pc[w] \in {"fail_result", "fail_canonical"} =>
                  job'[mine[w]].status # "succeeded"
             /\ \A i \in toClean[w] : job'[i].status = "queued"
  <2>1. pc[w] # "idle" => mine[w] \in Jobs
    BY <1>1 DEF MineInv
  <2>2. toClean[w] \subseteq Jobs
    BY <1>1 DEF TypeOK
  <2> QED
    BY <1>3, <2>1, <2>2 DEF SoleInv, Owns, Processing
<1>5. SucceededIsDurable'
  BY <1>2, <1>3 DEF SoleInv, SucceededIsDurable
<1> QED
  BY <1>2, <1>4, <1>5 DEF SoleInv, Owns, workerVars

\* So do claims and recoveries, which find the only worker idle.
LEMMA SoleIdle ==
    ASSUME IngestionInv, SoleInv, NEW w \in Workers, Workers = {w},
           \/ \E j \in Jobs : ClaimNext(w, j)
           \/ \E S \in SUBSET Running : RecoverStale(w, S)
    PROVE  SoleInv'
<1>1. TypeOK
  BY DEF IngestionInv
<1>2. pc[w] = "idle" /\ toClean[w] = {} /\ UNCHANGED <<chunks, blobs>>
  BY DEF ClaimNext, RecoverStale, SoleInv
<1>3. ASSUME NEW j \in Jobs, ClaimNext(w, j) PROVE SoleInv'
  <2>1. /\ pc'[w] = "claimed" /\ mine'[w] = j /\ toClean' = toClean
    BY <1>1, <1>3 DEF ClaimNext, TypeOK
  <2>2. /\ \A i \in Jobs : i # j => job'[i] = job[i]
        /\ job'[j].status = "running" /\ job'[j].owner = w
    BY <1>1, <1>3, ClaimEffect
  <2>3. SucceededIsDurable'
    BY <1>2, <2>2 DEF SoleInv, SucceededIsDurable
  <2> QED
    BY <1>2, <2>1, <2>2, <2>3 DEF SoleInv, Owns, Processing, Recovering
<1>4. ASSUME NEW S \in SUBSET Running, RecoverStale(w, S) PROVE SoleInv'
  <2> DEFINE R == {j \in S : job[j].attempts < MaxAttempts}
  <2>1. S \subseteq Jobs /\ \A i \in Jobs : job[i].attempts \in Nat
    BY <1>1 DEF Running, TypeOK, Job
  <2>2. /\ \A i \in Jobs : i \notin S => job'[i] = job[i]
        /\ \A i \in S : job'[i].status = IF job[i].attempts >= MaxAttempts
                                         THEN "failed" ELSE "queued"
    BY <1>1, <1>4, <2>1, RecoverEffect
  <2>3. SucceededIsDurable'
    BY <1>2, <2>1, <2>2 DEF SoleInv, SucceededIsDurable
  <2>4. \A i \in R : job'[i].status = "queued"
    BY <2>1, <2>2, IngestionAssumption
  <2>5. /\ toClean'[w] = R
        /\ \/ R = {} /\ pc'[w] = "idle"
           \/ pc'[w] = "rec_result" /\ mine'[w] \in R
    BY <1>1, <1>2, <1>4 DEF RecoverStale, TypeOK
  <2> HIDE DEF R
  <2> QED
    BY <2>3, <2>4, <2>5 DEF SoleInv, Processing, Recovering
<1> QED
  BY <1>3, <1>4

\* A worker that ends its attempt, cleans up or dies leaves nothing behind
\* that a later step could delete from a succeeded job.
LEMMA SoleBack ==
    ASSUME IngestionInv, SoleInv, NEW w \in Workers, Workers = {w},
           BackToIdle(w), SucceededIsDurable'
    PROVE  SoleInv'
<1>1. pc'[w] = "idle" /\ toClean'[w] = {}
  BY BackToIdleType DEF IngestionInv
<1> QED
  BY <1>1 DEF SoleInv, Processing, Recovering

\* The steps of the only worker keep the invariant.
LEMMA SoleWorks ==
    ASSUME IngestionInv, SoleInv, NEW w \in Workers, Workers = {w},
           ProcessStep(w) \/ CleanStep(w) \/ Crash(w)
    PROVE  SoleInv'
<1>1. TypeOK /\ MineInv
  BY DEF IngestionInv
<1>2. mine[w] \in Jobs
  <2>1. pc[w] # "idle"
    BY DEF ProcessStep, PutCanonical, PutResult, ReplaceDelete, MarkSucceeded,
       MarkFailed, HandleRetryable, CleanStep, CleanResult, CleanCanonical,
       CleanChunks, Crash
  <2> QED
    BY <1>1, <2>1 DEF MineInv
<1>3. CASE PutCanonical(w) \/ PutResult(w)
  <2>1. /\ Owns(w) /\ job' = job /\ chunks' = chunks /\ mine' = mine
        /\ toClean' = toClean
        /\ pc[w] = "half" => "canonical" \in blobs[mine[w]]
    BY <1>3 DEF PutCanonical, PutResult, SoleInv, Processing
  <2>2. /\ \A i \in Jobs : i # mine[w] => blobs'[i] = blobs[i]
        /\ \/ pc'[w] = "half" /\ "canonical" \in blobs'[mine[w]]
           \/ pc'[w] = "processed" /\ blobs'[mine[w]] = Outputs
    <3>1. CASE PutCanonical(w)
      BY <1>1, <1>2, <3>1 DEF PutCanonical, TypeOK
    <3>2. CASE PutResult(w)
      <4>1. "canonical" \in blobs[mine[w]] /\ blobs[mine[w]] \subseteq Outputs
        BY <1>1, <1>2, <2>1, <3>2 DEF PutResult, TypeOK
      <4>2. blobs[mine[w]] \cup {"result"} = Outputs
        BY <4>1 DEF Outputs
      <4>3. blobs' = [blobs EXCEPT ![mine[w]] = Outputs] /\ pc'[w] = "processed"
        BY <1>1, <3>2, <4>2 DEF PutResult, TypeOK
      <4> QED
        BY <1>1, <1>2, <4>3 DEF TypeOK
    <3> QED
      BY <1>3, <3>1, <3>2
  <2>3. SucceededIsDurable'
    BY <2>1, <2>2 DEF SoleInv, SucceededIsDurable, Owns
  <2> QED
    BY <2>1, <2>2, <2>3 DEF SoleInv, Owns, Processing, Recovering
<1>4. CASE ReplaceDelete(w)
  <2>1. /\ UNCHANGED <<job, chunks, blobs, mine, toClean>>
        /\ pc[w] = "processed" /\ pc'[w] = "replacing"
    BY <1>1, <1>4 DEF ReplaceDelete, TypeOK
  <2> QED
    BY <2>1 DEF SoleInv, SucceededIsDurable, Owns, Processing, Recovering
<1>5. CASE MarkSucceeded(w)
  <2>1. blobs' = blobs /\ blobs[mine[w]] = Outputs /\ BackToIdle(w)
    BY <1>5 DEF MarkSucceeded, SoleInv
  <2>2. CASE UNCHANGED <<job, chunks>>
    BY <2>1, <2>2, SoleBack DEF SoleInv, SucceededIsDurable
  <2>3. CASE /\ chunks' = [chunks EXCEPT ![mine[w]] = TRUE]
             /\ job' = Settled(w, "succeeded", w)
    <3>1. \A i \in Jobs : i # mine[w] => job'[i] = job[i] /\ chunks'[i] = chunks[i]
      BY <1>1, <1>2, <2>3, SettledEffect DEF TypeOK
    <3>2. chunks'[mine[w]]
      BY <1>1, <1>2, <2>3 DEF TypeOK
    <3>3. SucceededIsDurable'
      BY <2>1, <3>1, <3>2 DEF SoleInv, SucceededIsDurable
    <3> QED
      BY <2>1, <3>3, SoleBack
  <2> QED
    BY <1>5, <2>2, <2>3 DEF MarkSucceeded
<1>6. ASSUME pc[w] \in Processing, NEW s \in {"failed", "queued"},
             NEW o \in Workers \cup {NoWorker}, Abandon(w, s, o)
      PROVE  SoleInv'
  <2>1. /\ pc'[w] = "fail_result" /\ UNCHANGED <<blobs, mine, toClean>>
        /\ \A i \in Jobs : i # mine[w] => chunks'[i] = chunks[i]
    BY <1>1, <1>2, <1>6 DEF Abandon, TypeOK
  <2>2. /\ Owns(w) /\ job'[mine[w]].status = s
        /\ \A i \in Jobs : i # mine[w] => job'[i] = job[i]
    BY <1>1, <1>2, <1>6, SettledEffect DEF Abandon, SoleInv
  <2>3. SucceededIsDurable'
    BY <2>1, <2>2 DEF SoleInv, SucceededIsDurable
  <2>4. \A i \in toClean[w] : job'[i].status = "queued"
    BY <1>1, <2>2 DEF SoleInv, Owns, TypeOK
  <2> QED
    BY <2>1, <2>2, <2>3, <2>4 DEF SoleInv, Processing, Recovering
<1>7. job[mine[w]].status # "succeeded" \/ ~CleanStep(w)
  BY DEF SoleInv, CleanStep, CleanResult, CleanCanonical, CleanChunks, Recovering
<1>8. CASE CleanStep(w)
  <2>1. /\ job' = job
        /\ \A i \in Jobs : i # mine[w] => chunks'[i] = chunks[i]
                                          /\ blobs'[i] = blobs[i]
    BY <1>1, <1>2, <1>8 DEF CleanStep, CleanResult, CleanCanonical, CleanChunks,
       TypeOK
  <2>2. SucceededIsDurable'
    BY <1>7, <1>8, <2>1 DEF SoleInv, SucceededIsDurable
  <2>3. CASE BackToIdle(w)
    BY <2>2, <2>3, SoleBack
  <2>4. CASE CleanResult(w) \/ (CleanCanonical(w) /\ ~BackToIdle(w))
    <3>1. /\ UNCHANGED <<job, mine, toClean>>
          /\ \/ pc[w] = "fail_result" /\ pc'[w] = "fail_canonical"
             \/ pc[w] \in Recovering /\ pc'[w] \in Recovering
      BY <1>1, <2>4 DEF CleanResult, CleanCanonical, TypeOK, Recovering
    <3> QED
      BY <2>2, <3>1 DEF SoleInv, Processing, Recovering
  <2>5. CASE CleanChunks(w) /\ ~BackToIdle(w)
    <3> DEFINE rest == toClean[w] \ {mine[w]}
    <3>1. pc'[w] = "rec_result" /\ mine'[w] \in rest /\ toClean'[w] = rest
      BY <1>1, <2>5 DEF CleanChunks, TypeOK
    <3> QED
      BY <2>1, <2>2, <3>1 DEF SoleInv, Processing, Recovering
  <2> QED
    BY <1>8, <2>3, <2>4, <2>5 DEF CleanStep
<1>9. CASE Crash(w)
  BY <1>9, SoleBack DEF Crash, SoleInv, SucceededIsDurable
<1> QED
  BY <1>3, <1>4, <1>5, <1>6, <1>8, <1>9
  DEF ProcessStep, MarkFailed, HandleRetryable, Processing

\* With one worker, a SUCCEEDED job has its chunk rows, its canonical text and
\* its manifest, through retries, crashes, recoveries and replaced artifacts.
\* With two workers it does not: see the run ingestion_durable_documented.
THEOREM SoleWorkerDurable ==
    ASSUME \A v, w \in Workers : v = w
    PROVE  Spec => []SucceededIsDurable
<1>1. Init => SoleInv
  BY DEF Init, SoleInv, SucceededIsDurable, Processing, Recovering
<1>2. IngestionInv /\ SoleInv /\ [Next]_vars => SoleInv'
  <2> SUFFICES ASSUME IngestionInv, SoleInv, [Next]_vars PROVE SoleInv'
    OBVIOUS
  <2>1. CASE UNCHANGED vars \/ \E w \in Workers : EmptyPoll(w)
    BY <2>1 DEF SoleInv, SucceededIsDurable, Owns, EmptyPoll, vars, workerVars
  <2>2. ASSUME NEW w \in Workers PROVE Workers = {w}
    OBVIOUS
  <2> QED
    BY <2>1, <2>2, SoleOutside, SoleIdle, SoleWorks DEF Next
<1>3. SoleInv => SucceededIsDurable
  BY DEF SoleInv
<1> QED
  BY <1>1, <1>2, <1>3, IngestionInductive, PTL DEF Spec
=============================================================================
