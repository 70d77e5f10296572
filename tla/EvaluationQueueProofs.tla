----------------------- MODULE EvaluationQueueProofs -----------------------
(***************************************************************************)
(* Machine-checked proofs about EvaluationQueue, for every set of          *)
(* evaluations, workers and limits.                                        *)
(***************************************************************************)
EXTENDS EvaluationQueue, FiniteSetTheorems, TLAPS

-----------------------------------------------------------------------------
(* Counting RUNNING rows. *)

\* The RUNNING rows, and the HEAVY ones among them, can be counted.
LEMMA RunningFinite ==
    /\ IsFiniteSet(Running) /\ Cardinality(Running) \in Nat
    /\ IsFiniteSet(RunningHeavy) /\ Cardinality(RunningHeavy) \in Nat
<1>1. Running \subseteq Evals /\ RunningHeavy \subseteq Evals
  BY DEF Running, RunningHeavy, With
<1> QED
  BY <1>1, EvalsAssumption, FS_Subset, FS_CardinalityType

\* The same of the state a step leads to.
LEMMA RunningFinitePrimed ==
    /\ IsFiniteSet(Running') /\ Cardinality(Running') \in Nat
    /\ IsFiniteSet(RunningHeavy') /\ Cardinality(RunningHeavy') \in Nat
<1>1. Running' \subseteq Evals /\ RunningHeavy' \subseteq Evals
  BY DEF Running, RunningHeavy, With
<1> QED
  BY <1>1, EvalsAssumption, FS_Subset, FS_CardinalityType

\* A step that marks no row RUNNING keeps the bound and what the claim under
\* way has counted.
LEMMA NoNewRunning ==
    ASSUME ConcurrencyBound, BoundsAssumption,
           \A e \in Evals : row'[e].status = "running" =>
               row[e].status = "running" /\ row'[e].cls = row[e].cls
    PROVE  /\ ConcurrencyBound'
           /\ Cardinality(Running') <= Cardinality(Running)
<1>1. Running' \subseteq Running /\ RunningHeavy' \subseteq RunningHeavy
  BY DEF Running, RunningHeavy, With
<1>2. Cardinality(Running') <= Cardinality(Running)
  BY <1>1, RunningFinite, FS_Subset
<1>3. Cardinality(RunningHeavy') <= Cardinality(RunningHeavy)
  BY <1>1, RunningFinite, FS_Subset
<1> QED
  BY <1>2, <1>3, RunningFinite, RunningFinitePrimed, BoundsAssumption
  DEF ConcurrencyBound

-----------------------------------------------------------------------------
\* What TypeOK says of the columns of one row.
LEMMA RowFields ==
    ASSUME TypeOK
    PROVE  /\ \A e \in Evals : /\ row[e].attempts \in Nat
                              /\ row[e].stage \in 0..3
                              /\ row[e].meta \in Nat
           /\ \A p \in live : p[1] \in Evals /\ p[2] \in Nat
                              /\ p = <<p[1], p[2]>>
  BY DEF TypeOK, Row

\* An empty table and idle workers satisfy the invariant.
LEMMA InitInv == Init => IInv
<1> SUFFICES ASSUME Init PROVE IInv
  OBVIOUS
<1> USE EvalsAssumption, WorkersAssumption, BoundsAssumption
<1>1. TypeOK
  BY DEF Init, TypeOK, Row, Statuses, Classes, Modes, PCs, NoLimits
<1>2. LockInv /\ ClaimInv /\ JobInv /\ ProcessInv
  BY DEF Init, LockInv, ClaimInv, JobInv, ProcessInv, Locking, Working
<1>3. RowInv /\ AttemptBound /\ FencedByWorkerId /\ RecordedProcessIsCurrent
  BY DEF Init, RowInv, AttemptBound, Deferred, FencedByWorkerId, Working,
         RecordedProcessIsCurrent
<1>4. ConcurrencyBound
  <2>1. Running = {} /\ RunningHeavy = {}
    BY DEF Init, Running, RunningHeavy, With
  <2> QED
    BY <2>1, FS_EmptySet DEF ConcurrencyBound
<1> QED
  BY <1>1, <1>2, <1>3, <1>4 DEF IInv

\* create_queued adds a QUEUED row that no claim, process or worker knows.
LEMMA SubmitInv ==
    ASSUME NEW e \in Evals, NEW k \in Kinds, IInv, Submit(e, k)
    PROVE  IInv'
<1> USE EvalsAssumption, WorkersAssumption, BoundsAssumption, KindsAssumption
<1>0. row[e] \in Row /\ row[e].status = "none"
  BY DEF IInv, TypeOK, Submit
<1> DEFINE r == [row[e] EXCEPT !.status = "queued", !.cls = k.cls, !.mode = k.mode]
<1>1. row' = [row EXCEPT ![e] = r]
  BY DEF Submit
<1>2. r \in Row
  BY <1>0 DEF Row, Statuses
<1>3. r.status = "queued" /\ r.attempts = row[e].attempts /\ r.stage = row[e].stage /\ r.meta = row[e].meta
  BY <1>0 DEF Row, Statuses
<1>4. row'[e] = r /\ \A f \in Evals : f # e => row'[f] = row[f]
  BY <1>1 DEF IInv, TypeOK
<1>5. /\ pc' = pc /\ lim' = lim /\ head' = head /\ job' = job /\ att' = att
      /\ result' = result /\ live' = live /\ crashes' = crashes
      /\ schedLock' = schedLock /\ blockedHeavy' = blockedHeavy
      /\ lightBypass' = lightBypass
  BY DEF Submit, claimVars, jobVars
<1> HIDE DEF r
<1>6. TypeOK'
  BY <1>1, <1>2, <1>5 DEF IInv, TypeOK
<1>7. ConcurrencyBound' /\ Cardinality(Running') <= Cardinality(Running)
  <2>1. \A f \in Evals : row'[f].status = "running" =>
               row[f].status = "running" /\ row'[f].cls = row[f].cls
    BY <1>3, <1>4
  <2> QED
    BY <2>1, NoNewRunning DEF IInv
<1>8. LockInv' /\ ClaimInv'
  <2>1. \A f \in Queued : f \in Queued'
    BY <1>3, <1>4 DEF Queued, With
  <2> QED
    BY <1>5, <1>7, <2>1, RunningFinite, RunningFinitePrimed, LimitsAssumption
    DEF IInv, LockInv, ClaimInv, EffWorkers, TypeOK, NoLimits
<1>9. JobInv'
  BY <1>0, <1>3, <1>4, <1>5 DEF IInv, JobInv
<1>10. ProcessInv'
  BY <1>0, <1>3, <1>4, <1>5, RowFields DEF IInv, JobInv, ProcessInv, Working
<1>11. RowInv' /\ AttemptBound'
  <2>1. r.attempts = 0 /\ r.stage = 0 /\ r.meta = 0
    BY <1>0, <1>3 DEF IInv, RowInv
  <2>2. RowInv'
    BY <1>0, <1>3, <1>4, <2>1, RowFields DEF IInv, RowInv, Deferred
  <2>3. AttemptBound'
    BY <1>0, <1>3, <1>4, <2>1, RowFields DEF IInv, AttemptBound, Deferred
  <2> QED
    BY <2>2, <2>3
<1>12. FencedByWorkerId'
  BY <1>0, <1>3, <1>4, <1>5 DEF IInv, FencedByWorkerId, Owns, JobInv
<1>13. RecordedProcessIsCurrent'
  BY <1>0, <1>3, <1>4, <1>5, RowFields
  DEF IInv, RecordedProcessIsCurrent, OrphanSuspected, ProcessInv, RowInv
<1> QED
  BY <1>6, <1>7, <1>8, <1>9, <1>10, <1>11, <1>12, <1>13 DEF IInv

-----------------------------------------------------------------------------
(* Steps that leave the table alone. *)

\* A step that leaves the table alone leaves both RUNNING counts alone.
LEMMA SameRows ==
    ASSUME IInv, row' = row
    PROVE  /\ RowInv' /\ AttemptBound' /\ ConcurrencyBound'
           /\ Running' = Running /\ Queued' = Queued
  BY DEF IInv, RowInv, AttemptBound, ConcurrencyBound, Running, RunningHeavy,
         Queued, With

\* A poll only notes the limits the claim will use.
LEMMA PollInv ==
    ASSUME NEW w \in Workers, IInv, Poll(w)
    PROVE  IInv'
<1>1. PICK l \in Limits : lim' = [lim EXCEPT ![w] = l]
  BY DEF Poll
<1>2. /\ pc[w] = "idle" /\ pc' = [pc EXCEPT ![w] = "claim"]
      /\ row' = row /\ head' = head /\ job' = job /\ att' = att
      /\ result' = result /\ live' = live /\ crashes' = crashes
      /\ schedLock' = schedLock /\ blockedHeavy' = blockedHeavy
      /\ lightBypass' = lightBypass
  BY DEF Poll, dbVars, jobVars
<1>3. TypeOK'
  BY <1>1, <1>2 DEF IInv, TypeOK, PCs
<1>4. LockInv' /\ ClaimInv'
  BY <1>1, <1>2, SameRows
  DEF IInv, TypeOK, LockInv, ClaimInv, Locking, EffWorkers
<1>5. JobInv' /\ ProcessInv'
  BY <1>2 DEF IInv, TypeOK, JobInv, ProcessInv, Working
<1>6. FencedByWorkerId' /\ RecordedProcessIsCurrent'
  BY <1>2 DEF IInv, TypeOK, FencedByWorkerId, Owns, Working,
     RecordedProcessIsCurrent, OrphanSuspected
<1> QED
  BY <1>2, <1>3, <1>4, <1>5, <1>6, SameRows DEF IInv

\* A claim that gives up, whether or not it held the lock.
LEMMA GiveUpInv ==
    ASSUME NEW w \in Workers, IInv, GiveUp(w),
           pc[w] \in Locking \cup {"claim"}, schedLock \in {w, NoWorker}
    PROVE  IInv'
<1> USE WorkersAssumption
<1>1. /\ pc' = [pc EXCEPT ![w] = "idle"]
      /\ lim' = [lim EXCEPT ![w] = NoLimits]
      /\ head' = [head EXCEPT ![w] = 0]
      /\ row' = row /\ job' = job /\ att' = att
      /\ result' = result /\ live' = live /\ crashes' = crashes
      /\ schedLock' = NoWorker /\ blockedHeavy' = blockedHeavy
      /\ lightBypass' = lightBypass
  BY DEF GiveUp, jobVars
<1>2. TypeOK'
  BY <1>1 DEF IInv, TypeOK, PCs
<1>3. LockInv'
  BY <1>1 DEF IInv, TypeOK, LockInv, Locking
<1>4. ClaimInv'
  BY <1>1, <1>3, SameRows
  DEF IInv, TypeOK, ClaimInv, LockInv, Locking, EffWorkers
<1>5. JobInv' /\ ProcessInv'
  BY <1>1 DEF IInv, TypeOK, JobInv, ProcessInv, Working
<1>6. FencedByWorkerId' /\ RecordedProcessIsCurrent'
  BY <1>1 DEF IInv, TypeOK, FencedByWorkerId, Owns, Working,
     RecordedProcessIsCurrent, OrphanSuspected
<1> QED
  BY <1>1, <1>2, <1>3, <1>4, <1>5, <1>6, SameRows DEF IInv

\* The claim that gets the lock has just counted room for one more row.
LEMMA ClaimLockInv ==
    ASSUME NEW w \in Workers, IInv, ClaimLock(w)
    PROVE  IInv'
<1> USE WorkersAssumption
<1>1. CASE GiveUp(w)
  BY <1>1, GiveUpInv DEF ClaimLock
<1>2. CASE /\ Cardinality(Running) < EffWorkers(lim[w])
           /\ schedLock' = w
           /\ pc' = [pc EXCEPT ![w] = "select"]
           /\ UNCHANGED <<row, blockedHeavy, lightBypass, claimVars, jobVars,
                          live, crashes>>
  <2>1. /\ pc[w] = "claim" /\ schedLock = NoWorker
        /\ lim' = lim /\ head' = head /\ row' = row /\ job' = job
        /\ att' = att /\ result' = result /\ live' = live
    BY <1>2 DEF ClaimLock, claimVars, jobVars
  <2>2. TypeOK'
    BY <1>2, <2>1 DEF IInv, TypeOK, PCs
  <2>3. LockInv' /\ ClaimInv'
    BY <1>2, <2>1, SameRows
    DEF IInv, TypeOK, LockInv, ClaimInv, Locking, EffWorkers
  <2>4. JobInv' /\ ProcessInv'
    BY <1>2, <2>1 DEF IInv, TypeOK, JobInv, ProcessInv, Working
  <2>5. FencedByWorkerId' /\ RecordedProcessIsCurrent'
    BY <1>2, <2>1 DEF IInv, TypeOK, FencedByWorkerId, Owns, Working,
       RecordedProcessIsCurrent, OrphanSuspected
  <2> QED
    BY <2>1, <2>2, <2>3, <2>4, <2>5, SameRows DEF IInv
<1> QED
  BY <1>1, <1>2 DEF ClaimLock

\* The selected head is QUEUED, and stays so while the lock is held.
LEMMA ClaimSelectInv ==
    ASSUME NEW w \in Workers, IInv, ClaimSelect(w)
    PROVE  IInv'
<1>1. pc[w] = "select" /\ schedLock = w
  BY DEF ClaimSelect, IInv, LockInv, Locking
<1>2. CASE GiveUp(w)
  BY <1>1, <1>2, GiveUpInv DEF Locking
<1>3. ASSUME NEW e \in Queued,
             head' = [head EXCEPT ![w] = e],
             pc' = [pc EXCEPT ![w] = "decide"],
             UNCHANGED <<dbVars, lim, jobVars, live, crashes>>
      PROVE  IInv'
  <2>1. /\ schedLock' = schedLock /\ blockedHeavy' = blockedHeavy
        /\ lightBypass' = lightBypass /\ lim' = lim /\ row' = row
        /\ job' = job /\ att' = att /\ result' = result /\ live' = live
        /\ crashes' = crashes
    BY <1>3 DEF dbVars, jobVars
  <2>2. e \in Evals
    BY DEF Queued, With
  <2>3. TypeOK'
    BY <1>3, <2>1, <2>2 DEF IInv, TypeOK, PCs
  <2>4. LockInv' /\ ClaimInv'
    BY <1>1, <1>3, <2>1, SameRows
    DEF IInv, TypeOK, LockInv, ClaimInv, Locking, EffWorkers
  <2>5. JobInv' /\ ProcessInv'
    BY <1>1, <1>3, <2>1 DEF IInv, TypeOK, JobInv, ProcessInv, Working
  <2>6. FencedByWorkerId' /\ RecordedProcessIsCurrent'
    BY <1>1, <1>3, <2>1 DEF IInv, TypeOK, FencedByWorkerId, Owns, Working,
       RecordedProcessIsCurrent, OrphanSuspected
  <2> QED
    BY <2>1, <2>3, <2>4, <2>5, <2>6, SameRows DEF IInv
<1> QED
  BY <1>2, <1>3 DEF ClaimSelect

\* A blocked head is left in the queue, whether or not a bypass follows.
LEMMA ClaimBlockedInv ==
    ASSUME NEW w \in Workers, IInv, ClaimBlocked(w)
    PROVE  IInv'
<1>1. pc[w] = "decide" /\ schedLock = w
  BY DEF ClaimBlocked, IInv, LockInv, Locking
<1>2. CASE GiveUp(w)
  BY <1>1, <1>2, GiveUpInv DEF Locking
<1>3. CASE /\ pc' = [pc EXCEPT ![w] = "bypass"]
           /\ UNCHANGED <<dbVars, claimVars, jobVars, live, crashes>>
  <2>1. /\ schedLock' = schedLock /\ blockedHeavy' = blockedHeavy
        /\ lightBypass' = lightBypass /\ lim' = lim /\ head' = head
        /\ row' = row /\ job' = job /\ att' = att /\ result' = result
        /\ live' = live /\ crashes' = crashes
    BY <1>3 DEF dbVars, claimVars, jobVars
  <2>2. TypeOK'
    BY <1>3, <2>1 DEF IInv, TypeOK, PCs
  <2>3. LockInv' /\ ClaimInv'
    BY <1>1, <1>3, <2>1, SameRows
    DEF IInv, TypeOK, LockInv, ClaimInv, Locking, EffWorkers
  <2>4. JobInv' /\ ProcessInv'
    BY <1>1, <1>3, <2>1 DEF IInv, TypeOK, JobInv, ProcessInv, Working
  <2>5. FencedByWorkerId' /\ RecordedProcessIsCurrent'
    BY <1>1, <1>3, <2>1 DEF IInv, TypeOK, FencedByWorkerId, Owns, Working,
       RecordedProcessIsCurrent, OrphanSuspected
  <2> QED
    BY <2>1, <2>2, <2>3, <2>4, <2>5, SameRows DEF IInv
<1> QED
  BY <1>2, <1>3 DEF ClaimBlocked

\* Popen starts the process of an attempt that was claimed.
LEMMA SpawnInv ==
    ASSUME NEW w \in Workers, IInv, Spawn(w)
    PROVE  IInv'
<1>1. /\ pc[w] = "exec" /\ pc' = [pc EXCEPT ![w] = "spawned"]
      /\ live' = live \cup {<<job[w], att[w]>>}
      /\ schedLock' = schedLock /\ blockedHeavy' = blockedHeavy
      /\ lightBypass' = lightBypass /\ lim' = lim /\ head' = head
      /\ row' = row /\ job' = job /\ att' = att /\ result' = result
      /\ crashes' = crashes
  BY DEF Spawn, Process, dbVars, claimVars, jobVars
<1>2. job[w] \in Evals /\ att[w] \in 1..row[job[w]].attempts /\ att[w] \in Nat
      /\ row[job[w]].meta # att[w]
  BY <1>1 DEF IInv, TypeOK, JobInv, ProcessInv, Working
<1>3. TypeOK'
  BY <1>1, <1>2 DEF IInv, TypeOK, PCs
<1>4. LockInv' /\ ClaimInv'
  BY <1>1, SameRows DEF IInv, TypeOK, LockInv, ClaimInv, Locking, EffWorkers
<1>5. JobInv'
  BY <1>1 DEF IInv, TypeOK, JobInv, Working
<1>6. ProcessInv'
  BY <1>1, <1>2 DEF IInv, TypeOK, ProcessInv
<1>7. FencedByWorkerId'
  BY <1>1 DEF IInv, TypeOK, FencedByWorkerId, Owns, Working
<1>8. RecordedProcessIsCurrent'
  BY <1>1, <1>2 DEF IInv, RecordedProcessIsCurrent, OrphanSuspected
<1> QED
  BY <1>1, <1>3, <1>4, <1>5, <1>6, <1>7, <1>8, SameRows DEF IInv

\* An execution ends for its worker; the set of live processes can only shrink.
LEMMA ExecutionEndsInv ==
    ASSUME NEW w \in Workers, IInv,
           pc[w] \in {"exec", "spawned"}, pc' = [pc EXCEPT ![w] = "ended"],
           NEW res \in {"success", "failure", "start_failure"},
           result' = [result EXCEPT ![w] = res],
           live' \subseteq live,
           UNCHANGED <<dbVars, claimVars, job, att, crashes>>
    PROVE  IInv'
<1>1. /\ schedLock' = schedLock /\ blockedHeavy' = blockedHeavy
      /\ lightBypass' = lightBypass /\ lim' = lim /\ head' = head
      /\ row' = row /\ job' = job /\ att' = att /\ crashes' = crashes
  BY DEF dbVars, claimVars
<1>3. TypeOK'
  BY <1>1 DEF IInv, TypeOK, PCs
<1>4. LockInv' /\ ClaimInv'
  BY <1>1, SameRows DEF IInv, TypeOK, LockInv, ClaimInv, Locking, EffWorkers
<1>5. JobInv'
  BY <1>1 DEF IInv, TypeOK, JobInv, Working
<1>6. ProcessInv'
  BY <1>1 DEF IInv, TypeOK, ProcessInv
<1>7. FencedByWorkerId' /\ RecordedProcessIsCurrent'
  BY <1>1 DEF IInv, TypeOK, FencedByWorkerId, Owns, Working,
     RecordedProcessIsCurrent, OrphanSuspected
<1> QED
  BY <1>1, <1>3, <1>4, <1>5, <1>6, <1>7, SameRows DEF IInv

\* A process that ends on its own takes nothing else with it.
LEMMA ProcessExitsInv ==
    ASSUME NEW p \in live, IInv, ProcessExits(p)
    PROVE  IInv'
<1>1. /\ schedLock' = schedLock /\ blockedHeavy' = blockedHeavy
      /\ lightBypass' = lightBypass /\ lim' = lim /\ head' = head
      /\ row' = row /\ job' = job /\ att' = att /\ crashes' = crashes
      /\ pc' = pc /\ result' = result /\ live' \subseteq live
  BY DEF ProcessExits, dbVars, claimVars, jobVars
<1>2. TypeOK' /\ LockInv' /\ ClaimInv'
  BY <1>1, SameRows DEF IInv, TypeOK, LockInv, ClaimInv, EffWorkers
<1>3. JobInv' /\ ProcessInv'
  BY <1>1 DEF IInv, JobInv, ProcessInv
<1>4. FencedByWorkerId' /\ RecordedProcessIsCurrent'
  BY <1>1 DEF IInv, FencedByWorkerId, Owns, RecordedProcessIsCurrent,
     OrphanSuspected
<1> QED
  BY <1>1, <1>2, <1>3, <1>4, SameRows DEF IInv

\* A dying worker loses its lock and its claim, never a committed row.
LEMMA CrashInv ==
    ASSUME NEW w \in Workers, IInv, Crash(w)
    PROVE  IInv'
<1> USE WorkersAssumption
<1>1. /\ pc' = [pc EXCEPT ![w] = "idle"]
      /\ lim' = [lim EXCEPT ![w] = NoLimits]
      /\ head' = [head EXCEPT ![w] = 0]
      /\ job' = [job EXCEPT ![w] = 0]
      /\ att' = [att EXCEPT ![w] = 0]
      /\ result' = [result EXCEPT ![w] = "none"]
      /\ schedLock' = IF schedLock = w THEN NoWorker ELSE schedLock
      /\ crashes' = crashes + 1
      /\ row' = row /\ blockedHeavy' = blockedHeavy /\ lightBypass' = lightBypass
      /\ live' \subseteq live
  BY DEF Crash, BackToIdle
<1>2. TypeOK'
  BY <1>1 DEF IInv, TypeOK, PCs
<1>3. LockInv' /\ ClaimInv'
  BY <1>1, SameRows DEF IInv, TypeOK, LockInv, ClaimInv, Locking, EffWorkers
<1>4. JobInv'
  BY <1>1 DEF IInv, TypeOK, JobInv, Working
<1>5. ProcessInv'
  BY <1>1 DEF IInv, TypeOK, ProcessInv
<1>6. FencedByWorkerId' /\ RecordedProcessIsCurrent'
  BY <1>1 DEF IInv, TypeOK, FencedByWorkerId, Owns, Working,
     RecordedProcessIsCurrent, OrphanSuspected
<1> QED
  BY <1>1, <1>2, <1>3, <1>4, <1>5, <1>6, SameRows DEF IInv

-----------------------------------------------------------------------------
(* Steps that change rows. *)

\* The claim of a QUEUED row under the scheduler lock, with room for it.
LEMMA ClaimStepInv ==
    ASSUME NEW w \in Workers, NEW e \in Queued, IInv,
           pc[w] \in {"decide", "bypass"},
           row[e].cls = "heavy" => Cardinality(RunningHeavy) < EffHeavy(lim[w]),
           blockedHeavy' \in Evals \cup {0}, lightBypass' \in Nat,
           Claim(w, e)
    PROVE  IInv'
<1> USE EvalsAssumption, WorkersAssumption, BoundsAssumption, LimitsAssumption
<1> DEFINE r == [row[e] EXCEPT !.status = "running",
                               !.attempts = row[e].attempts + 1, !.owner = w]
<1>1. e \in Evals /\ row[e] \in Row /\ row[e].status = "queued"
  BY DEF IInv, TypeOK, Queued, With
<1>n. row[e].attempts \in Nat /\ row[e].attempts + 1 \in Nat
  BY <1>1 DEF Row
<1>2. row' = [row EXCEPT ![e] = r]
  BY DEF Claim
<1>3. r \in Row
  BY <1>1, <1>n DEF Row, Statuses
<1>4. /\ r.status = "running" /\ r.attempts = row[e].attempts + 1
      /\ r.stage = row[e].stage /\ r.meta = row[e].meta /\ r.owner = w
      /\ r.cls = row[e].cls /\ row[e].attempts \in Nat
  BY <1>1 DEF Row
<1>5. row'[e] = r /\ \A f \in Evals : f # e => row'[f] = row[f]
  BY <1>1, <1>2 DEF IInv, TypeOK
<1> HIDE DEF r
<1>6. /\ pc' = [pc EXCEPT ![w] = "exec"]
      /\ lim' = [lim EXCEPT ![w] = NoLimits]
      /\ head' = [head EXCEPT ![w] = 0]
      /\ job' = [job EXCEPT ![w] = e]
      /\ att' = [att EXCEPT ![w] = row[e].attempts + 1]
      /\ result' = result /\ schedLock' = NoWorker
      /\ live' = live /\ crashes' = crashes
  BY DEF Claim
<1>7. schedLock = w /\ lim[w] \in Limits
      /\ Cardinality(Running) < EffWorkers(lim[w])
  BY DEF IInv, LockInv, ClaimInv, Locking
<1>8. TypeOK'
  BY <1>1, <1>2, <1>3, <1>4, <1>6 DEF IInv, TypeOK, PCs
<1>9. ConcurrencyBound'
  <2>1. Running' = Running \cup {e} /\ e \notin Running
    BY <1>1, <1>4, <1>5 DEF Running, With
  <2>2. Cardinality(Running') = Cardinality(Running) + 1
    BY <2>1, RunningFinite, FS_AddElement
  <2>3. EffWorkers(lim[w]) <= MaxWorkers /\ EffWorkers(lim[w]) \in Nat
        /\ EffHeavy(lim[w]) <= MaxHeavy /\ EffHeavy(lim[w]) \in Nat
    BY <1>7 DEF EffWorkers, EffHeavy
  <2>4. Cardinality(Running') <= MaxWorkers
    BY <1>7, <2>2, <2>3, RunningFinite
  <2>5. CASE row[e].cls = "heavy"
    <3>1. RunningHeavy' = RunningHeavy \cup {e} /\ e \notin RunningHeavy
      BY <1>1, <1>4, <1>5, <2>5 DEF RunningHeavy, Running, With
    <3>2. Cardinality(RunningHeavy') = Cardinality(RunningHeavy) + 1
      BY <3>1, RunningFinite, FS_AddElement
    <3> QED
      BY <2>3, <2>4, <2>5, <3>2, RunningFinite DEF ConcurrencyBound
  <2>6. CASE row[e].cls # "heavy"
    <3>1. RunningHeavy' = RunningHeavy
      BY <1>1, <1>4, <1>5, <2>6 DEF RunningHeavy, Running, With
    <3> QED
      BY <2>4, <3>1 DEF ConcurrencyBound, IInv
  <2> QED
    BY <2>5, <2>6
<1>10. LockInv'
  BY <1>6, <1>7 DEF IInv, TypeOK, LockInv, Locking
<1>11. ClaimInv'
  BY <1>6, <1>10 DEF IInv, TypeOK, ClaimInv, LockInv, Locking
<1>12. JobInv'
  BY <1>1, <1>4, <1>5, <1>6, RowFields DEF IInv, TypeOK, JobInv, Working
<1>13. ProcessInv'
  <2>1. \A p \in live : p[2] \in 1..row'[p[1]].attempts
    BY <1>1, <1>4, <1>5, RowFields DEF IInv, ProcessInv
  <2>2. row'[e].meta # row[e].attempts + 1
    BY <1>1, <1>4, <1>5, RowFields DEF IInv, RowInv
  <2>3. ASSUME NEW v \in Workers, v # w, pc[v] = "exec"
        PROVE  row'[job[v]].meta # att[v]
    <3>1. job[v] \in Evals /\ row[job[v]].meta # att[v]
      BY <2>3 DEF IInv, ProcessInv, JobInv, Working
    <3>2. row'[job[v]].meta = row[job[v]].meta
      BY <1>4, <1>5, <3>1
    <3> QED
      BY <3>1, <3>2
  <2> QED
    BY <1>6, <2>1, <2>2, <2>3 DEF IInv, TypeOK, ProcessInv
<1>14. RowInv' /\ AttemptBound'
  <2>1. RowInv'
    BY <1>1, <1>4, <1>5, RowFields DEF IInv, RowInv
  <2>2. AttemptBound'
    BY <1>1, <1>4, <1>5, RowFields DEF IInv, RowInv, AttemptBound, Deferred
  <2> QED
    BY <2>1, <2>2
<1>15. FencedByWorkerId'
  <2>1. ASSUME NEW v \in Workers, v # w, pc[v] \in Working,
               row'[job[v]].status = "running", row'[job[v]].owner = v
        PROVE  att[v] = row'[job[v]].attempts
    <3>1. job[v] \in Evals /\ job[v] # e
      BY <1>1, <1>4, <1>5, <2>1 DEF IInv, JobInv
    <3> QED
      BY <1>5, <2>1, <3>1 DEF IInv, FencedByWorkerId, Owns
  <2> QED
    BY <1>1, <1>4, <1>5, <1>6, <2>1 DEF IInv, TypeOK, FencedByWorkerId, Owns
<1>16. RecordedProcessIsCurrent'
  BY <1>1, <1>4, <1>5, <1>6
  DEF IInv, RecordedProcessIsCurrent, OrphanSuspected
<1> QED
  BY <1>8, <1>9, <1>10, <1>11, <1>12, <1>13, <1>14, <1>15, <1>16 DEF IInv

\* begin_execution_attempt names the process of the row's latest attempt.
LEMMA PersistStartedInv ==
    ASSUME NEW w \in Workers, IInv, PersistStarted(w)
    PROVE  IInv'
<1> DEFINE e == job[w]
<1> DEFINE r == [row[e] EXCEPT !.meta = att[w]]
<1>1. /\ pc[w] \in Working /\ e \in Evals /\ row[e] \in Row
      /\ att[w] \in Nat /\ row[e].status = "running" /\ row[e].owner = w
  BY DEF PersistStarted, IInv, TypeOK, JobInv, Working, Owns
<1>2. row' = [row EXCEPT ![e] = r]
  BY DEF PersistStarted
<1>3. r \in Row
  BY <1>1 DEF Row
<1>4. /\ r.status = "running" /\ r.attempts = row[e].attempts
      /\ r.stage = row[e].stage /\ r.meta = att[w] /\ r.owner = row[e].owner
      /\ r.cls = row[e].cls /\ row[e].attempts \in Nat
      /\ att[w] = row[e].attempts
  BY <1>1 DEF Row, IInv, FencedByWorkerId, Owns
<1>5. row'[e] = r /\ \A f \in Evals : f # e => row'[f] = row[f]
  BY <1>1, <1>2 DEF IInv, TypeOK
<1>6. /\ pc' = pc /\ lim' = lim /\ head' = head /\ job' = job /\ att' = att
      /\ result' = result /\ schedLock' = schedLock
      /\ blockedHeavy' = blockedHeavy /\ lightBypass' = lightBypass
      /\ live' = live /\ crashes' = crashes
  BY DEF PersistStarted, claimVars, jobVars
<1>7. pc[w] # "exec"
  BY DEF PersistStarted
<1> HIDE DEF r
<1>8. TypeOK'
  BY <1>2, <1>3, <1>6 DEF IInv, TypeOK
<1>9. ConcurrencyBound' /\ Cardinality(Running') <= Cardinality(Running)
  <2>1. \A f \in Evals : row'[f].status = "running" =>
               row[f].status = "running" /\ row'[f].cls = row[f].cls
    BY <1>1, <1>4, <1>5
  <2> QED
    BY <2>1, NoNewRunning, BoundsAssumption DEF IInv
<1>10. LockInv' /\ ClaimInv'
  <2>1. \A f \in Queued : f \in Queued'
    BY <1>1, <1>4, <1>5 DEF Queued, With
  <2> QED
    BY <1>6, <1>9, <2>1, RunningFinite, RunningFinitePrimed, LimitsAssumption
    DEF IInv, LockInv, ClaimInv, EffWorkers, TypeOK
<1>11. JobInv'
  BY <1>4, <1>5, <1>6 DEF IInv, JobInv
<1>12. ProcessInv'
  <2>1. \A p \in live : p[2] \in 1..row'[p[1]].attempts
    BY <1>4, <1>5, RowFields DEF IInv, ProcessInv
  <2>2. ASSUME NEW v \in Workers, pc[v] = "exec"
        PROVE  row'[job[v]].meta # att[v]
    <3>1. job[v] \in Evals /\ row[job[v]].meta # att[v] /\ v # w
      BY <1>7, <2>2 DEF IInv, ProcessInv, JobInv, Working
    <3>2. job[v] = e => att[v] # att[w]
      BY <1>1, <2>2, <3>1 DEF IInv, JobInv, Working
    <3> QED
      BY <1>4, <1>5, <3>1, <3>2
  <2> QED
    BY <1>6, <2>1, <2>2 DEF ProcessInv
<1>13. RowInv' /\ AttemptBound'
  BY <1>1, <1>4, <1>5 DEF IInv, RowInv, AttemptBound, Deferred
<1>14. FencedByWorkerId'
  BY <1>1, <1>4, <1>5, <1>6 DEF IInv, FencedByWorkerId, Owns, JobInv
<1>15. RecordedProcessIsCurrent'
  BY <1>1, <1>4, <1>5, <1>6
  DEF IInv, RecordedProcessIsCurrent, OrphanSuspected
<1> QED
  BY <1>8, <1>9, <1>10, <1>11, <1>12, <1>13, <1>14, <1>15 DEF IInv

\* A conditional write of the claimed row, for any new row r that keeps the
\* attempt count, leaves RUNNING, and goes back to the queue only with an
\* attempt left and no live process named.
LEMMA WriteInv ==
    ASSUME NEW w \in Workers, NEW r \in Row, IInv, pc[w] \in Working,
           Write(w, r),
           r.status \in {"queued", "succeeded", "failed"},
           r.attempts = row[job[w]].attempts,
           r.stage >= row[job[w]].stage,
           r.meta \in {0, att[w], row[job[w]].meta},
           r.status = "queued" =>
               /\ r.meta = 0
               /\ Owns(w) => r.attempts < MaxAttempts + Deferred(r)
    PROVE  IInv'
<1> USE BoundsAssumption
<1> DEFINE e == job[w]
<1>1. /\ e \in Evals /\ row[e] \in Row /\ row[e].attempts \in Nat
      /\ att[w] \in 1..row[e].attempts /\ row[e].meta \in Nat
      /\ row[e].stage \in 0..3 /\ r.stage \in 0..3
  BY DEF IInv, TypeOK, JobInv, Row
<1>2. /\ pc' = [pc EXCEPT ![w] = "idle"]
      /\ job' = [job EXCEPT ![w] = 0]
      /\ att' = [att EXCEPT ![w] = 0]
      /\ result' = [result EXCEPT ![w] = "none"]
      /\ lim' = lim /\ head' = head /\ schedLock' = schedLock
      /\ blockedHeavy' = blockedHeavy /\ lightBypass' = lightBypass
      /\ live' = live /\ crashes' = crashes
  BY DEF Write, BackToIdle, claimVars
<1>3. row' = row \/ (Owns(w) /\ row' = [row EXCEPT ![e] = r])
  BY DEF Write
<1>4. /\ \A f \in Evals : f # e => row'[f] = row[f]
      /\ row'[e] = row[e] \/ (Owns(w) /\ row'[e] = r)
  BY <1>1, <1>3 DEF IInv, TypeOK
<1>5. \A f \in Evals : /\ row'[f].attempts = row[f].attempts
                       /\ row'[f].status \in {"queued", "running"} =>
                            row'[f] = row[f] \/ row'[f].meta = 0
  BY <1>1, <1>4
<1>6. TypeOK'
  BY <1>2, <1>3 DEF IInv, TypeOK, PCs
<1>7. ConcurrencyBound' /\ Cardinality(Running') <= Cardinality(Running)
  <2>1. \A f \in Evals : row'[f].status = "running" =>
               row[f].status = "running" /\ row'[f].cls = row[f].cls
    BY <1>1, <1>4
  <2> QED
    BY <2>1, NoNewRunning DEF IInv
<1>8. LockInv' /\ ClaimInv'
  <2>1. \A f \in Queued : f \in Queued'
    BY <1>1, <1>4 DEF Queued, With, Owns
  <2> QED
    BY <1>2, <1>7, <2>1, RunningFinite, RunningFinitePrimed, LimitsAssumption
    DEF IInv, LockInv, ClaimInv, EffWorkers, TypeOK, Locking, Working
<1>9. JobInv'
  BY <1>2, <1>5 DEF IInv, TypeOK, JobInv, Working
<1>10. ProcessInv'
  <2>1. \A p \in live : p[2] \in 1..row'[p[1]].attempts
    BY <1>5, RowFields DEF IInv, ProcessInv
  <2>2. ASSUME NEW v \in Workers, v # w, pc[v] = "exec"
        PROVE  row'[job[v]].meta # att[v]
    <3>1. /\ job[v] \in Evals /\ row[job[v]].meta # att[v]
          /\ att[v] # 0
      BY <2>2, RowFields DEF IInv, ProcessInv, JobInv, Working
    <3>2. job[v] = e => att[v] # att[w]
      BY <2>2, <3>1 DEF IInv, JobInv, Working
    <3> QED
      BY <1>4, <3>1, <3>2
  <2> QED
    BY <1>2, <2>1, <2>2 DEF IInv, TypeOK, ProcessInv
<1>11. RowInv'
  <2>1. row'[e] = r /\ Owns(w) => r.meta <= r.attempts
    BY <1>1 DEF IInv, RowInv
  <2> QED
    BY <1>1, <1>4, <2>1 DEF IInv, RowInv, Deferred
<1>12. AttemptBound'
  BY <1>1, <1>4 DEF IInv, AttemptBound, Deferred
<1>13. FencedByWorkerId'
  <2>1. ASSUME NEW v \in Workers, v # w, pc[v] \in Working,
               row'[job[v]].status = "running", row'[job[v]].owner = v
        PROVE  att[v] = row'[job[v]].attempts
    <3>1. job[v] \in Evals
      BY <2>1 DEF IInv, JobInv
    <3>2. row'[job[v]] = row[job[v]]
      BY <1>4, <2>1, <3>1
    <3> QED
      BY <2>1, <3>2 DEF IInv, FencedByWorkerId, Owns
  <2> QED
    BY <1>2, <2>1 DEF IInv, TypeOK, FencedByWorkerId, Owns, Working
<1>14. RecordedProcessIsCurrent'
  <2>1. ASSUME NEW f \in Evals PROVE <<f, 0>> \notin live
    BY RowFields DEF IInv, ProcessInv
  <2> QED
    BY <1>2, <1>5, <2>1 DEF IInv, RecordedProcessIsCurrent, OrphanSuspected
<1> QED
  BY <1>6, <1>7, <1>8, <1>9, <1>10, <1>11, <1>12, <1>13, <1>14 DEF IInv

\* mark_succeeded is a result write of a finished row.
LEMMA MarkSucceededInv ==
    ASSUME NEW w \in Workers, IInv, MarkSucceeded(w)
    PROVE  IInv'
<1> DEFINE e == job[w]
<1>1. PICK s \in FinalStages(row[e]) :
        Write(w, [row[e] EXCEPT !.status = "succeeded", !.stage = s,
                    !.meta = IF Synthetic(w) THEN att[w] ELSE 0])
  BY DEF MarkSucceeded
<1> DEFINE r == [row[e] EXCEPT !.status = "succeeded", !.stage = s,
                   !.meta = IF Synthetic(w) THEN att[w] ELSE 0]
<1>2. /\ pc[w] \in Working /\ e \in Evals /\ row[e] \in Row
      /\ att[w] \in Nat
  BY DEF MarkSucceeded, IInv, TypeOK, JobInv, Working
<1>3. s \in 0..3 /\ s >= row[e].stage
  BY <1>2 DEF FinalStages, Row
<1>4. /\ r \in Row /\ r.status = "succeeded" /\ r.stage = s
      /\ r.attempts = row[e].attempts /\ r.meta \in {0, att[w]}
  BY <1>2, <1>3 DEF Row, Statuses
<1> HIDE DEF r
<1>5. Write(w, r)
  BY <1>1 DEF r
<1> QED
  BY <1>2, <1>3, <1>4, <1>5, WriteInv

\* mark_failed is a result write of a finished row.
LEMMA MarkFailedInv ==
    ASSUME NEW w \in Workers, IInv, MarkFailed(w)
    PROVE  IInv'
<1> DEFINE e == job[w]
<1>1. PICK m \in FailedMeta(w) :
        Write(w, [row[e] EXCEPT !.status = "failed", !.meta = m])
  BY DEF MarkFailed
<1> DEFINE r == [row[e] EXCEPT !.status = "failed", !.meta = m]
<1>2. /\ pc[w] \in Working /\ e \in Evals /\ row[e] \in Row
      /\ att[w] \in Nat
  BY DEF MarkFailed, IInv, TypeOK, JobInv, Working
<1>3. m \in {0, att[w], row[e].meta} /\ m \in Nat
  BY <1>2 DEF FailedMeta, Row
<1>4. /\ r \in Row /\ r.status = "failed" /\ r.stage = row[e].stage
      /\ r.attempts = row[e].attempts /\ r.meta = m /\ row[e].stage \in 0..3
  BY <1>2, <1>3 DEF Row, Statuses
<1> HIDE DEF r
<1>5. Write(w, r)
  BY <1>1 DEF r
<1> QED
  BY <1>2, <1>3, <1>4, <1>5, WriteInv

\* release_for_retry requeues a row with an attempt left and no process.
LEMMA ReleaseForRetryInv ==
    ASSUME NEW w \in Workers, IInv, ReleaseForRetry(w)
    PROVE  IInv'
<1> USE BoundsAssumption
<1> DEFINE e == job[w]
<1> DEFINE r == [row[e] EXCEPT !.status = "queued", !.owner = NoWorker,
                               !.meta = 0]
<1>1. Write(w, r) /\ att[w] < MaxAttempts
  BY DEF ReleaseForRetry
<1>2. /\ pc[w] \in Working /\ e \in Evals /\ row[e] \in Row
      /\ att[w] \in Nat
  BY DEF ReleaseForRetry, IInv, TypeOK, JobInv, Working
<1>3. /\ r \in Row /\ r.status = "queued" /\ r.stage = row[e].stage
      /\ r.attempts = row[e].attempts /\ r.meta = 0 /\ row[e].stage \in 0..3
  BY <1>2 DEF Row, Statuses
<1> HIDE DEF r
<1>4. Owns(w) => r.attempts < MaxAttempts + Deferred(r)
  BY <1>1, <1>2, <1>3 DEF IInv, FencedByWorkerId, Deferred
<1> QED
  BY <1>1, <1>2, <1>3, <1>4, WriteInv

\* defer_escalation requeues a row and grants it one more claim.
LEMMA DeferEscalationInv ==
    ASSUME NEW w \in Workers, IInv, DeferEscalation(w)
    PROVE  IInv'
<1> USE BoundsAssumption
<1> DEFINE e == job[w]
<1> DEFINE r == [row[e] EXCEPT !.status = "queued", !.owner = NoWorker,
                               !.stage = 2, !.cls = "heavy", !.meta = 0]
<1>1. Write(w, r) /\ row[e].stage < 2
  BY DEF DeferEscalation, Deferrable
<1>2. /\ pc[w] \in Working /\ e \in Evals /\ row[e] \in Row
      /\ att[w] \in Nat
  BY DEF DeferEscalation, IInv, TypeOK, JobInv, Working
<1>3. /\ r \in Row /\ r.status = "queued" /\ r.stage = 2
      /\ r.attempts = row[e].attempts /\ r.meta = 0 /\ row[e].stage \in 0..3
      /\ row[e].attempts \in Nat
  <2>0. 2 \in 0..3 /\ "heavy" \in Classes /\ "queued" \in Statuses /\ 0 \in Nat
    BY DEF Classes, Statuses
  <2>1. r \in Row
    <3> DEFINE r1 == [row[e] EXCEPT !.status = "queued", !.owner = NoWorker]
    <3> DEFINE r2 == [r1 EXCEPT !.stage = 2, !.cls = "heavy"]
    <3>1. r1 \in Row
      BY <1>2, <2>0 DEF Row
    <3>2. r2 \in Row
      <4> HIDE DEF r1
      <4> QED
        BY <2>0, <3>1 DEF Row
    <3>3. [r2 EXCEPT !.meta = 0] \in Row
      <4> HIDE DEF r2
      <4> QED
        BY <2>0, <3>2 DEF Row
    <3>4. r = [r2 EXCEPT !.meta = 0]
      OBVIOUS
    <3> QED
      BY <3>3, <3>4
  <2> QED
    BY <1>2, <2>1 DEF Row
<1> HIDE DEF r
<1>4. Owns(w) => r.attempts < MaxAttempts + Deferred(r)
  BY <1>1, <1>2, <1>3 DEF IInv, AttemptBound, Deferred
<1> QED
  BY <1>1, <1>2, <1>3, <1>4, WriteInv

\* Stale recovery: every recorded process it does not quarantine is dead when
\* its row goes back to the queue.
LEMMA RecoverInv ==
    ASSUME NEW w \in Workers, NEW S, NEW Stuck, IInv, Recover(w, S, Stuck)
    PROVE  IInv'
<1> USE BoundsAssumption, WorkersAssumption
<1>1. /\ S \subseteq Running /\ S \subseteq Evals
      /\ live' = live \ {<<e, row[e].meta>> : e \in S \ Stuck}
      /\ row' = [e \in Evals |-> IF e \in S THEN Recovered(e, e \in Stuck)
                                 ELSE row[e]]
      /\ pc' = pc /\ lim' = lim /\ head' = head /\ job' = job /\ att' = att
      /\ result' = result /\ schedLock' = schedLock
      /\ blockedHeavy' = blockedHeavy /\ lightBypass' = lightBypass
      /\ crashes' = crashes
  BY DEF Recover, Contained, claimVars, jobVars, Running, With
<1>2. ASSUME NEW e \in S
      PROVE  /\ row[e].status = "running" /\ row'[e] \in Row
             /\ row'[e].status \in {"queued", "failed"}
             /\ row'[e].status = "queued" =>
                  e \notin Stuck /\ row[e].attempts < MaxAttempts
             /\ row'[e].attempts = row[e].attempts
             /\ row'[e].stage = row[e].stage
             /\ row'[e].meta = row[e].meta
             /\ row'[e].owner = NoWorker
  <2>1. e \in Evals /\ row[e].status = "running" /\ row[e] \in Row
    BY <1>1 DEF Running, With, IInv, TypeOK
  <2> DEFINE st == IF e \in Stuck \/ row[e].attempts >= MaxAttempts
                   THEN "failed" ELSE "queued"
  <2>2. row'[e] = [row[e] EXCEPT !.owner = NoWorker, !.status = st]
    BY <1>1, <2>1 DEF Recovered
  <2>3. /\ st \in {"queued", "failed"} /\ row[e].attempts \in Nat
        /\ st = "queued" => e \notin Stuck /\ row[e].attempts < MaxAttempts
    BY <2>1 DEF Row
  <2> HIDE DEF st
  <2>4. row'[e] \in Row
    BY <2>1, <2>2, <2>3 DEF Row, Statuses
  <2> QED
    BY <2>1, <2>2, <2>3, <2>4 DEF Row
<1>3. \A e \in Evals : e \notin S => row'[e] = row[e]
  BY <1>1
<1>4. TypeOK'
  <2>1. row' \in [Evals -> Row]
    BY <1>1, <1>2, <1>3 DEF IInv, TypeOK
  <2> QED
    BY <1>1, <2>1 DEF IInv, TypeOK
<1>5. ConcurrencyBound' /\ Cardinality(Running') <= Cardinality(Running)
  <2>1. \A f \in Evals : row'[f].status = "running" =>
               row[f].status = "running" /\ row'[f].cls = row[f].cls
    BY <1>2, <1>3
  <2> QED
    BY <2>1, NoNewRunning DEF IInv
<1>6. LockInv' /\ ClaimInv'
  <2>1. \A f \in Queued : f \in Queued'
    BY <1>2, <1>3 DEF Queued, With
  <2> QED
    BY <1>1, <1>5, <2>1, RunningFinite, RunningFinitePrimed, LimitsAssumption
    DEF IInv, LockInv, ClaimInv, EffWorkers, TypeOK
<1>7. \A e \in Evals : /\ row'[e].attempts = row[e].attempts
                       /\ row'[e].meta = row[e].meta
                       /\ row'[e].stage = row[e].stage
  BY <1>2, <1>3
<1>8. JobInv'
  BY <1>1, <1>7 DEF IInv, JobInv
<1>9. ProcessInv'
  BY <1>1, <1>7, RowFields DEF IInv, ProcessInv, JobInv, Working
<1>10. RowInv'
  <2>1. ASSUME NEW e \in S
        PROVE  row'[e].status = "queued" =>
                 row'[e].attempts < MaxAttempts + Deferred(row'[e])
    <3>1. e \in Evals /\ row[e].attempts \in Nat /\ row'[e].stage \in 0..3
      BY <1>1, <1>2, <1>7, RowFields DEF IInv
    <3>2. row'[e].status = "queued" => row'[e].attempts < MaxAttempts
      BY <1>2, <2>1
    <3> QED
      BY <1>2, <3>1, <3>2 DEF Deferred
  <2> QED
    BY <1>2, <1>3, <1>7, <2>1 DEF IInv, RowInv
<1>11. AttemptBound'
  BY <1>7 DEF IInv, AttemptBound, Deferred
<1>12. FencedByWorkerId'
  BY <1>1, <1>2, <1>3 DEF IInv, FencedByWorkerId, Owns, JobInv
<1>13. RecordedProcessIsCurrent'
  <2>1. ASSUME NEW e \in S, row'[e].status \in {"queued", "running"}
        PROVE  <<e, row[e].meta>> \notin live'
    BY <1>1, <1>2, <2>1
  <2>2. \A e \in Evals : <<e, row[e].meta>> \in live' => <<e, row[e].meta>> \in live
    BY <1>1
  <2> QED
    BY <1>2, <1>3, <1>7, <2>1, <2>2
    DEF IInv, RecordedProcessIsCurrent, OrphanSuspected
<1> QED
  BY <1>4, <1>5, <1>6, <1>8, <1>9, <1>10, <1>11, <1>12, <1>13 DEF IInv

-----------------------------------------------------------------------------
(* The inductive step, one case per action. *)

\* Every step preserves the invariant: one case per action.
LEMMA NextInv == IInv /\ [Next]_vars => IInv'
<1> SUFFICES ASSUME IInv, [Next]_vars PROVE IInv'
  OBVIOUS
<1>1. CASE UNCHANGED vars
  <2>1. /\ row' = row /\ blockedHeavy' = blockedHeavy
        /\ lightBypass' = lightBypass /\ schedLock' = schedLock /\ pc' = pc
        /\ lim' = lim /\ head' = head /\ job' = job /\ att' = att
        /\ result' = result /\ live' = live /\ crashes' = crashes
    BY <1>1 DEF vars, dbVars, claimVars, jobVars
  <2>2. TypeOK' /\ LockInv' /\ ClaimInv'
    BY <2>1, SameRows DEF IInv, TypeOK, LockInv, ClaimInv, EffWorkers
  <2>3. JobInv' /\ ProcessInv'
    BY <2>1 DEF IInv, JobInv, ProcessInv
  <2>4. FencedByWorkerId' /\ RecordedProcessIsCurrent'
    BY <2>1 DEF IInv, FencedByWorkerId, Owns, RecordedProcessIsCurrent,
       OrphanSuspected
  <2> QED
    BY <2>1, <2>2, <2>3, <2>4, SameRows DEF IInv
<1>2. ASSUME NEW e \in Evals, NEW k \in Kinds, Submit(e, k) PROVE IInv'
  BY <1>2, SubmitInv
<1>3. ASSUME NEW p \in live, ProcessExits(p) PROVE IInv'
  BY <1>3, ProcessExitsInv
<1>4. ASSUME NEW w \in Workers, Poll(w) PROVE IInv'
  BY <1>4, PollInv
<1>5. ASSUME NEW w \in Workers, ClaimStep(w) PROVE IInv'
  <2>1. CASE ClaimLock(w)
    BY <2>1, ClaimLockInv
  <2>2. CASE ClaimSelect(w)
    BY <2>2, ClaimSelectInv
  <2>3. CASE ClaimHead(w)
    <3>1. /\ pc[w] = "decide" /\ head[w] \in Queued /\ Claim(w, head[w])
          /\ blockedHeavy' = 0 /\ lightBypass' = 0 /\ ~HeadBlocked(w)
      BY <2>3 DEF ClaimHead, IInv, ClaimInv
    <3>2. lim[w].mw \in Nat /\ lim[w].mh \in Nat
      BY <3>1, LimitsAssumption DEF IInv, ClaimInv, Locking
    <3>3. EffHeavy(lim[w]) \in Nat
      BY <3>2 DEF EffHeavy, EffWorkers
    <3>4. row[head[w]].cls = "heavy" =>
            Cardinality(RunningHeavy) < EffHeavy(lim[w])
      BY <3>1, <3>3, RunningFinite DEF HeadBlocked
    <3> QED
      BY <3>1, <3>4, ClaimStepInv
  <2>4. CASE ClaimBlocked(w)
    BY <2>4, ClaimBlockedInv
  <2>5. CASE ClaimBypass(w)
    <3>1. pc[w] = "bypass" /\ schedLock = w /\ head[w] \in Evals
      BY <2>5 DEF ClaimBypass, IInv, LockInv, Locking, ClaimInv, Queued, With
    <3>2. CASE GiveUp(w)
      BY <3>1, <3>2, GiveUpInv DEF Locking
    <3>3. ASSUME NEW e \in Evals, IsSuccessor(e), row[e].cls = "light",
                 blockedHeavy' = head[w], lightBypass' = BypassCount(w) + 1,
                 Claim(w, e)
          PROVE  IInv'
      <4>1. e \in Queued
        BY <3>3 DEF IsSuccessor
      <4>2. lightBypass' \in Nat
        BY <3>3 DEF BypassCount, IInv, TypeOK
      <4> QED
        BY <3>1, <3>3, <4>1, <4>2, ClaimStepInv
    <3> QED
      BY <2>5, <3>2, <3>3 DEF ClaimBypass
  <2> QED
    BY <1>5, <2>1, <2>2, <2>3, <2>4, <2>5 DEF ClaimStep
<1>6. ASSUME NEW w \in Workers, ExecuteStep(w) PROVE IInv'
  <2>1. CASE Spawn(w)
    BY <2>1, SpawnInv
  <2>2. CASE StartFailure(w)
    BY <2>2, ExecutionEndsInv DEF StartFailure
  <2>3. ASSUME NEW res \in {"success", "failure"}, NEW leaked \in BOOLEAN,
               ExecutorReturns(w, res, leaked)
        PROVE  IInv'
    BY <2>3, ExecutionEndsInv DEF ExecutorReturns, TerminateTree
  <2> QED
    BY <1>6, <2>1, <2>2, <2>3 DEF ExecuteStep
<1>7. ASSUME NEW w \in Workers, PersistStarted(w) PROVE IInv'
  BY <1>7, PersistStartedInv
<1>8. ASSUME NEW w \in Workers, ResultStep(w) PROVE IInv'
  BY <1>8, MarkSucceededInv, MarkFailedInv, ReleaseForRetryInv,
     DeferEscalationInv DEF ResultStep
<1>9. ASSUME NEW w \in Workers, Crash(w) PROVE IInv'
  BY <1>9, CrashInv
<1>10. ASSUME NEW w \in Workers, RecoverStep(w) PROVE IInv'
  BY <1>10, RecoverInv DEF RecoverStep
<1> QED
  BY <1>1, <1>2, <1>3, <1>4, <1>5, <1>6, <1>7, <1>8, <1>9, <1>10 DEF Next

\* Every reachable state satisfies the inductive invariant.
THEOREM InductiveInvariant == Spec => []IInv
  BY InitInv, NextInv, PTL DEF Spec

\* The state of the database, the workers and the processes is well typed.
THEOREM TypeCorrect == Spec => []TypeOK
<1>1. IInv => TypeOK
  BY DEF IInv
<1> QED
  BY <1>1, InductiveInvariant, PTL

\* claim_next respects both concurrency budgets, for any number of workers.
THEOREM ConcurrencyBounded == Spec => []ConcurrencyBound
<1>1. IInv => ConcurrencyBound
  BY DEF IInv
<1> QED
  BY <1>1, InductiveInvariant, PTL

\* No evaluation is claimed more than MaxAttempts times, once more if deferred.
THEOREM AttemptsBounded == Spec => []AttemptBound
<1>1. IInv => AttemptBound
  BY DEF IInv
<1> QED
  BY <1>1, InductiveInvariant, PTL

\* The worker_id check of the result writes also fences attempts.
THEOREM WorkerIdFences == Spec => []FencedByWorkerId
<1>1. IInv => FencedByWorkerId
  BY DEF IInv
<1> QED
  BY <1>1, InductiveInvariant, PTL

\* Recovery never requeues a row that names a live process.
THEOREM RecordedProcessContained == Spec => []RecordedProcessIsCurrent
<1>1. IInv => RecordedProcessIsCurrent
  BY DEF IInv
<1> QED
  BY <1>1, InductiveInvariant, PTL

-----------------------------------------------------------------------------
(* What a step may do to the table. *)

\* A step changes no row, or accepts one, claims one, names the process of
\* one, writes the result of one its worker owns, or recovers some.
LEMMA TableStep ==
    ASSUME IInv, [Next]_vars
    PROVE  \/ row' = row
           \/ \E e \in Evals, k \in Kinds : Submit(e, k)
           \/ \E w \in Workers : \E e \in Queued :
                 pc[w] \in {"decide", "bypass"} /\ Claim(w, e)
           \/ \E w \in Workers : PersistStarted(w)
           \/ \E w \in Workers : ResultStep(w) /\ Owns(w)
           \/ \E w \in Workers : RecoverStep(w)
<1>1. CASE UNCHANGED vars
  BY <1>1 DEF vars, dbVars
<1>2. ASSUME NEW p \in live, ProcessExits(p) PROVE row' = row
  BY <1>2 DEF ProcessExits, dbVars
<1>3. ASSUME NEW w \in Workers, Poll(w) \/ ExecuteStep(w) \/ Crash(w)
      PROVE  row' = row
  BY <1>3 DEF Poll, ExecuteStep, Spawn, StartFailure, ExecutorReturns, Crash,
     dbVars
<1>4. ASSUME NEW w \in Workers, ClaimStep(w)
      PROVE  \/ row' = row
             \/ \E e \in Queued : pc[w] \in {"decide", "bypass"} /\ Claim(w, e)
  <2>1. CASE GiveUp(w)
    BY <2>1 DEF GiveUp
  <2>2. CASE ~GiveUp(w) /\ (ClaimLock(w) \/ ClaimSelect(w) \/ ClaimBlocked(w))
    BY <2>2 DEF ClaimLock, ClaimSelect, ClaimBlocked, dbVars
  <2>3. CASE ClaimHead(w)
    BY <2>3 DEF ClaimHead, IInv, ClaimInv
  <2>4. CASE ~GiveUp(w) /\ ClaimBypass(w)
    BY <2>4 DEF ClaimBypass, IsSuccessor
  <2> QED
    BY <1>4, <2>1, <2>2, <2>3, <2>4 DEF ClaimStep
<1>5. ASSUME NEW w \in Workers, ResultStep(w), ~Owns(w) PROVE row' = row
  BY <1>5 DEF ResultStep, MarkSucceeded, MarkFailed, ReleaseForRetry,
     DeferEscalation, Write
<1> QED
  BY <1>1, <1>2, <1>3, <1>4, <1>5 DEF Next

\* A result write of an owner: one RUNNING row, that of its worker's latest
\* attempt, moves to a status other than RUNNING.
LEMMA ResultWrite ==
    ASSUME NEW w \in Workers, IInv, ResultStep(w), Owns(w)
    PROVE  /\ pc[w] \in Working /\ pc'[w] = "idle" /\ job[w] \in Evals
           /\ row[job[w]].status = "running"
           /\ att[w] = row[job[w]].attempts
           /\ row'[job[w]].status \in {"succeeded", "failed", "queued"}
           /\ row'[job[w]].attempts = row[job[w]].attempts
           /\ \A f \in Evals : f # job[w] => row'[f] = row[f]
           /\ row' = [row EXCEPT ![job[w]] = row'[job[w]]]
<1> DEFINE e == job[w]
<1>1. /\ pc[w] \in Working /\ e \in Evals /\ row[e] \in Row
      /\ row \in [Evals -> Row]
  BY DEF ResultStep, MarkSucceeded, MarkFailed, ReleaseForRetry,
     DeferEscalation, IInv, TypeOK, JobInv, Working
<1> DEFINE IsResult(r) == /\ r.status \in {"succeeded", "failed", "queued"}
                          /\ r.attempts = row[e].attempts
<1>2. \E r : Write(w, r) /\ IsResult(r)
  <2>1. CASE MarkSucceeded(w)
    <3>1. PICK s : Write(w, [row[e] EXCEPT !.status = "succeeded", !.stage = s,
                               !.meta = IF Synthetic(w) THEN att[w] ELSE 0])
      BY <2>1 DEF MarkSucceeded
    <3>2. IsResult([row[e] EXCEPT !.status = "succeeded", !.stage = s,
                      !.meta = IF Synthetic(w) THEN att[w] ELSE 0])
      BY <1>1 DEF Row
    <3> QED
      BY <3>1, <3>2
  <2>2. CASE MarkFailed(w)
    <3>1. PICK m : Write(w, [row[e] EXCEPT !.status = "failed", !.meta = m])
      BY <2>2 DEF MarkFailed
    <3>2. IsResult([row[e] EXCEPT !.status = "failed", !.meta = m])
      BY <1>1 DEF Row
    <3> QED
      BY <3>1, <3>2
  <2>3. CASE ReleaseForRetry(w)
    <3>1. Write(w, [row[e] EXCEPT !.status = "queued", !.owner = NoWorker,
                                  !.meta = 0])
      BY <2>3 DEF ReleaseForRetry
    <3>2. IsResult([row[e] EXCEPT !.status = "queued", !.owner = NoWorker,
                                  !.meta = 0])
      BY <1>1 DEF Row
    <3> QED
      BY <3>1, <3>2
  <2>4. CASE DeferEscalation(w)
    <3>1. Write(w, [row[e] EXCEPT !.status = "queued", !.owner = NoWorker,
                      !.stage = 2, !.cls = "heavy", !.meta = 0])
      BY <2>4 DEF DeferEscalation
    <3>2. IsResult([row[e] EXCEPT !.status = "queued", !.owner = NoWorker,
                      !.stage = 2, !.cls = "heavy", !.meta = 0])
      BY <1>1 DEF Row
    <3> QED
      BY <3>1, <3>2
  <2> QED
    BY <2>1, <2>2, <2>3, <2>4 DEF ResultStep
<1>3. PICK r : Write(w, r) /\ IsResult(r)
  BY <1>2
<1>4. row' = [row EXCEPT ![e] = r] /\ pc' = [pc EXCEPT ![w] = "idle"]
  BY <1>3 DEF Write, BackToIdle
<1> QED
  BY <1>1, <1>3, <1>4 DEF IInv, TypeOK, Owns, FencedByWorkerId

\* create_queued takes an unused row to QUEUED.
LEMMA SubmitRow ==
    ASSUME NEW e \in Evals, NEW k \in Kinds, IInv, Submit(e, k)
    PROVE  /\ row[e].status = "none" /\ row'[e].status = "queued"
           /\ row'[e].attempts = row[e].attempts
           /\ \A f \in Evals : f # e => row'[f] = row[f]
<1> DEFINE r == [row[e] EXCEPT !.status = "queued", !.cls = k.cls,
                               !.mode = k.mode]
<1>1. row' = [row EXCEPT ![e] = r] /\ row[e] \in Row /\ row \in [Evals -> Row]
      /\ row[e].status = "none"
  BY DEF Submit, IInv, TypeOK
<1>2. r.status = "queued" /\ r.attempts = row[e].attempts
  BY <1>1 DEF Row
<1> HIDE DEF r
<1> QED
  BY <1>1, <1>2

\* A claim takes a QUEUED row to RUNNING and counts one attempt.
LEMMA ClaimRow ==
    ASSUME NEW w \in Workers, NEW e \in Queued, IInv, Claim(w, e)
    PROVE  /\ e \in Evals /\ row[e].status = "queued"
           /\ row'[e].status = "running"
           /\ row'[e].attempts = row[e].attempts + 1
           /\ \A f \in Evals : f # e => row'[f] = row[f]
<1> DEFINE r == [row[e] EXCEPT !.status = "running",
                               !.attempts = row[e].attempts + 1, !.owner = w]
<1>1. /\ row' = [row EXCEPT ![e] = r] /\ e \in Evals /\ row[e] \in Row
      /\ row \in [Evals -> Row] /\ row[e].status = "queued"
  BY DEF Claim, IInv, TypeOK, Queued, With
<1>2. r.status = "running" /\ r.attempts = row[e].attempts + 1
  BY <1>1 DEF Row
<1> HIDE DEF r
<1> QED
  BY <1>1, <1>2

\* begin_execution_attempt changes only the metadata of a RUNNING row.
LEMMA PersistStartedRow ==
    ASSUME NEW w \in Workers, IInv, PersistStarted(w)
    PROVE  \A f \in Evals : /\ row'[f].status = row[f].status
                            /\ row'[f].attempts = row[f].attempts
                            /\ row'[f] # row[f] => row[f].status = "running"
<1> DEFINE e == job[w]
<1> DEFINE r == [row[e] EXCEPT !.meta = att[w]]
<1>1. /\ row' = [row EXCEPT ![e] = r] /\ e \in Evals /\ row[e] \in Row
      /\ row \in [Evals -> Row] /\ row[e].status = "running"
  BY DEF PersistStarted, Owns, IInv, TypeOK, JobInv, Working
<1>2. r.status = "running" /\ r.attempts = row[e].attempts
  BY <1>1 DEF Row
<1> HIDE DEF r
<1> QED
  BY <1>1, <1>2

\* Recovery changes RUNNING rows only, to QUEUED or FAILED.
LEMMA RecoverRows ==
    ASSUME NEW w \in Workers, NEW S, NEW Stuck, IInv, Recover(w, S, Stuck)
    PROVE  /\ S # {} /\ S \subseteq Running
           /\ \A f \in Evals : f \notin S => row'[f] = row[f]
           /\ \A f \in S : /\ row'[f].status \in {"queued", "failed"}
                            /\ row'[f].owner = NoWorker
                            /\ row'[f].attempts = row[f].attempts
<1>1. /\ S # {} /\ S \subseteq Running
      /\ row' = [e \in Evals |-> IF e \in S THEN Recovered(e, e \in Stuck)
                                 ELSE row[e]]
  BY DEF Recover
<1>2. ASSUME NEW f \in S
      PROVE  /\ row'[f].status \in {"queued", "failed"}
             /\ row'[f].owner = NoWorker
             /\ row'[f].attempts = row[f].attempts
  <2> DEFINE st == IF f \in Stuck \/ row[f].attempts >= MaxAttempts
                   THEN "failed" ELSE "queued"
  <2>1. /\ row'[f] = [row[f] EXCEPT !.owner = NoWorker, !.status = st]
        /\ row[f] \in Row
    BY <1>1 DEF Running, With, Recovered, IInv, TypeOK
  <2>2. st \in {"queued", "failed"}
    OBVIOUS
  <2> HIDE DEF st
  <2> QED
    BY <2>1, <2>2 DEF Row
<1> QED
  BY <1>1, <1>2

\* SUCCEEDED and FAILED rows are never written again.
THEOREM TerminalStaysFinal == Spec => TerminalIsFinal
<1>1. ASSUME IInv, [Next]_vars
      PROVE  [\A e \in Evals : row[e].status \in Terminal => row'[e] = row[e]]_vars
  <2>1. CASE row' = row
    BY <2>1
  <2>2. ASSUME NEW e \in Evals, NEW k \in Kinds, Submit(e, k)
        PROVE  \A f \in Evals : row[f].status \in Terminal => row'[f] = row[f]
    BY <1>1, <2>2, SubmitRow DEF Terminal
  <2>3. ASSUME NEW w \in Workers, NEW e \in Queued, Claim(w, e)
        PROVE  \A f \in Evals : row[f].status \in Terminal => row'[f] = row[f]
    BY <1>1, <2>3, ClaimRow DEF Terminal
  <2>4. ASSUME NEW w \in Workers, PersistStarted(w)
        PROVE  \A f \in Evals : row[f].status \in Terminal => row'[f] = row[f]
    BY <1>1, <2>4, PersistStartedRow DEF Terminal
  <2>5. ASSUME NEW w \in Workers, ResultStep(w), Owns(w)
        PROVE  \A f \in Evals : row[f].status \in Terminal => row'[f] = row[f]
    BY <1>1, <2>5, ResultWrite DEF Terminal
  <2>6. ASSUME NEW w \in Workers, RecoverStep(w)
        PROVE  \A f \in Evals : row[f].status \in Terminal => row'[f] = row[f]
    <3>1. PICK S, Stuck : Recover(w, S, Stuck)
      BY <2>6 DEF RecoverStep
    <3> QED
      BY <1>1, <3>1, RecoverRows DEF Terminal, Running, With
  <2> QED
    BY <1>1, <2>1, <2>2, <2>3, <2>4, <2>5, <2>6, TableStep
<1> QED
  BY <1>1, InductiveInvariant, PTL DEF Spec, TerminalIsFinal

\* A worker whose row was taken from it can no longer write a result.
THEOREM LateResultsDiscarded == Spec => NoLateResult
<1> DEFINE A == \A e \in Evals :
                  /\ row'[e] # row[e]
                  /\ row'[e].status \in Terminal
                  /\ row'[e].owner # NoWorker
                  => \E w \in Workers : /\ pc[w] \in Working
                                        /\ job[w] = e
                                        /\ att[w] = row[e].attempts
                                        /\ pc'[w] = "idle"
<1>1. ASSUME IInv, [Next]_vars PROVE [A]_vars
  <2>1. CASE row' = row
    BY <2>1
  <2>2. ASSUME NEW e \in Evals, NEW k \in Kinds, Submit(e, k) PROVE A
    BY <1>1, <2>2, SubmitRow DEF Terminal
  <2>3. ASSUME NEW w \in Workers, NEW e \in Queued, Claim(w, e) PROVE A
    BY <1>1, <2>3, ClaimRow DEF Terminal
  <2>4. ASSUME NEW w \in Workers, PersistStarted(w) PROVE A
    BY <1>1, <2>4, PersistStartedRow DEF Terminal
  <2>5. ASSUME NEW w \in Workers, ResultStep(w), Owns(w) PROVE A
    BY <1>1, <2>5, ResultWrite DEF Terminal
  <2>6. ASSUME NEW w \in Workers, RecoverStep(w) PROVE A
    <3>1. PICK S, Stuck : Recover(w, S, Stuck)
      BY <2>6 DEF RecoverStep
    <3> QED
      BY <1>1, <3>1, RecoverRows DEF Terminal
  <2> QED
    BY <1>1, <2>1, <2>2, <2>3, <2>4, <2>5, <2>6, TableStep
<1> QED
  BY <1>1, InductiveInvariant, PTL DEF Spec, NoLateResult

-----------------------------------------------------------------------------
(* Refinement of the abstract life cycle. *)

\* Each step of the queue is a step of the life cycle or changes neither the
\* status nor the attempt count of any row.
LEMMA LifecycleStep ==
    ASSUME IInv, [Next]_vars
    PROVE  [Lifecycle!LNext]_(Lifecycle!lifecycleVars)
<1> USE BoundsAssumption
<1> DEFINE status == [e \in Evals |-> row[e].status]
           tries  == [e \in Evals |-> row[e].attempts]
<1> DEFINE Stutter == status' = status /\ tries' = tries
<1>s. ASSUME Stutter PROVE UNCHANGED Lifecycle!lifecycleVars
  BY <1>s DEF Lifecycle!lifecycleVars
<1>1. CASE row' = row
  <2>1. Stutter
    BY <1>1
  <2> QED
    BY <1>s, <2>1
<1>2. ASSUME NEW e \in Evals, NEW k \in Kinds, Submit(e, k)
      PROVE  Lifecycle!LNext
  <2>1. status[e] = "none" /\ status' = [status EXCEPT ![e] = "queued"]
        /\ tries' = tries
    BY <1>2, SubmitRow
  <2> QED
    BY <2>1 DEF Lifecycle!LNext, Lifecycle!Accept
<1>3. ASSUME NEW w \in Workers, NEW e \in Queued,
             pc[w] \in {"decide", "bypass"}, Claim(w, e)
      PROVE  Lifecycle!LNext
  <2>1. /\ e \in Evals /\ status[e] = "queued"
        /\ status' = [status EXCEPT ![e] = "running"]
        /\ tries' = [tries EXCEPT ![e] = tries[e] + 1]
    BY <1>3, ClaimRow
  <2>2. tries[e] < MaxAttempts + 1
    <3>1. row[e].attempts < MaxAttempts + Deferred(row[e])
      BY <2>1 DEF IInv, RowInv
    <3> QED
      BY <2>1, <3>1, RowFields DEF Deferred, IInv
  <2>3. Cardinality(Running) < MaxWorkers
    <3>1. lim[w] \in Limits /\ Cardinality(Running) < EffWorkers(lim[w])
      BY <1>3 DEF IInv, ClaimInv, Locking
    <3>2. EffWorkers(lim[w]) <= MaxWorkers /\ EffWorkers(lim[w]) \in Nat
      BY <3>1, LimitsAssumption DEF EffWorkers
    <3> QED
      BY <3>1, <3>2, RunningFinite
  <2>4. Running = Lifecycle!InProgress
    BY DEF Running, With, Lifecycle!InProgress
  <2>5. Cardinality(Lifecycle!InProgress) < MaxWorkers
    BY <2>3, <2>4
  <2>c. \A T : Lifecycle!Cardinality(T) = Cardinality(T)
    BY DEF Lifecycle!Cardinality, Cardinality
  <2>6. Lifecycle!Start(e)
    BY <2>1, <2>2, <2>5, <2>c DEF Lifecycle!Start
  <2> QED
    BY <2>1, <2>6 DEF Lifecycle!LNext
<1>4. ASSUME NEW w \in Workers, PersistStarted(w) PROVE Stutter
  BY <1>4, PersistStartedRow
<1>5. ASSUME NEW S, S # {}, S \subseteq Running,
             \A f \in Evals : f \notin S => row'[f] = row[f],
             \A f \in S : /\ row'[f].status \in {"succeeded", "failed", "queued"}
                          /\ row'[f].attempts = row[f].attempts
      PROVE  Lifecycle!LNext
  <2> DEFINE to == [f \in S |-> row'[f].status]
  <2>1. S \in SUBSET Evals /\ S \subseteq Lifecycle!InProgress
    BY <1>5 DEF Running, With, Lifecycle!InProgress
  <2>2. to \in [S -> {"succeeded", "failed", "queued"}]
    BY <1>5
  <2>3. status' = [e \in Evals |-> IF e \in S THEN to[e] ELSE status[e]]
    BY <1>5, <2>1
  <2>4. tries' = tries
    BY <1>5, <2>1
  <2>5. Lifecycle!Settle(S)
    BY <1>5, <2>1, <2>2, <2>3, <2>4 DEF Lifecycle!Settle
  <2> QED
    BY <2>1, <2>5 DEF Lifecycle!LNext
<1>6. ASSUME NEW w \in Workers, ResultStep(w), Owns(w) PROVE Lifecycle!LNext
  <2>1. {job[w]} # {} /\ {job[w]} \subseteq Running
    BY <1>6, ResultWrite DEF Running, With
  <2>2. \A f \in Evals : f \notin {job[w]} => row'[f] = row[f]
    BY <1>6, ResultWrite
  <2>3. \A f \in {job[w]} :
           /\ row'[f].status \in {"succeeded", "failed", "queued"}
           /\ row'[f].attempts = row[f].attempts
    BY <1>6, ResultWrite
  <2> QED
    BY <1>5, <2>1, <2>2, <2>3
<1>7. ASSUME NEW w \in Workers, RecoverStep(w) PROVE Lifecycle!LNext
  <2>1. PICK S, Stuck : Recover(w, S, Stuck)
    BY <1>7 DEF RecoverStep
  <2> QED
    BY <1>5, <2>1, RecoverRows
<1> QED
  BY <1>s, <1>1, <1>2, <1>3, <1>4, <1>6, <1>7, TableStep

\* The queue, its workers and their recovery implement the life cycle.
THEOREM QueueImplementsLifecycle == Spec => ImplementsLifecycle
<1>1. Init => Lifecycle!LInit
  BY DEF Init, Lifecycle!LInit
<1> QED
  BY <1>1, LifecycleStep, InductiveInvariant, PTL
  DEF Spec, ImplementsLifecycle, Lifecycle!LSpec
=============================================================================
