------------------------ MODULE ResourceRuntimeProofs ------------------------
(***************************************************************************)
(* Proofs about ResourceRuntime, for every set of rows, workers and hosts  *)
(* and all budgets that satisfy the assumptions.  The composed system is   *)
(* shown to be an EvaluationQueue, so that the theorems about the queue    *)
(* hold of it; what the runtime adds rests on CarriedInv.                  *)
(***************************************************************************)
EXTENDS ResourceRuntime, EvaluationQueueProofs

\* The adapted concurrency of a worker stays within its budget.
LEMMA AdjustedInBudget ==
    ASSUME NEW w \in Workers, RuntimeTypeOK, NEW p
    PROVE  Adjusted(w, p) \in MinWorkers..MaxWorkers
<1> USE RuntimeAssumption, BoundsAssumption
<1>1. eff[w] \in MinWorkers..MaxWorkers /\ MinWorkers \in Nat
  BY DEF RuntimeTypeOK
<1> QED
  BY <1>1 DEF Adjusted

\* The initial states of the composed system satisfy the invariant.
LEMMA RuntimeInitInv == RuntimeInit => RuntimeInv
<1> SUFFICES ASSUME RuntimeInit PROVE RuntimeInv
  OBVIOUS
<1> USE RuntimeAssumption, BoundsAssumption
<1>1. IInv /\ TypeOK
  BY InitInv DEF RuntimeInit, IInv
<1>2. RuntimeTypeOK
  BY <1>1 DEF RuntimeInit, RuntimeTypeOK, NoTick, Pressures
<1>3. CarriedInv
  BY DEF RuntimeInit, Init, CarriedInv, Claiming, Locking
<1> QED
  BY <1>1, <1>2, <1>3 DEF RuntimeInv

\* A step of the queue by worker w concerns no other worker's claim, starts
\* none, and leaves the limits of one that goes on as they are.
LEMMA QueueStepLocal ==
    ASSUME NEW w \in Workers, TypeOK,
           \/ ClaimStep(w) \/ ExecuteStep(w) \/ PersistStarted(w)
           \/ ResultStep(w) \/ RecoverStep(w) \/ Crash(w)
    PROVE  /\ \A v \in Workers \ {w} : pc'[v] = pc[v] /\ lim'[v] = lim[v]
           /\ pc[w] = "idle" => pc'[w] = "idle"
           /\ pc'[w] \in Claiming => pc[w] \in Claiming /\ lim'[w] = lim[w]
<1> DEFINE Local == /\ \A v \in Workers \ {w} : pc'[v] = pc[v] /\ lim'[v] = lim[v]
                    /\ pc[w] = "idle" => pc'[w] = "idle"
                    /\ pc'[w] \in Claiming =>
                         pc[w] \in Claiming /\ lim'[w] = lim[w]
<1>1. pc \in [Workers -> PCs] /\ lim \in [Workers -> Limits \cup {NoLimits}]
  BY DEF TypeOK
<1>2. ASSUME NEW s, pc' = [pc EXCEPT ![w] = s],
             pc[w] = "idle" => s = "idle",
             \/ lim' = [lim EXCEPT ![w] = NoLimits] /\ s \notin Claiming
             \/ lim' = lim /\ (s \in Claiming => pc[w] \in Claiming)
      PROVE  Local
  BY <1>1, <1>2
<1>3. CASE GiveUp(w)
  BY <1>2, <1>3 DEF GiveUp, Claiming, Locking
<1>4. CASE ClaimStep(w)
  <2>1. ASSUME NEW e, Claim(w, e), pc[w] # "idle" PROVE Local
    BY <1>2, <2>1 DEF Claim, Claiming, Locking
  <2>2. CASE ClaimLock(w)
    BY <1>2, <1>3, <2>2 DEF ClaimLock, claimVars, Claiming, Locking
  <2>3. CASE ClaimSelect(w)
    BY <1>2, <1>3, <2>3 DEF ClaimSelect, Claiming, Locking
  <2>4. CASE ClaimHead(w)
    BY <2>1, <2>4 DEF ClaimHead
  <2>5. CASE ClaimBlocked(w)
    BY <1>2, <1>3, <2>5 DEF ClaimBlocked, claimVars, Claiming, Locking
  <2>6. CASE ClaimBypass(w)
    BY <1>3, <2>1, <2>6 DEF ClaimBypass
  <2> QED
    BY <1>4, <2>2, <2>3, <2>4, <2>5, <2>6 DEF ClaimStep
<1>5. CASE ExecuteStep(w)
  <2>1. PICK s \in {"spawned", "ended"} :
          pc' = [pc EXCEPT ![w] = s] /\ lim' = lim /\ pc[w] # "idle"
    BY <1>5 DEF ExecuteStep, Spawn, StartFailure, ExecutorReturns, claimVars
  <2> QED
    BY <1>2, <2>1 DEF Claiming, Locking
<1>6. CASE PersistStarted(w)
  BY <1>1, <1>6 DEF PersistStarted, claimVars
<1>7. CASE ResultStep(w)
  <2>1. pc' = [pc EXCEPT ![w] = "idle"] /\ lim' = lim
    BY <1>7 DEF ResultStep, MarkSucceeded, MarkFailed, ReleaseForRetry,
                DeferEscalation, Write, BackToIdle, claimVars
  <2> QED
    BY <1>2, <2>1 DEF Claiming, Locking
<1>8. CASE RecoverStep(w)
  BY <1>1, <1>8 DEF RecoverStep, Recover, claimVars
<1>9. CASE Crash(w)
  BY <1>2, <1>9 DEF Crash, BackToIdle, Claiming, Locking
<1> QED
  BY <1>4, <1>5, <1>6, <1>7, <1>8, <1>9

-----------------------------------------------------------------------------
(* The composed system is an evaluation queue. *)

\* The limits of a tick are limits the queue allows its polls.
LEMMA TickLimitsAllowed ==
    ASSUME NEW w \in Workers, CarriedInv, tick[w] # NoTick
    PROVE  [mw |-> tick[w].mw, mh |-> tick[w].mh] \in Limits
  BY RuntimeAssumption DEF CarriedInv

\* A persisted tick that was admitted is a poll of the queue.
LEMMA PersistIsPoll ==
    ASSUME NEW w \in Workers, CarriedInv, PersistRuntimeState(w)
    PROVE  Poll(w) \/ UNCHANGED vars
<1>1. tick[w] # NoTick /\ pc[w] = "idle"
  BY DEF PersistRuntimeState, CarriedInv
<1>2. CASE PollWith(w, tick[w].mw, tick[w].mh)
  BY <1>1, <1>2, TickLimitsAllowed DEF PollWith, Poll
<1> QED
  BY <1>2 DEF PersistRuntimeState

\* Every step of the composition is a step of the queue or leaves it alone.
LEMMA QueueSimulation ==
    ASSUME RuntimeInv, [RuntimeNext]_allVars
    PROVE  [Next]_vars
<1>1. CASE UNCHANGED allVars
  BY <1>1 DEF allVars
<1>2. CASE \/ \E e \in Evals, k \in Kinds : Submit(e, k)
           \/ \E p \in live : ProcessExits(p)
  BY <1>2 DEF Next
<1>3. ASSUME NEW w \in Workers,
             \/ Tick(w) \/ CooldownEnds(w) \/ Restart(w)
             \/ \E h \in Hosts : HostChanges(w, h)
      PROVE  UNCHANGED vars
  BY <1>3 DEF Tick, CooldownEnds, Restart, HostChanges
<1>4. ASSUME NEW w \in Workers, PersistRuntimeState(w) PROVE [Next]_vars
  BY <1>4, PersistIsPoll DEF RuntimeInv, Next
<1>5. ASSUME NEW w \in Workers, QueueStep(w) \/ Crash(w) PROVE Next
  BY <1>5 DEF QueueStep, Next
<1> QED
  BY <1>1, <1>2, <1>3, <1>4, <1>5 DEF RuntimeNext

-----------------------------------------------------------------------------
(* The invariant is inductive. *)

\* A tick computes limits within the budgets, and none for HEAVY rows when
\* it finds the pressure DEGRADED.
LEMMA TickInv ==
    ASSUME NEW w \in Workers, RuntimeInv, IInv', Tick(w)
    PROVE  RuntimeInv'
<1> USE RuntimeAssumption, BoundsAssumption
<1> DEFINE p == MergePressure(w)
           e == Adjusted(w, p)
<1>1. /\ RuntimeTypeOK /\ CarriedInv /\ TypeOK'
      /\ pc' = pc /\ lim' = lim /\ host' = host /\ pc[w] = "idle"
  BY DEF RuntimeInv, IInv, Tick, vars, claimVars
<1>2. p \in Pressures /\ e \in MinWorkers..MaxWorkers
  BY <1>1, AdjustedInBudget DEF MergePressure, Pressures
<1>3. /\ MaxHeavyUnder(w, p) \in {0, MaxHeavy}
      /\ p = "degraded" => MaxHeavyUnder(w, p) = 0
  BY DEF MaxHeavyUnder
<1>4. Admitted(w, p, e) \in BOOLEAN
  BY DEF Admitted
<1> HIDE DEF p, e
<1>5. CASE RuntimeEnabled
  <2>1. /\ pressure' = [pressure EXCEPT ![w] = p]
        /\ eff' = [eff EXCEPT ![w] = e]
        /\ cooling' = [cooling EXCEPT ![w] = @ \/ e # eff[w]]
        /\ tick' = [tick EXCEPT ![w] = [allowed |-> Admitted(w, p, e),
                                        mw |-> e,
                                        mh |-> MaxHeavyUnder(w, p)]]
    BY <1>5 DEF Tick, p, e
  <2>2. RuntimeTypeOK'
    BY <1>1, <1>2, <1>3, <1>4, <2>1 DEF RuntimeTypeOK
  <2>3. CarriedInv'
    BY <1>1, <1>2, <1>3, <1>5, <2>1
    DEF CarriedInv, RuntimeTypeOK, Claiming, Locking
  <2> QED
    BY <2>2, <2>3 DEF RuntimeInv
<1>6. CASE ~RuntimeEnabled
  <2>1. /\ UNCHANGED <<pressure, eff, cooling>>
        /\ tick' = [tick EXCEPT ![w] = [allowed |-> TRUE, mw |-> MaxWorkers,
                                        mh |-> MaxHeavy]]
    BY <1>6 DEF Tick
  <2>2. RuntimeTypeOK'
    BY <1>1, <2>1 DEF RuntimeTypeOK
  <2>3. CarriedInv'
    BY <1>1, <1>6, <2>1 DEF CarriedInv, RuntimeTypeOK, Claiming, Locking
  <2> QED
    BY <2>2, <2>3 DEF RuntimeInv
<1> QED
  BY <1>5, <1>6

\* A new controller may replace the old one of a worker that claims nothing.
LEMMA FreshRuntimeInv ==
    ASSUME NEW w \in Workers, RuntimeInv, IInv', FreshRuntime(w),
           pc'[w] = "idle",
           \A v \in Workers \ {w} : pc'[v] = pc[v] /\ lim'[v] = lim[v]
    PROVE  RuntimeInv'
<1> USE RuntimeAssumption, BoundsAssumption
<1>1. RuntimeTypeOK /\ CarriedInv /\ TypeOK'
  BY DEF RuntimeInv, IInv
<1>2. RuntimeTypeOK'
  BY <1>1 DEF FreshRuntime, RuntimeTypeOK, NoTick, Pressures
<1>3. CarriedInv'
  BY <1>1 DEF FreshRuntime, RuntimeTypeOK, CarriedInv, Claiming, Locking
<1> QED
  BY <1>2, <1>3 DEF RuntimeInv

\* The invariant of the composition is inductive.
LEMMA RuntimeNextInv == RuntimeInv /\ [RuntimeNext]_allVars => RuntimeInv'
<1> SUFFICES ASSUME RuntimeInv, [RuntimeNext]_allVars PROVE RuntimeInv'
  OBVIOUS
<1>0. IInv /\ TypeOK /\ RuntimeTypeOK /\ CarriedInv
  BY DEF RuntimeInv, IInv
<1>1. IInv' /\ TypeOK'
  BY <1>0, QueueSimulation, NextInv DEF IInv
<1>2. ASSUME UNCHANGED runtimeVars, pc' = pc, lim' = lim PROVE RuntimeInv'
  BY <1>0, <1>1, <1>2
  DEF runtimeVars, RuntimeInv, RuntimeTypeOK, CarriedInv, Claiming
<1>3. CASE UNCHANGED allVars
  BY <1>2, <1>3 DEF allVars, vars, claimVars
<1>4. CASE /\ \/ \E e \in Evals, k \in Kinds : Submit(e, k)
              \/ \E p \in live : ProcessExits(p)
           /\ UNCHANGED runtimeVars
  BY <1>2, <1>4 DEF Submit, ProcessExits, claimVars
<1>5. ASSUME NEW w \in Workers, Tick(w) PROVE RuntimeInv'
  BY <1>1, <1>5, TickInv
<1>6. ASSUME NEW w \in Workers, PersistRuntimeState(w) PROVE RuntimeInv'
  <2>1. /\ tick[w] # NoTick /\ tick' = [tick EXCEPT ![w] = NoTick]
        /\ UNCHANGED <<host, eff, cooling, pressure>>
    BY <1>6 DEF PersistRuntimeState
  <2>2. RuntimeTypeOK'
    BY <1>0, <1>1, <2>1, BoundsAssumption DEF RuntimeTypeOK, NoTick
  <2>3. CASE UNCHANGED vars
    <3>1. CarriedInv'
      BY <1>0, <2>1, <2>3
      DEF CarriedInv, RuntimeTypeOK, vars, claimVars, Claiming
    <3> QED
      BY <1>1, <2>2, <3>1 DEF RuntimeInv
  <2>4. CASE PollWith(w, tick[w].mw, tick[w].mh)
    <3>1. /\ lim' = [lim EXCEPT ![w] = [mw |-> tick[w].mw, mh |-> tick[w].mh]]
          /\ pc' = [pc EXCEPT ![w] = "claim"]
      BY <2>4 DEF PollWith
    <3>2. CarriedInv'
      BY <1>0, <2>1, <3>1 DEF CarriedInv, RuntimeTypeOK, TypeOK, Claiming
    <3> QED
      BY <1>1, <2>2, <3>2 DEF RuntimeInv
  <2> QED
    BY <1>6, <2>3, <2>4 DEF PersistRuntimeState
<1>7. ASSUME NEW w \in Workers,
             CooldownEnds(w) \/ \E h \in Hosts : HostChanges(w, h)
      PROVE  RuntimeInv'
  <2>1. /\ pc' = pc /\ lim' = lim
        /\ eff' = eff /\ pressure' = pressure /\ tick' = tick
    BY <1>7 DEF CooldownEnds, HostChanges, vars, claimVars
  <2>2. CarriedInv'
    BY <1>0, <2>1 DEF CarriedInv, Claiming
  <2>3. RuntimeTypeOK'
    BY <1>0, <1>1, <1>7, <2>1 DEF RuntimeTypeOK, CooldownEnds, HostChanges
  <2> QED
    BY <1>1, <2>2, <2>3 DEF RuntimeInv
<1>8. ASSUME NEW w \in Workers, QueueStep(w) PROVE RuntimeInv'
  <2>1. /\ UNCHANGED runtimeVars
        /\ \A v \in Workers \ {w} : pc'[v] = pc[v] /\ lim'[v] = lim[v]
        /\ pc[w] = "idle" => pc'[w] = "idle"
        /\ pc'[w] \in Claiming => pc[w] \in Claiming /\ lim'[w] = lim[w]
    BY <1>0, <1>8, QueueStepLocal DEF QueueStep
  <2>2. RuntimeTypeOK'
    BY <1>0, <1>1, <2>1 DEF RuntimeTypeOK, runtimeVars
  <2>3. CarriedInv'
    BY <1>0, <2>1 DEF CarriedInv, runtimeVars, Claiming
  <2> QED
    BY <1>1, <2>2, <2>3 DEF RuntimeInv
<1>9. ASSUME NEW w \in Workers, Crash(w), FreshRuntime(w) PROVE RuntimeInv'
  <2>1. pc'[w] = "idle"
    BY <1>0, <1>9 DEF Crash, BackToIdle, TypeOK
  <2> QED
    BY <1>0, <1>1, <1>9, <2>1, QueueStepLocal, FreshRuntimeInv
<1>10. ASSUME NEW w \in Workers, Restart(w) PROVE RuntimeInv'
  <2>1. pc' = pc /\ lim' = lim /\ pc[w] = "idle" /\ FreshRuntime(w)
    BY <1>10 DEF Restart, vars, claimVars
  <2> QED
    BY <1>1, <2>1, FreshRuntimeInv
<1> QED
  BY <1>3, <1>4, <1>5, <1>6, <1>7, <1>8, <1>9, <1>10 DEF RuntimeNext

-----------------------------------------------------------------------------
(* Theorems. *)

\* RuntimeInv holds in every reachable state.
THEOREM RuntimeInductiveInvariant == RuntimeSpec => []RuntimeInv
  BY RuntimeInitInv, RuntimeNextInv, PTL DEF RuntimeSpec

\* The state of the composed system is well typed; in particular the adapted
\* concurrency of every worker stays within its budget.
THEOREM RuntimeTypeCorrect == RuntimeSpec => []RuntimeTypeOK
<1>1. RuntimeInv => RuntimeTypeOK
  BY DEF RuntimeInv
<1> QED
  BY <1>1, RuntimeInductiveInvariant, PTL

\* Workers whose limits the resource runtime computes implement the
\* evaluation queue with freely chosen limits.
THEOREM RuntimeImplementsQueue == RuntimeSpec => ImplementsQueue
<1>1. RuntimeInit => Init
  BY DEF RuntimeInit
<1>2. RuntimeInv /\ [RuntimeNext]_allVars => [Next]_vars
  BY QueueSimulation
<1> QED
  BY <1>1, <1>2, RuntimeInductiveInvariant, PTL
  DEF RuntimeSpec, Spec, ImplementsQueue

\* The budgets hold whatever the controllers of the workers do.
COROLLARY RuntimeConcurrencyBounded == RuntimeSpec => []ConcurrencyBound
  BY RuntimeImplementsQueue, ConcurrencyBounded, PTL DEF ImplementsQueue

\* A row is started only by the claim of a worker that holds the lock, and
\* the limits of that claim leave room for it.
LEMMA StartIsClaim ==
    ASSUME RuntimeInv, [RuntimeNext]_allVars,
           NEW w \in Workers, NEW e \in Evals, Starts(w, e)
    PROVE  /\ e \in Queued
           /\ pc[w] \in {"decide", "bypass"}
           /\ Claim(w, e)
           /\ row[e].cls = "heavy" =>
                Cardinality(RunningHeavy) < EffHeavy(lim[w])
<1>0. IInv /\ TypeOK /\ [Next]_vars
  BY QueueSimulation DEF RuntimeInv, IInv
<1>1. /\ e \in Queued /\ row[e].status = "queued"
      /\ row'[e].status = "running" /\ row'[e].owner = w
  BY DEF Starts, Queued, With
<1>2. ASSUME NEW v \in Workers, NEW f \in Queued, Claim(v, f)
      PROVE  v = w /\ f = e
  <2>1. /\ f \in Evals /\ \A g \in Evals : g # f => row'[g] = row[g]
    BY <1>0, <1>2, ClaimRow
  <2>2. row'[f].owner = v
    BY <1>0, <1>2, <2>1 DEF Claim, TypeOK, Row
  <2> QED
    BY <1>1, <2>1, <2>2
<1>3. /\ pc[w] \in {"decide", "bypass"} /\ Claim(w, e) /\ pc'[w] = "exec"
  <2>1. ~\E f \in Evals, k \in Kinds : Submit(f, k)
    BY <1>0, <1>1, SubmitRow
  <2>2. ~\E v \in Workers : PersistStarted(v)
    BY <1>0, <1>1, PersistStartedRow
  <2>3. ~\E v \in Workers : ResultStep(v) /\ Owns(v)
    BY <1>0, <1>1, ResultWrite
  <2>4. ~\E v \in Workers : RecoverStep(v)
    BY <1>0, <1>1, RecoverRows DEF RecoverStep, Running, With
  <2>5. PICK v \in Workers, f \in Queued :
          pc[v] \in {"decide", "bypass"} /\ Claim(v, f)
    BY <1>0, <1>1, <2>1, <2>2, <2>3, <2>4, TableStep
  <2> QED
    BY <1>0, <1>2, <2>5 DEF Claim, TypeOK
<1>4. ClaimHead(w) \/ ClaimBypass(w)
  <2>1. ~UNCHANGED vars
    BY <1>3 DEF vars
  <2>2. ASSUME NEW v \in Workers, Poll(v) PROVE FALSE
    BY <1>0, <1>3, <2>2 DEF Poll, TypeOK
  <2>3. ASSUME NEW v \in Workers, v # w,
               \/ ClaimStep(v) \/ ExecuteStep(v) \/ PersistStarted(v)
               \/ ResultStep(v) \/ RecoverStep(v) \/ Crash(v)
        PROVE  FALSE
    BY <1>0, <1>3, <2>3, QueueStepLocal
  <2>4. ~ExecuteStep(w) /\ ~PersistStarted(w) /\ ~ResultStep(w)
        /\ ~RecoverStep(w) /\ ~Crash(w)
    BY <1>0, <1>3
    DEF ExecuteStep, Spawn, StartFailure, ExecutorReturns, PersistStarted,
        ResultStep, MarkSucceeded, MarkFailed, ReleaseForRetry,
        DeferEscalation, RecoverStep, Recover, Crash, BackToIdle, TypeOK
  <2>5. ~ClaimLock(w) /\ ~ClaimSelect(w) /\ ~ClaimBlocked(w)
    BY <1>0, <1>3 DEF ClaimLock, ClaimSelect, ClaimBlocked, GiveUp, TypeOK
  <2>6. ASSUME NEW f \in Evals, NEW k \in Kinds, Submit(f, k) PROVE FALSE
    BY <1>3, <2>6 DEF Submit
  <2>7. ASSUME NEW q \in live, ProcessExits(q) PROVE FALSE
    BY <1>3, <2>7 DEF ProcessExits
  <2> QED
    BY <1>0, <2>1, <2>2, <2>3, <2>4, <2>5, <2>6, <2>7 DEF Next, ClaimStep
<1>5. lim[w] \in Limits /\ (pc[w] = "decide" => head[w] \in Queued)
  BY <1>0, <1>3 DEF IInv, ClaimInv, Locking
<1>6. CASE ClaimHead(w)
  <2>1. head[w] = e /\ ~HeadBlocked(w)
    BY <1>2, <1>5, <1>6 DEF ClaimHead
  <2>2. Cardinality(RunningHeavy) \in Nat /\ EffHeavy(lim[w]) \in Nat
    BY <1>5, RunningFinite, LimitsAssumption DEF EffHeavy, EffWorkers
  <2> QED
    BY <1>1, <1>3, <2>1, <2>2 DEF HeadBlocked
<1>7. CASE ClaimBypass(w)
  <2>1. PICK f \in Evals : IsSuccessor(f) /\ row[f].cls = "light" /\ Claim(w, f)
    BY <1>0, <1>3, <1>7 DEF ClaimBypass, GiveUp, TypeOK
  <2>2. f = e
    BY <1>2, <2>1 DEF IsSuccessor
  <2> QED
    BY <1>1, <1>3, <2>1, <2>2
<1> QED
  BY <1>4, <1>6, <1>7

\* Under DEGRADED pressure no worker starts a HEAVY evaluation.
THEOREM NoHeavyStartsWhenDegraded == RuntimeSpec => NoHeavyWhenDegraded
<1>1. ASSUME RuntimeInv, [RuntimeNext]_allVars,
             NEW w \in Workers, NEW e \in Evals, Starts(w, e),
             row[e].cls = "heavy"
      PROVE  pressure[w] # "degraded"
  <2>1. /\ pc[w] \in Claiming
        /\ Cardinality(RunningHeavy) < EffHeavy(lim[w])
    BY <1>1, StartIsClaim DEF Claiming, Locking
  <2>2. lim[w] \in Limits
    BY <1>1, <2>1 DEF RuntimeInv, IInv, ClaimInv, Claiming, Locking
  <2>3. lim[w].mh # 0
    BY <2>1, <2>2, RunningFinite, LimitsAssumption DEF EffHeavy, EffWorkers
  <2> QED
    BY <1>1, <2>1, <2>3 DEF RuntimeInv, CarriedInv
<1>2. ASSUME RuntimeInv, [RuntimeNext]_allVars
      PROVE  [\A w \in Workers, e \in Evals :
                 Starts(w, e) /\ row[e].cls = "heavy"
                     => pressure[w] # "degraded"]_allVars
  BY <1>1, <1>2
<1> QED
  BY <1>2, RuntimeInductiveInvariant, PTL DEF RuntimeSpec, NoHeavyWhenDegraded

\* No start exceeds the adapted concurrency of the worker that makes it.
THEOREM AdaptiveBoundHolds == RuntimeSpec => AdaptiveBound
<1>1. ASSUME RuntimeInv, [RuntimeNext]_allVars,
             NEW w \in Workers, NEW e \in Evals, RuntimeEnabled, Starts(w, e)
      PROVE  Cardinality(Running') <= eff[w]
  <2>1. e \in Queued /\ Claim(w, e) /\ pc[w] \in Locking
    BY <1>1, StartIsClaim DEF Locking
  <2>2. /\ lim[w] \in Limits /\ Cardinality(Running) < EffWorkers(lim[w])
        /\ lim[w].mw = eff[w]
    BY <1>1, <2>1 DEF RuntimeInv, IInv, ClaimInv, CarriedInv, Claiming
  <2>3. EffWorkers(lim[w]) = eff[w] /\ eff[w] \in Nat
    BY <2>2, RuntimeAssumption DEF EffWorkers
  <2>4. Running' = Running \cup {e}
    BY <1>1, <2>1, ClaimRow DEF RuntimeInv, Running, With
  <2>5. Cardinality(Running') = Cardinality(Running) + 1
    <3>1. e \notin Running
      BY <2>1 DEF Queued, Running, With
    <3> QED
      BY <2>4, <3>1, RunningFinite, FS_AddElement
  <2> QED
    BY <2>2, <2>3, <2>5, RunningFinite, RunningFinitePrimed
<1>2. ASSUME RuntimeInv, [RuntimeNext]_allVars
      PROVE  [\A w \in Workers, e \in Evals :
                 RuntimeEnabled /\ Starts(w, e)
                     => Cardinality(Running') <= eff[w]]_allVars
  BY <1>1, <1>2
<1> QED
  BY <1>2, RuntimeInductiveInvariant, PTL DEF RuntimeSpec, AdaptiveBound
=============================================================================
