--------------------------- MODULE ResourceRuntime ---------------------------
(***************************************************************************)
(* The resource-aware runtime of the evaluation workers, composed with the *)
(* evaluation queue.  Where EvaluationQueue lets a poll pass any limits,   *)
(* here each worker computes them: it takes a snapshot of the queue and of *)
(* its host, classifies the pressure, merges the interactive level,        *)
(* adjusts its own adaptive concurrency and decides about admission.       *)
(*                                                                         *)
(* A worker is between tick and claim_next while tick[w] is set: the       *)
(* snapshot may be stale by then.                                          *)
(*                                                                         *)
(* Abstracted: measurements to the side of each threshold they are on, the *)
(* cooldown to whether it lasts, and the columns persist_runtime_state     *)
(* publishes for the API, which no worker reads; its wait for the lock of  *)
(* the scheduler row is kept.                                              *)
(***************************************************************************)
EXTENDS EvaluationQueue

CONSTANTS
    MinWorkers,       \* min_evaluation_concurrency
    SoftQueue,        \* max_queued_evaluations_soft
    HardQueue,        \* max_queued_evaluations_hard
    Hosts,            \* what a worker's samples may be like
    RuntimeEnabled,   \* resource_aware_runtime_enabled
    Feedback,         \* both interactive thresholds are set
    CriticalHoldAll   \* interactive_critical_hold_all

\* cpu: up to cpu_low_percent, below the middle of low and high, below
\* cpu_high_percent, above.  rss: below memory_soft_mb, below memory_hard_mb,
\* above.  level: of the feedback controller, or, without feedback, of the raw
\* p95.  A sample that is missing counts as low.
Host == [cpu : {"low", "mid", "soft", "hard"}, rss : {"low", "soft", "hard"},
         level : {"healthy", "warn", "critical"}]

Pressures == {"normal", "pressured", "degraded"}

\* from_settings clamps the budgets; the claim's limits are what a tick can
\* compute from them.
ASSUME RuntimeAssumption ==
    /\ MinWorkers \in 1..MaxWorkers
    /\ MaxHeavy <= MaxWorkers
    /\ SoftQueue \in Nat /\ HardQueue \in Nat
    /\ Hosts \subseteq Host /\ Hosts # {}
    /\ RuntimeEnabled \in BOOLEAN
    /\ Feedback \in BOOLEAN
    /\ CriticalHoldAll \in BOOLEAN
    /\ Limits = [mw : MinWorkers..MaxWorkers, mh : {0, MaxHeavy}]

VARIABLES
    host,      \* what a worker would sample now
    eff,       \* effective_max_workers of its controller
    cooling,   \* its last adjustment is younger than the cooldown
    pressure,  \* its last_pressure
    tick       \* the outcome of its last tick, until it is used

runtimeVars == <<host, eff, cooling, pressure, tick>>
allVars     == <<vars, runtimeVars>>

NoTick == [allowed |-> FALSE, mw |-> 0, mh |-> 0]

RuntimeInit ==
    /\ Init
    /\ host \in [Workers -> Hosts]
    /\ eff = [w \in Workers |-> MinWorkers]
    /\ cooling = [w \in Workers |-> FALSE]
    /\ pressure = [w \in Workers |-> "normal"]
    /\ tick = [w \in Workers |-> NoTick]

-----------------------------------------------------------------------------
(* The parts of a tick. *)

\* The raw p95 reaches the classifier only when the feedback controller is off.
RawLevel(w) == IF Feedback THEN "healthy" ELSE host[w].level

\* PressureClassifier.classify.
Classify(w) ==
    LET queued == Cardinality(Queued)
        hard   == \/ host[w].cpu = "hard" \/ host[w].rss = "hard"
                  \/ queued >= HardQueue \/ RawLevel(w) = "critical"
        soft   == \/ host[w].cpu = "soft" \/ host[w].rss = "soft"
                  \/ queued >= SoftQueue \/ RawLevel(w) = "warn"
    IN  IF hard THEN "degraded" ELSE IF soft THEN "pressured" ELSE "normal"

Level(w) == IF Feedback THEN host[w].level ELSE "healthy"

\* Faulty variant: a runtime that was DEGRADED stays it.
MergePressure_Sticky(w) ==
    CASE \/ Classify(w) = "degraded" \/ Level(w) = "critical"
         \/ pressure[w] = "degraded"                        -> "degraded"
      [] Classify(w) = "normal" /\ Level(w) = "healthy"    -> "normal"
      [] OTHER                                              -> "pressured"

\* merge_pressure: the interactive level only raises the pressure.
MergePressure(w) ==
    CASE Classify(w) = "degraded" \/ Level(w) = "critical" -> "degraded"
      [] Classify(w) = "normal" /\ Level(w) = "healthy"    -> "normal"
      [] OTHER                                              -> "pressured"

\* Faulty variant: the increase is not clamped to the budget.
Adjusted_NoCeiling(w, p) ==
    CASE cooling[w]                                   -> eff[w]
      [] p = "degraded" /\ eff[w] > MinWorkers        -> eff[w] - 1
      [] p = "pressured" /\ eff[w] > MinWorkers + 1   -> eff[w] - 1
      [] p = "normal" /\ Queued # {} /\ host[w].cpu = "low" -> eff[w] + 1
      [] OTHER                                        -> eff[w]

\* AdaptiveConcurrencyController.adjust.
Adjusted(w, p) ==
    CASE cooling[w]                                   -> eff[w]
      [] p = "degraded" /\ eff[w] > MinWorkers        -> eff[w] - 1
      [] p = "pressured" /\ eff[w] > MinWorkers + 1   -> eff[w] - 1
      [] /\ p = "normal" /\ Queued # {} /\ host[w].cpu = "low"
         /\ eff[w] < MaxWorkers                       -> eff[w] + 1
      [] OTHER                                        -> eff[w]

\* ExpensiveAdmission.decide, on the snapshot and the adjusted concurrency e.
Admitted(w, p, e) ==
    /\ Cardinality(Running) < e
    /\ ~(CriticalHoldAll /\ Level(w) = "critical")
    /\ ~(p = "degraded" /\ host[w].rss = "hard" /\ Running # {})

\* Faulty variant: degraded pressure does not take the HEAVY slots away.
MaxHeavyUnder_Ignored(w, p) == MaxHeavy

\* No HEAVY start under DEGRADED pressure; a CRITICAL level implies it.
MaxHeavyUnder(w, p) ==
    IF p = "degraded" \/ Level(w) = "critical" THEN 0 ELSE MaxHeavy

-----------------------------------------------------------------------------
(* Actions. *)

\* plane_snapshot, read_runtime_state and ResourceAwareRuntime.tick.
Tick(w) ==
    /\ pc[w] = "idle"
    /\ tick[w] = NoTick
    /\ IF RuntimeEnabled
       THEN LET p == MergePressure(w)
                e == Adjusted(w, p)
            IN  /\ pressure' = [pressure EXCEPT ![w] = p]
                /\ eff' = [eff EXCEPT ![w] = e]
                /\ cooling' = [cooling EXCEPT ![w] = @ \/ e # eff[w]]
                /\ tick' = [tick EXCEPT ![w] =
                              [allowed |-> Admitted(w, p, e),
                               mw |-> e, mh |-> MaxHeavyUnder(w, p)]]
       ELSE /\ tick' = [tick EXCEPT ![w] = [allowed |-> TRUE,
                                            mw |-> MaxWorkers,
                                            mh |-> MaxHeavy]]
            /\ UNCHANGED <<pressure, eff, cooling>>
    /\ UNCHANGED <<vars, host>>

\* The worker goes on to claim_next with these limits.
PollWith(w, mw, mh) ==
    /\ lim' = [lim EXCEPT ![w] = [mw |-> mw, mh |-> mh]]
    /\ pc' = [pc EXCEPT ![w] = "claim"]
    /\ UNCHANGED <<dbVars, head, jobVars, live, crashes>>

\* Faulty variant: the claim gets the configured, not the adapted concurrency.
PersistRuntimeState_Unadapted(w) ==
    /\ tick[w] # NoTick
    /\ schedLock = NoWorker
    /\ tick' = [tick EXCEPT ![w] = NoTick]
    /\ \/ tick[w].allowed /\ PollWith(w, MaxWorkers, tick[w].mh)
       \/ ~tick[w].allowed /\ UNCHANGED vars
    /\ UNCHANGED <<host, eff, cooling, pressure>>

\* Faulty variant: DEGRADED keeps shrinking the concurrency past the claim.
PersistRuntimeState_Shrunk(w) ==
    /\ tick[w] # NoTick
    /\ schedLock = NoWorker
    /\ tick' = [tick EXCEPT ![w] = NoTick]
    /\ \/ tick[w].allowed /\ PollWith(w, tick[w].mw - 1, tick[w].mh)
       \/ ~tick[w].allowed /\ UNCHANGED vars
    /\ UNCHANGED <<host, eff, cooling, pressure>>

\* persist_runtime_state waits for the scheduler row, then the worker goes on
\* to claim_next with the limits of its tick, or back to sleep.
PersistRuntimeState(w) ==
    /\ tick[w] # NoTick
    /\ schedLock = NoWorker
    /\ tick' = [tick EXCEPT ![w] = NoTick]
    /\ \/ tick[w].allowed /\ PollWith(w, tick[w].mw, tick[w].mh)
       \/ ~tick[w].allowed /\ UNCHANGED vars
    /\ UNCHANGED <<host, eff, cooling, pressure>>

\* adjust_cooldown_seconds have passed.
CooldownEnds(w) ==
    /\ cooling[w]
    /\ cooling' = [cooling EXCEPT ![w] = FALSE]
    /\ UNCHANGED <<vars, host, eff, pressure, tick>>

\* The load of the host, or the interactive level, changes.
HostChanges(w, h) ==
    /\ h # host[w]
    /\ host' = [host EXCEPT ![w] = h]
    /\ UNCHANGED <<vars, eff, cooling, pressure, tick>>

\* A new process has a new controller.
FreshRuntime(w) ==
    /\ eff' = [eff EXCEPT ![w] = MinWorkers]
    /\ cooling' = [cooling EXCEPT ![w] = FALSE]
    /\ pressure' = [pressure EXCEPT ![w] = "normal"]
    /\ tick' = [tick EXCEPT ![w] = NoTick]
    /\ UNCHANGED host

\* A worker that has claimed nothing is restarted, where crashes are allowed.
Restart(w) ==
    /\ crashes < MaxCrashes
    /\ pc[w] = "idle"
    /\ FreshRuntime(w)
    /\ UNCHANGED vars

QueueStep(w) ==
    /\ \/ ClaimStep(w) \/ ExecuteStep(w) \/ PersistStarted(w) \/ ResultStep(w)
       \/ tick[w] = NoTick /\ RecoverStep(w)
    /\ UNCHANGED runtimeVars

RuntimeNext ==
    \/ /\ \/ \E e \in Evals, k \in Kinds : Submit(e, k)
          \/ \E p \in live : ProcessExits(p)
       /\ UNCHANGED runtimeVars
    \/ \E w \in Workers :
         \/ Tick(w) \/ PersistRuntimeState(w) \/ CooldownEnds(w)
         \/ \E h \in Hosts : HostChanges(w, h)
         \/ QueueStep(w)
         \/ Crash(w) /\ FreshRuntime(w)
         \/ Restart(w)

RuntimeSpec == RuntimeInit /\ [][RuntimeNext]_allVars

(* Fairness, as for the queue; the lock of the scheduler row is granted in *)
(* the order of the requests, and cooldowns end.                           *)

RecoverEffect(e) ==
    /\ UNCHANGED runtimeVars
    /\ \E w \in Workers : \E S \in SUBSET Running : \E Stuck \in SUBSET S :
         tick[w] = NoTick /\ e \in S /\ Recover(w, S, Stuck)

RuntimeFairness ==
    /\ \A w \in Workers :
         /\ WF_allVars(Tick(w))
         /\ SF_allVars(PersistRuntimeState(w))
         /\ WF_allVars(CooldownEnds(w))
         /\ WF_allVars(ClaimStep(w) /\ UNCHANGED runtimeVars)
         /\ WF_allVars(ExecuteStep(w) /\ UNCHANGED runtimeVars)
         /\ WF_allVars(ResultStep(w) /\ UNCHANGED runtimeVars)
    /\ \A e \in Evals : SF_allVars(RecoverEffect(e))

RuntimeFairSpec == RuntimeSpec /\ RuntimeFairness

-----------------------------------------------------------------------------
(* Properties. *)

\* Types; in particular adaptation keeps the concurrency inside the budget that
\* from_settings and clamp_concurrency set.
RuntimeTypeOK ==
    /\ TypeOK
    /\ host \in [Workers -> Hosts]
    /\ eff \in [Workers -> MinWorkers..MaxWorkers]
    /\ cooling \in [Workers -> BOOLEAN]
    /\ pressure \in [Workers -> Pressures]
    /\ tick \in [Workers -> [allowed : BOOLEAN, mw : 0..MaxWorkers,
                             mh : 0..MaxHeavy]]

\* Worker w starts evaluation e in this step.
Starts(w, e) ==
    /\ row[e].status = "queued"
    /\ row'[e].status = "running"
    /\ row'[e].owner = w

\* A worker whose runtime is DEGRADED starts no HEAVY evaluation, although
\* the class and the head are read several transactions after the tick.
NoHeavyWhenDegraded ==
    [][\A w \in Workers, e \in Evals :
          Starts(w, e) /\ row[e].cls = "heavy" => pressure[w] # "degraded"]_allVars

\* A start leaves at most as many rows RUNNING as the controller of the worker
\* that starts it allows, although admission looked at a snapshot and every
\* worker adapts on its own.
AdaptiveBound ==
    [][\A w \in Workers, e \in Evals :
          RuntimeEnabled /\ Starts(w, e)
              => Cardinality(Running') <= eff[w]]_allVars

\* The composed system is an evaluation queue: whatever the runtime computes,
\* the limits of a poll are limits EvaluationQueue allows, so what is proved
\* about the queue holds of it.
ImplementsQueue == Spec

\* Nothing on a host keeps its worker DEGRADED.
Calm == \A w \in Workers : /\ host[w].cpu # "hard" /\ host[w].rss # "hard"
                           /\ host[w].level # "critical"

\* Once the hosts stay calm every evaluation is decided: the runtime returns
\* the HEAVY slots it took away, and adaptation starves no row.
DecidedOnceCalm == <>[]Calm => EventuallyDecided

-----------------------------------------------------------------------------
(* The inductive invariant behind the safety properties. *)

Claiming == Locking \cup {"claim"}

\* What a worker carries from its tick to its claim agrees with what its
\* controller and its pressure still are.
CarriedInv ==
    \A w \in Workers :
        /\ tick[w] # NoTick =>
             /\ pc[w] = "idle"
             /\ tick[w].mw \in MinWorkers..MaxWorkers
             /\ tick[w].mh \in {0, MaxHeavy}
             /\ RuntimeEnabled => tick[w].mw = eff[w]
             /\ pressure[w] = "degraded" => tick[w].mh = 0
        /\ pc[w] \in Claiming =>
             /\ RuntimeEnabled => lim[w].mw = eff[w]
             /\ pressure[w] = "degraded" => lim[w].mh = 0
        /\ ~RuntimeEnabled => pressure[w] = "normal"

RuntimeInv == IInv /\ RuntimeTypeOK /\ CarriedInv
=============================================================================
