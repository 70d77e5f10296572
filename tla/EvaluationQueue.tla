--------------------------- MODULE EvaluationQueue ---------------------------
(***************************************************************************)
(* The durable evaluation queue of ChallengeForge and the workers that     *)
(* drain it: the rows of the PostgreSQL table "evaluations", the singleton *)
(* scheduler row, and any number of EvaluationWorker processes that        *)
(* recover stale rows, claim one evaluation at a time, run it and write a  *)
(* conditional result.                                                     *)
(*                                                                         *)
(* Modelled: every transaction that changes an evaluation row, the claim   *)
(* transaction statement by statement (PostgreSQL READ COMMITTED), worker  *)
(* crashes and restarts under the same worker id, stale recovery of rows   *)
(* whose worker is dead or only slow, and the operating-system processes   *)
(* of the synthetic_execution mode, which outlive their worker.            *)
(*                                                                         *)
(* Abstracted: scores, reasons, timestamps and metadata other than the     *)
(* recorded execution attempt.  A row is identified by its rank in the     *)
(* order (created_at, id); ranks may become visible in any order, because  *)
(* created_at is taken before the commit.  The limits a poll passes to     *)
(* claim_next are any member of Limits: how the resource runtime computes  *)
(* them is the subject of another module.  Process identifiers are never   *)
(* reused, all workers see the same process table, and two worker          *)
(* processes never share a worker id at the same time.                     *)
(***************************************************************************)
EXTENDS Naturals, FiniteSets

CONSTANTS
    Evals,             \* ranks in FIFO order, positive numbers
    Workers,           \* worker ids
    NoWorker,          \* worker_id IS NULL
    Kinds,             \* the [cls, mode] pairs submissions may ask for
    Limits,            \* the [mw, mh] pairs a poll may pass to claim_next
    MaxWorkers,        \* largest concurrency any poll may pass
    MaxHeavy,          \* evaluation_max_concurrent_heavy
    LightBypassLimit,  \* evaluation_light_bypass_limit
    MaxAttempts,       \* evaluation_max_attempts
    BoundedBypass,     \* evaluation_scheduling_policy is not "fifo"
    JobObject,         \* the OS kills an execution together with its worker
    MaxCrashes         \* bound: worker crashes in one behaviour

Classes  == {"light", "medium", "heavy"}
Modes    == {"legacy", "always_expensive", "fixed_progressive",
             "resource_aware_adaptive", "synthetic_execution"}
Statuses == {"none", "queued", "running", "succeeded", "failed"}
Terminal == {"succeeded", "failed"}

\* Evaluations are ranked by positive numbers; 0 stands for "no evaluation".
ASSUME EvalsAssumption == IsFiniteSet(Evals) /\ Evals \subseteq Nat \ {0}

\* NULL is not the id of a worker.
ASSUME WorkersAssumption == NoWorker \notin Workers

\* Settings are validated: at least one worker, one attempt; the limits a
\* poll computes stay within the configured budgets.
ASSUME BoundsAssumption ==
    /\ MaxWorkers \in Nat \ {0}
    /\ MaxHeavy \in Nat
    /\ LightBypassLimit \in Nat
    /\ MaxAttempts \in Nat \ {0}
    /\ BoundedBypass \in BOOLEAN
    /\ JobObject \in BOOLEAN
    /\ MaxCrashes \in Nat

ASSUME KindsAssumption == Kinds \subseteq [cls : Classes, mode : Modes]

ASSUME LimitsAssumption ==
    /\ Limits \subseteq [mw : Nat, mh : Nat]
    /\ \A l \in Limits : l.mw <= MaxWorkers /\ l.mh <= MaxHeavy

VARIABLES
    \* PostgreSQL
    row,           \* the evaluations table
    blockedHeavy,  \* scheduler row: blocked_heavy_id, 0 for NULL
    lightBypass,   \* scheduler row: light_bypass_count
    schedLock,     \* the worker holding the scheduler row FOR UPDATE
    \* worker processes
    pc,            \* where each worker is in its loop
    lim,           \* the limits of the current poll
    head,          \* the oldest queued row, as selected by the claim
    job,           \* the claimed evaluation
    att,           \* attempt_count returned by the claim
    result,        \* what the executor returned
    \* operating system
    live,          \* executions <<evaluation, attempt>> whose process lives
    crashes        \* number of worker crashes so far

dbVars     == <<row, blockedHeavy, lightBypass, schedLock>>
claimVars  == <<lim, head>>
jobVars    == <<job, att, result>>
vars       == <<dbVars, pc, claimVars, jobVars, live, crashes>>

NoLimits == [mw |-> 0, mh |-> 0]

\* An evaluation row.  meta is the attempt whose process the row's
\* execution_attempt names, 0 when it names none.
Row == [status : Statuses, cls : Classes, mode : Modes, stage : 0..3,
        attempts : Nat, owner : Workers \cup {NoWorker}, meta : Nat]

PCs == {"idle", "claim", "select", "decide", "bypass",
        "exec", "spawned", "ended"}

Working == {"exec", "spawned", "ended"}
Locking == {"select", "decide", "bypass"}

With(s)      == {e \in Evals : row[e].status = s}
Queued       == With("queued")
Running      == With("running")
RunningHeavy == {e \in Running : row[e].cls = "heavy"}

Init ==
    /\ row = [e \in Evals |->
                [status |-> "none", cls |-> "light", mode |-> "legacy",
                 stage |-> 0, attempts |-> 0, owner |-> NoWorker, meta |-> 0]]
    /\ blockedHeavy = 0
    /\ lightBypass = 0
    /\ schedLock = NoWorker
    /\ pc = [w \in Workers |-> "idle"]
    /\ lim = [w \in Workers |-> NoLimits]
    /\ head = [w \in Workers |-> 0]
    /\ job = [w \in Workers |-> 0]
    /\ att = [w \in Workers |-> 0]
    /\ result = [w \in Workers |-> "none"]
    /\ live = {}
    /\ crashes = 0

-----------------------------------------------------------------------------
(* Submission: the evaluation half of SubmissionService.submit. *)

\* create_queued: one QUEUED row, committed with the submission.
Submit(e, k) ==
    /\ row[e].status = "none"
    /\ row' = [row EXCEPT ![e] = [@ EXCEPT !.status = "queued",
                                           !.cls = k.cls, !.mode = k.mode]]
    /\ UNCHANGED <<blockedHeavy, lightBypass, schedLock, pc, claimVars,
                   jobVars, live, crashes>>

-----------------------------------------------------------------------------
(* process_one up to the commit of the claim. *)

\* The limits as claim_next clamps them.
EffWorkers(l) == IF l.mw = 0 THEN 1 ELSE l.mw
EffHeavy(l)   == IF l.mh <= EffWorkers(l) THEN l.mh ELSE EffWorkers(l)

\* Snapshot, runtime tick and admission have let the poll through.
Poll(w) ==
    /\ pc[w] = "idle"
    /\ \E l \in Limits : lim' = [lim EXCEPT ![w] = l]
    /\ pc' = [pc EXCEPT ![w] = "claim"]
    /\ UNCHANGED <<dbVars, head, jobVars, live, crashes>>

\* claim_next returned None: the worker rolls the transaction back, so
\* whatever it had assigned to the scheduler row is lost.
GiveUp(w) ==
    /\ pc' = [pc EXCEPT ![w] = "idle"]
    /\ lim' = [lim EXCEPT ![w] = NoLimits]
    /\ head' = [head EXCEPT ![w] = 0]
    /\ schedLock' = NoWorker
    /\ UNCHANGED <<row, blockedHeavy, lightBypass, jobVars, live, crashes>>

\* Faulty variant: the scheduler row is read without FOR UPDATE.
ClaimLock_NoForUpdate(w) ==
    /\ pc[w] = "claim"
    /\ Cardinality(Running) < EffWorkers(lim[w])
    /\ schedLock' = w
    /\ pc' = [pc EXCEPT ![w] = "select"]
    /\ UNCHANGED <<row, blockedHeavy, lightBypass, claimVars, jobVars, live,
                   crashes>>

\* Lock the scheduler row, then count the RUNNING rows.
ClaimLock(w) ==
    /\ pc[w] = "claim"
    /\ schedLock = NoWorker
    /\ \/ /\ Cardinality(Running) >= EffWorkers(lim[w])
          /\ GiveUp(w)
       \/ /\ Cardinality(Running) < EffWorkers(lim[w])
          /\ schedLock' = w
          /\ pc' = [pc EXCEPT ![w] = "select"]
          /\ UNCHANGED <<row, blockedHeavy, lightBypass, claimVars, jobVars,
                         live, crashes>>

\* Select and lock the oldest QUEUED row.
ClaimSelect(w) ==
    /\ pc[w] = "select"
    /\ \/ Queued = {} /\ GiveUp(w)
       \/ \E e \in Queued :
            /\ \A f \in Queued : e <= f
            /\ head' = [head EXCEPT ![w] = e]
            /\ pc' = [pc EXCEPT ![w] = "decide"]
            /\ UNCHANGED <<dbVars, lim, jobVars, live, crashes>>

\* The claim itself: mark row e RUNNING for w and commit.
Claim(w, e) ==
    /\ row' = [row EXCEPT ![e] = [@ EXCEPT !.status = "running",
                                           !.attempts = row[e].attempts + 1,
                                           !.owner = w]]
    /\ schedLock' = NoWorker
    /\ pc' = [pc EXCEPT ![w] = "exec"]
    /\ lim' = [lim EXCEPT ![w] = NoLimits]
    /\ head' = [head EXCEPT ![w] = 0]
    /\ job' = [job EXCEPT ![w] = e]
    /\ att' = [att EXCEPT ![w] = row[e].attempts + 1]
    /\ UNCHANGED <<result, live, crashes>>

\* Faulty variant: the slot the head would take is counted as taken.
HeadBlocked_OffByOne(w) ==
    /\ row[head[w]].cls = "heavy"
    /\ Cardinality(RunningHeavy) + 1 >= EffHeavy(lim[w])

\* The selected head is HEAVY and every HEAVY slot is taken (or there is none).
HeadBlocked(w) ==
    /\ row[head[w]].cls = "heavy"
    /\ Cardinality(RunningHeavy) >= EffHeavy(lim[w])

\* Faulty variant: the counter starts afresh in every claim.
BypassCount_NotDurable(w) == 0

\* light_bypass_count of the blocked head, after the reset for a new head.
BypassCount(w) == IF blockedHeavy = head[w] THEN lightBypass ELSE 0

ClaimHead(w) ==
    /\ pc[w] = "decide"
    /\ ~HeadBlocked(w)
    /\ blockedHeavy' = 0
    /\ lightBypass' = 0
    /\ Claim(w, head[w])

ClaimBlocked(w) ==
    /\ pc[w] = "decide"
    /\ HeadBlocked(w)
    /\ IF BoundedBypass /\ BypassCount(w) < LightBypassLimit
       THEN /\ pc' = [pc EXCEPT ![w] = "bypass"]
            /\ UNCHANGED <<dbVars, claimVars, jobVars, live, crashes>>
       ELSE GiveUp(w)

\* Second in FIFO order, the row OFFSET 1 LIMIT 1 returns.
IsSuccessor(e) == e \in Queued /\ Cardinality({f \in Queued : f < e}) = 1

\* Only a LIGHT row directly behind the blocked head may pass it.
ClaimBypass(w) ==
    /\ pc[w] = "bypass"
    /\ \/ /\ \A e \in Evals : IsSuccessor(e) => row[e].cls # "light"
          /\ GiveUp(w)
       \/ \E e \in Evals :
            /\ IsSuccessor(e)
            /\ row[e].cls = "light"
            /\ blockedHeavy' = head[w]
            /\ lightBypass' = BypassCount(w) + 1
            /\ Claim(w, e)

-----------------------------------------------------------------------------
(* Running the claimed evaluation.  Nothing is locked meanwhile. *)

\* Faulty variant: the WHERE clause forgets worker_id.
Owns_StatusOnly(w) == row[job[w]].status = "running"

\* The WHERE clause of every result write: RUNNING and still this worker's.
Owns(w) ==
    /\ row[job[w]].status = "running"
    /\ row[job[w]].owner = w

\* The worker loop is back at its top.
BackToIdle(w) ==
    /\ pc' = [pc EXCEPT ![w] = "idle"]
    /\ job' = [job EXCEPT ![w] = 0]
    /\ att' = [att EXCEPT ![w] = 0]
    /\ result' = [result EXCEPT ![w] = "none"]

\* One conditional UPDATE of the claimed row to r, in its own transaction.
Write(w, r) ==
    /\ row' = IF Owns(w) THEN [row EXCEPT ![job[w]] = r] ELSE row
    /\ BackToIdle(w)
    /\ UNCHANGED <<blockedHeavy, lightBypass, schedLock, claimVars, live,
                   crashes>>

Synthetic(w) == row[job[w]].mode = "synthetic_execution"
Process(w)   == <<job[w], att[w]>>

\* ProcessExecutor.run: Popen succeeds, with or without a row behind it.
Spawn(w) ==
    /\ pc[w] = "exec"
    /\ Synthetic(w)
    /\ live' = live \cup {Process(w)}
    /\ pc' = [pc EXCEPT ![w] = "spawned"]
    /\ UNCHANGED <<dbVars, claimVars, jobVars, crashes>>

\* Popen raises: status "error", hence START_FAILURE.
StartFailure(w) ==
    /\ pc[w] = "exec"
    /\ Synthetic(w)
    /\ result' = [result EXCEPT ![w] = "start_failure"]
    /\ pc' = [pc EXCEPT ![w] = "ended"]
    /\ UNCHANGED <<dbVars, claimVars, job, att, live, crashes>>

\* Faulty variant: the metadata is written whatever became of the row.
PersistStarted_Unconditional(w) ==
    /\ pc[w] = "spawned"
    /\ row' = [row EXCEPT ![job[w]] = [@ EXCEPT !.meta = att[w]]]
    /\ UNCHANGED <<blockedHeavy, lightBypass, schedLock, pc, claimVars,
                   jobVars, live, crashes>>

\* begin_execution_attempt, run by the persist_started task at any moment
\* between Popen and the end of the attempt, or never (it is cancelled).
PersistStarted(w) ==
    /\ pc[w] = "spawned" \/ (pc[w] = "ended" /\ result[w] # "start_failure")
    /\ Owns(w)
    /\ row' = [row EXCEPT ![job[w]] = [@ EXCEPT !.meta = att[w]]]
    /\ UNCHANGED <<blockedHeavy, lightBypass, schedLock, pc, claimVars,
                   jobVars, live, crashes>>

\* _terminate_tree: terminate, kill, and kill again; what survives is a leak.
TerminateTree(w, leaked) == IF leaked THEN live ELSE live \ {Process(w)}

\* The executor has seen the process end, or has terminated its tree after a
\* limit.  A leak is never a success.
ExecutorReturns(w, res, leaked) ==
    /\ pc[w] = "spawned"
    /\ leaked => Process(w) \in live /\ res = "failure"
    /\ live' = TerminateTree(w, leaked)
    /\ result' = [result EXCEPT ![w] = res]
    /\ pc' = [pc EXCEPT ![w] = "ended"]
    /\ UNCHANGED <<dbVars, claimVars, job, att, crashes>>

\* A process tree ends on its own, or is killed by a recovery whose
\* transaction then rolls back.  Nobody may be watching it any more.
ProcessExits(p) ==
    /\ p \in live
    /\ live' = live \ {p}
    /\ UNCHANGED <<dbVars, pc, claimVars, jobVars, crashes>>

\* Faulty variant: the stage index runs past the end of the plan.
FinalStages_PastPlan(r) == {r.stage + 4}

\* current_stage a finished progressive run writes with its result.
FinalStages(r) ==
    CASE r.mode = "always_expensive" -> {3}
      [] r.mode \in {"fixed_progressive", "resource_aware_adaptive"}
           -> {s \in 1..3 : r.stage < s}
      [] OTHER -> {r.stage}

\* mark_succeeded.  The row keeps its worker_id.
MarkSucceeded(w) ==
    /\ \/ pc[w] = "exec" /\ ~Synthetic(w)
       \/ pc[w] = "ended" /\ result[w] = "success"
    /\ \E s \in FinalStages(row[job[w]]) :
         Write(w, [row[job[w]] EXCEPT !.status = "succeeded", !.stage = s,
                     !.meta = IF Synthetic(w) THEN att[w] ELSE 0])

\* The attempt named by the metadata written with a failure: the executed one;
\* none for an evaluator's failure; unchanged when no metadata is written.
FailedMeta(w) == CASE result[w] = "failure"       -> {att[w]}
                   [] result[w] = "start_failure" -> {0}
                   [] OTHER                       -> {0, row[job[w]].meta}

\* mark_failed: the evaluator failed, the submission is missing, the
\* workload is unknown, or the disposition of the execution is "failed".
MarkFailed(w) ==
    /\ \/ pc[w] = "exec"
       \/ pc[w] = "ended" /\ result[w] = "failure"
       \/ /\ pc[w] = "ended"
          /\ result[w] = "start_failure"
          /\ att[w] >= MaxAttempts
    /\ \E m \in FailedMeta(w) :
         Write(w, [row[job[w]] EXCEPT !.status = "failed", !.meta = m])

\* Faulty variant: the requeue is not conditional on the row.
ReleaseForRetry_Unconditional(w) ==
    /\ pc[w] = "ended"
    /\ result[w] = "start_failure"
    /\ att[w] < MaxAttempts
    /\ row' = [row EXCEPT ![job[w]] = [@ EXCEPT !.status = "queued",
                                                !.owner = NoWorker]]
    /\ BackToIdle(w)
    /\ UNCHANGED <<blockedHeavy, lightBypass, schedLock, claimVars, live,
                   crashes>>

\* release_for_retry: the execution never started and attempts are left.
ReleaseForRetry(w) ==
    /\ pc[w] = "ended"
    /\ result[w] = "start_failure"
    /\ att[w] < MaxAttempts
    /\ Write(w, [row[job[w]] EXCEPT !.status = "queued", !.owner = NoWorker,
                                    !.meta = 0])

\* ProgressivePolicy.decide may answer DEFER: the adaptive mode, under
\* pressure, before the HEAVY stage, the only one expensive enough.
Deferrable(r) == r.mode = "resource_aware_adaptive" /\ r.stage < 2

\* defer_escalation requeues the row as HEAVY.
DeferEscalation(w) ==
    /\ pc[w] = "exec"
    /\ Deferrable(row[job[w]])
    /\ Write(w, [row[job[w]] EXCEPT !.status = "queued", !.owner = NoWorker,
                                    !.stage = 2, !.cls = "heavy", !.meta = 0])

-----------------------------------------------------------------------------
(* Crashes and recovery. *)

\* The worker process dies: its transaction is rolled back, and with a Job
\* Object its execution dies with it.  The same worker id may come back.
Crash(w) ==
    /\ crashes < MaxCrashes
    /\ pc[w] # "idle"
    /\ crashes' = crashes + 1
    /\ BackToIdle(w)
    /\ lim' = [lim EXCEPT ![w] = NoLimits]
    /\ head' = [head EXCEPT ![w] = 0]
    /\ schedLock' = IF schedLock = w THEN NoWorker ELSE schedLock
    /\ live' = IF JobObject THEN live \ {Process(w)} ELSE live
    /\ UNCHANGED <<row, blockedHeavy, lightBypass>>

\* The process the row's execution_attempt names is alive.
OrphanSuspected(e) == <<e, row[e].meta>> \in live

\* Faulty variant: a row whose process survived containment is requeued.
Recovered_RequeueOrphan(e, stuck) ==
    [row[e] EXCEPT !.owner = NoWorker,
                   !.status = IF row[e].attempts >= MaxAttempts
                              THEN "failed" ELSE "queued"]

\* Faulty variant: recovery does not look at attempt_count.
Recovered_NoBudget(e, stuck) ==
    [row[e] EXCEPT !.owner = NoWorker,
                   !.status = IF stuck THEN "failed" ELSE "queued"]

\* What recover_stale_running makes of a stale row: quarantine when its
\* process survived containment, FAILED when the attempts are used up,
\* QUEUED otherwise.
Recovered(e, stuck) ==
    [row[e] EXCEPT !.owner = NoWorker,
                   !.status = IF stuck \/ row[e].attempts >= MaxAttempts
                              THEN "failed" ELSE "queued"]

\* The processes that contain_attempt ends for the rows S: each row's
\* execution_attempt names one, if any.
Contained(S) == {<<e, row[e].meta>> : e \in S}

\* recover_stale_running on the stale rows S: contain the recorded processes,
\* all but those of Stuck, and commit.  Any RUNNING row may be stale: its
\* worker is dead, slow, or has a clock of its own.
Recover(w, S, Stuck) ==
    /\ pc[w] = "idle"
    /\ S # {} /\ S \subseteq Running
    /\ Stuck \subseteq {e \in S : OrphanSuspected(e)}
    /\ live' = live \ Contained(S \ Stuck)
    /\ row' = [e \in Evals |-> IF e \in S THEN Recovered(e, e \in Stuck)
                               ELSE row[e]]
    /\ UNCHANGED <<blockedHeavy, lightBypass, schedLock, pc, claimVars,
                   jobVars, crashes>>

-----------------------------------------------------------------------------
ClaimStep(w) == ClaimLock(w) \/ ClaimSelect(w) \/ ClaimHead(w)
                \/ ClaimBlocked(w) \/ ClaimBypass(w)

ExecuteStep(w) ==
    \/ Spawn(w)
    \/ StartFailure(w)
    \/ \E res \in {"success", "failure"}, leaked \in BOOLEAN :
         ExecutorReturns(w, res, leaked)

ResultStep(w) == MarkSucceeded(w) \/ MarkFailed(w) \/ ReleaseForRetry(w)
                 \/ DeferEscalation(w)

RecoverStep(w) == \E S \in SUBSET Running : \E Stuck \in SUBSET S :
                     Recover(w, S, Stuck)

Next ==
    \/ \E e \in Evals, k \in Kinds : Submit(e, k)
    \/ \E w \in Workers :
         \/ Poll(w) \/ ClaimStep(w) \/ ExecuteStep(w) \/ PersistStarted(w)
         \/ ResultStep(w) \/ Crash(w) \/ RecoverStep(w)
    \/ \E p \in live : ProcessExits(p)

Spec == Init /\ [][Next]_vars

-----------------------------------------------------------------------------
(* Fairness.  run_forever loops for ever and every statement, executor and *)
(* process it waits for ends (statements hold locks briefly, the executor  *)
(* enforces a wall timeout): a worker that stays up takes its next step.   *)
(* A row that stays RUNNING becomes older than stale_before for good, so   *)
(* each of the recover_stale calls made again and again would handle it.   *)

RecoverRow(e) == \E w \in Workers : \E S \in SUBSET Running :
                    \E Stuck \in SUBSET S : e \in S /\ Recover(w, S, Stuck)

Fairness ==
    /\ \A w \in Workers : /\ WF_vars(Poll(w))
                           /\ WF_vars(ClaimStep(w))
                           /\ WF_vars(ExecuteStep(w))
                           /\ WF_vars(ResultStep(w))
    /\ \A e \in Evals : SF_vars(RecoverRow(e))

FairSpec == Spec /\ Fairness

-----------------------------------------------------------------------------
(* Properties. *)

\* Types of the two tables and of the workers' local state; in particular the
\* stage a worker writes back stays inside the plan of the evaluation.
TypeOK ==
    /\ row \in [Evals -> Row]
    /\ blockedHeavy \in Evals \cup {0}
    /\ lightBypass \in Nat
    /\ schedLock \in Workers \cup {NoWorker}
    /\ pc \in [Workers -> PCs]
    /\ lim \in [Workers -> Limits \cup {NoLimits}]
    /\ head \in [Workers -> Evals \cup {0}]
    /\ job \in [Workers -> Evals \cup {0}]
    /\ att \in [Workers -> Nat]
    /\ result \in [Workers -> {"none", "success", "failure", "start_failure"}]
    /\ live \subseteq Evals \X Nat
    /\ crashes \in Nat

\* However the statements of concurrent claims interleave with results,
\* recoveries and crashes, claim_next never lets more than MaxWorkers rows be
\* RUNNING nor more than MaxHeavy HEAVY rows: the count is read before the
\* row is marked, and only the scheduler row's lock keeps it true until then.
ConcurrencyBound ==
    /\ Cardinality(Running) <= MaxWorkers
    /\ Cardinality(RunningHeavy) <= MaxHeavy

\* 1 for a row whose HEAVY stage was deferred.
Deferred(r) == IF r.stage >= 2 THEN 1 ELSE 0

\* attempt_count is the retry budget: recovery and release_for_retry stop at
\* MaxAttempts; only the one deferral of an adaptive evaluation may add a
\* claim beyond it.
AttemptBound ==
    \A e \in Evals :
        row[e].attempts <= MaxAttempts + Deferred(row[e])

\* recover_stale_running never leaves behind a row that names a live process
\* of an earlier attempt: a row waiting in the queue or claimed again points
\* at no process that still runs, except the one of its current attempt.
RecordedProcessIsCurrent ==
    \A e \in Evals :
        row[e].status \in {"queued", "running"} /\ OrphanSuspected(e)
            => row[e].status = "running" /\ row[e].meta = row[e].attempts

\* The conditional UPDATEs check worker_id and status but not attempt_count.
\* Still, a worker that passes the check is running the row's latest attempt,
\* whatever was recovered, requeued or claimed again while it was away.
FencedByWorkerId ==
    \A w \in Workers :
        pc[w] \in Working /\ Owns(w) => att[w] = row[job[w]].attempts

\* A result is written only by the worker of the row's latest attempt: a
\* worker that wakes up after its row was recovered changes nothing.
NoLateResult ==
    [][\A e \in Evals :
         /\ row'[e] # row[e]
         /\ row'[e].status \in Terminal
         /\ row'[e].owner # NoWorker
         => \E w \in Workers : /\ pc[w] \in Working
                               /\ job[w] = e
                               /\ att[w] = row[e].attempts
                               /\ pc'[w] = "idle"]_vars

\* SUCCEEDED and FAILED are final: neither a late worker, nor a late
\* begin_execution_attempt, nor recovery touches a finished row.
TerminalIsFinal ==
    [][\A e \in Evals : row[e].status \in Terminal => row'[e] = row[e]]_vars

\* Every accepted evaluation is eventually decided, although workers crash
\* and claims give up: as long as HEAVY slots are granted, neither the queue
\* discipline nor recovery starves a row.  A row leaves QUEUED and RUNNING for
\* good only as SUCCEEDED or FAILED, so each one does if again and again none
\* is left.
EventuallyDecided == []<>(Queued \cup Running = {})

\* The ownership invariant as documented: at most one execution attempt of an
\* evaluation consumes execution resources.
AtMostOneExecution == \A p, q \in live : p[1] = q[1] => p = q

-----------------------------------------------------------------------------
(* The inductive invariant behind the safety properties. *)

\* The scheduler row is locked exactly while a claim is under way.
LockInv == \A w \in Workers : pc[w] \in Locking <=> schedLock = w

\* What the claim under way has read still holds: there is room for one more
\* RUNNING row, and the selected head is still QUEUED.
ClaimInv ==
    \A w \in Workers :
        /\ pc[w] \in Locking \cup {"claim"} => lim[w] \in Limits
        /\ pc[w] \in Locking => Cardinality(Running) < EffWorkers(lim[w])
        /\ pc[w] \in {"decide", "bypass"} => head[w] \in Queued

\* A busy worker runs an attempt that was claimed, and no two workers run the
\* same one.
JobInv ==
    /\ \A w \in Workers : pc[w] \in Working =>
           /\ job[w] \in Evals
           /\ att[w] \in 1..row[job[w]].attempts
    /\ \A v, w \in Workers :
           /\ pc[v] \in Working /\ pc[w] \in Working
           /\ job[v] = job[w] /\ att[v] = att[w]
           => v = w

\* Processes belong to claimed attempts; a row names none before Popen.
ProcessInv ==
    /\ \A p \in live : p[2] \in 1..row[p[1]].attempts
    /\ \A w \in Workers : pc[w] = "exec" => row[job[w]].meta # att[w]

\* A row that is not there has no history; one that may be claimed again has
\* an attempt left.
RowInv ==
    \A e \in Evals :
        /\ row[e].status = "none" =>
             row[e].attempts = 0 /\ row[e].stage = 0 /\ row[e].meta = 0
        /\ row[e].status = "queued" =>
             row[e].attempts < MaxAttempts + Deferred(row[e])
        /\ row[e].meta <= row[e].attempts

IInv == /\ TypeOK /\ LockInv /\ ClaimInv /\ JobInv /\ ProcessInv /\ RowInv
        /\ ConcurrencyBound /\ AttemptBound /\ FencedByWorkerId
        /\ RecordedProcessIsCurrent

-----------------------------------------------------------------------------
(* The abstract specification this module implements. *)

Lifecycle == INSTANCE EvaluationLifecycle
             WITH MaxRunning <- MaxWorkers,
                  MaxTries   <- MaxAttempts + 1,
                  status     <- [e \in Evals |-> row[e].status],
                  tries      <- [e \in Evals |-> row[e].attempts]

\* Seen through its status and attempt_count columns, the table moves only
\* along ALLOWED_TRANSITIONS, never runs more than MaxWorkers evaluations and
\* never starts one more often than MaxAttempts + 1 times.
ImplementsLifecycle == Lifecycle!LSpec
=============================================================================
