------------------------ MODULE ProgressiveEvaluation ------------------------
(***************************************************************************)
(* One evaluation in its stages: ProgressiveEvaluator.run takes cheap,     *)
(* medium and heavy one after the other, ProgressivePolicy decides after   *)
(* each whether to finish, go on or defer, and _run_progressive writes the *)
(* result or requeues the row with the work done so far.  Workers crash,   *)
(* or are slow and are recovered from while they still run.                *)
(*                                                                         *)
(* EvaluationQueue knows that a run ends or is deferred; here the stages,  *)
(* their evidence and the record of the work are opened up.                *)
(*                                                                         *)
(* Abstracted: hashes become choices made with the submission, a jitter at *)
(* its extremes and the confidence an unlabelled submission falls under.   *)
(***************************************************************************)
EXTENDS Naturals, Sequences

CONSTANTS
    Runners,      \* worker ids
    Nobody,       \* worker_id IS NULL
    Labels,       \* what the metadata may say: workload kinds or "unlabelled"
    Modes,        \* evaluation modes
    MaxClaims,    \* evaluation_max_attempts
    MaxStops      \* bound: crashes and stale recoveries

Kinds == {"easy_pass", "easy_fail", "ambiguous_pass", "ambiguous_fail",
          "hard_pass", "hard_fail", "adversarial_pass", "adversarial_fail"}

ASSUME ProgressiveAssumption ==
    /\ Nobody \notin Runners
    /\ Labels \subseteq Kinds \cup {"unlabelled"}
    /\ Modes \subseteq {"legacy", "always_expensive", "fixed_progressive",
                        "resource_aware_adaptive"}
    /\ MaxClaims \in Nat \ {0} /\ MaxStops \in Nat

-----------------------------------------------------------------------------
(* The plan and the evidence a stage gives. *)

\* DEFAULT_PLAN, indexed from 0 as in the code.
Stages  == <<"cheap", "medium", "heavy">>
StageAt(i) == Stages[i + 1]
Exists(i)  == i + 1 \in DOMAIN Stages
CostUnits  == [cheap |-> 1, medium |-> 3, heavy |-> 9]
ClassOf    == [cheap |-> "light", medium |-> "medium", heavy |-> "heavy"]

Easy        == {"easy_pass", "easy_fail"}
Ambiguous   == {"ambiguous_pass", "ambiguous_fail"}
Adversarial == {"adversarial_pass", "adversarial_fail"}
TruePasses  == {"easy_pass", "ambiguous_pass", "hard_pass", "adversarial_pass"}

PassThreshold == 60
Decision(score) == IF score >= PassThreshold THEN "pass" ELSE "fail"

GroundTruth(kind) == IF kind \in TruePasses THEN "pass" ELSE "fail"
TruthScore(kind, jitter) == (IF kind \in TruePasses THEN 70 ELSE 10) + jitter

Evidence(sure, safe, score) == [sure |-> sure, safe |-> safe, score |-> score]
Truth(k, j) == Evidence(TRUE, TRUE, TruthScore(k, j))
Undecided   == Evidence(FALSE, FALSE, 50)

\* cheap_evidence: adversarial submissions give a confident, wrong signal.
CheapEvidence(k, j) ==
    IF k \in Easy THEN Truth(k, j)
    ELSE IF k \in Adversarial
    THEN Evidence(TRUE, FALSE, IF GroundTruth(k) = "pass" THEN 5 ELSE 95)
    ELSE Undecided

MediumEvidence(k, j) == IF k \in Ambiguous THEN Truth(k, j) ELSE Undecided

HeavyEvidence(k, j) == Truth(k, j)

\* Without a label the confidence comes from the submission's id; base is the
\* score's hash.
UnlabelledEvidence(lean, i, base) ==
    Evidence(lean # "uncertain", lean # "uncertain",
             IF lean = "pass" /\ i = 0 THEN 90 + (base % 11)
             ELSE IF lean = "fail" /\ i = 0 THEN base % 20
             ELSE 40 + (base % 41))

\* evidence_for_stage and the legacy branch of run_stage.
EvidenceFor(s, i) ==
    IF s.label = "unlabelled" THEN UnlabelledEvidence(s.lean, i, s.jitter)
    ELSE CASE StageAt(i) = "cheap"  -> CheapEvidence(s.label, s.jitter)
           [] StageAt(i) = "medium" -> MediumEvidence(s.label, s.jitter)
           [] StageAt(i) = "heavy"  -> HeavyEvidence(s.label, s.jitter)

-----------------------------------------------------------------------------
VARIABLES
    subm,   \* the submission's metadata: label, lean, jitter, forced failure
    ev,     \* the row of the evaluation
    near,   \* at most 30 seconds are left to deadline_at
    run,    \* what each worker's claim returned and its run has gathered
    stops   \* crashes and stale recoveries so far

pVars == <<subm, ev, near, run, stops>>

NoRun == [at |-> "idle", i |-> 0, pressure |-> "normal", cls |-> "light",
          log |-> <<>>, cost |-> 0, score |-> 0,
          prior |-> <<>>, priorCost |-> 0]

StageNames == {"cheap", "medium", "heavy"}
CostClasses == {"light", "medium", "heavy"}

Submissions == [label : Kinds \cup {"unlabelled"},
                lean : {"pass", "fail", "uncertain"}, jitter : {0, 14},
                forced : {"none", "evaluation", "medium"}]

Evaluations == [status : {"none", "queued", "running", "succeeded", "failed"},
                mode : {"legacy", "always_expensive", "fixed_progressive",
                        "resource_aware_adaptive"},
                cls : CostClasses, stage : 0..3, log : Seq(StageNames),
                cost : Nat, score : Nat, owner : Runners \cup {Nobody},
                claims : Nat]

Runs == [at : {"idle", "legacy", "stage", "finish", "defer", "fail"},
         i : 0..3, pressure : {"normal", "pressured", "degraded"},
         cls : CostClasses, log : Seq(StageNames), cost : Nat, score : Nat,
         prior : Seq(StageNames), priorCost : Nat]

PInit ==
    /\ subm = [label |-> "unlabelled", lean |-> "uncertain", jitter |-> 0,
               forced |-> "none"]
    /\ ev = [status |-> "none", mode |-> "legacy", cls |-> "light",
             stage |-> 0, log |-> <<>>, cost |-> 0, score |-> 0,
             owner |-> Nobody, claims |-> 0]
    /\ near = FALSE
    /\ run = [r \in Runners |-> NoRun]
    /\ stops = 0

\* The evaluation is created for a submission.
EnqueueEvaluation(label, lean, jitter, forced, mode) ==
    /\ ev.status = "none"
    /\ label # "unlabelled" => lean = "uncertain"
    /\ subm' = [label |-> label, lean |-> lean, jitter |-> jitter,
                forced |-> forced]
    /\ ev' = [ev EXCEPT !.status = "queued", !.mode = mode]
    /\ UNCHANGED <<near, run, stops>>

DeadlineNears ==
    /\ ~near /\ ev.status \in {"queued", "running"}
    /\ near' = TRUE
    /\ UNCHANGED <<subm, ev, run, stops>>

\* Claimed under some pressure; the run starts at current_stage.
ClaimRun(r, pressure) ==
    /\ ev.status = "queued" /\ run[r].at = "idle"
    /\ ev' = [ev EXCEPT !.status = "running", !.owner = r, !.claims = @ + 1]
    /\ run' = [run EXCEPT ![r] =
                 [NoRun EXCEPT !.at = IF ev.mode = "legacy" THEN "legacy"
                                      ELSE "stage",
                               !.i = ev.stage, !.pressure = pressure,
                               !.cls = ev.cls, !.prior = ev.log,
                               !.priorCost = ev.cost]]
    /\ UNCHANGED <<subm, near, stops>>

\* Faulty variant: confidence alone ends a run.
Decide_ConfidentIsEnough(r, e, i) ==
    IF ev.mode = "always_expensive"
    THEN IF Exists(i + 1) THEN "continue" ELSE "finish"
    ELSE IF e.sure THEN "finish"
    ELSE IF ~Exists(i + 1) THEN "finish"
    ELSE IF /\ ev.mode = "resource_aware_adaptive"
            /\ run[r].pressure \in {"degraded", "pressured"}
            /\ CostUnits[StageAt(i + 1)] >= 9 /\ ~near
    THEN "defer" ELSE "continue"

\* Faulty variant: only DEGRADED defers the heavy stage.
Decide_IgnoresPressured(r, e, i) ==
    IF ev.mode = "always_expensive"
    THEN IF Exists(i + 1) THEN "continue" ELSE "finish"
    ELSE IF e.sure /\ e.safe THEN "finish"
    ELSE IF ~Exists(i + 1) THEN "finish"
    ELSE IF e.sure THEN "continue"
    ELSE IF /\ ev.mode = "resource_aware_adaptive"
            /\ run[r].pressure = "degraded"
            /\ CostUnits[StageAt(i + 1)] >= 9 /\ ~near
    THEN "defer" ELSE "continue"

\* ProgressivePolicy.decide.
DecideStage(r, e, i) ==
    IF ev.mode = "always_expensive"
    THEN IF Exists(i + 1) THEN "continue" ELSE "finish"
    ELSE IF e.sure /\ e.safe THEN "finish"
    ELSE IF ~Exists(i + 1) THEN "finish"
    ELSE IF e.sure THEN "continue"
    ELSE IF /\ ev.mode = "resource_aware_adaptive"
            /\ run[r].pressure \in {"degraded", "pressured"}
            /\ CostUnits[StageAt(i + 1)] >= 9 /\ ~near
    THEN "defer" ELSE "continue"

\* run_stage and the decision behind it.
RunStage(r) ==
    LET i == run[r].i
        e == EvidenceFor(subm, i)
        d == DecideStage(r, e, i)
    IN  /\ run[r].at = "stage" /\ Exists(i)
        /\ subm.forced \notin {"evaluation", StageAt(i)}
        /\ run' = [run EXCEPT ![r] =
                     [@ EXCEPT !.log = Append(run[r].log, StageAt(i)),
                               !.cost = run[r].cost + CostUnits[StageAt(i)],
                               !.score = e.score,
                               !.i = i + 1,
                               !.at = IF d = "continue" THEN "stage" ELSE d]]
        /\ UNCHANGED <<subm, ev, near, stops>>

\* force_evaluation_failure or force_stage_failure.
StageFails(r) ==
    /\ \/ run[r].at = "stage" /\ Exists(run[r].i)
          /\ subm.forced \in {"evaluation", StageAt(run[r].i)}
       \/ run[r].at = "legacy" /\ subm.forced = "evaluation"
    /\ run' = [run EXCEPT ![r].at = "fail"]
    /\ UNCHANGED <<subm, ev, near, stops>>

\* evaluate_submission: one piece of work, any score.
EvaluateLegacy(r, score) ==
    /\ run[r].at = "legacy" /\ subm.forced # "evaluation"
    /\ run' = [run EXCEPT ![r] = [@ EXCEPT !.at = "finish", !.score = score]]
    /\ UNCHANGED <<subm, ev, near, stops>>

-----------------------------------------------------------------------------
(* The result, written only while the row is RUNNING for this worker. *)

Mine(r) == ev.status = "running" /\ ev.owner = r

WriteRow(r, row) ==
    /\ ev' = IF Mine(r) THEN row ELSE ev
    /\ run' = [run EXCEPT ![r] = NoRun]
    /\ UNCHANGED <<subm, near, stops>>

\* Faulty variant: the record of the stages before a deferral is dropped.
Merged_RunOnly(r) ==
    [ev EXCEPT !.log = run[r].log, !.cost = run[r].cost, !.stage = run[r].i]

\* The work of earlier claims and of this run.
Merged(r) ==
    [ev EXCEPT !.log = run[r].prior \o run[r].log,
               !.cost = run[r].priorCost + run[r].cost,
               !.stage = run[r].i]

\* mark_succeeded and the update of current_stage.
FinishRun(r) ==
    /\ run[r].at = "finish"
    /\ WriteRow(r, [Merged(r) EXCEPT !.status = "succeeded",
                                     !.score = run[r].score])

\* defer_escalation: back into the queue under the next stage's class.
DeferRun(r) ==
    /\ run[r].at = "defer"
    /\ WriteRow(r, [Merged(r) EXCEPT !.status = "queued", !.owner = Nobody,
                                     !.cls = ClassOf[StageAt(run[r].i)]])

\* mark_failed, with metadata of its own.
FailRun(r) ==
    /\ run[r].at = "fail"
    /\ WriteRow(r, [ev EXCEPT !.status = "failed", !.log = <<>>, !.cost = 0])

CrashRun(r) ==
    /\ run[r].at # "idle" /\ stops < MaxStops
    /\ stops' = stops + 1
    /\ run' = [run EXCEPT ![r] = NoRun]
    /\ UNCHANGED <<subm, ev, near>>

\* recover_stale_running, perhaps while the owner still runs.
RecoverRun ==
    /\ ev.status = "running"
    /\ run[ev.owner].at # "idle" => stops < MaxStops
    /\ stops' = IF run[ev.owner].at # "idle" THEN stops + 1 ELSE stops
    /\ ev' = [ev EXCEPT !.owner = Nobody,
                        !.status = IF ev.claims >= MaxClaims THEN "failed"
                                   ELSE "queued"]
    /\ UNCHANGED <<subm, near, run>>

ResultOf(r) == FinishRun(r) \/ DeferRun(r) \/ FailRun(r)

PNext ==
    \/ \E label \in Labels, lean \in {"pass", "fail", "uncertain"},
          jitter \in {0, 14}, mode \in Modes,
          forced \in {"none", "evaluation", "medium"} :
             EnqueueEvaluation(label, lean, jitter, forced, mode)
    \/ DeadlineNears
    \/ \E r \in Runners :
         \/ \E p \in {"normal", "pressured", "degraded"} : ClaimRun(r, p)
         \/ RunStage(r) \/ StageFails(r)
         \/ \E score \in {0, 100} : EvaluateLegacy(r, score)
         \/ ResultOf(r) \/ CrashRun(r)
    \/ RecoverRun

PSpec == PInit /\ [][PNext]_pVars

-----------------------------------------------------------------------------
(* compare_to_ground_truth. *)

Labelled == subm.label # "unlabelled" /\ ev.mode # "legacy"

Agreement == Decision(ev.score) = GroundTruth(subm.label)

\* A prefix of the plan.
PlanPrefix(n) == SubSeq(Stages, 1, n)

CostOf(n) == CASE n = 0 -> 0 [] n = 1 -> 1 [] n = 2 -> 4 [] n = 3 -> 13

-----------------------------------------------------------------------------
(* Properties. *)

\* What the metadata, the row and a run may hold; a run that is to take a
\* stage has one left in the plan.
PTypeOK ==
    /\ subm \in Submissions
    /\ ev \in Evaluations
    /\ near \in BOOLEAN
    /\ run \in [Runners -> Runs]
    /\ stops \in Nat
    /\ \A r \in Runners : run[r].at = "stage" => Exists(run[r].i)

\* A labelled submission is decided as its ground truth says, in every mode
\* and under every pressure, wherever it is deferred, crashes and resumes:
\* no early exit is a false one.
DecidedAsTruth == ev.status = "succeeded" /\ Labelled => Agreement

\* The record of the work survives deferrals, crashes and late workers: it
\* names every stage up to current_stage once, in order, with their cost.
WorkRecorded ==
    ev.status \in {"queued", "running", "succeeded"} /\ ev.mode # "legacy" =>
        ev.log = PlanPrefix(ev.stage) /\ ev.cost = CostOf(ev.stage)

\* In the adaptive mode the heavy stage of an undecided submission runs under
\* pressure only in a claim that was admitted as HEAVY work, or when the
\* deadline is near.
HeavyIsAdmitted ==
    \A r \in Runners :
        /\ ev.mode = "resource_aware_adaptive"
        /\ run[r].at = "stage" /\ StageAt(run[r].i) = "heavy"
        /\ run[r].pressure # "normal"
        => run[r].cls = "heavy" \/ near

\* What a stage costs and whether it may run now: the work is recorded once,
\* and the heavy stage has been admitted.
StagesAccounted == WorkRecorded /\ HeavyIsAdmitted

-----------------------------------------------------------------------------
(* The inductive invariant behind them. *)

\* The metadata and the mode are fixed before anyone runs: nobody runs an
\* evaluation that is not there, and only the legacy mode skips the stages.
ModeInv ==
    \A r \in Runners :
        /\ ev.status = "none" => run[r].at = "idle"
        /\ run[r].at = "legacy" => ev.mode = "legacy"
        /\ run[r].at \in {"stage", "defer"} => ev.mode # "legacy"

\* A row is resumed at its start, or at the heavy stage as HEAVY work.
ResumeInv ==
    /\ ev.status = "none" => ev.stage = 0 /\ ev.log = <<>> /\ ev.cost = 0
    /\ ev.status \in {"none", "queued", "running"} /\ ev.mode # "legacy" =>
          ev.stage = 0 \/ (ev.stage = 2 /\ ev.cls = "heavy")

\* What a run took over and what it did add up to the stages before i; it
\* defers only the heavy stage.
RunRecorded ==
    \A r \in Runners :
        /\ run[r].at \in {"stage", "finish", "defer"} /\ ev.mode # "legacy" =>
              /\ run[r].prior \o run[r].log = PlanPrefix(run[r].i)
              /\ run[r].priorCost + run[r].cost = CostOf(run[r].i)
        /\ run[r].at = "defer" => run[r].i = 2

\* A run finishes only with the score its ground truth asks for.
FinishInv ==
    \A r \in Runners :
        run[r].at = "finish" /\ Labelled =>
            Decision(run[r].score) = GroundTruth(subm.label)

PInv == /\ PTypeOK /\ ModeInv /\ ResumeInv /\ RunRecorded /\ FinishInv
        /\ DecidedAsTruth /\ WorkRecorded /\ HeavyIsAdmitted
=============================================================================
