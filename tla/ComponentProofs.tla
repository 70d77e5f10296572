--------------------------- MODULE ComponentProofs ---------------------------
(***************************************************************************)
(* Machine-checked proofs about the components MCComponents checks side by *)
(* side: the progressive evaluation, the API and its views, the load       *)
(* experiments, the lexical retrieval, the chunkers and the executor.      *)
(* Each is proved on its own, from its own specification.                  *)
(***************************************************************************)
EXTENDS ProgressiveEvaluation, ParticipantApi, ExperimentHarness,
        LexicalRetrieval, Chunking, ProcessExecutor,
        SequenceTheorems, FiniteSetTheorems, TLAPS

(***************************************************************************)
(* ProgressiveEvaluation                                                   *)
(***************************************************************************)

-----------------------------------------------------------------------------
(* The plan. *)

\* The three stages, their costs and their classes.
LEMMA Plan ==
    /\ StageAt(0) = "cheap" /\ StageAt(1) = "medium" /\ StageAt(2) = "heavy"
    /\ \A i \in 0..3 : Exists(i) <=> i \in 0..2
    /\ CostUnits["cheap"] = 1 /\ CostUnits["medium"] = 3
    /\ CostUnits["heavy"] = 9
    /\ ClassOf["heavy"] = "heavy"
  BY DEF StageAt, Stages, Exists, CostUnits, ClassOf

\* Each stage of the plan is one of the three, with a cost.
LEMMA StageType ==
    ASSUME NEW i \in 0..2
    PROVE  StageAt(i) \in StageNames /\ CostUnits[StageAt(i)] \in Nat
<1>1. i = 0 \/ i = 1 \/ i = 2
  OBVIOUS
<1> QED
  BY <1>1, Plan DEF StageNames

\* One more stage of the plan is one more name and its cost.
LEMMA PlanGrows ==
    ASSUME NEW i \in 0..2
    PROVE  /\ PlanPrefix(i + 1) = Append(PlanPrefix(i), StageAt(i))
           /\ CostOf(i + 1) = CostOf(i) + CostUnits[StageAt(i)]
           /\ CostOf(i) \in Nat
<1>0. i = 0 \/ i = 1 \/ i = 2
  OBVIOUS
<1>1. Stages \in Seq(StageNames) /\ Len(Stages) = 3
  BY DEF Stages, StageNames
<1>2. SubSeq(Stages, 1, i + 1) = SubSeq(Stages, 1, i) \o <<Stages[i + 1]>>
  <2>1. 1 \in 1..Len(Stages) /\ i + 1 \in 1..Len(Stages) /\ (i + 1) - 1 = i
    BY <1>1
  <2> QED
    BY <1>1, <2>1, SubSeqRecursiveSecond
<1>3. PlanPrefix(i) \in Seq(StageNames)
  <2>1. \A j \in 1..i : Stages[j] \in StageNames
    BY <1>1
  <2> QED
    BY <2>1, SubSeqProperties DEF PlanPrefix
<1>4. Append(PlanPrefix(i), StageAt(i)) = PlanPrefix(i) \o <<StageAt(i)>>
  BY <1>3, StageType, AppendIsConcat
<1>5. PlanPrefix(i + 1) = Append(PlanPrefix(i), StageAt(i))
  BY <1>2, <1>4 DEF PlanPrefix, StageAt
<1>6. /\ CostOf(i + 1) = CostOf(i) + CostUnits[StageAt(i)]
      /\ CostOf(i) \in Nat
  BY <1>0, Plan DEF CostOf
<1> QED
  BY <1>5, <1>6

\* Nothing is recorded before the first stage.
LEMMA PlanStart == PlanPrefix(0) = <<>> /\ CostOf(0) = 0 /\ CostOf(2) = 4
  BY SubSeqEmpty DEF PlanPrefix, CostOf

\* A stage added to a run is added to the record of all runs.
LEMMA AppendRight ==
    ASSUME NEW p \in Seq(StageNames), NEW q \in Seq(StageNames),
           NEW x \in StageNames
    PROVE  p \o Append(q, x) = Append(p \o q, x)
<1>1. Append(q, x) = q \o <<x>> /\ <<x>> \in Seq(StageNames)
  BY AppendIsConcat
<1>2. p \o q \in Seq(StageNames)
  BY ConcatProperties
<1>3. Append(p \o q, x) = (p \o q) \o <<x>>
  BY <1>2, AppendIsConcat
<1> QED
  BY <1>1, <1>3, ConcatAssociative

-----------------------------------------------------------------------------
(* The evidence. *)

\* The truth score of a kind is on the side of the threshold of its truth.
LEMMA TruthDecides ==
    ASSUME NEW k, NEW j \in {0, 14}
    PROVE  /\ Truth(k, j).score \in Nat
           /\ Decision(Truth(k, j).score) = GroundTruth(k)
           /\ Truth(k, j).sure = TRUE /\ Truth(k, j).safe = TRUE
  BY DEF Truth, Evidence, TruthScore, Decision, GroundTruth, PassThreshold

\* The evidence of an unlabelled submission is sure exactly when it is safe.
LEMMA UnlabelledType ==
    ASSUME NEW lean, NEW i, NEW base \in {0, 14}
    PROVE  LET e == UnlabelledEvidence(lean, i, base)
           IN  e.score \in Nat /\ (e.sure <=> e.safe)
<1>1. base % 11 \in Nat /\ base % 20 \in Nat /\ base % 41 \in Nat
  OBVIOUS
<1> DEFINE s == IF lean = "pass" /\ i = 0 THEN 90 + (base % 11)
                ELSE IF lean = "fail" /\ i = 0 THEN base % 20
                ELSE 40 + (base % 41)
<1>2. s \in Nat
  BY <1>1
<1>3. UnlabelledEvidence(lean, i, base)
        = [sure |-> lean # "uncertain", safe |-> lean # "uncertain", score |-> s]
  BY DEF UnlabelledEvidence, Evidence
<1> HIDE DEF s
<1> QED
  BY <1>2, <1>3

\* A safe and sure signal, and any signal of the heavy stage, is the truth;
\* only the cheap stage gives a sure signal that is not safe.
LEMMA EvidenceIsTruth ==
    ASSUME subm \in Submissions, NEW i \in 0..2
    PROVE  LET e == EvidenceFor(subm, i)
           IN  /\ e.score \in Nat
               /\ subm.label # "unlabelled" /\ ((e.sure /\ e.safe) \/ i = 2) =>
                    Decision(e.score) = GroundTruth(subm.label)
               /\ i # 0 /\ e.sure => e.safe
               /\ subm.label # "unlabelled" /\ i = 2 => e.sure /\ e.safe
<1> DEFINE e == EvidenceFor(subm, i)
           k == subm.label
           j == subm.jitter
<1>0. j \in {0, 14} /\ k \in Kinds \cup {"unlabelled"}
  BY DEF Submissions
<1>1. CASE k = "unlabelled"
  <2>1. e = UnlabelledEvidence(subm.lean, i, j)
    BY <1>1 DEF EvidenceFor
  <2> QED
    BY <1>0, <1>1, <2>1, UnlabelledType
<1>2. CASE k # "unlabelled" /\ i = 0
  <2>1. e = CheapEvidence(k, j)
    BY <1>2, Plan DEF EvidenceFor
  <2>2. CASE k \in Easy
    BY <1>0, <1>2, <2>1, <2>2, TruthDecides DEF CheapEvidence
  <2>3. CASE k \notin Easy
    <3>1. e.score \in Nat /\ ~(e.sure /\ e.safe)
      BY <2>1, <2>3 DEF CheapEvidence, Evidence, Undecided
    <3> QED
      BY <1>2, <3>1
  <2> QED
    BY <2>2, <2>3
<1>3. CASE k # "unlabelled" /\ i = 1
  <2>1. e = MediumEvidence(k, j)
    BY <1>3, Plan DEF EvidenceFor
  <2>2. CASE k \in Ambiguous
    BY <1>0, <1>3, <2>1, <2>2, TruthDecides DEF MediumEvidence
  <2>3. CASE k \notin Ambiguous
    <3>1. e.score \in Nat /\ e.sure = FALSE /\ e.safe = FALSE
      BY <2>1, <2>3 DEF MediumEvidence, Evidence, Undecided
    <3> QED
      BY <1>3, <3>1
  <2> QED
    BY <2>2, <2>3
<1>4. CASE k # "unlabelled" /\ i = 2
  <2>1. e = Truth(k, j)
    BY <1>4, Plan DEF EvidenceFor, HeavyEvidence
  <2> QED
    BY <1>0, <1>4, <2>1, TruthDecides
<1> QED
  BY <1>1, <1>2, <1>3, <1>4

-----------------------------------------------------------------------------
(* The steps. *)

\* A run that is dropped.
LEMMA NoRunType ==
    NoRun \in Runs /\ NoRun.at = "idle"
  BY EmptySeq DEF NoRun, Runs, CostClasses

\* Nothing is recorded and nobody runs when the evaluation is not there.
LEMMA PInitInv == PInit => PInv
<1> SUFFICES ASSUME PInit PROVE PInv
  OBVIOUS
<1>1. PTypeOK
  <2>1. subm \in Submissions /\ near \in BOOLEAN /\ stops \in Nat
    BY DEF PInit, Submissions
  <2>2. ev \in Evaluations
    BY EmptySeq DEF PInit, Evaluations, CostClasses
  <2>3. run \in [Runners -> Runs] /\ \A r \in Runners : run[r].at = "idle"
    BY NoRunType DEF PInit
  <2> QED
    BY <2>1, <2>2, <2>3 DEF PTypeOK
<1>2. ModeInv /\ ResumeInv /\ RunRecorded /\ FinishInv
  BY DEF PInit, NoRun, ModeInv, ResumeInv, RunRecorded, FinishInv
<1>3. DecidedAsTruth /\ WorkRecorded /\ HeavyIsAdmitted
  BY DEF PInit, NoRun, DecidedAsTruth, WorkRecorded, HeavyIsAdmitted
<1> QED
  BY <1>1, <1>2, <1>3 DEF PInv

\* The evaluation is created while nobody runs it.
LEMMA EnqueueInv ==
    ASSUME PInv, NEW label \in Labels, NEW lean \in {"pass", "fail", "uncertain"},
           NEW jitter \in {0, 14}, NEW mode \in Modes,
           NEW forced \in {"none", "evaluation", "medium"},
           EnqueueEvaluation(label, lean, jitter, forced, mode)
    PROVE  PInv'
<1> USE ProgressiveAssumption
<1>1. /\ ev.status = "none" /\ near' = near /\ run' = run /\ stops' = stops
      /\ subm' = [label |-> label, lean |-> lean, jitter |-> jitter,
                  forced |-> forced]
      /\ ev' = [ev EXCEPT !.status = "queued", !.mode = mode]
      /\ ev \in Evaluations
  BY DEF EnqueueEvaluation, PInv, PTypeOK
<1>2. /\ ev' \in Evaluations /\ ev'.status = "queued" /\ ev'.stage = ev.stage
      /\ ev'.log = ev.log /\ ev'.cost = ev.cost
  BY <1>1 DEF Evaluations
<1>3. subm' \in Submissions
  BY <1>1 DEF Submissions
<1>4. \A r \in Runners : run'[r].at = "idle"
  BY <1>1 DEF PInv, ModeInv
<1>5. PTypeOK'
  BY <1>1, <1>2, <1>3, <1>4 DEF PInv, PTypeOK
<1>6. ev.stage = 0 /\ ev.log = <<>> /\ ev.cost = 0
  BY <1>1 DEF PInv, ResumeInv
<1>7. ModeInv' /\ ResumeInv' /\ RunRecorded' /\ FinishInv'
  BY <1>2, <1>4, <1>6 DEF ModeInv, ResumeInv, RunRecorded, FinishInv
<1>8. DecidedAsTruth' /\ WorkRecorded' /\ HeavyIsAdmitted'
  BY <1>2, <1>4, <1>6, PlanStart
  DEF DecidedAsTruth, WorkRecorded, HeavyIsAdmitted
<1> QED
  BY <1>5, <1>7, <1>8 DEF PInv

\* The deadline only draws nearer.
LEMMA DeadlineInv ==
    ASSUME PInv, DeadlineNears
    PROVE  PInv'
<1>1. near' = TRUE /\ subm' = subm /\ ev' = ev /\ run' = run /\ stops' = stops
  BY DEF DeadlineNears
<1>2. PTypeOK' /\ ModeInv' /\ ResumeInv' /\ RunRecorded'
  BY <1>1 DEF PInv, PTypeOK, ModeInv, ResumeInv, RunRecorded
<1>3. FinishInv' /\ DecidedAsTruth' /\ WorkRecorded' /\ HeavyIsAdmitted'
  BY <1>1 DEF PInv, FinishInv, DecidedAsTruth, WorkRecorded, HeavyIsAdmitted,
     Labelled, Agreement
<1> QED
  BY <1>2, <1>3 DEF PInv

\* A claim takes over the record of the work and the class of the row.
LEMMA ClaimRunInv ==
    ASSUME PInv, NEW r \in Runners,
           NEW p \in {"normal", "pressured", "degraded"}, ClaimRun(r, p)
    PROVE  PInv'
<1> DEFINE n == [NoRun EXCEPT !.at = IF ev.mode = "legacy" THEN "legacy"
                                     ELSE "stage",
                              !.i = ev.stage, !.pressure = p,
                              !.cls = ev.cls, !.prior = ev.log,
                              !.priorCost = ev.cost]
<1>1. /\ ev.status = "queued" /\ near' = near /\ subm' = subm /\ stops' = stops
      /\ ev' = [ev EXCEPT !.status = "running", !.owner = r,
                          !.claims = ev.claims + 1]
      /\ run' = [run EXCEPT ![r] = n]
      /\ ev \in Evaluations /\ run \in [Runners -> Runs]
  BY DEF ClaimRun, PInv, PTypeOK
<1>2. /\ ev' \in Evaluations /\ ev'.status = "running" /\ ev'.mode = ev.mode
      /\ ev'.cls = ev.cls /\ ev'.stage = ev.stage /\ ev'.log = ev.log
      /\ ev'.cost = ev.cost /\ ev'.score = ev.score
  <2> DEFINE c == ev.claims + 1
  <2>1. c \in Nat
    BY <1>1 DEF Evaluations
  <2>2. ev' = [ev EXCEPT !.status = "running", !.owner = r, !.claims = c]
    BY <1>1
  <2> HIDE DEF c
  <2> QED
    BY <1>1, <2>1, <2>2 DEF Evaluations
<1>3. /\ n.at = (IF ev.mode = "legacy" THEN "legacy" ELSE "stage")
      /\ n.i = ev.stage /\ n.cls = ev.cls /\ n.prior = ev.log /\ n.log = <<>>
      /\ n.priorCost = ev.cost /\ n.cost = 0
      /\ n \in Runs
  BY <1>1, EmptySeq DEF NoRun, Evaluations, Runs
<1> HIDE DEF n
<1>4. run'[r] = n /\ \A v \in Runners : v # r => run'[v] = run[v]
  BY <1>1
<1>5. ev.mode # "legacy" => /\ ev.stage = 0 \/ (ev.stage = 2 /\ ev.cls = "heavy")
                            /\ ev.log = PlanPrefix(ev.stage)
                            /\ ev.cost = CostOf(ev.stage)
  BY <1>1 DEF PInv, ResumeInv, WorkRecorded
<1>6. PTypeOK'
  <2>1. n.at = "stage" => Exists(n.i)
    BY <1>3, <1>5, Plan
  <2> QED
    BY <1>1, <1>2, <1>3, <1>4, <2>1 DEF PInv, PTypeOK
<1>7. ModeInv' /\ ResumeInv'
  BY <1>1, <1>2, <1>3, <1>4, <1>5 DEF PInv, ModeInv, ResumeInv
<1>8. RunRecorded'
  <2>1. ev.log \in Seq(StageNames) /\ ev.cost \in Nat
    BY <1>1 DEF Evaluations
  <2>2. n.prior \o n.log = ev.log /\ n.priorCost + n.cost = ev.cost
    BY <1>3, <2>1, ConcatEmptySeq
  <2> QED
    BY <1>2, <1>3, <1>4, <1>5, <2>2 DEF PInv, RunRecorded
<1>9. FinishInv' /\ DecidedAsTruth'
  BY <1>1, <1>2, <1>3, <1>4 DEF PInv, FinishInv, DecidedAsTruth, Labelled
<1>10. WorkRecorded'
  BY <1>2, <1>5 DEF WorkRecorded
<1>11. HeavyIsAdmitted'
  <2>1. n.at = "stage" /\ StageAt(n.i) = "heavy" => n.cls = "heavy"
    BY <1>3, <1>5, Plan
  <2> QED
    BY <1>1, <1>2, <1>4, <2>1 DEF PInv, HeavyIsAdmitted
<1> QED
  BY <1>6, <1>7, <1>8, <1>9, <1>10, <1>11 DEF PInv

\* A step that only moves run r keeps what is said of the row; what is said
\* of the runs is to be shown for the new run of r alone.
LEMMA OneRun ==
    ASSUME PInv, NEW r \in Runners, NEW n,
           run' = [run EXCEPT ![r] = n], UNCHANGED <<subm, ev, near>>,
           stops' \in Nat, n \in Runs,
           ev.status = "none" => n.at = "idle",
           n.at = "legacy" => ev.mode = "legacy",
           n.at \in {"stage", "defer"} => ev.mode # "legacy",
           n.at = "stage" => Exists(n.i),
           n.at \in {"stage", "finish", "defer"} /\ ev.mode # "legacy" =>
              /\ n.prior \o n.log = PlanPrefix(n.i)
              /\ n.priorCost + n.cost = CostOf(n.i),
           n.at = "defer" => n.i = 2,
           n.at = "finish" /\ Labelled =>
              Decision(n.score) = GroundTruth(subm.label),
           /\ ev.mode = "resource_aware_adaptive"
           /\ n.at = "stage" /\ StageAt(n.i) = "heavy" /\ n.pressure # "normal"
           => n.cls = "heavy" \/ near
    PROVE  PInv'
<1>0. subm' = subm /\ ev' = ev /\ near' = near
  OBVIOUS
<1>1. /\ run'[r] = n /\ (\A v \in Runners : v # r => run'[v] = run[v])
      /\ run' \in [Runners -> Runs]
  BY DEF PInv, PTypeOK
<1>2. PTypeOK'
  BY <1>0, <1>1 DEF PInv, PTypeOK
<1>3. ModeInv' /\ ResumeInv'
  BY <1>0, <1>1 DEF PInv, ModeInv, ResumeInv
<1>4. RunRecorded'
  BY <1>0, <1>1 DEF PInv, RunRecorded
<1>5. FinishInv' /\ DecidedAsTruth' /\ WorkRecorded'
  BY <1>0, <1>1 DEF PInv, FinishInv, DecidedAsTruth, WorkRecorded, Labelled,
     Agreement
<1>6. HeavyIsAdmitted'
  BY <1>0, <1>1 DEF PInv, HeavyIsAdmitted
<1> QED
  BY <1>2, <1>3, <1>4, <1>5, <1>6 DEF PInv

\* A stage adds itself to the record; the decision finishes only with the
\* truth and goes on to the heavy stage only when it may.
LEMMA RunStageInv ==
    ASSUME PInv, NEW r \in Runners, RunStage(r)
    PROVE  PInv'
<1> DEFINE i == run[r].i
           e == EvidenceFor(subm, i)
           d == DecideStage(r, e, i)
           a == IF d = "continue" THEN "stage" ELSE d
           n == [run[r] EXCEPT !.log = Append(run[r].log, StageAt(i)),
                               !.cost = run[r].cost + CostUnits[StageAt(i)],
                               !.score = e.score,
                               !.i = i + 1,
                               !.at = a]
<1>1. /\ run[r].at = "stage" /\ Exists(i)
      /\ run' = [run EXCEPT ![r] = n]
      /\ subm' = subm /\ ev' = ev /\ near' = near /\ stops' = stops
      /\ run[r] \in Runs /\ stops \in Nat /\ subm \in Submissions
  BY DEF RunStage, PInv, PTypeOK
<1>2. i \in 0..2 /\ i + 1 \in 0..3
  BY <1>1, Plan DEF Runs
<1>3. /\ e.score \in Nat
      /\ subm.label # "unlabelled" /\ ((e.sure /\ e.safe) \/ i = 2) =>
           Decision(e.score) = GroundTruth(subm.label)
      /\ i # 0 /\ e.sure => e.safe
  BY <1>1, <1>2, EvidenceIsTruth
<1> HIDE DEF e
<1>4. ev.mode # "legacy" /\ ev.status # "none"
  BY <1>1 DEF PInv, ModeInv
<1>5. /\ d \in {"continue", "finish", "defer"}
      /\ d = "finish" => (e.sure /\ e.safe) \/ i = 2
      /\ d = "defer" => i = 1
      /\ d = "continue" => i # 2
      /\ d = "continue" /\ i = 1 /\ ev.mode = "resource_aware_adaptive"
           /\ run[r].pressure # "normal" => near
  <2>1. Exists(i + 1) <=> i # 2
    BY <1>2, Plan
  <2>2. i = 0 => ~(CostUnits[StageAt(i + 1)] >= 9)
    BY Plan
  <2>3. CostUnits[StageAt(2)] >= 9
    BY Plan
  <2>4. run[r].pressure \in {"normal", "pressured", "degraded"}
    BY <1>1 DEF Runs
  <2>5. i = 0 \/ i = 1 \/ i = 2
    BY <1>2
  <2> QED
    BY <1>3, <2>1, <2>2, <2>3, <2>4, <2>5 DEF DecideStage
<1> HIDE DEF d
<1>6. /\ a \in {"stage", "finish", "defer"}
      /\ a = "finish" => d = "finish"
      /\ a = "defer" => d = "defer"
      /\ a = "stage" => d = "continue"
  BY <1>5
<1> HIDE DEF a
<1>7. /\ StageAt(i) \in StageNames /\ CostUnits[StageAt(i)] \in Nat
      /\ Append(run[r].log, StageAt(i)) \in Seq(StageNames)
      /\ run[r].log \in Seq(StageNames) /\ run[r].prior \in Seq(StageNames)
      /\ run[r].cost \in Nat /\ run[r].priorCost \in Nat
  BY <1>1, <1>2, StageType, AppendProperties DEF Runs
<1>8. /\ n \in Runs /\ n.at = a /\ n.i = i + 1 /\ n.score = e.score
      /\ n.log = Append(run[r].log, StageAt(i)) /\ n.prior = run[r].prior
      /\ n.cost = run[r].cost + CostUnits[StageAt(i)]
      /\ n.priorCost = run[r].priorCost /\ n.pressure = run[r].pressure
      /\ n.cls = run[r].cls
  <2>1. run[r].cost + CostUnits[StageAt(i)] \in Nat
    BY <1>7
  <2> QED
    BY <1>1, <1>2, <1>3, <1>6, <1>7, <2>1 DEF Runs
<1> HIDE DEF n
<1>9. /\ n.prior \o n.log = PlanPrefix(n.i)
      /\ n.priorCost + n.cost = CostOf(n.i)
  <2>1. /\ run[r].prior \o run[r].log = PlanPrefix(i)
        /\ run[r].priorCost + run[r].cost = CostOf(i)
    BY <1>1, <1>4 DEF PInv, RunRecorded
  <2>2. n.prior \o n.log = Append(PlanPrefix(i), StageAt(i))
    BY <1>7, <1>8, <2>1, AppendRight
  <2>3. n.priorCost + n.cost = CostOf(i) + CostUnits[StageAt(i)]
    BY <1>7, <1>8, <2>1
  <2> QED
    BY <1>2, <1>8, <2>2, <2>3, PlanGrows
<1>10. n.at = "stage" => Exists(n.i)
  BY <1>2, <1>5, <1>6, <1>8, Plan
<1>11. n.at = "defer" => n.i = 2
  BY <1>5, <1>6, <1>8
<1>12. n.at = "finish" /\ Labelled => Decision(n.score) = GroundTruth(subm.label)
  BY <1>3, <1>5, <1>6, <1>8 DEF Labelled
<1>13. /\ ev.mode = "resource_aware_adaptive"
       /\ n.at = "stage" /\ StageAt(n.i) = "heavy" /\ n.pressure # "normal"
       => n.cls = "heavy" \/ near
  <2>1. StageAt(n.i) = "heavy" /\ n.at = "stage" => i = 1
    BY <1>2, <1>5, <1>6, <1>8, Plan
  <2> QED
    BY <1>5, <1>6, <1>8, <2>1
<1>14. n.at \notin {"idle", "legacy"}
  BY <1>6, <1>8
<1> QED
  BY <1>1, <1>4, <1>8, <1>9, <1>10, <1>11, <1>12, <1>13, <1>14, OneRun

\* A run that failed, or whose worker stopped, promises nothing.
LEMMA StageFailsInv ==
    ASSUME PInv, NEW r \in Runners, StageFails(r)
    PROVE  PInv'
<1> DEFINE n == [run[r] EXCEPT !.at = "fail"]
<1>1. /\ run[r].at # "idle" /\ run' = [run EXCEPT ![r] = n]
      /\ subm' = subm /\ ev' = ev /\ near' = near /\ stops' = stops
      /\ run[r] \in Runs /\ stops \in Nat
  BY DEF StageFails, PInv, PTypeOK
<1>2. n \in Runs /\ n.at = "fail"
  BY <1>1 DEF Runs
<1>3. ev.status # "none"
  BY <1>1 DEF PInv, ModeInv
<1> HIDE DEF n
<1> QED
  BY <1>1, <1>2, <1>3, OneRun

\* The legacy evaluator has no stages to account for.
LEMMA EvaluateLegacyInv ==
    ASSUME PInv, NEW r \in Runners, NEW score \in {0, 100},
           EvaluateLegacy(r, score)
    PROVE  PInv'
<1> DEFINE n == [run[r] EXCEPT !.at = "finish", !.score = score]
<1>1. /\ run[r].at = "legacy" /\ run' = [run EXCEPT ![r] = n]
      /\ subm' = subm /\ ev' = ev /\ near' = near /\ stops' = stops
      /\ run[r] \in Runs /\ stops \in Nat
  BY DEF EvaluateLegacy, PInv, PTypeOK
<1>2. n \in Runs /\ n.at = "finish"
  <2>1. score \in Nat
    OBVIOUS
  <2> QED
    BY <1>1, <2>1 DEF Runs
<1>3. ev.status # "none" /\ ev.mode = "legacy"
  BY <1>1 DEF PInv, ModeInv
<1> HIDE DEF n
<1> QED
  BY <1>1, <1>2, <1>3, OneRun DEF Labelled

\* A crash loses the run and nothing else.
LEMMA CrashRunInv ==
    ASSUME PInv, NEW r \in Runners, CrashRun(r)
    PROVE  PInv'
<1>1. /\ run' = [run EXCEPT ![r] = NoRun]
      /\ subm' = subm /\ ev' = ev /\ near' = near /\ stops' = stops + 1
      /\ stops \in Nat
  BY DEF CrashRun, PInv, PTypeOK
<1>2. stops' \in Nat
  BY <1>1
<1> QED
  BY <1>1, <1>2, NoRunType, OneRun

\* A result replaces the row only while it is RUNNING for the worker; what is
\* to be shown is that the new row is an accounted one.
LEMMA WriteRowInv ==
    ASSUME PInv, NEW r \in Runners, NEW new, WriteRow(r, new),
           Mine(r) =>
             /\ new \in Evaluations /\ new.mode = ev.mode
             /\ new.status \in {"queued", "succeeded", "failed"}
             /\ new.status # "failed" /\ ev.mode # "legacy" =>
                  /\ new.log = PlanPrefix(new.stage)
                  /\ new.cost = CostOf(new.stage)
             /\ new.status = "queued" /\ ev.mode # "legacy" =>
                  new.stage = 2 /\ new.cls = "heavy"
             /\ new.status = "succeeded" /\ Labelled =>
                  Decision(new.score) = GroundTruth(subm.label)
    PROVE  PInv'
<1>1. /\ ev' = (IF Mine(r) THEN new ELSE ev) /\ run' = [run EXCEPT ![r] = NoRun]
      /\ subm' = subm /\ near' = near /\ stops' = stops
      /\ ev \in Evaluations /\ run \in [Runners -> Runs] /\ stops \in Nat
  BY DEF WriteRow, PInv, PTypeOK
<1>2. CASE ~Mine(r)
  <2>1. ev' = ev
    BY <1>1, <1>2
  <2> QED
    BY <1>1, <2>1, NoRunType, OneRun
<1>3. CASE Mine(r)
  <2>1. ev' = new /\ ev.status = "running" /\ new \in Evaluations
        /\ ev'.mode = ev.mode
    BY <1>1, <1>3 DEF Mine
  <2>2. /\ run'[r] = NoRun /\ (\A v \in Runners : v # r => run'[v] = run[v])
        /\ run' \in [Runners -> Runs]
    BY <1>1, NoRunType
  <2>3. PTypeOK'
    BY <1>1, <2>1, <2>2, NoRunType DEF PInv, PTypeOK
  <2>4. ModeInv' /\ ResumeInv'
    BY <1>3, <2>1, <2>2, NoRunType DEF PInv, ModeInv, ResumeInv
  <2>5. RunRecorded'
    BY <2>1, <2>2, NoRunType DEF PInv, RunRecorded
  <2>6. FinishInv'
    BY <1>1, <2>1, <2>2, NoRunType DEF PInv, FinishInv, Labelled
  <2>7. DecidedAsTruth' /\ WorkRecorded'
    BY <1>1, <1>3, <2>1 DEF DecidedAsTruth, WorkRecorded, Labelled, Agreement
  <2>8. HeavyIsAdmitted'
    BY <1>1, <2>1, <2>2, NoRunType DEF PInv, HeavyIsAdmitted
  <2> QED
    BY <2>3, <2>4, <2>5, <2>6, <2>7, <2>8 DEF PInv
<1> QED
  BY <1>2, <1>3

\* The merged record of a run is a row, with the work of all claims.
LEMMA MergedRow ==
    ASSUME PInv, NEW r \in Runners
    PROVE  /\ Merged(r) \in Evaluations
           /\ Merged(r).mode = ev.mode /\ Merged(r).stage = run[r].i
           /\ Merged(r).log = run[r].prior \o run[r].log
           /\ Merged(r).cost = run[r].priorCost + run[r].cost
<1>1. ev \in Evaluations /\ run[r] \in Runs
  BY DEF PInv, PTypeOK
<1>2. /\ run[r].prior \o run[r].log \in Seq(StageNames)
      /\ run[r].priorCost + run[r].cost \in Nat /\ run[r].i \in 0..3
  BY <1>1, ConcatProperties DEF Runs
<1> DEFINE l == run[r].prior \o run[r].log
           c == run[r].priorCost + run[r].cost
<1>3. Merged(r) = [ev EXCEPT !.log = l, !.cost = c, !.stage = run[r].i]
  BY DEF Merged
<1>4. l \in Seq(StageNames) /\ c \in Nat
  BY <1>2
<1> HIDE DEF l, c
<1>5. /\ Merged(r) \in Evaluations
      /\ Merged(r).mode = ev.mode /\ Merged(r).stage = run[r].i
      /\ Merged(r).log = l /\ Merged(r).cost = c
  BY <1>1, <1>2, <1>3, <1>4 DEF Evaluations
<1> QED
  BY <1>5 DEF l, c

\* mark_succeeded writes the score and the stages of the run that finished.
LEMMA FinishRunInv ==
    ASSUME PInv, NEW r \in Runners, FinishRun(r)
    PROVE  PInv'
<1> DEFINE m == Merged(r)
           new == [m EXCEPT !.status = "succeeded", !.score = run[r].score]
<1>1. run[r].at = "finish" /\ WriteRow(r, new) /\ run[r] \in Runs
  BY DEF FinishRun, PInv, PTypeOK
<1>2. /\ m \in Evaluations /\ m.mode = ev.mode /\ m.stage = run[r].i
      /\ m.log = run[r].prior \o run[r].log
      /\ m.cost = run[r].priorCost + run[r].cost
  BY MergedRow
<1> HIDE DEF m
<1>3. /\ new \in Evaluations /\ new.mode = m.mode /\ new.stage = m.stage
      /\ new.log = m.log /\ new.cost = m.cost /\ new.status = "succeeded"
      /\ new.score = run[r].score
  BY <1>1, <1>2 DEF Evaluations, Runs
<1> HIDE DEF new
<1>4. ev.mode # "legacy" => /\ new.log = PlanPrefix(new.stage)
                            /\ new.cost = CostOf(new.stage)
  BY <1>1, <1>2, <1>3 DEF PInv, RunRecorded
<1>5. Labelled => Decision(new.score) = GroundTruth(subm.label)
  BY <1>1, <1>3 DEF PInv, FinishInv
<1> QED
  BY <1>1, <1>2, <1>3, <1>4, <1>5, WriteRowInv

\* defer_escalation requeues at the heavy stage, as HEAVY work.
LEMMA DeferRunInv ==
    ASSUME PInv, NEW r \in Runners, DeferRun(r)
    PROVE  PInv'
<1> DEFINE m == Merged(r)
           new == [m EXCEPT !.status = "queued", !.owner = Nobody,
                            !.cls = ClassOf[StageAt(run[r].i)]]
<1>1. run[r].at = "defer" /\ WriteRow(r, new) /\ run[r] \in Runs
  BY DEF DeferRun, PInv, PTypeOK
<1>2. /\ m \in Evaluations /\ m.mode = ev.mode /\ m.stage = run[r].i
      /\ m.log = run[r].prior \o run[r].log
      /\ m.cost = run[r].priorCost + run[r].cost
  BY MergedRow
<1>3. run[r].i = 2 /\ ev.mode # "legacy"
  BY <1>1 DEF PInv, RunRecorded, ModeInv
<1>4. ClassOf[StageAt(run[r].i)] = "heavy"
  BY <1>3, Plan
<1> HIDE DEF m
<1>5. /\ new \in Evaluations /\ new.mode = m.mode /\ new.stage = m.stage
      /\ new.log = m.log /\ new.cost = m.cost /\ new.status = "queued"
      /\ new.cls = "heavy"
  BY <1>2, <1>4 DEF Evaluations, CostClasses
<1> HIDE DEF new
<1>6. new.log = PlanPrefix(new.stage) /\ new.cost = CostOf(new.stage)
  BY <1>1, <1>2, <1>3, <1>5 DEF PInv, RunRecorded
<1> QED
  BY <1>1, <1>2, <1>3, <1>5, <1>6, WriteRowInv

\* mark_failed drops the record.
LEMMA FailRunInv ==
    ASSUME PInv, NEW r \in Runners, FailRun(r)
    PROVE  PInv'
<1> DEFINE new == [ev EXCEPT !.status = "failed", !.log = <<>>, !.cost = 0]
<1>1. WriteRow(r, new) /\ ev \in Evaluations
  BY DEF FailRun, PInv, PTypeOK
<1>2. new \in Evaluations /\ new.mode = ev.mode /\ new.status = "failed"
  BY <1>1, EmptySeq DEF Evaluations
<1> HIDE DEF new
<1> QED
  BY <1>1, <1>2, WriteRowInv

\* Recovery gives the row back, with its stage, class and record.
LEMMA RecoverRunInv ==
    ASSUME PInv, RecoverRun
    PROVE  PInv'
<1> DEFINE st == IF ev.claims >= MaxClaims THEN "failed" ELSE "queued"
<1>1. /\ ev.status = "running" /\ subm' = subm /\ near' = near /\ run' = run
      /\ ev' = [ev EXCEPT !.owner = Nobody, !.status = st]
      /\ ev \in Evaluations /\ stops' \in Nat
  BY DEF RecoverRun, PInv, PTypeOK
<1>2. st \in {"failed", "queued"}
  OBVIOUS
<1> HIDE DEF st
<1>3. /\ ev' \in Evaluations /\ ev'.status \in {"failed", "queued"}
      /\ ev'.mode = ev.mode /\ ev'.cls = ev.cls /\ ev'.stage = ev.stage
      /\ ev'.log = ev.log /\ ev'.cost = ev.cost
  BY <1>1, <1>2 DEF Evaluations
<1>4. PTypeOK' /\ ModeInv'
  BY <1>1, <1>3 DEF PInv, PTypeOK, ModeInv
<1>5. ResumeInv' /\ WorkRecorded'
  BY <1>1, <1>3 DEF PInv, ResumeInv, WorkRecorded
<1>6. RunRecorded' /\ HeavyIsAdmitted'
  BY <1>1, <1>3 DEF PInv, RunRecorded, HeavyIsAdmitted
<1>7. FinishInv' /\ DecidedAsTruth'
  BY <1>1, <1>3 DEF PInv, FinishInv, DecidedAsTruth, Labelled
<1> QED
  BY <1>4, <1>5, <1>6, <1>7 DEF PInv

\* Every step keeps the invariant.
LEMMA PNextInv == PInv /\ [PNext]_pVars => PInv'
<1> SUFFICES ASSUME PInv, [PNext]_pVars PROVE PInv'
  OBVIOUS
<1>1. CASE UNCHANGED pVars
  <2>0. subm' = subm /\ ev' = ev /\ near' = near /\ run' = run /\ stops' = stops
    BY <1>1 DEF pVars
  <2>1. PTypeOK' /\ ModeInv' /\ ResumeInv' /\ RunRecorded'
    BY <2>0 DEF PInv, PTypeOK, ModeInv, ResumeInv, RunRecorded
  <2>2. FinishInv' /\ DecidedAsTruth' /\ WorkRecorded' /\ HeavyIsAdmitted'
    BY <2>0 DEF PInv, FinishInv, DecidedAsTruth, WorkRecorded,
       HeavyIsAdmitted, Labelled, Agreement
  <2> QED
    BY <2>1, <2>2 DEF PInv
<1>2. CASE \E label \in Labels, lean \in {"pass", "fail", "uncertain"},
              jitter \in {0, 14}, mode \in Modes,
              forced \in {"none", "evaluation", "medium"} :
                EnqueueEvaluation(label, lean, jitter, forced, mode)
  BY <1>2, EnqueueInv
<1>3. ASSUME NEW r \in Runners,
             \/ \E p \in {"normal", "pressured", "degraded"} : ClaimRun(r, p)
             \/ RunStage(r) \/ StageFails(r)
             \/ \E score \in {0, 100} : EvaluateLegacy(r, score)
             \/ ResultOf(r) \/ CrashRun(r)
      PROVE  PInv'
  BY <1>3, ClaimRunInv, RunStageInv, StageFailsInv, EvaluateLegacyInv,
     FinishRunInv, DeferRunInv, FailRunInv, CrashRunInv DEF ResultOf
<1> QED
  BY <1>1, <1>2, <1>3, DeadlineInv, RecoverRunInv DEF PNext

\* The invariant holds in every behaviour of progressive evaluation.
THEOREM ProgressiveInvariant == PSpec => []PInv
  BY PInitInv, PNextInv, PTL DEF PSpec

\* No run, whatever its mode, the pressure and the crashes, decides a labelled
\* submission against its ground truth.
THEOREM ProgressiveDecidesTruth == PSpec => []DecidedAsTruth
<1>1. PInv => DecidedAsTruth
  BY DEF PInv
<1> QED
  BY <1>1, ProgressiveInvariant, PTL

\* The recorded stages and costs are those of the plan, and the heavy stage
\* runs under pressure only when it was admitted.
THEOREM ProgressiveAccountsStages == PSpec => []StagesAccounted
<1>1. PInv => StagesAccounted
  BY DEF PInv, StagesAccounted
<1> QED
  BY <1>1, ProgressiveInvariant, PTL

(***************************************************************************)
(* ParticipantApi                                                          *)
(***************************************************************************)

-----------------------------------------------------------------------------
(* Depth, age and health. *)

\* The oldest of some rows is well defined and bounds their ages.
LEMMA OldestIs ==
    ASSUME NEW Q \in SUBSET Participants,
           NEW a \in [Participants -> 0..MaxAge]
    PROVE  /\ OldestOf(Q, a) \in 0..MaxAge
           /\ \A p \in Q : a[p] <= OldestOf(Q, a)
<1> DEFINE P(n) == /\ n = 0 \/ \E p \in Q : a[p] = n
                   /\ \A p \in Q : a[p] <= n
<1>1. MaxAge \in {0, 1, 2, 3} /\ \A p \in Q : a[p] \in 0..MaxAge
  BY ApiAssumption
<1>2. \E n \in 0..MaxAge : P(n)
  <2>0. \A p \in Q : a[p] \in {0, 1, 2, 3} /\ a[p] <= MaxAge
    BY <1>1
  <2>1. CASE \E p \in Q : a[p] = 3
    BY <1>1, <2>0, <2>1
  <2>2. CASE (\A p \in Q : a[p] # 3) /\ (\E p \in Q : a[p] = 2)
    BY <1>1, <2>0, <2>2
  <2>3. CASE (\A p \in Q : a[p] # 3 /\ a[p] # 2) /\ (\E p \in Q : a[p] = 1)
    BY <1>1, <2>0, <2>3
  <2>4. CASE \A p \in Q : a[p] # 3 /\ a[p] # 2 /\ a[p] # 1
    BY <1>1, <2>0, <2>4
  <2> QED
    BY <2>1, <2>2, <2>3, <2>4
<1>3. OldestOf(Q, a) = CHOOSE n \in 0..MaxAge : P(n)
  BY DEF OldestOf
<1> QED
  BY <1>2, <1>3

\* The depth and the age of the queue, now and after a step.
LEMMA QueueSize ==
    ASSUME ApiTypeOK
    PROVE  Cardinality(Queued) \in Nat /\ OldestAge \in 0..MaxAge
<1>1. Queued \in SUBSET Participants
  BY DEF Queued
<1> QED
  BY <1>1, OldestIs, ApiAssumption, FS_Subset, FS_CardinalityType
  DEF OldestAge, ApiTypeOK

LEMMA QueueSizePrimed ==
    ASSUME age' \in [Participants -> 0..MaxAge]
    PROVE  Cardinality(Queued') \in Nat /\ OldestAge' \in 0..MaxAge
<1>1. Queued' \in SUBSET Participants
  BY DEF Queued
<1> QED
  BY <1>1, OldestIs, ApiAssumption, FS_Subset, FS_CardinalityType
  DEF OldestAge

\* A deeper and older queue is not healthier.
LEMMA HealthMonotone ==
    ASSUME NEW d \in Nat, NEW e \in Nat, NEW a \in 0..3, NEW b \in 0..3,
           d <= e, a <= b
    PROVE  Health(d, a) <= Health(e, b) /\ Health(d, a) \in 0..3
           /\ (d >= BusyDepth => Health(d, a) > 0)
  BY ApiAssumption DEF Health

-----------------------------------------------------------------------------
(* The order of the rows. *)

\* Whoever is listed later is behind everyone listed already.
LEMMA OlderGrows ==
    ASSUME ApiTypeOK, NEW p \in Participants, NEW q \in Participants, p # q,
           order' = Append(order, p)
    PROVE  Older(q)' = Older(q)
<1>1. order \in Seq(Participants)
  BY DEF ApiTypeOK
<1>2. DOMAIN order = 1..Len(order) /\ Len(order) \in Nat
  BY <1>1
<1>3. /\ DOMAIN order' = 1..(Len(order) + 1)
      /\ \A i \in 1..Len(order) : order'[i] = order[i]
      /\ order'[Len(order) + 1] = p
  BY <1>1, <1>2
<1>4. \A j : (j \in DOMAIN order' /\ (\E k \in DOMAIN order' : order'[k] = q /\ j < k))
          <=> (j \in DOMAIN order /\ (\E k \in DOMAIN order : order[k] = q /\ j < k))
  BY <1>2, <1>3
<1> DEFINE J  == {j \in DOMAIN order : \E k \in DOMAIN order : order[k] = q /\ j < k}
           J2 == {j \in DOMAIN order' : \E k \in DOMAIN order' : order'[k] = q /\ j < k}
<1>5. J = J2
  BY <1>4
<1>6. \A j \in J : order'[j] = order[j]
  BY <1>2, <1>3
<1>7. Older(q) = {order[i] : i \in J} /\ Older(q)' = {order'[i] : i \in J2}
  BY DEF Older
<1> HIDE DEF J, J2
<1> QED
  BY <1>5, <1>6, <1>7

\* Those before a row are rows.
LEMMA OlderAreRows ==
    ASSUME ApiTypeOK, WorldInv, NEW p
    PROVE  \A q \in Older(p) : q \in Participants /\ eval[q] # "none"
<1>1. order \in Seq(Participants)
  BY DEF ApiTypeOK
<1>2. \A j \in DOMAIN order : order[j] \in Participants
  BY <1>1
<1> QED
  BY <1>2 DEF Older, WorldInv

-----------------------------------------------------------------------------
(* Steps of the world. *)

\* A client that has not been told anything has not been told too much.
LEMMA SilentIsSafe ==
    ASSUME told' = Silent
    PROVE  AnswersAreAuthorized' /\ ViewsAreOfTheQueue'
  BY DEF Silent, AnswersAreAuthorized, DraftsStayHidden, SubmissionsPrivate,
     ViewsAreOfTheQueue, AheadIsAhead, HealthIsBracketed

\* The blank request, reply and history are of their types.
LEMMA BlankTypes ==
    Idle \in Requests /\ Silent \in Replies /\ Unseen \in Sights
  BY ApiAssumption DEF Idle, Silent, Unseen, Requests, Replies, Sights

\* Watching keeps the queue within what was to be seen.
LEMMA WatchKeeps ==
    ASSUME ApiInv, Watch, asked' = asked,
           age' \in [Participants -> 0..MaxAge]
    PROVE  seen' \in Sights /\ seen'.undecided = seen.undecided /\ BacklogInv'
<1>0. seen \in Sights /\ asked \in Requests
  BY DEF ApiInv, ApiTypeOK
<1>1. CASE asked.op \notin Backlog
  BY <1>0, <1>1 DEF Watch, BacklogInv
<1>2. CASE asked.op \in Backlog
  <2> DEFINE d == Cardinality(Queued')
             o == OldestAge'
             l == Least(seen.least, d)
             m == Most(seen.most, d)
             y == Least(seen.young, o)
             x == Most(seen.old, o)
  <2>1. seen' = [seen EXCEPT !.least = l, !.most = m, !.young = y, !.old = x]
    BY <1>2 DEF Watch
  <2>2. d \in Nat /\ o \in 0..MaxAge /\ MaxAge \in Nat
    BY QueueSizePrimed, ApiAssumption
  <2>3. /\ seen.least \in Nat /\ seen.most \in Nat
        /\ seen.young \in 0..MaxAge /\ seen.old \in 0..MaxAge
    BY <1>0 DEF Sights
  <2> HIDE DEF d, o
  <2>4. /\ l \in Nat /\ m \in Nat /\ y \in 0..MaxAge /\ x \in 0..MaxAge
        /\ l <= d /\ l <= seen.least /\ d <= m /\ seen.most <= m
        /\ y <= o /\ o <= x
    BY <2>2, <2>3 DEF Least, Most
  <2> HIDE DEF l, m, y, x
  <2>5. /\ seen' \in Sights /\ seen'.undecided = seen.undecided
        /\ seen'.least = l /\ seen'.most = m /\ seen'.young = y /\ seen'.old = x
    BY <1>0, <2>1, <2>4 DEF Sights
  <2>6. asked.at = 2 => l <= asked.depth /\ asked.depth <= m
    <3>1. asked.at = 2 => seen.least <= asked.depth /\ asked.depth <= seen.most
      BY <1>2 DEF ApiInv, BacklogInv
    <3>2. asked.depth \in Nat
      BY <1>0 DEF Requests
    <3> QED
      BY <2>3, <2>4, <3>1, <3>2
  <2>7. BacklogInv'
    BY <2>4, <2>5, <2>6 DEF BacklogInv, d, o
  <2> QED
    BY <2>5, <2>7
<1> QED
  BY <1>1, <1>2

\* A step that leaves the queue alone leaves a request's view of it alone.
LEMMA SameQueue ==
    ASSUME ApiInv, seen' = seen, asked' = asked, age' = age, Queued' = Queued
    PROVE  seen' \in Sights /\ seen'.undecided = seen.undecided /\ BacklogInv'
<1>1. OldestAge' = OldestAge
  BY DEF OldestAge
<1> QED
  BY <1>1 DEF ApiInv, ApiTypeOK, BacklogInv

\* A step of the world: nothing is unpublished, no hackathon changes hands,
\* no row is lost, opened again or put before another.
LEMMA WorldKeeps ==
    ASSUME ApiInv, World,
           /\ hack' \in {"none", "draft", "published"}
           /\ owner' \in Organizers \cup {NoOwner}
           /\ chal' \in {"none", "draft", "published", "closed"}
           /\ ready' \in BOOLEAN
           /\ entry' \in [Participants -> {"none", "created", "submitted", "cancelled"}]
           /\ eval' \in [Participants -> {"none", "inserted", "queued", "running",
                                          "succeeded", "failed"}]
           /\ order' \in Seq(Participants)
           /\ age' \in [Participants -> 0..MaxAge],
           seen' \in Sights /\ seen'.undecided = seen.undecided /\ BacklogInv',
           hack = "published" => hack' = "published",
           chal \in {"published", "closed"} => chal' \in {"published", "closed"},
           owner \in Organizers => owner' = owner,
           WorldInv',
           \A q \in Participants : eval[q] # "none" =>
               /\ eval'[q] # "none"
               /\ eval'[q] = "inserted" => eval[q] = "inserted"
               /\ Open(q)' => Open(q)
               /\ Older(q)' = Older(q)
    PROVE  ApiInv'
<1>1. told = Silent /\ told' = told /\ asked' = asked
  BY DEF World
<1>2. ApiTypeOK'
  BY <1>1 DEF ApiInv, ApiTypeOK
<1>3. RequestInv'
  BY <1>1 DEF ApiInv, RequestInv
<1>4. ReadInv'
  <2>1. Authorized(asked.who, asked.about) => Authorized(asked.who, asked.about)'
    BY <1>1 DEF Authorized, Organizer
  <2> QED
    BY <1>1, <2>1 DEF ApiInv, ReadInv
<1>5. AheadInv'
  <2> DEFINE b == asked.about
  <2> SUFFICES ASSUME asked.op = "evaluation", asked.at = 3
               PROVE  /\ eval'[b] \notin {"none", "inserted"}
                      /\ \A q \in Older(b)' : Open(q)' => q \in seen'.undecided
    BY <1>1 DEF AheadInv
  <2>1. asked.about \in Participants
    BY DEF ApiInv, RequestInv, About
  <2>2. /\ eval[asked.about] \notin {"none", "inserted"}
        /\ \A q \in Older(asked.about) : Open(q) => q \in seen.undecided
    BY DEF ApiInv, AheadInv
  <2>3. \A q \in Older(asked.about) : q \in Participants /\ eval[q] # "none"
    BY OlderAreRows DEF ApiInv
  <2>4. b' = b
    BY <1>1
  <2>5. Older(b)' = Older(b)
    BY <2>1, <2>2, <2>4
  <2>6. ASSUME NEW q \in Older(b), Open(q)' PROVE q \in seen.undecided
    BY <2>2, <2>3, <2>6
  <2> QED
    BY <2>1, <2>2, <2>5, <2>6
<1> QED
  BY <1>1, <1>2, <1>3, <1>4, <1>5, SilentIsSafe DEF ApiInv

\* The organizers' writes leave the submissions alone.
LEMMA OrganizerStep ==
    ASSUME ApiInv, NEW u \in Organizers,
           \/ ApiCreateHackathon(u) \/ ApiPublishHackathon(u)
           \/ \E criteria \in BOOLEAN : ApiCreateChallenge(u, criteria)
           \/ ApiPublishChallenge(u) \/ ApiCloseChallenge(u)
    PROVE  ApiInv'
<1>0. ApiTypeOK /\ WorldInv
  BY DEF ApiInv
<1>1. /\ World /\ entry' = entry /\ eval' = eval /\ order' = order
      /\ age' = age /\ seen' = seen
  BY DEF ApiCreateHackathon, ApiPublishHackathon, ApiCreateChallenge,
     ApiPublishChallenge, ApiCloseChallenge
<1>2. /\ hack' \in {"none", "draft", "published"}
      /\ owner' \in Organizers \cup {NoOwner}
      /\ chal' \in {"none", "draft", "published", "closed"}
      /\ ready' \in BOOLEAN
  BY <1>0 DEF ApiTypeOK, ApiCreateHackathon, ApiPublishHackathon,
     ApiCreateChallenge, ApiPublishChallenge, ApiCloseChallenge
<1>3. /\ hack = "published" => hack' = "published"
      /\ chal \in {"published", "closed"} => chal' \in {"published", "closed"}
  BY DEF ApiCreateHackathon, ApiPublishHackathon,
     ApiCreateChallenge, ApiPublishChallenge, ApiCloseChallenge
<1>4. owner \in Organizers => owner' = owner
  BY <1>0 DEF WorldInv, ApiCreateHackathon, ApiPublishHackathon,
     ApiCreateChallenge, ApiPublishChallenge, ApiCloseChallenge
<1>5. WorldInv'
  BY <1>0, <1>1 DEF WorldInv, ApiCreateHackathon, ApiPublishHackathon,
     ApiCreateChallenge, ApiPublishChallenge, ApiCloseChallenge
<1>6. Queued' = Queued /\ asked' = asked
  BY <1>1 DEF Queued, World
<1>7. seen' \in Sights /\ seen'.undecided = seen.undecided /\ BacklogInv'
  BY <1>1, <1>6, SameQueue
<1>8. \A q \in Participants : /\ eval'[q] = eval[q] /\ Older(q)' = Older(q)
                              /\ Open(q)' = Open(q)
  BY <1>1 DEF Older, Open
<1> QED
  BY <1>0, <1>1, <1>2, <1>3, <1>4, <1>5, <1>7, <1>8, WorldKeeps DEF ApiTypeOK

\* What a step that moves one row of eval along its life cycle preserves.
LEMMA RowMoves ==
    ASSUME ApiInv, NEW p \in Participants, NEW s, order' = order,
           eval' = [eval EXCEPT ![p] = s],
           s \in {"queued", "running", "succeeded", "failed"},
           eval[p] \in {"inserted", "queued", "running"},
           hack' = hack, owner' = owner
    PROVE  /\ WorldInv'
           /\ eval' \in [Participants -> {"none", "inserted", "queued", "running",
                                          "succeeded", "failed"}]
           /\ \A q \in Participants : eval[q] # "none" =>
               /\ eval'[q] # "none"
               /\ eval'[q] = "inserted" => eval[q] = "inserted"
               /\ Open(q)' => Open(q)
               /\ Older(q)' = Older(q)
<1>0. ApiTypeOK /\ WorldInv
  BY DEF ApiInv
<1>1. /\ eval' \in [Participants -> {"none", "inserted", "queued", "running",
                                     "succeeded", "failed"}]
      /\ eval'[p] = s /\ \A q \in Participants : q # p => eval'[q] = eval[q]
  BY <1>0 DEF ApiTypeOK
<1>2. \A q \in Participants : Older(q)' = Older(q)
  BY DEF Older
<1>3. \A q \in Participants : Open(q)' => Open(q)
  BY <1>1 DEF Open
<1>4. WorldInv'
  <2>1. \A j \in DOMAIN order : order[j] \in Participants
    BY <1>0 DEF ApiTypeOK
  <2> QED
    BY <1>0, <1>1, <2>1 DEF WorldInv
<1> QED
  BY <1>1, <1>2, <1>3, <1>4

\* The participants' writes and the workers'.
LEMMA ParticipantStep ==
    ASSUME ApiInv, NEW p \in Participants,
           \/ ApiCreateSubmission(p) \/ ApiSubmit(p) \/ ApiSubmitCommit(p)
           \/ ApiCancel(p) \/ WorkerMoves(p) \/ GrowOlder(p)
    PROVE  ApiInv'
<1>0. ApiTypeOK /\ WorldInv
  BY DEF ApiInv
<1>1. /\ World /\ hack' = hack /\ owner' = owner /\ chal' = chal
      /\ ready' = ready /\ asked' = asked
  BY DEF World, ApiCreateSubmission, ApiSubmit, ApiSubmitCommit, ApiCancel,
     WorkerMoves, GrowOlder
<1>2. CASE ApiCreateSubmission(p) \/ ApiCancel(p)
  <2>1. /\ entry' \in [Participants -> {"none", "created", "submitted", "cancelled"}]
        /\ eval' = eval /\ order' = order /\ age' = age /\ seen' = seen
    BY <1>0, <1>2 DEF ApiTypeOK, ApiCreateSubmission, ApiCancel
  <2>2. Queued' = Queued
    BY <2>1 DEF Queued
  <2>3. seen' \in Sights /\ seen'.undecided = seen.undecided /\ BacklogInv'
    BY <1>1, <2>1, <2>2, SameQueue
  <2>4. WorldInv'
    BY <1>0, <1>1, <2>1 DEF WorldInv
  <2>5. \A q \in Participants : /\ eval'[q] = eval[q] /\ Older(q)' = Older(q)
                                /\ Open(q)' = Open(q)
    BY <2>1 DEF Older, Open
  <2> QED
    BY <1>0, <1>1, <2>1, <2>3, <2>4, <2>5, WorldKeeps DEF ApiTypeOK
<1>3. CASE ApiSubmit(p)
  <2>1. /\ eval[p] = "none" /\ eval' = [eval EXCEPT ![p] = "inserted"]
        /\ order' = Append(order, p)
        /\ entry' = entry /\ age' = age /\ seen' = seen
    BY <1>3 DEF ApiSubmit
  <2>2. /\ eval' \in [Participants -> {"none", "inserted", "queued", "running",
                                       "succeeded", "failed"}]
        /\ eval'[p] = "inserted"
        /\ \A q \in Participants : q # p => eval'[q] = eval[q]
    BY <1>0, <2>1 DEF ApiTypeOK
  <2>3. Queued' = Queued
    BY <2>1, <2>2 DEF Queued
  <2>4. seen' \in Sights /\ seen'.undecided = seen.undecided /\ BacklogInv'
    BY <1>1, <2>1, <2>3, SameQueue
  <2>5. order \in Seq(Participants) /\ order' \in Seq(Participants)
    BY <1>0, <2>1 DEF ApiTypeOK
  <2>6. WorldInv'
    <3>1. /\ DOMAIN order' = 1..(Len(order) + 1) /\ Len(order) \in Nat
          /\ DOMAIN order = 1..Len(order)
          /\ \A i \in 1..Len(order) : order'[i] = order[i]
          /\ order'[Len(order) + 1] = p
          /\ \A i \in 1..Len(order) : order[i] \in Participants
      BY <2>1, <2>5
    <3>2. \A j \in DOMAIN order' : eval'[order'[j]] # "none"
      BY <1>0, <2>2, <3>1 DEF WorldInv
    <3> QED
      BY <1>0, <1>1, <3>2 DEF WorldInv
  <2>7. \A q \in Participants : eval[q] # "none" =>
               /\ eval'[q] = eval[q] /\ Older(q)' = Older(q)
               /\ Open(q)' => Open(q)
    BY <1>0, <2>1, <2>2, OlderGrows DEF Open
  <2> QED
    BY <1>0, <1>1, <2>1, <2>2, <2>4, <2>5, <2>6, <2>7, WorldKeeps DEF ApiTypeOK
<1>4. CASE ApiSubmitCommit(p)
  <2>1. /\ eval[p] = "inserted" /\ eval' = [eval EXCEPT ![p] = "queued"]
        /\ entry' \in [Participants -> {"none", "created", "submitted", "cancelled"}]
        /\ order' = order /\ age' = age /\ Watch
    BY <1>0, <1>4 DEF ApiTypeOK, ApiSubmitCommit
  <2>2. seen' \in Sights /\ seen'.undecided = seen.undecided /\ BacklogInv'
    BY <1>0, <1>1, <2>1, WatchKeeps DEF ApiTypeOK
  <2>3. /\ WorldInv'
        /\ eval' \in [Participants -> {"none", "inserted", "queued", "running",
                                       "succeeded", "failed"}]
        /\ \A q \in Participants : eval[q] # "none" =>
               /\ eval'[q] # "none"
               /\ eval'[q] = "inserted" => eval[q] = "inserted"
               /\ Open(q)' => Open(q)
               /\ Older(q)' = Older(q)
    BY <1>1, <2>1, RowMoves
  <2> QED
    BY <1>0, <1>1, <2>1, <2>2, <2>3, WorldKeeps DEF ApiTypeOK
<1>5. CASE WorkerMoves(p)
  <2>1. PICK s \in {"running", "queued", "succeeded", "failed"} :
           eval' = [eval EXCEPT ![p] = s]
    BY <1>5 DEF WorkerMoves
  <2>2. /\ eval[p] \in {"queued", "running"}
        /\ entry' = entry /\ order' = order /\ age' = age /\ Watch
    BY <1>5 DEF WorkerMoves
  <2>3. seen' \in Sights /\ seen'.undecided = seen.undecided /\ BacklogInv'
    BY <1>0, <1>1, <2>2, WatchKeeps DEF ApiTypeOK
  <2>4. /\ WorldInv'
        /\ eval' \in [Participants -> {"none", "inserted", "queued", "running",
                                       "succeeded", "failed"}]
        /\ \A q \in Participants : eval[q] # "none" =>
               /\ eval'[q] # "none"
               /\ eval'[q] = "inserted" => eval[q] = "inserted"
               /\ Open(q)' => Open(q)
               /\ Older(q)' = Older(q)
    BY <1>1, <2>1, <2>2, RowMoves
  <2> QED
    BY <1>0, <1>1, <2>2, <2>3, <2>4, WorldKeeps DEF ApiTypeOK
<1>6. CASE GrowOlder(p)
  <2>1. /\ age[p] < MaxAge /\ age' = [age EXCEPT ![p] = age[p] + 1]
        /\ entry' = entry /\ eval' = eval /\ order' = order /\ Watch
    BY <1>6 DEF GrowOlder
  <2>2. age' \in [Participants -> 0..MaxAge]
    <3>1. age[p] \in 0..MaxAge /\ MaxAge \in Nat
      BY <1>0, ApiAssumption DEF ApiTypeOK
    <3>2. age[p] + 1 \in 0..MaxAge
      BY <2>1, <3>1
    <3> QED
      BY <1>0, <2>1, <3>2 DEF ApiTypeOK
  <2>3. seen' \in Sights /\ seen'.undecided = seen.undecided /\ BacklogInv'
    BY <1>1, <2>1, <2>2, WatchKeeps
  <2>4. WorldInv'
    BY <1>0, <1>1, <2>1 DEF WorldInv
  <2>5. \A q \in Participants : /\ eval'[q] = eval[q] /\ Older(q)' = Older(q)
                                /\ Open(q)' = Open(q)
    BY <2>1 DEF Older, Open
  <2> QED
    BY <1>0, <1>1, <2>1, <2>2, <2>3, <2>4, <2>5, WorldKeeps DEF ApiTypeOK
<1> QED
  BY <1>2, <1>3, <1>4, <1>5, <1>6

-----------------------------------------------------------------------------
(* Steps of a request. *)

\* A reply is sent: what is to be shown is that it says no more than it may.
LEMMA SayKeeps ==
    ASSUME ApiInv, NEW r \in Replies, Say(r),
           r.to \notin Organizers =>
               /\ r.hack \in {"none", "published"}
               /\ r.chal \in {"none", "published"}
               /\ r.chal = "published" => hack = "published" /\ chal # "draft",
           \A p \in r.subs :
               \/ r.to = p
               \/ r.to \in Organizers /\ (r.to = owner \/ r.op = "user_submissions"),
           r.ahead \subseteq seen.undecided,
           r.ahead # {} => r.status = "queued",
           r.code = 200 /\ r.op \in Backlog =>
               /\ Health(seen.least, seen.young) <= r.health
               /\ r.health <= Health(seen.most, seen.old)
               /\ seen.least >= BusyDepth => r.health > 0
    PROVE  ApiInv'
<1>1. /\ told' = r /\ asked' = Idle /\ seen' = seen /\ hack' = hack
      /\ owner' = owner /\ chal' = chal /\ ready' = ready /\ entry' = entry
      /\ eval' = eval /\ order' = order /\ age' = age
  BY DEF Say, worldVars
<1>2. ApiTypeOK'
  BY <1>1, BlankTypes DEF ApiInv, ApiTypeOK
<1>3. RequestInv' /\ ReadInv' /\ AheadInv' /\ BacklogInv'
  BY <1>1 DEF RequestInv, ReadInv, AheadInv, BacklogInv, Idle, Backlog
<1>4. WorldInv'
  BY <1>1 DEF ApiInv, WorldInv
<1>5. AnswersAreAuthorized'
  BY <1>1 DEF AnswersAreAuthorized, DraftsStayHidden, SubmissionsPrivate
<1>6. AheadIsAhead'
  BY <1>1 DEF AheadIsAhead
<1>7. HealthIsBracketed'
  BY <1>1 DEF HealthIsBracketed, Health
<1> QED
  BY <1>2, <1>3, <1>4, <1>5, <1>6, <1>7 DEF ApiInv, ViewsAreOfTheQueue

\* A request goes on, with nothing said.
LEMMA GoesOn ==
    ASSUME ApiInv, told' = Silent, UNCHANGED worldVars,
           asked' \in Requests, seen' \in Sights,
           RequestInv', ReadInv', AheadInv', BacklogInv'
    PROVE  ApiInv'
<1>1. /\ hack' = hack /\ owner' = owner /\ chal' = chal /\ ready' = ready
      /\ entry' = entry /\ eval' = eval /\ order' = order /\ age' = age
  BY DEF worldVars
<1>2. ApiTypeOK' /\ WorldInv'
  BY <1>1, BlankTypes DEF ApiInv, ApiTypeOK, WorldInv
<1> QED
  BY <1>2, SilentIsSafe DEF ApiInv

\* A reply before its contents are filled in.
LEMMA ReplyIs ==
    ASSUME NEW c
    PROVE  Reply(c) = [to |-> asked.who, code |-> c, op |-> asked.op,
                       hack |-> "none", chal |-> "none", subs |-> {},
                       status |-> "none", ahead |-> {}, health |-> 0,
                       depth |-> 0]
<1>1. ASSUME NEW x, x = Reply(c)
      PROVE  x = [to |-> asked.who, code |-> c, op |-> asked.op,
                  hack |-> "none", chal |-> "none", subs |-> {},
                  status |-> "none", ahead |-> {}, health |-> 0, depth |-> 0]
  BY <1>1 DEF Reply, Silent
<1> QED
  BY <1>1

\* A refusal shows nothing.
LEMMA Refused ==
    ASSUME ApiInv, NEW c \in {403, 404}, Say(Reply(c))
    PROVE  ApiInv'
<1>0. asked.who \in Users \cup {NoOwner} /\ asked.op \in Views \cup {"none"}
  BY DEF ApiInv, ApiTypeOK, Requests
<1>1. /\ Reply(c) \in Replies /\ Reply(c).code = c
      /\ Reply(c).hack = "none" /\ Reply(c).chal = "none"
      /\ Reply(c).subs = {} /\ Reply(c).ahead = {}
  <2>1. Reply(c) \in Replies
    <3>1. /\ asked.who \in Users \cup {Stranger, NoOwner}
          /\ {} \in SUBSET Participants /\ 0 \in 0..3 /\ 0 \in Nat
          /\ "none" \in {"none", "queued", "running", "succeeded", "failed"}
          /\ "none" \in {"none", "draft", "published"}
          /\ "none" \in {"none", "draft", "published", "closed"}
          /\ c \in {0, 200, 401, 403, 404}
      BY <1>0
    <3> QED
      BY <1>0, <3>1, ReplyIs DEF Replies
  <2> QED
    BY <2>1, ReplyIs
<1> HIDE DEF Reply
<1> QED
  BY <1>1, SayKeeps

\* A request that has begun has had no reply.
LEMMA AskedIsSilent ==
    ASSUME ApiInv, asked.op # "none"
    PROVE  told = Silent /\ asked.who \in Users /\ asked \in Requests
           /\ asked.about \in About(asked.op) /\ ApiTypeOK
  BY DEF ApiInv, ApiTypeOK, RequestInv, Idle

\* A user asks, or is turned away.
LEMMA AskStep ==
    ASSUME ApiInv, NEW u \in Users \cup {Stranger}, NEW op \in Views,
           NEW p \in About(op), Ask(u, op, p)
    PROVE  ApiInv'
<1>0. /\ asked = Idle /\ told = Silent /\ UNCHANGED worldVars /\ ApiTypeOK
      /\ op # "none"
  BY DEF Ask, ApiInv, Views
<1>1. /\ hack' = hack /\ owner' = owner /\ chal' = chal /\ ready' = ready
      /\ entry' = entry /\ eval' = eval /\ order' = order /\ age' = age
  BY <1>0 DEF worldVars
<1>2. Queued' = Queued /\ OldestAge' = OldestAge
  BY <1>1 DEF Queued, OldestAge
<1>3. /\ seen' \in Sights
      /\ op \in Backlog =>
            /\ seen'.least = Cardinality(Queued)
            /\ seen'.most = Cardinality(Queued)
            /\ seen'.young = OldestAge /\ seen'.old = OldestAge
  <2>1. CASE op \notin Backlog
    BY <2>1, BlankTypes DEF Ask
  <2>2. CASE op \in Backlog
    <3> DEFINE d == Cardinality(Queued)
               o == OldestAge
    <3>1. seen' = [Unseen EXCEPT !.least = d, !.most = d, !.young = o, !.old = o]
      BY <2>2 DEF Ask
    <3>2. d \in Nat /\ o \in 0..MaxAge
      BY <1>0, QueueSize
    <3> HIDE DEF d, o
    <3>3. /\ seen' \in Sights /\ seen'.least = d /\ seen'.most = d
          /\ seen'.young = o /\ seen'.old = o
      BY <3>1, <3>2 DEF Unseen, Sights
    <3> QED
      BY <3>3 DEF d, o
  <2> QED
    BY <2>1, <2>2
<1>4. CASE asked' = asked /\ \E c \in {401, 403} :
             told' = [Silent EXCEPT !.to = u, !.op = op, !.code = c]
  <2>1. PICK c \in {401, 403} :
           told' = [Silent EXCEPT !.to = u, !.op = op, !.code = c]
    BY <1>4
  <2>2. /\ told' \in Replies /\ told'.hack = "none" /\ told'.chal = "none"
        /\ told'.subs = {} /\ told'.ahead = {} /\ told'.code # 200
    <3>1. told' = [to |-> u, code |-> c, op |-> op, hack |-> "none",
                   chal |-> "none", subs |-> {}, status |-> "none",
                   ahead |-> {}, health |-> 0, depth |-> 0]
      BY <2>1 DEF Silent
    <3>2. told' \in Replies
      <4>1. /\ u \in Users \cup {Stranger, NoOwner} /\ op \in Views \cup {"none"}
            /\ {} \in SUBSET Participants /\ 0 \in 0..3 /\ 0 \in Nat
            /\ "none" \in {"none", "queued", "running", "succeeded", "failed"}
            /\ "none" \in {"none", "draft", "published"}
            /\ "none" \in {"none", "draft", "published", "closed"}
            /\ c \in {0, 200, 401, 403, 404}
        OBVIOUS
      <4> QED
        BY <3>1, <4>1 DEF Replies
    <3> QED
      BY <3>1, <3>2
  <2>3. asked' = Idle
    BY <1>0, <1>4
  <2>4. ApiTypeOK' /\ WorldInv'
    BY <1>0, <1>1, <1>3, <2>2, <2>3, BlankTypes DEF ApiInv, ApiTypeOK, WorldInv
  <2>5. RequestInv' /\ ReadInv' /\ AheadInv' /\ BacklogInv'
    BY <2>3 DEF RequestInv, ReadInv, AheadInv, BacklogInv, Idle, Backlog
  <2>6. AnswersAreAuthorized' /\ ViewsAreOfTheQueue'
    BY <2>2 DEF AnswersAreAuthorized, DraftsStayHidden, SubmissionsPrivate,
       ViewsAreOfTheQueue, AheadIsAhead, HealthIsBracketed
  <2> QED
    BY <2>4, <2>5, <2>6 DEF ApiInv
<1>5. CASE /\ asked' = [Idle EXCEPT !.who = u, !.op = op, !.about = p, !.at = 1]
           /\ told' = told /\ u # Stranger
           /\ op \in {"queue", "challenge_submissions"} => Organizer(u)
  <2>1. u \in Users /\ p \in Participants \cup {NoOwner}
    BY <1>5 DEF About
  <2>2. /\ asked' \in Requests /\ asked'.who = u /\ asked'.op = op
        /\ asked'.about = p /\ asked'.at = 1 /\ asked'.hack = "none"
        /\ asked'.chal = "none"
    <3>1. asked' = [who |-> u, op |-> op, about |-> p, at |-> 1,
                    hack |-> "none", chal |-> "none", status |-> "none",
                    depth |-> 0]
      BY <1>5 DEF Idle
    <3>2. asked' \in Requests
      BY <2>1, <3>1 DEF Requests
    <3> QED
      BY <3>1, <3>2
  <2>3. RequestInv' /\ ReadInv' /\ AheadInv'
    BY <1>0, <1>5, <2>1, <2>2 DEF RequestInv, ReadInv, AheadInv, Organizer
  <2>4. BacklogInv'
    <3>1. Cardinality(Queued) \in Nat /\ OldestAge \in 0..MaxAge
      BY <1>0, QueueSize
    <3> QED
      BY <1>2, <1>3, <2>2, <3>1 DEF BacklogInv
  <2> QED
    BY <1>0, <1>3, <1>5, <2>2, <2>3, <2>4, GoesOn
<1> QED
  BY <1>4, <1>5 DEF Ask

\* The client has read its reply.
LEMMA DeliverStep ==
    ASSUME ApiInv, Deliver
    PROVE  ApiInv'
<1>1. told # Silent /\ told' = Silent /\ seen' = Unseen /\ asked' = asked
      /\ UNCHANGED worldVars
  BY DEF Deliver
<1>2. asked' = Idle
  BY <1>1 DEF ApiInv, RequestInv
<1>3. RequestInv' /\ ReadInv' /\ AheadInv' /\ BacklogInv'
  BY <1>1, <1>2 DEF RequestInv, ReadInv, AheadInv, BacklogInv, Idle, Backlog
<1> QED
  BY <1>1, <1>2, <1>3, BlankTypes, GoesOn

\* Hackathons and challenges: what is shown is published, or the caller is an
\* organizer.
LEMMA CatalogueStep ==
    ASSUME ApiInv,
           \/ ListHackathons \/ ListChallengesHackathon \/ ListChallenges
           \/ GetChallengeRow \/ GetChallenge
    PROVE  ApiInv'
<1>0. /\ told = Silent /\ asked.who \in Users /\ asked \in Requests
      /\ asked.about \in About(asked.op) /\ ApiTypeOK
      /\ asked.op \in {"hackathons", "challenges", "challenge"}
  BY AskedIsSilent DEF ListHackathons, ListChallengesHackathon,
     ListChallenges, GetChallengeRow, GetChallenge, At
<1> DEFINE Shown(h, c) == [Reply(200) EXCEPT !.hack = h, !.chal = c]
<1>1. ASSUME NEW h \in {"none", "draft", "published"},
             NEW c \in {"none", "draft", "published", "closed"},
             Say(Shown(h, c)),
             ~Organizer(asked.who) =>
                /\ h \in {"none", "published"} /\ c \in {"none", "published"}
                /\ c = "published" => hack = "published" /\ chal # "draft"
      PROVE  ApiInv'
  <2> DEFINE r == Shown(h, c)
  <2>1. r = [to |-> asked.who, code |-> 200, op |-> asked.op, hack |-> h,
             chal |-> c, subs |-> {}, status |-> "none", ahead |-> {},
             health |-> 0, depth |-> 0]
    <3>1. ASSUME NEW x, x = r
          PROVE  x = [to |-> asked.who, code |-> 200, op |-> asked.op,
                      hack |-> h, chal |-> c, subs |-> {}, status |-> "none",
                      ahead |-> {}, health |-> 0, depth |-> 0]
      BY <3>1 DEF Reply, Silent
    <3> QED
      BY <3>1
  <2>2. /\ r \in Replies /\ r.to = asked.who /\ r.op = asked.op
        /\ r.hack = h /\ r.chal = c /\ r.subs = {} /\ r.ahead = {}
    <3> HIDE DEF r
    <3>1. r \in Replies
      <4>1. /\ asked.who \in Users \cup {Stranger, NoOwner}
            /\ asked.op \in Views \cup {"none"}
            /\ {} \in SUBSET Participants /\ 0 \in 0..3 /\ 0 \in Nat
            /\ "none" \in {"none", "queued", "running", "succeeded", "failed"}
            /\ 200 \in {0, 200, 401, 403, 404}
        BY <1>0 DEF Views
      <4> QED
        BY <1>1, <2>1, <4>1 DEF Replies
    <3> QED
      BY <2>1, <3>1
  <2>3. Say(r)
    BY <1>1
  <2> HIDE DEF r
  <2>4. r.op \notin Backlog
    BY <1>0, <2>2 DEF Backlog
  <2>5. r.to \notin Organizers =>
          /\ r.hack \in {"none", "published"} /\ r.chal \in {"none", "published"}
          /\ r.chal = "published" => hack = "published" /\ chal # "draft"
    BY <1>1, <2>2 DEF Organizer
  <2> QED
    BY <2>2, <2>3, <2>4, <2>5, SayKeeps
<1> HIDE DEF Shown
<1>2. hack \in {"none", "draft", "published"}
      /\ chal \in {"none", "draft", "published", "closed"}
  BY <1>0 DEF ApiTypeOK
<1>3. CASE ListHackathons
  <2> DEFINE h == ShownHackathon(asked.who)
  <2>1. h \in {"none", "draft", "published"}
        /\ (~Organizer(asked.who) => h \in {"none", "published"})
    BY <1>2 DEF ShownHackathon
  <2>2. Say([Reply(200) EXCEPT !.hack = h])
    BY <1>3 DEF ListHackathons
  <2> HIDE DEF h
  <2>3. ASSUME NEW x, NEW y, x = [Reply(200) EXCEPT !.hack = h],
               y = [Reply(200) EXCEPT !.hack = h, !.chal = "none"]
        PROVE  x = y
    <3>1. x = [to |-> asked.who, code |-> 200, op |-> asked.op, hack |-> h,
               chal |-> "none", subs |-> {}, status |-> "none", ahead |-> {},
               health |-> 0, depth |-> 0]
      BY <2>3 DEF Reply, Silent
    <3>2. y = [to |-> asked.who, code |-> 200, op |-> asked.op, hack |-> h,
               chal |-> "none", subs |-> {}, status |-> "none", ahead |-> {},
               health |-> 0, depth |-> 0]
      BY <2>3 DEF Reply, Silent
    <3> QED
      BY <3>1, <3>2
  <2>4. Say(Shown(h, "none"))
    BY <2>2, <2>3 DEF Shown
  <2> QED
    BY <1>1, <2>1, <2>4
<1>4. ASSUME NEW q \in Requests, Next1(q), q.at = 1,
             q.who = asked.who, q.op = asked.op, q.about = asked.about,
             q.hack = "published" => hack = "published",
             q.chal = "published" => chal \in {"published", "closed"},
             q.op = "challenges" => q.hack = "published" \/ Organizer(q.who)
      PROVE  ApiInv'
  <2>1. /\ asked' = [q EXCEPT !.at = 2] /\ told' = told /\ seen' = seen
        /\ UNCHANGED worldVars
    BY <1>4 DEF Next1
  <2>2. /\ asked' \in Requests /\ asked'.who = asked.who
        /\ asked'.op = asked.op /\ asked'.about = asked.about
        /\ asked'.hack = q.hack /\ asked'.chal = q.chal /\ asked'.at = 2
    BY <1>4, <2>1 DEF Requests
  <2>3. hack' = hack /\ chal' = chal
    BY <2>1 DEF worldVars
  <2>4. RequestInv' /\ ReadInv' /\ AheadInv' /\ BacklogInv'
    BY <1>0, <1>4, <2>1, <2>2, <2>3
    DEF RequestInv, ReadInv, AheadInv, BacklogInv, Backlog, Organizer
  <2> QED
    BY <1>0, <2>1, <2>2, <2>4, GoesOn DEF ApiTypeOK
<1>5. CASE ListChallengesHackathon
  <2>1. CASE ShownHackathon(asked.who) = "none"
    BY <1>5, <2>1, Refused DEF ListChallengesHackathon
  <2>2. CASE ShownHackathon(asked.who) # "none"
    <3> DEFINE q == [asked EXCEPT !.hack = hack]
    <3>1. Next1(q) /\ asked.at = 1 /\ asked.op = "challenges"
      BY <1>5, <2>2 DEF ListChallengesHackathon, At
    <3>2. /\ q \in Requests /\ q.at = asked.at /\ q.who = asked.who
          /\ q.op = asked.op /\ q.about = asked.about /\ q.hack = hack
          /\ q.chal = asked.chal
      BY <1>0, <1>2 DEF Requests
    <3> HIDE DEF q
    <3>3. asked.chal = "published" => chal \in {"published", "closed"}
      BY DEF ApiInv, ReadInv
    <3>4. hack = "published" \/ Organizer(asked.who)
      BY <2>2 DEF ShownHackathon
    <3> QED
      BY <1>4, <3>1, <3>2, <3>3, <3>4
  <2> QED
    BY <2>1, <2>2
<1>6. CASE ListChallenges
  <2> DEFINE h == asked.hack
             c == IF chal = "published" \/ Organizer(asked.who) THEN chal ELSE "none"
  <2>1. Say(Shown(h, c)) /\ asked.at = 2 /\ asked.op = "challenges"
    BY <1>6 DEF ListChallenges, At, Shown
  <2>2. h \in {"none", "draft", "published"}
        /\ c \in {"none", "draft", "published", "closed"}
    BY <1>0, <1>2 DEF Requests
  <2>3. ~Organizer(asked.who) => h = "published" /\ hack = "published"
    BY <2>1 DEF ApiInv, ReadInv
  <2>4. ~Organizer(asked.who) => c \in {"none", "published"}
          /\ (c = "published" => chal = "published")
    OBVIOUS
  <2> HIDE DEF c
  <2> QED
    BY <1>1, <2>1, <2>2, <2>3, <2>4
<1>7. CASE GetChallengeRow
  <2>1. CASE chal = "none"
    BY <1>7, <2>1, Refused DEF GetChallengeRow
  <2>2. CASE chal # "none"
    <3> DEFINE q == [asked EXCEPT !.chal = chal]
    <3>1. Next1(q) /\ asked.at = 1 /\ asked.op = "challenge"
      BY <1>7, <2>2 DEF GetChallengeRow, At
    <3>2. /\ q \in Requests /\ q.at = asked.at /\ q.who = asked.who
          /\ q.op = asked.op /\ q.about = asked.about /\ q.hack = asked.hack
          /\ q.chal = chal
      BY <1>0, <1>2 DEF Requests
    <3> HIDE DEF q
    <3>3. asked.hack = "published" => hack = "published"
      BY DEF ApiInv, ReadInv
    <3> QED
      BY <1>4, <3>1, <3>2, <3>3
  <2> QED
    BY <2>1, <2>2
<1>8. CASE GetChallenge
  <2>1. CASE (hack = "published" /\ asked.chal = "published") \/ Organizer(asked.who)
    <3>1. Say(Shown(hack, asked.chal))
      BY <1>8, <2>1 DEF GetChallenge, Shown
    <3>2. asked.chal \in {"none", "draft", "published", "closed"}
      BY <1>0 DEF Requests
    <3>3. asked.chal = "published" => chal # "draft"
      BY DEF ApiInv, ReadInv
    <3> QED
      BY <1>1, <1>2, <2>1, <3>1, <3>2, <3>3
  <2>2. CASE ~((hack = "published" /\ asked.chal = "published") \/ Organizer(asked.who))
    BY <1>8, <2>2, Refused DEF GetChallenge
  <2> QED
    BY <2>1, <2>2
<1> QED
  BY <1>3, <1>5, <1>6, <1>7, <1>8

\* A reply about submissions: each is the caller's to see.
LEMMA ShowsSubmissions ==
    ASSUME ApiInv, asked.op # "none", asked.op \notin Backlog,
           NEW r, Say(r),
           r = [to |-> asked.who, code |-> 200, op |-> asked.op,
                hack |-> "none", chal |-> "none", subs |-> r.subs,
                status |-> r.status, ahead |-> r.ahead,
                health |-> 0, depth |-> 0],
           r.subs \in SUBSET Participants, r.ahead \in SUBSET Participants,
           r.status \in {"none", "queued", "running", "succeeded", "failed"},
           \A p \in r.subs :
               \/ asked.who = p
               \/ /\ asked.who \in Organizers
                  /\ asked.who = owner \/ asked.op = "user_submissions",
           r.ahead \subseteq seen.undecided, r.ahead # {} => r.status = "queued"
    PROVE  ApiInv'
<1>0. asked.who \in Users /\ asked \in Requests
  BY AskedIsSilent
<1>1. r \in Replies
  <2>1. /\ asked.who \in Users \cup {Stranger, NoOwner}
        /\ asked.op \in Views \cup {"none"} /\ 0 \in 0..3 /\ 0 \in Nat
        /\ "none" \in {"none", "draft", "published"}
        /\ "none" \in {"none", "draft", "published", "closed"}
        /\ 200 \in {0, 200, 401, 403, 404}
    BY <1>0 DEF Requests
  <2> QED
    BY <2>1 DEF Replies
<1>2. /\ r.to = asked.who /\ r.op = asked.op /\ r.hack = "none"
      /\ r.chal = "none"
  OBVIOUS
<1> QED
  BY <1>1, <1>2, SayKeeps

\* The submissions a caller may see.
LEMMA SubmissionStep ==
    ASSUME ApiInv,
           GetSubmission \/ ListUserSubmissions \/ ListChallengeSubmissions
    PROVE  ApiInv'
<1>0. /\ asked.op # "none" /\ asked.op \notin Backlog
      /\ asked.op \in {"submission", "user_submissions", "challenge_submissions"}
  BY DEF GetSubmission, ListUserSubmissions, ListChallengeSubmissions, At,
     Backlog
<1>1. asked.about \in About(asked.op)
  BY <1>0, AskedIsSilent
<1>2. ASSUME NEW S \in SUBSET Participants,
             Say([Reply(200) EXCEPT !.subs = S]),
             \A p \in S :
                \/ asked.who = p
                \/ /\ asked.who \in Organizers
                   /\ asked.who = owner \/ asked.op = "user_submissions"
      PROVE  ApiInv'
  <2>1. PICK r : r = [Reply(200) EXCEPT !.subs = S] /\ Say(r)
    BY <1>2
  <2>2. r = [to |-> asked.who, code |-> 200, op |-> asked.op,
             hack |-> "none", chal |-> "none", subs |-> S,
             status |-> "none", ahead |-> {}, health |-> 0, depth |-> 0]
    BY <2>1 DEF Reply, Silent
  <2>3. r.subs = S /\ r.ahead = {} /\ r.status = "none"
    BY <2>2
  <2> QED
    BY <1>0, <1>2, <2>1, <2>2, <2>3, ShowsSubmissions
<1>3. CASE GetSubmission
  <2>1. CASE entry[asked.about] = "none"
    BY <1>3, <2>1, Refused DEF GetSubmission
  <2>2. CASE entry[asked.about] # "none" /\ ~Authorized(asked.who, asked.about)
    BY <1>3, <2>2, Refused DEF GetSubmission
  <2>3. CASE entry[asked.about] # "none" /\ Authorized(asked.who, asked.about)
    <3> DEFINE S == {asked.about}
    <3>1. Say([Reply(200) EXCEPT !.subs = S]) /\ asked.op = "submission"
      BY <1>3, <2>3 DEF GetSubmission, At
    <3>2. S \in SUBSET Participants
      BY <1>1, <3>1 DEF About
    <3>3. \A p \in S : asked.who = p
                       \/ (asked.who \in Organizers /\ asked.who = owner)
      BY <2>3 DEF Authorized, Organizer
    <3> HIDE DEF S
    <3> QED
      BY <1>2, <3>1, <3>2, <3>3
  <2> QED
    BY <2>1, <2>2, <2>3
<1>4. CASE ListUserSubmissions
  <2>1. CASE asked.who # asked.about /\ ~Organizer(asked.who)
    BY <1>4, <2>1, Refused DEF ListUserSubmissions
  <2>2. CASE asked.who = asked.about \/ Organizer(asked.who)
    <3> DEFINE S == {asked.about} \cap {p \in Participants : entry[p] # "none"}
    <3>1. Say([Reply(200) EXCEPT !.subs = S]) /\ asked.op = "user_submissions"
      BY <1>4, <2>2 DEF ListUserSubmissions, At
    <3>2. S \in SUBSET Participants
      OBVIOUS
    <3>3. \A p \in S : asked.who = p \/ asked.who \in Organizers
      BY <2>2 DEF Organizer
    <3> HIDE DEF S
    <3> QED
      BY <1>2, <3>1, <3>2, <3>3
  <2> QED
    BY <2>1, <2>2
<1>5. CASE ListChallengeSubmissions
  <2>1. CASE chal = "none"
    BY <1>5, <2>1, Refused DEF ListChallengeSubmissions
  <2>2. CASE chal # "none" /\ owner # asked.who
    BY <1>5, <2>2, Refused DEF ListChallengeSubmissions
  <2>3. CASE chal # "none" /\ owner = asked.who
    <3> DEFINE S == {p \in Participants : entry[p] # "none"}
    <3>1. Say([Reply(200) EXCEPT !.subs = S])
          /\ asked.op = "challenge_submissions"
      BY <1>5, <2>3 DEF ListChallengeSubmissions, At
    <3>2. S \in SUBSET Participants
      OBVIOUS
    <3>3. asked.who \in Organizers
      BY <3>1 DEF ApiInv, RequestInv, Organizer
    <3> HIDE DEF S
    <3> QED
      BY <1>2, <2>3, <3>1, <3>2, <3>3
  <2> QED
    BY <2>1, <2>2, <2>3
<1> QED
  BY <1>3, <1>4, <1>5

\* The evaluation of a submission, read in three statements: the right to see
\* it does not lapse between them, and whoever is counted ahead at the end
\* was undecided when the row was read.
LEMMA EvaluationStep ==
    ASSUME ApiInv, ViewSubmission \/ ViewEvaluation \/ ViewReply
    PROVE  ApiInv'
<1>0. /\ asked.op = "evaluation" /\ asked.op # "none" /\ asked.op \notin Backlog
  BY DEF ViewSubmission, ViewEvaluation, ViewReply, At, Backlog
<1>1. /\ told = Silent /\ asked.who \in Users /\ asked \in Requests
      /\ asked.about \in Participants /\ ApiTypeOK
  BY <1>0, AskedIsSilent DEF About
<1>2. CASE ViewSubmission
  <2>1. CASE entry[asked.about] = "none"
    BY <1>2, <2>1, Refused DEF ViewSubmission
  <2>2. CASE entry[asked.about] # "none" /\ ~Authorized(asked.who, asked.about)
    BY <1>2, <2>2, Refused DEF ViewSubmission
  <2>3. CASE entry[asked.about] # "none" /\ Authorized(asked.who, asked.about)
    <3>1. Next1(asked) /\ asked.at = 1
      BY <1>2, <2>3 DEF ViewSubmission, At
    <3>2. /\ asked' = [asked EXCEPT !.at = 2] /\ told' = told /\ seen' = seen
          /\ UNCHANGED worldVars
      BY <3>1 DEF Next1
    <3>3. /\ asked' \in Requests /\ asked'.who = asked.who
          /\ asked'.op = asked.op /\ asked'.about = asked.about
          /\ asked'.hack = asked.hack /\ asked'.chal = asked.chal
          /\ asked'.at = 2
      BY <1>1, <3>2 DEF Requests
    <3>4. hack' = hack /\ chal' = chal /\ owner' = owner
      BY <3>2 DEF worldVars
    <3>5. RequestInv' /\ AheadInv' /\ BacklogInv'
      BY <1>0, <1>1, <3>2, <3>3
      DEF RequestInv, AheadInv, BacklogInv, Backlog, About, Organizer
    <3>6. ReadInv'
      BY <1>0, <2>3, <3>3, <3>4 DEF ApiInv, ReadInv, Authorized, Organizer
    <3> QED
      BY <1>1, <3>2, <3>3, <3>5, <3>6, GoesOn DEF ApiTypeOK
  <2> QED
    BY <2>1, <2>2, <2>3
<1>3. CASE ViewEvaluation
  <2> DEFINE b == asked.about
             e == eval[b]
  <2>1. CASE eval[b] \in {"none", "inserted"}
    BY <1>3, <2>1, Refused DEF ViewEvaluation
  <2>2. CASE eval[b] \notin {"none", "inserted"}
    <3> DEFINE U == {q \in Older(b) : Open(q)}
    <3>1. /\ asked' = [asked EXCEPT !.status = e, !.at = 3]
          /\ seen' = [seen EXCEPT !.undecided = U]
          /\ UNCHANGED worldVars /\ told' = told /\ asked.at = 2
      BY <1>3, <2>2 DEF ViewEvaluation, At
    <3>2. e \in {"queued", "running", "succeeded", "failed"}
      BY <1>1, <2>2 DEF ApiTypeOK
    <3>3. /\ asked' \in Requests /\ asked'.who = asked.who
          /\ asked'.op = asked.op /\ asked'.about = b
          /\ asked'.hack = asked.hack /\ asked'.chal = asked.chal
          /\ asked'.at = 3
      <4>1. asked' = [asked EXCEPT !.status = e, !.at = 3]
        BY <3>1
      <4>2. /\ e \in {"none", "queued", "running", "succeeded", "failed"}
            /\ 3 \in 0..3 /\ asked \in Requests
        BY <1>1, <3>2
      <4> HIDE DEF e, U
      <4>3. asked' \in Requests
        BY <4>1, <4>2 DEF Requests
      <4> QED
        BY <4>1, <4>2 DEF Requests
    <3>4. U \in SUBSET Participants
      BY OlderAreRows DEF ApiInv
    <3>5. /\ hack' = hack /\ chal' = chal /\ owner' = owner /\ eval' = eval
          /\ order' = order
      BY <3>1 DEF worldVars
    <3>6. seen' \in Sights /\ seen'.undecided = U
      <4>1. seen \in Sights
        BY <1>1 DEF ApiTypeOK
      <4> HIDE DEF U
      <4> QED
        BY <3>1, <3>4, <4>1 DEF Sights
    <3>7. RequestInv' /\ BacklogInv'
      BY <1>0, <1>1, <3>1, <3>3
      DEF RequestInv, BacklogInv, Backlog, About, Organizer
    <3>8. ReadInv'
      BY <1>0, <3>1, <3>3, <3>5 DEF ApiInv, ReadInv, Authorized, Organizer
    <3>9. AheadInv'
      <4>1. Older(asked.about)' = Older(b)
        BY <3>3, <3>5 DEF Older
      <4>2. \A q : Open(q)' = Open(q)
        BY <3>5 DEF Open
      <4>3. \A q \in Older(b) : Open(q) => q \in seen'.undecided
        BY <3>6
      <4> QED
        BY <2>2, <3>3, <3>5, <4>1, <4>2, <4>3 DEF AheadInv
    <3> QED
      BY <1>1, <3>1, <3>3, <3>6, <3>7, <3>8, <3>9, GoesOn
  <2> QED
    BY <2>1, <2>2
<1>4. CASE ViewReply
  <2> DEFINE b  == asked.about
             st == asked.status
             A  == IF st = "queued" THEN QueuePosition(b) ELSE {}
             S  == {b}
  <2>1. /\ Say([Reply(200) EXCEPT !.subs = S, !.status = st, !.ahead = A])
        /\ asked.at = 3
    BY <1>4 DEF ViewReply, At
  <2>2. Authorized(asked.who, b)
    BY <1>0, <2>1 DEF ApiInv, ReadInv
  <2>3. \A p \in S :
           \/ asked.who = p
           \/ /\ asked.who \in Organizers
              /\ asked.who = owner \/ asked.op = "user_submissions"
    BY <2>2 DEF Authorized, Organizer
  <2>4. /\ A \subseteq seen.undecided
        /\ A # {} => st = "queued"
        /\ A \in SUBSET Participants
    <3>1. \A q \in Older(b) : Open(q) => q \in seen.undecided
      BY <1>0, <2>1 DEF ApiInv, AheadInv
    <3>2. \A q \in QueuePosition(b) : q \in Older(b) /\ Open(q) /\ q \in Participants
      BY DEF QueuePosition, Queued, Open
    <3> QED
      BY <3>1, <3>2
  <2>5. /\ st \in {"none", "queued", "running", "succeeded", "failed"}
        /\ S \in SUBSET Participants
    BY <1>1 DEF Requests
  <2> HIDE DEF S, st, A
  <2>6. PICK r : /\ r = [Reply(200) EXCEPT !.subs = S, !.status = st, !.ahead = A]
                 /\ Say(r)
    BY <2>1
  <2>7. r = [to |-> asked.who, code |-> 200, op |-> asked.op,
             hack |-> "none", chal |-> "none", subs |-> S, status |-> st,
             ahead |-> A, health |-> 0, depth |-> 0]
    BY <2>6 DEF Reply, Silent
  <2>8. Say(r) /\ r.subs = S /\ r.status = st /\ r.ahead = A
    BY <2>6, <2>7
  <2> QED
    BY <1>0, <2>3, <2>4, <2>5, <2>7, <2>8, ShowsSubmissions
<1> QED
  BY <1>2, <1>3, <1>4

\* The backlog, read in two statements.
LEMMA BacklogStep ==
    ASSUME ApiInv, BacklogCounts \/ BacklogReply
    PROVE  ApiInv'
<1>0. asked.op \in Backlog /\ asked.op # "none"
  BY DEF BacklogCounts, BacklogReply, Backlog
<1>1. /\ told = Silent /\ asked.who \in Users /\ asked \in Requests
      /\ asked.about \in About(asked.op) /\ ApiTypeOK
  BY <1>0, AskedIsSilent
<1>2. Cardinality(Queued) \in Nat /\ OldestAge \in 0..MaxAge
  BY <1>1, QueueSize
<1>3. /\ seen.least <= Cardinality(Queued) /\ Cardinality(Queued) <= seen.most
      /\ seen.young <= OldestAge /\ OldestAge <= seen.old
      /\ asked.at = 2 => seen.least <= asked.depth /\ asked.depth <= seen.most
  BY <1>0 DEF ApiInv, BacklogInv
<1>4. CASE BacklogCounts
  <2> DEFINE d == Cardinality(Queued)
             q == [asked EXCEPT !.depth = d]
  <2>1. Next1(q) /\ asked.at = 1
    BY <1>4 DEF BacklogCounts
  <2> HIDE DEF d
  <2>2. d \in Nat /\ seen.least <= d /\ d <= seen.most
    BY <1>2, <1>3 DEF d
  <2>3. /\ q \in Requests /\ q.at = 1 /\ q.who = asked.who
        /\ q.op = asked.op /\ q.about = asked.about /\ q.hack = asked.hack
        /\ q.chal = asked.chal /\ q.depth = d
    BY <1>1, <2>1, <2>2 DEF Requests
  <2> HIDE DEF q
  <2>4. /\ asked' = [q EXCEPT !.at = 2] /\ told' = told /\ seen' = seen
        /\ UNCHANGED worldVars
    BY <2>1, <2>3 DEF Next1
  <2>5. /\ asked' \in Requests /\ asked'.who = asked.who
        /\ asked'.op = asked.op /\ asked'.about = asked.about
        /\ asked'.hack = asked.hack /\ asked'.chal = asked.chal
        /\ asked'.at = 2 /\ asked'.depth = d
    BY <2>3, <2>4 DEF Requests
  <2>6. /\ hack' = hack /\ chal' = chal /\ owner' = owner
        /\ Queued' = Queued /\ OldestAge' = OldestAge
    BY <2>4 DEF worldVars, Queued, OldestAge
  <2>7. RequestInv' /\ ReadInv' /\ AheadInv'
    BY <1>0, <1>1, <2>4, <2>5, <2>6
    DEF ApiInv, RequestInv, ReadInv, AheadInv, Backlog, Organizer
  <2>8. BacklogInv'
    BY <1>3, <2>2, <2>4, <2>5, <2>6 DEF BacklogInv
  <2> QED
    BY <1>1, <2>4, <2>5, <2>7, <2>8, GoesOn DEF ApiTypeOK
<1>5. CASE BacklogReply
  <2> DEFINE d == asked.depth
             o == OldestAge
             h == Health(d, o)
  <2>1. Say([Reply(200) EXCEPT !.depth = d, !.health = h]) /\ asked.at = 2
    BY <1>5 DEF BacklogReply
  <2>2. /\ seen.least \in Nat /\ seen.most \in Nat /\ d \in Nat /\ o \in 0..3
        /\ seen.young \in 0..3 /\ seen.old \in 0..3
    <3>1. MaxAge \in 0..3 /\ seen \in Sights
      BY <1>1, ApiAssumption DEF ApiTypeOK
    <3> QED
      BY <1>1, <1>2, <3>1 DEF Sights, Requests
  <2>3. /\ seen.least <= d /\ d <= seen.most
        /\ seen.young <= o /\ o <= seen.old
    BY <1>3, <2>1
  <2> HIDE DEF d, o
  <2>4. Health(seen.least, seen.young) <= h
        /\ (seen.least >= BusyDepth => Health(seen.least, seen.young) > 0)
        /\ Health(seen.least, seen.young) \in 0..3
    BY <2>2, <2>3, HealthMonotone
  <2>5. h <= Health(seen.most, seen.old) /\ h \in 0..3
    BY <2>2, <2>3, HealthMonotone
  <2> HIDE DEF h
  <2>6. PICK r : /\ r = [Reply(200) EXCEPT !.depth = d, !.health = h] /\ Say(r)
    BY <2>1
  <2>7. r = [to |-> asked.who, code |-> 200, op |-> asked.op,
             hack |-> "none", chal |-> "none", subs |-> {}, status |-> "none",
             ahead |-> {}, health |-> h, depth |-> d]
    BY <2>6 DEF Reply, Silent
  <2>8. r \in Replies
    <3>1. /\ asked.who \in Users \cup {Stranger, NoOwner}
          /\ asked.op \in Views \cup {"none"} /\ {} \in SUBSET Participants
          /\ "none" \in {"none", "draft", "published"}
          /\ "none" \in {"none", "draft", "published", "closed"}
          /\ "none" \in {"none", "queued", "running", "succeeded", "failed"}
          /\ 200 \in {0, 200, 401, 403, 404}
      BY <1>1 DEF Requests
    <3> QED
      BY <2>2, <2>5, <2>7, <3>1 DEF Replies
  <2>9. /\ r.hack = "none" /\ r.chal = "none" /\ r.subs = {} /\ r.ahead = {}
        /\ r.health = h
    BY <2>7
  <2>10. /\ Health(seen.least, seen.young) <= r.health
         /\ r.health <= Health(seen.most, seen.old)
         /\ seen.least >= BusyDepth => r.health > 0
    <3>1. h \in Nat /\ seen.least \in Nat /\ BusyDepth \in Nat
      BY <2>2, <2>5, ApiAssumption
    <3> QED
      BY <2>4, <2>5, <2>9, <3>1
  <2>11. Say(r)
    BY <2>6
  <2> QED
    BY <2>8, <2>9, <2>10, <2>11, SayKeeps
<1> QED
  BY <1>4, <1>5

-----------------------------------------------------------------------------
(* The theorems. *)

LEMMA ApiInitInv ==
    ASSUME ApiInit
    PROVE  ApiInv
<1>1. ApiTypeOK
  <2>1. 0 \in 0..MaxAge
    BY ApiAssumption
  <2>2. /\ entry \in [Participants -> {"none", "created", "submitted", "cancelled"}]
        /\ eval \in [Participants -> {"none", "inserted", "queued", "running",
                                      "succeeded", "failed"}]
        /\ age \in [Participants -> 0..MaxAge] /\ order \in Seq(Participants)
    BY <2>1 DEF ApiInit
  <2>3. /\ hack \in {"none", "draft", "published"}
        /\ owner \in Organizers \cup {NoOwner}
        /\ chal \in {"none", "draft", "published", "closed"} /\ ready \in BOOLEAN
    BY DEF ApiInit
  <2>4. asked \in Requests /\ told \in Replies /\ seen \in Sights
    BY BlankTypes DEF ApiInit
  <2> QED
    BY <2>2, <2>3, <2>4 DEF ApiTypeOK
<1>2. RequestInv /\ ReadInv /\ AheadInv /\ BacklogInv
  BY DEF ApiInit, RequestInv, ReadInv, AheadInv, BacklogInv, Idle, Backlog
<1>3. WorldInv
  BY ApiAssumption DEF ApiInit, WorldInv
<1>4. AnswersAreAuthorized /\ ViewsAreOfTheQueue
  BY DEF ApiInit, Silent, AnswersAreAuthorized, DraftsStayHidden,
     SubmissionsPrivate, ViewsAreOfTheQueue, AheadIsAhead, HealthIsBracketed
<1> QED
  BY <1>1, <1>2, <1>3, <1>4 DEF ApiInv

LEMMA ApiStutters ==
    ASSUME ApiInv, UNCHANGED apiVars
    PROVE  ApiInv'
<1>1. /\ hack' = hack /\ owner' = owner /\ chal' = chal /\ ready' = ready
      /\ entry' = entry /\ eval' = eval /\ order' = order /\ age' = age
      /\ asked' = asked /\ told' = told /\ seen' = seen
  BY DEF apiVars, worldVars
<1>2. Queued' = Queued /\ OldestAge' = OldestAge
  BY <1>1 DEF Queued, OldestAge
<1>3. ApiTypeOK' /\ RequestInv' /\ WorldInv'
  BY <1>1 DEF ApiInv, ApiTypeOK, RequestInv, WorldInv
<1>4. ReadInv' /\ AheadInv'
  BY <1>1 DEF ApiInv, ReadInv, AheadInv, Authorized, Older, Open
<1>5. BacklogInv'
  BY <1>1, <1>2 DEF ApiInv, BacklogInv
<1>6. AnswersAreAuthorized' /\ ViewsAreOfTheQueue'
  BY <1>1 DEF ApiInv, AnswersAreAuthorized, DraftsStayHidden,
     SubmissionsPrivate, ViewsAreOfTheQueue, AheadIsAhead, HealthIsBracketed
<1> QED
  BY <1>3, <1>4, <1>5, <1>6 DEF ApiInv

LEMMA ApiNextInv ==
    ASSUME ApiInv, [ApiNext]_apiVars
    PROVE  ApiInv'
<1>1. CASE WorldStep
  BY <1>1, OrganizerStep, ParticipantStep DEF WorldStep
<1>2. CASE RequestStep
  BY <1>2, AskStep, DeliverStep, CatalogueStep, SubmissionStep,
     EvaluationStep, BacklogStep
  DEF RequestStep
<1> QED
  BY <1>1, <1>2, ApiStutters DEF ApiNext

\* The inductive invariant of the API holds for any organizers, any finite
\* set of participants, and any depth thresholds in order.
THEOREM ApiInvariant == ApiSpec => []ApiInv
<1>1. ApiInit => ApiInv
  BY ApiInitInv
<1>2. ApiInv /\ [ApiNext]_apiVars => ApiInv'
  BY ApiNextInv
<1> QED
  BY <1>1, <1>2, PTL DEF ApiSpec

\* No answer of the API shows a caller a draft or a submission that is not
\* his to see (AnswersAreAuthorized), though handlers read the rows and check
\* the rights in separate statements while organizers and workers go on.
THEOREM AnswersAuthorized == ApiSpec => []AnswersAreAuthorized
<1>1. ApiInv => AnswersAreAuthorized
  BY DEF ApiInv
<1> QED
  BY <1>1, ApiInvariant, PTL

\* The queue position and the health of an answer are those of a queue there
\* was while the request read it (ViewsAreOfTheQueue).
THEOREM ViewsFaithful == ApiSpec => []ViewsAreOfTheQueue
<1>1. ApiInv => ViewsAreOfTheQueue
  BY DEF ApiInv
<1> QED
  BY <1>1, ApiInvariant, PTL

(***************************************************************************)
(* ExperimentHarness                                                       *)
(***************************************************************************)

-----------------------------------------------------------------------------
(* The order of the calls. *)

\* Where a scenario of an experiment can be.
Inside(c, h) ==
    \/ h \in {"seeding", "launching", "driving", "stopping"}
    \/ c = "isolated" /\ h \in {"benching", "measuring"}
    \/ c # "isolated" /\ h \in {"enqueueing", "joining", "collecting"}
    \/ c \in {"hard_mix", "feedback", "hotpath"} /\ h = "draining"

\* What follows a call.
Follows(c, h) ==
    CASE h = "seeding" -> IF c = "isolated" THEN "launching" ELSE "enqueueing"
      [] h = "enqueueing" -> "launching"
      [] h = "launching" -> "driving"
      [] h = "driving" -> IF c = "isolated" THEN "stopping" ELSE "joining"
      [] h = "joining" -> IF c = "capacity" THEN "stopping" ELSE "draining"
      [] h = "draining" -> IF c = "hard_mix" THEN "collecting" ELSE "stopping"
      [] h = "stopping" -> IF c = "isolated" THEN "benching"
                           ELSE IF c = "hard_mix" THEN "between" ELSE "collecting"
      [] h = "collecting" -> IF c = "hard_mix" THEN "stopping" ELSE "between"
      [] h = "benching" -> "measuring"
      [] h = "measuring" -> "between"

LEMMA CallsAre ==
    /\ Calls["isolated"] = IsolatedScenario /\ Calls["hard_mix"] = HardMixScenario
    /\ Calls["feedback"] = FeedbackScenario /\ Calls["hotpath"] = FeedbackScenario
    /\ Calls["capacity"] = CapacityScenario
  BY DEF Calls, HotpathCell

LEMMA ScenarioIsInside ==
    ASSUME NEW c \in Scripts, NEW h
    PROVE  (\E i \in DOMAIN Calls[c] : Calls[c][i] = h) <=> Inside(c, h)
<1>1. c \in {"isolated", "hard_mix", "feedback", "hotpath", "capacity"}
  BY HarnessAssumption
<1>2. CASE c = "isolated"
  BY <1>2, CallsAre DEF IsolatedScenario, Inside
<1>3. CASE c = "hard_mix"
  BY <1>3, CallsAre DEF HardMixScenario, Inside
<1>4. CASE c \in {"feedback", "hotpath"}
  BY <1>4, CallsAre DEF FeedbackScenario, Inside
<1>5. CASE c = "capacity"
  BY <1>5, CallsAre DEF CapacityScenario, Inside
<1> QED
  BY <1>1, <1>2, <1>3, <1>4, <1>5

\* A call is made once in a scenario, so that what follows it is determined.
LEMMA NextCallFollows ==
    ASSUME script \in Scripts, Inside(script, hStep)
    PROVE  NextCall = Follows(script, hStep)
<1>1. script \in {"isolated", "hard_mix", "feedback", "hotpath", "capacity"}
  BY HarnessAssumption
<1> DEFINE i == CHOOSE k \in DOMAIN Calls[script] : Calls[script][k] = hStep
<1>2. i \in DOMAIN Calls[script] /\ Calls[script][i] = hStep
  BY ScenarioIsInside
<1>3. NextCall = IF i = Len(Calls[script]) THEN "between" ELSE Calls[script][i + 1]
  BY DEF NextCall
<1> HIDE DEF i
<1>4. CASE script = "isolated"
  <2>1. Len(Calls[script]) = 6 /\ DOMAIN Calls[script] = 1..6
    BY <1>4, CallsAre DEF IsolatedScenario
  <2>2. i \in {1, 2, 3, 4, 5, 6}
    BY <1>2, <2>1
  <2> QED
    BY <1>2, <1>3, <1>4, <2>1, <2>2, CallsAre DEF IsolatedScenario, Follows
<1>5. CASE script = "hard_mix"
  <2>1. Len(Calls[script]) = 8 /\ DOMAIN Calls[script] = 1..8
    BY <1>5, CallsAre DEF HardMixScenario
  <2>2. i \in {1, 2, 3, 4, 5, 6, 7, 8}
    BY <1>2, <2>1
  <2> QED
    BY <1>2, <1>3, <1>5, <2>1, <2>2, CallsAre DEF HardMixScenario, Follows
<1>6. CASE script \in {"feedback", "hotpath"}
  <2>1. Len(Calls[script]) = 8 /\ DOMAIN Calls[script] = 1..8
    BY <1>6, CallsAre DEF FeedbackScenario
  <2>2. i \in {1, 2, 3, 4, 5, 6, 7, 8}
    BY <1>2, <2>1
  <2> QED
    BY <1>2, <1>3, <1>6, <2>1, <2>2, CallsAre DEF FeedbackScenario, Follows
<1>7. CASE script = "capacity"
  <2>1. Len(Calls[script]) = 7 /\ DOMAIN Calls[script] = 1..7
    BY <1>7, CallsAre DEF CapacityScenario
  <2>2. i \in {1, 2, 3, 4, 5, 6, 7}
    BY <1>2, <2>1
  <2> QED
    BY <1>2, <1>3, <1>7, <2>1, <2>2, CallsAre DEF CapacityScenario, Follows
<1> QED
  BY <1>1, <1>4, <1>5, <1>6, <1>7
\* InScenario is being inside, before and after a step.
LEMMA InsideIs ==
    ASSUME script \in Scripts
    PROVE  InScenario <=> Inside(script, hStep)
  BY ScenarioIsInside DEF InScenario

LEMMA InsideIsPrimed ==
    ASSUME script' \in Scripts
    PROVE  InScenario' <=> Inside(script', hStep')
  BY ScenarioIsInside DEF InScenario

\* A row as it is enqueued, and none.
LEMMA RowTypes ==
    /\ NoEvaluation \in Rows
    /\ \A n \in Nat : Enqueued(n) \in Rows
    /\ EmptyTable \in [Slots -> Rows]
    /\ \A s \in Slots : EmptyTable[s].of = 0 /\ EmptyTable[s].by = 0
  BY DEF NoEvaluation, Enqueued, EmptyTable, Rows, RowStatuses

-----------------------------------------------------------------------------
(* Steps between scenarios. *)

LEMMA HInitInv ==
    ASSUME HInit
    PROVE  HInv
<1>1. /\ hStep = "idle" /\ scenario = 0 /\ cells = 0 /\ load = "none"
      /\ server = "none" /\ pool = {} /\ feeder = "off" /\ table = EmptyTable
      /\ emptied = FALSE /\ reports = <<>> /\ raised = FALSE /\ published = FALSE
      /\ script \in Scripts
  BY DEF HInit
<1>2. ~InScenario
  BY <1>1, InsideIs DEF Inside
<1>3. HTypeOK
  <2>1. reports \in Seq(Reports) /\ table \in [Slots -> Rows]
    BY <1>1, RowTypes
  <2> QED
    BY <1>1, <2>1 DEF HTypeOK
<1>4. OwnInv
  BY <1>1, RowTypes DEF OwnInv
<1>5. QuietInv /\ DrainedInv /\ EndInv
  BY <1>1 DEF QuietInv, DrainedInv, EndInv
<1>6. ReportInv /\ SettledInv
  BY <1>1, <1>2 DEF ReportInv, Reported, SettledInv
<1>7. HarnessIsolates
  BY <1>1, <1>2
  DEF HarnessIsolates, MeasuresItsOwn, ReportsAreFinal, PublishedIsComplete
<1> QED
  BY <1>3, <1>4, <1>5, <1>6, <1>7 DEF HInv

\* What is measured and published follows from the rest of the invariant.
LEMMA Isolates ==
    ASSUME HTypeOK', OwnInv', ReportInv', EndInv', ReportsAreFinal',
           QuietInv', DrainedInv', SettledInv'
    PROVE  HInv'
<1>1. MeasuresItsOwn'
  BY DEF MeasuresItsOwn, OwnInv
<1>2. PublishedIsComplete'
  <2> SUFFICES ASSUME published'
               PROVE  /\ ~raised' /\ server' = "stopped" /\ pool' = {}
                      /\ feeder' = "off"
                      /\ [i \in DOMAIN reports' |-> reports'[i].of]
                         = [i \in 1..scenario' |-> i]
    BY DEF PublishedIsComplete
  <2>1. ~raised' /\ server' = "stopped" /\ pool' = {} /\ feeder' = "off"
    BY DEF EndInv
  <2>2. Len(reports') = scenario' /\ \A i \in DOMAIN reports' : reports'[i].of = i
    BY DEF ReportInv, Reported
  <2>3. DOMAIN reports' = 1..Len(reports')
    BY DEF HTypeOK
  <2> QED
    BY <2>1, <2>2, <2>3
<1> QED
  BY <1>1, <1>2 DEF HInv, HarnessIsolates

\* A step outside a scenario that leaves the rows and the reports alone.
LEMMA OutsideStep ==
    ASSUME HInv,
           \/ StartServer \/ ServerReady \/ ServerFails \/ NextMode
           \/ FinishPlan \/ WriteResults \/ Exit
    PROVE  HInv'
<1>0. /\ HTypeOK /\ OwnInv /\ QuietInv /\ DrainedInv /\ ReportInv
      /\ SettledInv /\ EndInv
  BY DEF HInv
<1>1. /\ script' = script /\ scenario' = scenario /\ load' = load
      /\ table' = table /\ emptied' = emptied /\ reports' = reports
      /\ pool' \subseteq pool /\ feeder' \in {feeder, "off"}
      /\ hStep \in {"idle", "waiting", "between", "writing", "ending"}
      /\ hStep' \in {"idle", "waiting", "between", "writing", "ending", "exited"}
  BY DEF StartServer, ServerReady, ServerFails, NextMode, FinishPlan,
     WriteResults, Exit
<1>2. /\ hStep' = "between" => cells' = 0
      /\ hStep' = "waiting" => cells' = 0
  BY <1>0 DEF SettledInv, StartServer, ServerReady, ServerFails, NextMode,
     FinishPlan, WriteResults, Exit
<1>3. ~InScenario'
  BY <1>0, <1>1, InsideIsPrimed DEF HTypeOK, Inside
<1>4. HTypeOK'
  <2>1. cells' \in Nat /\ server' \in {"none", "starting", "up", "stopped"}
    BY <1>0 DEF HTypeOK, StartServer, ServerReady, ServerFails, NextMode,
       FinishPlan, WriteResults, Exit
  <2>2. /\ raised' = raised \/ raised' = TRUE
        /\ published' = published \/ published' = TRUE
    BY DEF StartServer, ServerReady, ServerFails, NextMode, FinishPlan,
       WriteResults, Exit
  <2>3. raised \in BOOLEAN /\ published \in BOOLEAN
    BY <1>0 DEF HTypeOK
  <2>4. raised' \in BOOLEAN /\ published' \in BOOLEAN
    BY <2>2, <2>3
  <2>5. emptied \in BOOLEAN /\ emptied' = emptied
    BY <1>0, <1>1 DEF HTypeOK
  <2>6. emptied' \in BOOLEAN
    BY <2>5
  <2> QED
    BY <1>0, <1>1, <2>1, <2>4, <2>6 DEF HTypeOK
<1>5. OwnInv'
  BY <1>0, <1>1 DEF OwnInv
<1>6. QuietInv'
  BY <1>0, <1>1 DEF QuietInv, StartServer, ServerReady, ServerFails, NextMode,
     FinishPlan, WriteResults, Exit
<1>7. DrainedInv'
  BY <1>0, <1>1 DEF DrainedInv, Having
<1>8. EndInv'
  <2>0. /\ StartServer \/ ServerReady \/ NextMode \/ FinishPlan \/ Exit =>
              raised' = raised /\ published' = published
        /\ ServerFails => raised' = TRUE /\ published' = published
        /\ WriteResults => published' = TRUE /\ raised' = raised
    BY DEF StartServer, ServerReady, ServerFails, NextMode, FinishPlan,
       WriteResults, Exit
  <2>1. /\ StartServer \/ ServerReady \/ NextMode \/ FinishPlan \/ Exit =>
              (raised' <=> raised) /\ (published' <=> published)
        /\ ServerFails => raised' /\ (published' <=> published)
        /\ WriteResults => published' /\ (raised' <=> raised)
    BY <2>0
  <2>2. CASE StartServer \/ ServerReady \/ NextMode \/ FinishPlan
    BY <1>0, <2>1, <2>2 DEF EndInv, QuietInv, StartServer, ServerReady,
       NextMode, FinishPlan
  <2>3. CASE ServerFails
    BY <1>0, <2>1, <2>3 DEF EndInv, ServerFails
  <2>4. CASE WriteResults
    BY <1>0, <2>1, <2>4 DEF EndInv, WriteResults
  <2>5. CASE Exit
    BY <1>0, <2>1, <2>5 DEF EndInv, Exit
  <2> QED
    BY <2>2, <2>3, <2>4, <2>5
<1>9. ReportInv'
  <2>1. published' => published \/ hStep = "writing"
    BY DEF StartServer, ServerReady, ServerFails, NextMode, FinishPlan,
       WriteResults, Exit
  <2>2. Reported' => Reported
    BY <1>0, <1>1, <2>1 DEF Reported, EndInv, StartServer, ServerReady,
       ServerFails, NextMode, FinishPlan, WriteResults, Exit
  <2> QED
    BY <1>0, <1>1, <1>3, <2>2 DEF ReportInv
<1>10. SettledInv' /\ ReportsAreFinal'
  BY <1>0, <1>1, <1>2, <1>3 DEF SettledInv, ReportsAreFinal
<1> QED
  BY <1>4, <1>5, <1>6, <1>7, <1>8, <1>9, <1>10, Isolates

\* A scenario begins with an empty database, and nobody at work.
LEMMA BeginStep ==
    ASSUME HInv, BeginScenario
    PROVE  HInv'
<1>0. /\ HTypeOK /\ OwnInv /\ QuietInv /\ ReportInv /\ EndInv
  BY DEF HInv
<1>1. /\ script' = script /\ scenario' = scenario + 1 /\ cells' = cells + 1
      /\ hStep = "between" /\ hStep' = "seeding" /\ server' = server
      /\ pool' = pool /\ feeder' = feeder /\ reports' = reports
      /\ raised' = raised /\ published' = published /\ emptied' = FALSE
      /\ table' = EmptyTable /\ load' \in LoadsOf[script]
  BY DEF BeginScenario, PrepareDatabase
<1>2. pool = {} /\ feeder = "off" /\ ~published /\ ~raised
  BY <1>0, <1>1 DEF QuietInv, EndInv
<1>3. InScenario'
  BY <1>0, <1>1, InsideIsPrimed DEF HTypeOK, Inside
<1>4. /\ load' \in {"none", "pre", "sustained", "both"}
      /\ script = "isolated" => load' \in {"none", "pre"}
  <2>1. script \in {"isolated", "hard_mix", "feedback", "hotpath", "capacity"}
    BY <1>0, HarnessAssumption DEF HTypeOK
  <2> QED
    BY <1>1, <2>1 DEF LoadsOf
<1>5. HTypeOK'
  <2>1. /\ raised \in BOOLEAN /\ published \in BOOLEAN
    BY <1>0 DEF HTypeOK
  <2>2. /\ raised' \in BOOLEAN /\ published' \in BOOLEAN /\ emptied' \in BOOLEAN
    BY <1>1, <2>1
  <2>3. scenario' \in Nat /\ cells' \in Nat /\ table' \in [Slots -> Rows]
    BY <1>0, <1>1, RowTypes DEF HTypeOK
  <2> QED
    BY <1>0, <1>1, <1>3, <1>4, <2>2, <2>3 DEF HTypeOK
<1>6. OwnInv'
  BY <1>1, <1>2, RowTypes DEF OwnInv
<1>7. QuietInv' /\ DrainedInv' /\ SettledInv' /\ EndInv'
  <2>1. scenario' > 0
    BY <1>0, <1>1 DEF HTypeOK
  <2> QED
    BY <1>0, <1>1, <1>2, <1>4, <2>1 DEF QuietInv, DrainedInv, SettledInv, EndInv
<1>8. ReportInv'
  <2>1. Len(reports) = scenario /\ scenario \in Nat /\ cells \in Nat
    BY <1>0, <1>1 DEF ReportInv, Reported, HTypeOK
  <2>2. ~Reported'
    BY <1>1, <1>2 DEF Reported
  <2> QED
    BY <1>0, <1>1, <2>1, <2>2 DEF ReportInv
<1>9. ReportsAreFinal'
  BY <1>1 DEF ReportsAreFinal
<1> QED
  BY <1>5, <1>6, <1>7, <1>8, <1>9, Isolates
-----------------------------------------------------------------------------
(* Steps of a scenario. *)

CallSteps == {"seeding", "enqueueing", "launching", "driving", "joining",
              "draining", "collecting", "stopping", "benching", "measuring"}

\* While a scenario runs, nothing has been raised or published.
LEMMA Calling ==
    ASSUME HInv, hStep \in CallSteps
    PROVE  /\ script \in Scripts /\ InScenario /\ Inside(script, hStep)
           /\ script \in {"isolated", "hard_mix", "feedback", "hotpath", "capacity"}
           /\ NextCall = Follows(script, hStep)
           /\ ~published /\ ~raised /\ cells > 0 /\ scenario \in Nat
           /\ HTypeOK
<1>0. HTypeOK /\ ReportInv /\ EndInv
  BY DEF HInv
<1>1. InScenario /\ script \in Scripts
  BY <1>0 DEF HTypeOK, CallSteps
<1>2. Inside(script, hStep)
  BY <1>1, InsideIs
<1>3. ~published /\ ~raised
  BY <1>0 DEF EndInv, CallSteps
<1>4. cells > 0 /\ scenario \in Nat
  BY <1>0, <1>1 DEF ReportInv, HTypeOK
<1> QED
  BY <1>0, <1>1, <1>2, <1>3, <1>4, NextCallFollows, HarnessAssumption

\* A call that returns leads to a call, or ends the scenario.
LEMMA Returned ==
    ASSUME HInv, hStep \in CallSteps, hStep' = NextCall,
           script' = script /\ scenario' = scenario /\ cells' = cells
           /\ load' = load /\ server' = server /\ raised' = raised
           /\ published' = published,
           pool' \subseteq Nat, feeder' \in {"off", "on", "done", "failed"},
           table' \in [Slots -> Rows], reports' \in Seq(Reports),
           emptied' \in BOOLEAN
    PROVE  HTypeOK' /\ EndInv' /\ (InScenario' \/ hStep' = "between")
           /\ ~published' /\ (hStep' # "between" => hStep' \in CallSteps)
<1>0. /\ script \in Scripts /\ InScenario /\ Inside(script, hStep)
      /\ script \in {"isolated", "hard_mix", "feedback", "hotpath", "capacity"}
      /\ NextCall = Follows(script, hStep)
      /\ HTypeOK
  BY Calling
<1>1. ~published' /\ ~raised'
  BY Calling
<1>2. Inside(script, hStep') \/ hStep' = "between"
  BY <1>0 DEF CallSteps, Inside, Follows
<1>3. InScenario' \/ hStep' = "between"
  BY <1>0, <1>2, InsideIsPrimed
<1>4. hStep' # "between" => hStep' \in CallSteps
  BY <1>2 DEF Inside, CallSteps
<1>5. EndInv'
  BY <1>1, <1>2 DEF EndInv, Inside
<1>6. raised \in BOOLEAN /\ published \in BOOLEAN
  BY <1>0 DEF HTypeOK
<1>7. raised' \in BOOLEAN /\ published' \in BOOLEAN
  BY <1>6
<1>8. HTypeOK'
  BY <1>0, <1>3, <1>7 DEF HTypeOK
<1> QED
  BY <1>1, <1>3, <1>4, <1>5, <1>8

\* A batch is of the scenario, and nobody has taken a row of it.
LEMMA BatchType ==
    ASSUME NEW n, scenario \in Nat
    PROVE  /\ Batch(n) \in [Slots -> Rows]
           /\ \A s \in Slots : Batch(n)[s].of \in {0, scenario} /\ Batch(n)[s].by = 0
<1> DEFINE r(s) == IF s <= n THEN Enqueued(scenario) ELSE NoEvaluation
<1>1. \A s \in Slots : /\ r(s) \in Rows /\ r(s).of \in {0, scenario}
                       /\ r(s).by = 0
  <2>1. /\ NoEvaluation.of = 0 /\ NoEvaluation.by = 0
        /\ Enqueued(scenario).of = scenario /\ Enqueued(scenario).by = 0
    BY DEF NoEvaluation, Enqueued
  <2> QED
    BY <2>1, RowTypes
<1>2. Batch(n) = [s \in Slots |-> r(s)]
  BY DEF Batch
<1> HIDE DEF r
<1> QED
  BY <1>1, <1>2

LEMMA FullBatch ==
    Batch(TableSize) = [s \in Slots |-> Enqueued(scenario)]
  BY HarnessAssumption DEF Batch, Slots

\* Up to the report: what is enqueued, launched and drained is the scenario's.
LEMMA BeforeReport ==
    ASSUME HInv,
           \/ SeedWorld \/ EnqueueBatch \/ StartWorkers \/ DriveEnds
           \/ JoinFeeder \/ WaitDrain \/ BenchInserts
    PROVE  HInv'
<1>0. /\ HTypeOK /\ OwnInv /\ QuietInv /\ DrainedInv /\ ReportInv
      /\ SettledInv /\ EndInv
  BY DEF HInv
<1>1. /\ script' = script /\ scenario' = scenario /\ cells' = cells
      /\ load' = load /\ server' = server /\ raised' = raised
      /\ published' = published /\ reports' = reports /\ hStep' = NextCall
      /\ hStep \in {"seeding", "enqueueing", "launching", "driving", "joining",
                    "draining", "benching"}
  BY DEF SeedWorld, EnqueueBatch, StartWorkers, DriveEnds, JoinFeeder,
     WaitDrain, BenchInserts
<1>2. /\ script \in Scripts /\ InScenario /\ Inside(script, hStep)
      /\ script \in {"isolated", "hard_mix", "feedback", "hotpath", "capacity"}
      /\ NextCall = Follows(script, hStep)
      /\ cells > 0 /\ scenario \in Nat
  BY <1>1, Calling DEF CallSteps
<1>3. /\ hStep' # "between"
      /\ hStep' = "stopping" => script # "hard_mix"
      /\ hStep' = "measuring" => hStep = "benching"
  BY <1>1, <1>2 DEF Follows, Inside
<1>4. /\ \/ UNCHANGED table
         \/ hStep \in {"seeding", "enqueueing", "benching"} /\ \E n : table' = Batch(n)
      /\ hStep = "benching" => table' = Batch(TableSize)
  BY <1>1 DEF SeedWorld, EnqueueBatch, StartWorkers, DriveEnds, JoinFeeder,
     WaitDrain, BenchInserts
<1>5. /\ table' \in [Slots -> Rows]
      /\ \A s \in Slots : table'[s].of \in {0, scenario} /\ table'[s].by \in {0, scenario}
  BY <1>0, <1>2, <1>4, BatchType DEF HTypeOK, OwnInv
<1>6. /\ pool' \subseteq {scenario}
      /\ hStep # "launching" => pool' = pool
      /\ hStep \notin {"launching", "joining"} => feeder' = feeder
      /\ hStep = "joining" => feeder' = "off"
      /\ hStep = "launching" =>
            feeder' = IF load \in {"sustained", "both"} THEN "on" ELSE "off"
  BY <1>0, <1>1 DEF OwnInv, SeedWorld, EnqueueBatch, StartWorkers, DriveEnds,
     JoinFeeder, WaitDrain, BenchInserts
<1>7. /\ hStep # "draining" => emptied' = emptied
      /\ hStep = "draining" =>
           \/ emptied' = TRUE /\ Having({"queued", "running"}) = {} /\ table' = table
           \/ emptied' = FALSE
  BY <1>1 DEF SeedWorld, EnqueueBatch, StartWorkers, DriveEnds, JoinFeeder,
     WaitDrain, BenchInserts
<1>8. emptied => FALSE
  BY <1>0, <1>1, <1>2 DEF DrainedInv, Inside
<1>9. HTypeOK' /\ EndInv' /\ ~published' /\ InScenario'
  <2>1. pool' \subseteq Nat /\ feeder' \in {"off", "on", "done", "failed"}
    BY <1>0, <1>2, <1>6 DEF HTypeOK
  <2>2. emptied \in BOOLEAN
    BY <1>0 DEF HTypeOK
  <2>3. emptied' \in BOOLEAN
    BY <1>7, <2>2
  <2>4. reports' \in Seq(Reports)
    BY <1>0, <1>1 DEF HTypeOK
  <2>5. hStep \in CallSteps
    BY <1>1 DEF CallSteps
  <2> QED
    BY <1>1, <1>3, <1>5, <2>1, <2>3, <2>4, <2>5, Returned
<1>10. OwnInv'
  BY <1>1, <1>5, <1>6 DEF OwnInv
<1>11. QuietInv'
  BY <1>0, <1>1, <1>2, <1>6 DEF QuietInv, Follows, Inside
<1>12. DrainedInv'
  <2> SUFFICES ASSUME emptied'
               PROVE  /\ Having({"queued", "running"})' = {}
                      /\ script \in {"hard_mix", "feedback", "hotpath"}
                      /\ hStep' \notin {"seeding", "enqueueing", "launching",
                                        "driving", "joining", "draining"}
    BY <1>1 DEF DrainedInv
  <2>1. hStep = "draining" /\ Having({"queued", "running"}) = {} /\ table' = table
    BY <1>7, <1>8
  <2>2. Having({"queued", "running"})' = {}
    BY <2>1 DEF Having
  <2> QED
    BY <1>1, <1>2, <2>1, <2>2 DEF Inside, Follows
<1>13. ReportInv'
  <2>1. ~Reported
    BY <1>1, Calling DEF Reported, CallSteps
  <2>2. ~Reported'
    <3>1. hStep' \notin {"idle", "waiting", "between", "writing"}
      BY <1>1, <1>2 DEF Follows, Inside
    <3> QED
      BY <1>1, <1>3, <1>9, <3>1 DEF Reported
  <2> QED
    BY <1>0, <1>1, <1>2, <2>1, <2>2 DEF ReportInv
<1>14. SettledInv'
  <2>1. hStep' # "waiting"
    BY <1>1, <1>2 DEF Follows, Inside
  <2>2. hStep' = "measuring" => table' = [s \in Slots |-> Enqueued(scenario)]
    BY <1>3, <1>4, FullBatch
  <2> QED
    BY <1>0, <1>1, <1>2, <1>3, <2>1, <2>2 DEF SettledInv, Enqueued
<1>15. ReportsAreFinal'
  BY <1>3 DEF ReportsAreFinal
<1> QED
  BY <1>9, <1>10, <1>11, <1>12, <1>13, <1>14, <1>15, Isolates
\* After the workers are stopped, nobody is left to change a row.
LEMMA StopStep ==
    ASSUME HInv, StopWorkers
    PROVE  HInv'
<1>0. /\ HTypeOK /\ OwnInv /\ QuietInv /\ DrainedInv /\ ReportInv
      /\ SettledInv /\ EndInv
  BY DEF HInv
<1>1. /\ script' = script /\ scenario' = scenario /\ cells' = cells
      /\ load' = load /\ server' = server /\ raised' = raised
      /\ published' = published /\ reports' = reports /\ hStep' = NextCall
      /\ table' = table /\ emptied' = emptied /\ feeder' = feeder
      /\ hStep = "stopping" /\ hStep \in CallSteps
  BY DEF StopWorkers, CallSteps
<1>2. /\ script \in Scripts /\ InScenario
      /\ script \in {"isolated", "hard_mix", "feedback", "hotpath", "capacity"}
      /\ NextCall = Follows(script, hStep)
      /\ cells > 0 /\ scenario \in Nat
  BY <1>1, Calling
<1>3. hStep' = IF script = "isolated" THEN "benching"
               ELSE IF script = "hard_mix" THEN "between" ELSE "collecting"
  BY <1>1, <1>2 DEF Follows
<1>4. pool' = {}
  BY <1>0 DEF StopWorkers, StopProcess, OwnInv
<1>5. HTypeOK' /\ EndInv' /\ ~published'
  <2>1. emptied \in BOOLEAN
    BY <1>0 DEF HTypeOK
  <2>2. emptied' \in BOOLEAN
    BY <1>1, <2>1
  <2>3. /\ pool' \subseteq Nat /\ feeder' \in {"off", "on", "done", "failed"}
        /\ table' \in [Slots -> Rows] /\ reports' \in Seq(Reports)
    BY <1>0, <1>1, <1>4 DEF HTypeOK
  <2> QED
    BY <1>1, <2>2, <2>3, Returned
<1>6. OwnInv' /\ QuietInv'
  BY <1>0, <1>1, <1>3, <1>4 DEF OwnInv, QuietInv
<1>7. DrainedInv'
  BY <1>0, <1>1, <1>3 DEF DrainedInv, Having
<1>8. ReportInv'
  <2>1. Reported' <=> Reported
    BY <1>1, <1>2, <1>3, <1>5, Calling DEF Reported
  <2> QED
    BY <1>0, <1>1, <1>2, <2>1 DEF ReportInv
<1>9. SettledInv'
  BY <1>0, <1>1, <1>2, <1>3 DEF SettledInv
<1>10. ReportsAreFinal'
  <2> SUFFICES ASSUME hStep' = "between"
               PROVE  /\ Len(reports) = scenario
                      /\ reports[scenario].of = scenario
                      /\ emptied => /\ reports[scenario].rows = table
                                    /\ reports[scenario].stranded = 0
    BY <1>1, <1>3 DEF ReportsAreFinal
  <2>1. script = "hard_mix"
    BY <1>2, <1>3
  <2>2. Len(reports) = scenario /\ scenario > 0 /\ reports \in Seq(Reports)
    BY <1>0, <1>1, <1>2, <2>1 DEF ReportInv, Reported, SettledInv, HTypeOK
  <2>3. reports[scenario].of = scenario
    BY <1>0, <1>2, <2>2 DEF ReportInv
  <2> QED
    BY <1>0, <1>1, <2>1, <2>2, <2>3 DEF SettledInv
<1> QED
  BY <1>5, <1>6, <1>7, <1>8, <1>9, <1>10, Isolates

\* A report is of its scenario, and a drained queue strands nobody.
LEMMA QualityIs ==
    ASSUME HTypeOK, DrainedInv
    PROVE  /\ Quality \in Reports /\ Quality.of = scenario
           /\ Quality.rows = table
           /\ emptied => Quality.stranded = 0
<1>1. IsFiniteSet(Slots)
  BY HarnessAssumption, FS_Interval DEF Slots
<1>2. \A S : Having(S) \subseteq Slots
  BY DEF Having
<1> DEFINE c == Cardinality(Having({"succeeded", "failed"}))
           d == Cardinality(Having({"queued", "running"}))
<1>3. c \in Nat /\ d \in Nat
  BY <1>1, <1>2, FS_Subset, FS_CardinalityType
<1>4. emptied => d = 0
  BY FS_EmptySet DEF DrainedInv
<1>5. Quality = [of |-> scenario, rows |-> table, completed |-> c, stranded |-> d]
  BY DEF Quality
<1> HIDE DEF c, d
<1> QED
  BY <1>3, <1>4, <1>5 DEF HTypeOK, Reports

\* The report is added, and is what there is to be seen.
LEMMA ReportStep ==
    ASSUME HInv, Collect \/ BenchMeasures
    PROVE  HInv'
<1>0. /\ HTypeOK /\ OwnInv /\ QuietInv /\ DrainedInv /\ ReportInv
      /\ SettledInv /\ EndInv
  BY DEF HInv
<1>1. /\ script' = script /\ scenario' = scenario /\ cells' = cells
      /\ load' = load /\ server' = server /\ raised' = raised
      /\ published' = published /\ hStep' = NextCall /\ pool' = pool
      /\ table' = table /\ emptied' = emptied /\ feeder' = feeder
      /\ reports' = Append(reports, Quality)
      /\ hStep \in {"collecting", "measuring"} /\ hStep \in CallSteps
  BY DEF Collect, BenchMeasures, CallSteps
<1>2. /\ script \in Scripts /\ InScenario /\ Inside(script, hStep)
      /\ NextCall = Follows(script, hStep)
      /\ cells > 0 /\ scenario \in Nat
  BY <1>1, Calling
<1>3. /\ hStep' = IF script = "hard_mix" THEN "stopping" ELSE "between"
      /\ script = "isolated" <=> hStep = "measuring"
  BY <1>1, <1>2 DEF Follows, Inside
<1>4. /\ Quality \in Reports /\ Quality.of = scenario /\ Quality.rows = table
      /\ emptied => Quality.stranded = 0
  BY <1>0, QualityIs
<1>5. Len(reports) + 1 = scenario /\ reports \in Seq(Reports)
  <2>1. ~Reported
    BY <1>1, Calling DEF Reported
  <2> QED
    BY <1>0, <1>2, <2>1 DEF ReportInv, HTypeOK
<1> HIDE DEF Quality
<1>6. /\ reports' \in Seq(Reports) /\ Len(reports') = scenario
      /\ reports'[scenario] = Quality
      /\ DOMAIN reports' = 1..scenario
      /\ \A i \in 1..Len(reports) : reports'[i] = reports[i]
      /\ DOMAIN reports = 1..Len(reports) /\ Len(reports) \in Nat
  BY <1>1, <1>4, <1>5
<1>7. HTypeOK' /\ EndInv' /\ ~published'
  <2>1. emptied \in BOOLEAN
    BY <1>0 DEF HTypeOK
  <2>2. emptied' \in BOOLEAN
    BY <1>1, <2>1
  <2>3. /\ pool' \subseteq Nat /\ feeder' \in {"off", "on", "done", "failed"}
        /\ table' \in [Slots -> Rows]
    BY <1>0, <1>1 DEF HTypeOK
  <2> QED
    BY <1>1, <1>6, <2>2, <2>3, Returned
<1>8. OwnInv' /\ QuietInv'
  BY <1>0, <1>1, <1>3 DEF OwnInv, QuietInv
<1>9. DrainedInv'
  BY <1>0, <1>1, <1>3 DEF DrainedInv, Having
<1>10. ReportInv'
  <2>1. \A i \in DOMAIN reports' : reports'[i].of = i
    BY <1>0, <1>4, <1>5, <1>6 DEF ReportInv
  <2>2. Reported'
    BY <1>1, <1>3 DEF Reported
  <2> QED
    BY <1>1, <1>2, <1>6, <2>1, <2>2 DEF ReportInv
<1>11. SettledInv'
  <2>1. scenario > 0
    BY <1>5, <1>6
  <2> QED
    BY <1>1, <1>3, <1>4, <1>6, <2>1 DEF SettledInv
<1>12. ReportsAreFinal'
  <2>1. script = "isolated" => \A s \in Slots : table[s] = Enqueued(scenario)
    BY <1>0, <1>3 DEF SettledInv
  <2>2. Enqueued(scenario)' = Enqueued(scenario)
    BY <1>1
  <2> QED
    BY <1>1, <1>4, <1>6, <2>1, <2>2 DEF ReportsAreFinal
<1> QED
  BY <1>7, <1>8, <1>9, <1>10, <1>11, <1>12, Isolates

\* A scenario that raises ends the run.
LEMMA RaiseStep ==
    ASSUME HInv, Raise
    PROVE  HInv'
<1>0. /\ HTypeOK /\ OwnInv /\ QuietInv /\ DrainedInv /\ ReportInv
      /\ SettledInv /\ EndInv
  BY DEF HInv
<1>1. /\ script' = script /\ scenario' = scenario /\ cells' = cells
      /\ load' = load /\ server' = "stopped" /\ raised' = TRUE
      /\ published' = published /\ hStep' = "ending" /\ reports' = reports
      /\ table' = table /\ emptied' = emptied
      /\ pool' \subseteq pool /\ feeder' \in {feeder, "off"}
      /\ InScenario
  BY DEF Raise, StopProcess
<1>2. hStep \in CallSteps
  BY <1>0, <1>1, InsideIs DEF HTypeOK, Inside, CallSteps
<1>3. ~published /\ script \in Scripts
  BY <1>2, Calling
<1>4. ~published' /\ raised'
  BY <1>1, <1>3
<1>5. ~InScenario'
  BY <1>1, <1>3, InsideIsPrimed DEF Inside
<1>6. HTypeOK'
  <2>1. emptied \in BOOLEAN /\ published \in BOOLEAN
    BY <1>0 DEF HTypeOK
  <2>2. emptied' \in BOOLEAN /\ published' \in BOOLEAN /\ raised' \in BOOLEAN
    BY <1>1, <2>1
  <2> QED
    BY <1>0, <1>1, <2>2 DEF HTypeOK
<1>7. OwnInv' /\ QuietInv' /\ EndInv'
  BY <1>0, <1>1, <1>4 DEF OwnInv, QuietInv, EndInv
<1>8. DrainedInv'
  BY <1>0, <1>1 DEF DrainedInv, Having
<1>9. ReportInv' /\ SettledInv' /\ ReportsAreFinal'
  BY <1>0, <1>1, <1>4, <1>5 DEF ReportInv, Reported, SettledInv, ReportsAreFinal
<1> QED
  BY <1>6, <1>7, <1>8, <1>9, Isolates

-----------------------------------------------------------------------------
(* What goes on meanwhile. *)

\* A row that changes while nothing is settled on it.
LEMMA RowStep ==
    ASSUME HInv, UNCHANGED <<script, hStep, scenario, cells, load, server, pool,
                             feeder, emptied, reports, raised, published>>,
           hStep \notin {"between", "measuring"}, ~emptied,
           table' \in [Slots -> Rows],
           \A s \in Slots : /\ table'[s].of \in {0, scenario}
                            /\ table'[s].by \in {0, scenario}
    PROVE  HInv'
<1>0. /\ HTypeOK /\ OwnInv /\ QuietInv /\ DrainedInv /\ ReportInv
      /\ SettledInv /\ EndInv
  BY DEF HInv
<1>1. /\ script' = script /\ scenario' = scenario /\ cells' = cells
      /\ load' = load /\ server' = server /\ raised' = raised
      /\ published' = published /\ hStep' = hStep /\ reports' = reports
      /\ pool' = pool /\ emptied' = emptied /\ feeder' = feeder
  OBVIOUS
<1>2. InScenario' <=> InScenario
  BY <1>1 DEF InScenario
<1>3. HTypeOK'
  <2>1. emptied \in BOOLEAN /\ published \in BOOLEAN /\ raised \in BOOLEAN
    BY <1>0 DEF HTypeOK
  <2>2. emptied' \in BOOLEAN /\ published' \in BOOLEAN /\ raised' \in BOOLEAN
    BY <1>1, <2>1
  <2> QED
    BY <1>0, <1>1, <1>2, <2>2 DEF HTypeOK
<1>4. OwnInv' /\ QuietInv' /\ EndInv'
  BY <1>0, <1>1 DEF OwnInv, QuietInv, EndInv
<1>5. ~emptied'
  BY <1>1
<1>6. DrainedInv' /\ SettledInv' /\ ReportsAreFinal'
  BY <1>0, <1>1, <1>2, <1>5 DEF DrainedInv, SettledInv, ReportsAreFinal
<1>7. ReportInv'
  BY <1>0, <1>1, <1>2 DEF ReportInv, Reported
<1> QED
  BY <1>3, <1>4, <1>6, <1>7, Isolates

\* The enqueueing task adds rows of its scenario, before the queue is drained.
LEMMA FeederStep ==
    ASSUME HInv, FeederEnqueues
    PROVE  HInv'
<1>0. /\ HTypeOK /\ OwnInv /\ QuietInv /\ DrainedInv /\ EndInv
  BY DEF HInv
<1>1. PICK s \in Slots : table' = [table EXCEPT ![s] = Enqueued(scenario)]
  BY DEF FeederEnqueues
<1>2. hStep \in {"driving", "joining", "ending"} /\ server = "up"
  BY <1>0 DEF FeederEnqueues, QuietInv
<1>3. hStep \in {"driving", "joining"}
  BY <1>0, <1>2 DEF EndInv
<1>4. ~emptied
  BY <1>0, <1>3 DEF DrainedInv
<1>5. /\ Enqueued(scenario) \in Rows /\ Enqueued(scenario).of = scenario
      /\ Enqueued(scenario).by = 0
  BY <1>0 DEF HTypeOK, Enqueued, Rows, RowStatuses
<1>6. /\ table' \in [Slots -> Rows]
      /\ table'[s] = Enqueued(scenario)
      /\ \A t \in Slots : t # s => table'[t] = table[t]
  BY <1>0, <1>1, <1>5 DEF HTypeOK
<1>7. \A t \in Slots : /\ table'[t].of \in {0, scenario}
                       /\ table'[t].by \in {0, scenario}
  BY <1>0, <1>5, <1>6 DEF OwnInv
<1>8. UNCHANGED <<script, hStep, scenario, cells, load, server, pool, feeder,
                  emptied, reports, raised, published>>
  BY DEF FeederEnqueues
<1> QED
  BY <1>3, <1>4, <1>6, <1>7, <1>8, RowStep

\* A worker takes or decides a row for its scenario; none is left to take when
\* the queue has been seen empty.
LEMMA WorkerStep ==
    ASSUME HInv, NEW n \in pool, WorkerClaims(n) \/ WorkerDecides(n)
    PROVE  HInv'
<1>0. /\ HTypeOK /\ OwnInv /\ QuietInv /\ DrainedInv /\ EndInv
  BY DEF HInv
<1>1. n = scenario /\ pool # {} /\ scenario \in Nat
  BY <1>0 DEF OwnInv, HTypeOK
<1>2. hStep \notin {"between", "measuring"}
  BY <1>0, <1>1 DEF QuietInv
<1>3. PICK s \in Slots, d \in {"running", "succeeded", "failed"} :
        /\ table[s].status \in {"queued", "running"}
        /\ \/ table' = [table EXCEPT ![s].status = d, ![s].by = n]
           \/ table' = [table EXCEPT ![s].status = d]
  BY DEF WorkerClaims, WorkerDecides
<1>4. ~emptied
  <2>1. s \in Having({"queued", "running"})
    BY <1>3 DEF Having
  <2> QED
    BY <1>0, <2>1 DEF DrainedInv
<1>5. /\ table \in [Slots -> Rows] /\ table[s] \in Rows
  BY <1>0 DEF HTypeOK
<1>6. /\ table' \in [Slots -> Rows]
      /\ table'[s].of = table[s].of
      /\ table'[s].by \in {n, table[s].by}
      /\ \A t \in Slots : t # s => table'[t] = table[t]
  BY <1>1, <1>3, <1>5 DEF Rows, RowStatuses
<1>7. \A t \in Slots : /\ table'[t].of \in {0, scenario}
                       /\ table'[t].by \in {0, scenario}
  BY <1>0, <1>1, <1>6 DEF OwnInv
<1>8. UNCHANGED <<script, hStep, scenario, cells, load, server, pool, feeder,
                  emptied, reports, raised, published>>
  BY DEF WorkerClaims, WorkerDecides
<1> QED
  BY <1>2, <1>4, <1>6, <1>7, <1>8, RowStep

\* The enqueueing task ends, or nothing happens.
LEMMA FeederEndsStep ==
    ASSUME HInv, FeederEnds \/ UNCHANGED hVars
    PROVE  HInv'
<1>0. /\ HTypeOK /\ OwnInv /\ QuietInv /\ DrainedInv /\ ReportInv
      /\ SettledInv /\ EndInv /\ ReportsAreFinal
  BY DEF HInv, HarnessIsolates
<1>1. /\ script' = script /\ scenario' = scenario /\ cells' = cells
      /\ load' = load /\ server' = server /\ raised' = raised
      /\ published' = published /\ hStep' = hStep /\ reports' = reports
      /\ pool' = pool /\ emptied' = emptied /\ table' = table
      /\ feeder' \in {"off", "on", "done", "failed"}
      /\ feeder = "off" => feeder' = "off"
  BY <1>0 DEF FeederEnds, hVars, HTypeOK
<1>2. InScenario' <=> InScenario
  BY <1>1 DEF InScenario
<1>3. HTypeOK'
  <2>1. emptied \in BOOLEAN /\ published \in BOOLEAN /\ raised \in BOOLEAN
    BY <1>0 DEF HTypeOK
  <2>2. emptied' \in BOOLEAN /\ published' \in BOOLEAN /\ raised' \in BOOLEAN
    BY <1>1, <2>1
  <2> QED
    BY <1>0, <1>1, <1>2, <2>2 DEF HTypeOK
<1>4. OwnInv' /\ QuietInv' /\ EndInv'
  BY <1>0, <1>1 DEF OwnInv, QuietInv, EndInv
<1>5. DrainedInv' /\ SettledInv' /\ ReportsAreFinal'
  BY <1>0, <1>1, <1>2 DEF DrainedInv, SettledInv, ReportsAreFinal, Having,
     Enqueued
<1>6. ReportInv'
  BY <1>0, <1>1, <1>2 DEF ReportInv, Reported
<1> QED
  BY <1>3, <1>4, <1>5, <1>6, Isolates

\* Every step keeps the invariant.
LEMMA HNextInv ==
    ASSUME HInv, [HNext]_hVars
    PROVE  HInv'
  BY OutsideStep, BeginStep, BeforeReport, StopStep, ReportStep, RaiseStep,
     FeederStep, FeederEndsStep, WorkerStep
  DEF HNext, HarnessStep

\* The scenarios of any of the load experiments, however many there are and
\* however large their tables, do not contaminate one another: what is
\* measured is the scenario's own, what is reported is final, unless hard_mix
\* reports after a drain that timed out, and what is written is complete
\* (HarnessIsolates), whatever call raises.
THEOREM HarnessIsolation == HSpec => []HarnessIsolates
<1>1. HInit => HInv
  BY HInitInv
<1>2. HInv /\ [HNext]_hVars => HInv'
  BY HNextInv
<1>3. HInv => HarnessIsolates
  BY DEF HInv
<1> QED
  BY <1>1, <1>2, <1>3, PTL DEF HSpec

(***************************************************************************)
(* LexicalRetrieval                                                        *)
(***************************************************************************)

-----------------------------------------------------------------------------
(* The order of the chunks. *)

\* Every set of natural numbers that has a member has a least one.
LEMMA LeastExists ==
    ASSUME NEW T \in SUBSET Nat, T # {}
    PROVE  \E x \in T : \A y \in T : x <= y
<1> DEFINE R == OpToRel(<, Nat)
<1>1. \E x \in T : \A y \in T : ~(<<y, x>> \in R)
  BY NatLessThanWellFounded, WFMin
<1>2. \A x, y \in Nat : y < x => <<y, x>> \in R
  BY DEF OpToRel
<1> HIDE DEF R
<1>3. PICK x \in T : \A y \in T : ~(<<y, x>> \in R)
  BY <1>1
<1>4. \A y \in T : ~(y < x)
  BY <1>2, <1>3
<1>5. \A y \in T : y \in Nat /\ x \in Nat
  OBVIOUS
<1>6. \A y \in T : x <= y
  BY <1>4, <1>5
<1> QED
  BY <1>6

\* The rank, with at most 0.30 on top.
LEMMA ScoreBounds ==
    ASSUME NEW v \in Versions, NEW p \in Profiles
    PROVE  /\ p.rank \in Nat /\ Score(v, p) \in Nat
           /\ p.rank <= Score(v, p) /\ Score(v, p) <= p.rank + 6
<1>1. /\ p.rank \in Nat /\ p.heading \in BOOLEAN /\ p.content \in BOOLEAN
      /\ p.code \in BOOLEAN
  BY RetrievalAssumption
<1>2. \A f, u : Boost(f, u) \in {0, u}
  BY DEF Boost
<1>3. \A x \in {0, 3}, y \in {0, 2}, z \in {0, 1} :
        /\ p.rank + x + y + z \in Nat /\ p.rank <= p.rank + x + y + z
        /\ p.rank + x + y + z <= p.rank + 6
  BY <1>1
<1> QED
  BY <1>1, <1>2, <1>3 DEF Score

\* Candidates have a profile.
LEMMA CandidatesAre ==
    ASSUME LexInv, NEW v, NEW f
    PROVE  \A c \in Candidates(v, f) : c \in Nat /\ indexed[c].is \in Profiles
  BY RetrievalAssumption DEF LexInv, Candidates, InScope

\* ORDER BY is a total order of them: the id breaks every tie.
LEMMA OrderIsTotal ==
    ASSUME LexInv, NEW v \in Versions, NEW f,
           NEW a \in Candidates(v, f), NEW b \in Candidates(v, f)
    PROVE  /\ Before(v, a, b) \/ Before(v, b, a)
           /\ Before(v, a, b) /\ Before(v, b, a) => a = b
           /\ \A c \in Candidates(v, f) :
                 Before(v, a, b) /\ Before(v, b, c) => Before(v, a, c)
<1>1. \A c \in Candidates(v, f) : c \in Nat /\ Score(v, indexed[c].is) \in Nat
  BY CandidatesAre, ScoreBounds
<1> QED
  BY <1>1 DEF Before

\* The candidates that come before one of them.
Ahead(v, S, x) == {z \in S : z # x /\ Before(v, z, x)}

\* No two of them have the same number of others before them.
LEMMA PlacesDiffer ==
    ASSUME LexInv, NEW v \in Versions, NEW f,
           NEW a \in Candidates(v, f), NEW b \in Candidates(v, f),
           Cardinality(Ahead(v, Candidates(v, f), a))
             = Cardinality(Ahead(v, Candidates(v, f), b))
    PROVE  a = b
<1> DEFINE S == Candidates(v, f)
<1>1. IsFiniteSet(S)
  BY RetrievalAssumption, FS_Subset DEF Candidates
<1> HIDE DEF S
<1>2. \A x \in S : IsFiniteSet(Ahead(v, S, x))
  <2> TAKE x \in S
  <2>1. Ahead(v, S, x) \in SUBSET S
    BY DEF Ahead
  <2> QED
    BY <1>1, <2>1, FS_Subset
<1>3. ASSUME NEW x \in S, NEW y \in S, x # y, Before(v, x, y),
             Cardinality(Ahead(v, S, x)) = Cardinality(Ahead(v, S, y))
      PROVE  FALSE
  <2>1. ~Before(v, y, x)
    BY <1>3, OrderIsTotal DEF S
  <2>2. \A z \in S : Before(v, z, x) => Before(v, z, y)
    BY <1>3, OrderIsTotal DEF S
  <2>3. Ahead(v, S, x) \in SUBSET Ahead(v, S, y)
    BY <2>1, <2>2 DEF Ahead
  <2>4. Ahead(v, S, x) = Ahead(v, S, y)
    BY <1>2, <1>3, <2>3, FS_Subset
  <2>5. x \in Ahead(v, S, y) /\ x \notin Ahead(v, S, x)
    BY <1>3 DEF Ahead
  <2> QED
    BY <2>4, <2>5
<1>4. Before(v, a, b) \/ Before(v, b, a)
  BY OrderIsTotal
<1> QED
  BY <1>3, <1>4 DEF S

\* What an answer is.
LEMMA AnswerIs ==
    ASSUME LexInv, NEW v \in Versions, NEW f, NEW k \in Nat,
           NEW s \in Allowed(v, Candidates(v, f), k)
    PROVE  LET S == Candidates(v, f)
               n == IF Cardinality(S) < k THEN Cardinality(S) ELSE k
           IN  /\ Cardinality(S) \in Nat /\ IsFiniteSet(S)
               /\ n \in Nat /\ n <= k /\ s \in [1..n -> S]
               /\ s \in Seq(S) /\ Len(s) = n /\ DOMAIN s = 1..n
               /\ \A i, j \in 1..n :
                     i < j => s[i] # s[j] /\ Before(v, s[i], s[j])
               /\ \A c \in S \ {s[i] : i \in 1..n} : \A i \in 1..n :
                     Before(v, s[i], c)
<1> DEFINE S == Candidates(v, f)
           n == IF Cardinality(S) < k THEN Cardinality(S) ELSE k
<1>1. IsFiniteSet(S) /\ Cardinality(S) \in Nat
  BY RetrievalAssumption, FS_Subset, FS_CardinalityType DEF Candidates
<1>2. n \in Nat /\ n <= k
  BY <1>1
<1>3. /\ s \in [1..n -> S]
      /\ \A i, j \in 1..n : i < j => s[i] # s[j] /\ Before(v, s[i], s[j])
      /\ \A c \in S \ {s[i] : i \in 1..n} : \A i \in 1..n : Before(v, s[i], c)
  BY DEF Allowed
<1> HIDE DEF S, n
<1>4. s \in Seq(S) /\ Len(s) = n /\ DOMAIN s = 1..n
  BY <1>2, <1>3
<1> QED
  BY <1>1, <1>2, <1>3, <1>4 DEF S, n

\* T is what a list of n without repetition has at the places I ...
ListsAt(s, n, I, T) ==
    /\ n \in Nat /\ I \in SUBSET (1..n)
    /\ \A i, j \in 1..n : i < j => s[i] # s[j]
    /\ \A i \in I : s[i] \in T
    /\ \A t \in T : \E i \in I : s[i] = t

\* ... and has as many members as there are places.
LEMMA PlacesCount ==
    ASSUME NEW n, NEW s, NEW I, NEW T, ListsAt(s, n, I, T)
    PROVE  /\ IsFiniteSet(I) /\ IsFiniteSet(T)
           /\ Cardinality(T) = Cardinality(I)
<1> DEFINE g == [i \in I |-> s[i]]
<1> USE DEF ListsAt
<1>1. IsFiniteSet(I)
  <2>1. IsFiniteSet(1..n)
    BY FS_Interval
  <2> QED
    BY <2>1, FS_Subset
<1>2. g \in [I -> T] /\ \A t \in T : \E i \in I : g[i] = t
  OBVIOUS
<1>3. \A i, j \in I : g[i] = g[j] => i = j
  <2>1. \A i, j \in I : i \in 1..n /\ j \in 1..n /\ i \in Int /\ j \in Int
    OBVIOUS
  <2>2. \A i, j \in I : i # j => i < j \/ j < i
    BY <2>1
  <2> QED
    BY <2>1, <2>2
<1> HIDE DEF g
<1>4. g \in Bijection(I, T)
  BY <1>2, <1>3 DEF Bijection, Injection, Surjection, IsInjective
<1>5. ExistsBijection(I, T)
  BY <1>4 DEF ExistsBijection
<1> QED
  BY <1>1, <1>5, FS_Bijection

\* The place of a chunk in an answer is how many candidates come before it.
LEMMA PlaceIsRank ==
    ASSUME LexInv, NEW v \in Versions, NEW f, NEW k \in Nat,
           NEW s \in Allowed(v, Candidates(v, f), k), NEW i \in 1..Len(s)
    PROVE  Cardinality(Ahead(v, Candidates(v, f), s[i])) = i - 1
<1> DEFINE S == Candidates(v, f)
           n == Len(s)
<1>1. /\ n \in Nat /\ s \in [1..n -> S]
      /\ \A p, q \in 1..n : p < q => s[p] # s[q] /\ Before(v, s[p], s[q])
      /\ \A c \in S \ {s[p] : p \in 1..n} : \A p \in 1..n : Before(v, s[p], c)
  BY AnswerIs
<1> HIDE DEF n
<1>2. \A x, y \in S : Before(v, x, y) /\ Before(v, y, x) => x = y
  BY OrderIsTotal
<1>3. 1..(i - 1) \subseteq 1..n /\ i \in 1..n /\ i \in Nat
  BY <1>1 DEF n
<1> HIDE DEF S
<1>4. Ahead(v, S, s[i]) = {s[j] : j \in 1..(i - 1)}
  <2>1. ASSUME NEW x \in Ahead(v, S, s[i])
        PROVE  x \in {s[j] : j \in 1..(i - 1)}
    <3>1. x \in S /\ x # s[i] /\ Before(v, x, s[i]) /\ s[i] \in S
      BY <1>1, <1>3, <2>1 DEF Ahead
    <3>2. PICK j \in 1..n : x = s[j]
      BY <1>1, <1>2, <1>3, <3>1
    <3>3. ~(i < j)
      BY <1>1, <1>2, <1>3, <3>1, <3>2
    <3>4. j \in 1..(i - 1)
      BY <1>1, <1>3, <3>1, <3>2, <3>3
    <3> QED
      BY <3>2, <3>4
  <2>2. ASSUME NEW j \in 1..(i - 1)
        PROVE  s[j] \in Ahead(v, S, s[i])
    <3>1. j < i /\ j \in 1..n
      BY <1>1, <1>3
    <3> QED
      BY <1>1, <1>3, <3>1 DEF Ahead
  <2> QED
    BY <2>1, <2>2
<1>5. Cardinality({s[j] : j \in 1..(i - 1)}) = Cardinality(1..(i - 1))
  <2> DEFINE I == 1..(i - 1)
             T == {s[j] : j \in I}
  <2>1. I \in SUBSET (1..n) /\ \A p, q \in 1..n : p < q => s[p] # s[q]
    BY <1>1, <1>3
  <2>2. (\A j \in I : s[j] \in T) /\ \A t \in T : \E j \in I : s[j] = t
    OBVIOUS
  <2> HIDE DEF I, T
  <2>3. ListsAt(s, n, I, T)
    BY <1>1, <2>1, <2>2 DEF ListsAt
  <2>4. Cardinality(T) = Cardinality(I)
    BY <2>3, PlacesCount
  <2> QED
    BY <2>4 DEF I, T
<1>6. Cardinality(1..(i - 1)) = i - 1
  BY <1>3, FS_Interval
<1> QED
  BY <1>4, <1>5, <1>6 DEF S

-----------------------------------------------------------------------------
(* The three parts of RetrievalSound. *)

\* The first k of a list.
LEMMA TopIs ==
    ASSUME NEW S, NEW s \in Seq(S), NEW k \in Nat,
           NEW n, n = (IF Len(s) < k THEN Len(s) ELSE k)
    PROVE  /\ n \in Nat /\ n <= Len(s) /\ Top(s, k) \in Seq(S)
           /\ Len(Top(s, k)) = n /\ DOMAIN Top(s, k) = 1..n
           /\ \A i \in 1..n : Top(s, k)[i] = s[i]
<1>1. n \in Nat /\ n <= Len(s)
  OBVIOUS
<1>2. Top(s, k) = SubSeq(s, 1, n)
  BY DEF Top
<1>3. \A i \in 1..n : s[i] \in S
  BY <1>1
<1>4. /\ SubSeq(s, 1, n) \in Seq(S)
      /\ Len(SubSeq(s, 1, n)) = IF 1 <= n THEN n - 1 + 1 ELSE 0
      /\ \A i \in 1..(n - 1 + 1) : SubSeq(s, 1, n)[i] = s[1 + i - 1]
  BY <1>1, <1>3, SubSeqProperties
<1>5. Len(SubSeq(s, 1, n)) = n /\ \A i \in 1..n : SubSeq(s, 1, n)[i] = s[i]
  BY <1>1, <1>4
<1> HIDE DEF Top
<1> QED
  BY <1>1, <1>2, <1>4, <1>5

\* Asked for more, the list goes on.
LEMMA Continues ==
    ASSUME LexInv
    PROVE  LongerAnswersContinue
<1> SUFFICES ASSUME NEW k \in Answered, NEW m \in Answered, k < m
             PROVE  Top(answers[m], k) = Top(answers[k], k)
  BY DEF LongerAnswersContinue
<1> DEFINE v == query.version
           f == query.filter
           S == Candidates(v, f)
           s == answers[k]
           t == answers[m]
<1>1. /\ k \in 1..MaxK /\ m \in 1..MaxK /\ query # NotAsked
      /\ s \in Allowed(v, S, k) /\ t \in Allowed(v, S, m)
  BY DEF LexInv, Answered, NoAnswers
<1>2. k \in Nat /\ m \in Nat /\ v \in Versions
  BY <1>1, RetrievalAssumption DEF LexInv
<1> HIDE DEF v, f, s, t
<1>3. /\ Cardinality(S) \in Nat
      /\ Len(s) = (IF Cardinality(S) < k THEN Cardinality(S) ELSE k)
      /\ Len(t) = (IF Cardinality(S) < m THEN Cardinality(S) ELSE m)
      /\ s \in Seq(S) /\ t \in Seq(S)
  BY <1>1, <1>2, AnswerIs
<1> DEFINE n == Len(s)
<1>4. /\ n = (IF Len(s) < k THEN Len(s) ELSE k)
      /\ n = (IF Len(t) < k THEN Len(t) ELSE k) /\ n \in Nat
  BY <1>2, <1>3
<1>5. \A i \in 1..n : s[i] = t[i]
  <2> TAKE i \in 1..n
  <2>1. i \in 1..Len(s) /\ i \in 1..Len(t)
    BY <1>2, <1>3
  <2>2. s[i] \in S /\ t[i] \in S
    BY <1>3, <2>1
  <2>3. /\ Cardinality(Ahead(v, S, s[i])) = i - 1
        /\ Cardinality(Ahead(v, S, t[i])) = i - 1
    BY <1>1, <1>2, <2>1, PlaceIsRank
  <2> QED
    BY <1>2, <2>2, <2>3, PlacesDiffer
<1> HIDE DEF n, S
<1>6. /\ Top(s, k) \in Seq(S) /\ Len(Top(s, k)) = n
      /\ \A i \in 1..n : Top(s, k)[i] = s[i]
  BY <1>2, <1>3, <1>4, TopIs
<1>7. /\ Top(t, k) \in Seq(S) /\ Len(Top(t, k)) = n
      /\ \A i \in 1..n : Top(t, k)[i] = t[i]
  BY <1>2, <1>3, <1>4, TopIs
<1>8. Top(s, k) = Top(t, k)
  BY <1>4, <1>5, <1>6, <1>7, SeqEqual
<1> QED
  BY <1>8 DEF s, t

\* No boost makes up for a rank that is more than 0.30 higher, and a short
\* answer has all there is.
LEMMA Bounded ==
    ASSUME LexInv
    PROVE  BoostsAreBounded
<1> DEFINE f == query.filter
           S == Candidates("struct", f)
<1> SUFFICES ASSUME query # NotAsked, query.version = "struct",
                    NEW k \in Answered, NEW a \in Candidates("fts", f),
                    NEW b \in Candidates("fts", f)
             PROVE  LET at(c) == {i \in DOMAIN answers[k] : answers[k][i] = c}
                    IN  /\ indexed[a].is.rank > indexed[b].is.rank + 6 /\ at(b) # {}
                           => at(a) # {} /\ \A i \in at(a), j \in at(b) : i < j
                        /\ Len(answers[k]) < k => at(a) # {}
  BY DEF BoostsAreBounded
<1> DEFINE s == answers[k]
           at(c) == {i \in DOMAIN s : s[i] = c}
<1>1. k \in Nat /\ s \in Allowed("struct", S, k) /\ "struct" \in Versions
      /\ "fts" \in Versions
  BY RetrievalAssumption DEF LexInv, Answered, Versions
<1>2. a \in S /\ b \in S
  BY DEF Candidates, Matches
<1> HIDE DEF f, s
<1> DEFINE n == Len(s)
<1>3. /\ Cardinality(S) \in Nat /\ IsFiniteSet(S) /\ n \in Nat
      /\ n = (IF Cardinality(S) < k THEN Cardinality(S) ELSE k)
      /\ s \in [1..n -> S] /\ DOMAIN s = 1..n
      /\ \A i, j \in 1..n : i < j => s[i] # s[j] /\ Before("struct", s[i], s[j])
      /\ \A c \in S \ {s[i] : i \in 1..n} : \A i \in 1..n : Before("struct", s[i], c)
  BY <1>1, AnswerIs
<1> HIDE DEF n
<1>4. ASSUME indexed[a].is.rank > indexed[b].is.rank + 6, at(b) # {}
      PROVE  at(a) # {} /\ \A i \in at(a), j \in at(b) : i < j
  <2>1. /\ Score("struct", indexed[b].is) < Score("struct", indexed[a].is)
        /\ Score("struct", indexed[a].is) \in Nat
        /\ Score("struct", indexed[b].is) \in Nat
    <3>1. indexed[a].is \in Profiles /\ indexed[b].is \in Profiles
      BY <1>2, CandidatesAre
    <3> DEFINE ra == indexed[a].is.rank
               rb == indexed[b].is.rank
               x  == Score("struct", indexed[a].is)
               y  == Score("struct", indexed[b].is)
    <3>2. /\ ra \in Nat /\ rb \in Nat /\ x \in Nat /\ y \in Nat
          /\ ra <= x /\ y <= rb + 6
      BY <1>1, <3>1, ScoreBounds
    <3>3. ra > rb + 6
      BY <1>4
    <3> HIDE DEF ra, rb, x, y
    <3>4. y < x
      BY <3>2, <3>3
    <3> QED
      BY <3>2, <3>4 DEF x, y
  <2>2. ~Before("struct", b, a) /\ a # b
    BY <2>1 DEF Before
  <2>3. PICK j \in 1..n : s[j] = b
    BY <1>3, <1>4
  <2>4. PICK i \in 1..n : s[i] = a
    BY <1>2, <1>3, <2>2, <2>3
  <2>5. at(a) # {}
    BY <1>3, <2>4
  <2>6. ASSUME NEW p \in at(a), NEW q \in at(b) PROVE p < q
    <3>1. p \in 1..n /\ q \in 1..n /\ s[p] = a /\ s[q] = b
      BY <1>3, <2>6
    <3>2. p # q /\ ~(q < p)
      BY <1>3, <2>2, <3>1
    <3> QED
      BY <3>1, <3>2
  <2> QED
    BY <2>5, <2>6
<1>5. ASSUME Len(s) < k
      PROVE  at(a) # {}
  <2> DEFINE I == 1..n
             T == {s[i] : i \in I}
  <2>1. n = Cardinality(S) /\ Len(s) = n
    BY <1>3, <1>5 DEF n
  <2>2. I \in SUBSET (1..n) /\ \A i, j \in 1..n : i < j => s[i] # s[j]
    BY <1>3
  <2>3. Cardinality(I) = n
    BY <1>3, FS_Interval
  <2>4. T \in SUBSET S
    BY <1>3
  <2>5. (\A i \in I : s[i] \in T) /\ \A t \in T : \E i \in I : s[i] = t
    OBVIOUS
  <2> HIDE DEF I, T
  <2>6. Cardinality(T) = Cardinality(I)
    <3>1. ListsAt(s, n, I, T)
      BY <1>3, <2>2, <2>5 DEF ListsAt
    <3> QED
      BY <3>1, PlacesCount
  <2>7. S = T
    BY <1>3, <2>1, <2>3, <2>4, <2>6, FS_Subset
  <2> QED
    BY <1>2, <1>3, <2>7 DEF I, T
<1> QED
  BY <1>4, <1>5 DEF s

\* The metrics count the same hits.
LEMMA Agree ==
    ASSUME LexInv
    PROVE  MetricsAgree
<1> SUFFICES ASSUME NEW m \in Answered, NEW R \in SUBSET ChunkIds
             PROVE  LET q == EvaluateQuery(answers[m], R)
                    IN  /\ q.recall = q.precision
                        /\ \A k \in 2..MaxK : q.recall[k - 1] <= q.recall[k]
                        /\ q.recall[m] = q.retrieved
                        /\ q.zeroHit <=> q.retrieved = 0
                        /\ ~q.zeroHit => q.rank \in 1..m /\ q.recall[q.rank] = 1
  BY DEF MetricsAgree
<1> DEFINE s == answers[m]
           v == query.version
           S == Candidates(v, query.filter)
           n == Len(s)
<1>1. /\ m \in 1..MaxK /\ m \in Nat /\ query # NotAsked
      /\ s \in Allowed(v, S, m) /\ v \in Versions
  BY RetrievalAssumption DEF LexInv, Answered, NoAnswers
<1> HIDE DEF s, v
<1>2. /\ n \in Nat /\ n <= m /\ s \in Seq(S) /\ DOMAIN s = 1..n
      /\ \A i, j \in 1..n : i < j => s[i] # s[j]
  BY <1>1, AnswerIs
<1> HIDE DEF S, n
\* The places of the hits among the first k.
<1> DEFINE least(k) == IF n < k THEN n ELSE k
           H(k) == {i \in 1..least(k) : s[i] \in R}
           L == FirstRelevant(s, R)
<1>3. \A k \in Nat : H(k) \in SUBSET (1..n) /\ IsFiniteSet(H(k))
  <2> TAKE k \in Nat
  <2>1. H(k) \in SUBSET (1..n) /\ 1 \in Int /\ n \in Int
    BY <1>2
  <2>2. IsFiniteSet(1..n)
    BY <2>1, FS_Interval
  <2> QED
    BY <2>1, <2>2, FS_Subset
<1>4. \A k \in Nat : /\ RecallHits(s, R, k) = Cardinality(H(k))
                     /\ PrecisionHits(s, R, k) = Cardinality(H(k))
  <2> TAKE k \in Nat
  <2>1. /\ DOMAIN Top(s, k) = 1..least(k)
        /\ \A i \in 1..least(k) : Top(s, k)[i] = s[i]
    BY <1>2, TopIs DEF n
  <2> DEFINE T == {Top(s, k)[i] : i \in DOMAIN Top(s, k)} \cap R
  <2>2. (\A i \in H(k) : s[i] \in T) /\ \A t \in T : \E i \in H(k) : s[i] = t
    BY <2>1
  <2>3. RecallHits(s, R, k) = Cardinality(T)
    BY DEF RecallHits
  <2>4. PrecisionHits(s, R, k) = Cardinality(H(k))
    BY <2>1 DEF PrecisionHits
  <2> HIDE DEF T, H
  <2>5. ListsAt(s, n, H(k), T)
    BY <1>2, <1>3, <2>2 DEF ListsAt
  <2>6. Cardinality(T) = Cardinality(H(k))
    BY <2>5, PlacesCount
  <2> QED
    BY <2>3, <2>4, <2>6
<1>5. \A k \in 2..MaxK : Cardinality(H(k - 1)) <= Cardinality(H(k))
  <2> TAKE k \in 2..MaxK
  <2>1. k \in Nat /\ k - 1 \in Nat
    BY RetrievalAssumption
  <2>2. H(k - 1) \in SUBSET H(k)
    BY <1>2, <2>1
  <2> HIDE DEF H
  <2> QED
    BY <1>3, <2>1, <2>2, FS_Subset
<1>6. Cardinality({s[i] : i \in DOMAIN s} \cap R) = Cardinality(H(m))
  <2> DEFINE T == {s[i] : i \in DOMAIN s} \cap R
  <2>1. least(m) = n
    BY <1>1, <1>2
  <2>2. (\A i \in H(m) : s[i] \in T) /\ \A t \in T : \E i \in H(m) : s[i] = t
    BY <1>2, <2>1
  <2> HIDE DEF T, H
  <2>3. ListsAt(s, n, H(m), T)
    BY <1>1, <1>2, <1>3, <2>2 DEF ListsAt
  <2>4. Cardinality(T) = Cardinality(H(m))
    BY <2>3, PlacesCount
  <2> QED
    BY <2>4 DEF T
<1>7. H(m) = {i \in DOMAIN s : s[i] \in R} /\ H(m) \in SUBSET (1..n)
  BY <1>1, <1>2
<1>8. /\ H(m) = {} => L = 0
      /\ H(m) # {} => L \in H(m) /\ \A j \in H(m) : L <= j
  <2> DEFINE hits == {i \in DOMAIN s : s[i] \in R}
  <2>1. L = IF hits = {} THEN 0 ELSE CHOOSE i \in hits : \A j \in hits : i <= j
    BY DEF FirstRelevant
  <2>2. hits = H(m) /\ hits \in SUBSET Nat
    BY <1>2, <1>7
  <2> HIDE DEF hits, H, L
  <2>3. hits # {} => \E i \in hits : \A j \in hits : i <= j
    BY <2>2, LeastExists
  <2>4. hits # {} => L \in hits /\ \A j \in hits : L <= j
    BY <2>1, <2>3
  <2> QED
    BY <2>1, <2>2, <2>4
<1>9. \A i \in H(m) : i \in 1..n /\ i # 0
  BY <1>7
<1>10. L = 0 <=> H(m) = {}
  <2> HIDE DEF H, L
  <2> QED
    BY <1>8, <1>9
<1>11. L # 0 => L \in 1..m /\ Cardinality(H(L)) = 1
  <2> HAVE L # 0
  <2>1. L \in 1..n /\ L \in H(m) /\ \A j \in H(m) : L <= j
    BY <1>8, <1>9, <1>10
  <2> HIDE DEF L
  <2>2. H(L) = {L}
    BY <1>1, <1>2, <2>1
  <2>3. L \in 1..m
    BY <1>1, <1>2, <2>1
  <2> HIDE DEF H
  <2>4. Cardinality({L}) = 1
    BY FS_Singleton
  <2> QED
    BY <2>2, <2>3, <2>4
<1>12. Cardinality(H(m)) = 0 <=> H(m) = {}
  <2> HIDE DEF H
  <2> QED
    BY <1>1, <1>3, FS_EmptySet
<1> HIDE DEF H, L
<1> DEFINE q == EvaluateQuery(s, R)
<1>13. /\ q.recall = [k \in 1..MaxK |-> RecallHits(s, R, k)]
       /\ q.precision = [k \in 1..MaxK |-> PrecisionHits(s, R, k)]
       /\ q.rank = L /\ q.zeroHit = (L = 0)
       /\ q.retrieved = Cardinality({s[i] : i \in DOMAIN s} \cap R)
  BY DEF EvaluateQuery, L
<1> HIDE DEF q
<1>14. /\ \A k \in 1..MaxK : q.recall[k] = Cardinality(H(k))
       /\ q.recall = q.precision
  <2>1. \A k \in 1..MaxK : k \in Nat
    OBVIOUS
  <2> QED
    BY <1>4, <1>13, <2>1
<1>15. \A k \in 2..MaxK : q.recall[k - 1] <= q.recall[k]
  <2>1. \A k \in 2..MaxK : k \in 1..MaxK /\ k - 1 \in 1..MaxK
    BY RetrievalAssumption
  <2> QED
    BY <1>5, <1>14, <2>1
<1>16. q.recall[m] = q.retrieved /\ q.retrieved = Cardinality(H(m))
  BY <1>1, <1>6, <1>13, <1>14
<1>17. q.zeroHit <=> q.retrieved = 0
  BY <1>10, <1>12, <1>13, <1>16
<1>18. ~q.zeroHit => q.rank \in 1..m /\ q.recall[q.rank] = 1
  <2>1. 1..m \subseteq 1..MaxK
    BY <1>1, RetrievalAssumption
  <2>2. ~q.zeroHit <=> L # 0
    BY <1>13
  <2> QED
    BY <1>11, <1>13, <1>14, <2>1, <2>2
<1> QED
  BY <1>14, <1>15, <1>16, <1>17, <1>18 DEF q, s

-----------------------------------------------------------------------------
(* The invariant. *)

LEMMA LexInitInv ==
    ASSUME LexInit
    PROVE  LexInv
  BY DEF LexInit, LexInv, NoAnswers, NotAsked

LEMMA LexNextInv ==
    ASSUME LexInv, [LexNext]_lexVars
    PROVE  LexInv'
<1>1. ASSUME NEW c \in ChunkIds, NEW j \in IndexJobs, NEW p \in Profiles,
             IndexChunk(c, j, p)
      PROVE  LexInv'
  <2>1. /\ query = NotAsked /\ query' = query /\ answers' = answers
        /\ answers = NoAnswers
        /\ indexed' = [indexed EXCEPT ![c] = [job |-> j, is |-> p]]
    BY <1>1 DEF IndexChunk, LexInv
  <2>2. indexed' \in [ChunkIds -> {Unindexed} \cup [job : IndexJobs, is : Profiles]]
    BY <2>1 DEF LexInv
  <2>3. DOMAIN answers' = {}
    BY <2>1 DEF NoAnswers
  <2> QED
    BY <2>1, <2>2, <2>3 DEF LexInv
<1>2. ASSUME NEW j \in IndexJobs, JobSucceeds(j)
      PROVE  LexInv'
  <2>1. query' = NotAsked /\ answers' = NoAnswers /\ indexed' = indexed
    BY <1>2 DEF JobSucceeds
  <2>2. DOMAIN answers' = {}
    BY <2>1 DEF NoAnswers
  <2> QED
    BY <2>1, <2>2 DEF LexInv
<1>3. ASSUME NEW v \in Versions, NEW f \in Filters, NEW k \in 1..MaxK,
             Retrieve(v, f, k)
      PROVE  LexInv'
  <2>1. /\ query \in {NotAsked, [version |-> v, filter |-> f]}
        /\ query' = [version |-> v, filter |-> f]
        /\ indexed' = indexed /\ jobStatus' = jobStatus
    BY <1>3 DEF Retrieve
  <2>2. PICK s \in Allowed(v, Candidates(v, f), k) :
          answers' = [m \in DOMAIN answers \cup {k} |->
                        IF m = k THEN s ELSE answers[m]]
    BY <1>3 DEF Retrieve
  <2>3. \A m \in DOMAIN answers : answers[m] \in Allowed(v, Candidates(v, f), m)
    <3>1. CASE query = NotAsked
      BY <3>1 DEF LexInv, NoAnswers
    <3>2. CASE query = [version |-> v, filter |-> f]
      BY <3>2 DEF LexInv
    <3> QED
      BY <2>1, <3>1, <3>2
  <2>4. \A m : Allowed(v, Candidates(v, f), m)' = Allowed(v, Candidates(v, f), m)
    BY <2>1 DEF Allowed, Candidates, InScope, Before
  <2>5. /\ query' \in [version : Versions, filter : Filters] /\ query' # NotAsked
        /\ query'.version = v /\ query'.filter = f
    BY <2>1 DEF NotAsked
  <2>6. /\ DOMAIN answers' = DOMAIN answers \cup {k}
        /\ \A m \in DOMAIN answers' :
              answers'[m] \in Allowed(v, Candidates(v, f), m)
    BY <2>2, <2>3
  <2> HIDE DEF Allowed, Candidates
  <2>7. \A m \in DOMAIN answers' :
          answers'[m] \in Allowed(v, Candidates(v, f), m)'
    BY <2>4, <2>6
  <2> QED
    BY <2>1, <2>5, <2>6, <2>7 DEF LexInv
<1>4. CASE UNCHANGED lexVars
  <2>1. /\ indexed' = indexed /\ jobStatus' = jobStatus /\ query' = query
        /\ answers' = answers
    BY <1>4 DEF lexVars
  <2>2. \A v, f, m :
          Allowed(v, Candidates(v, f), m)' = Allowed(v, Candidates(v, f), m)
    BY <2>1 DEF Allowed, Candidates, InScope, Before
  <2> HIDE DEF Allowed, Candidates
  <2>3. \A m : Allowed(query.version, Candidates(query.version, query.filter), m)'
              = Allowed(query.version, Candidates(query.version, query.filter), m)
    BY <2>1, <2>2
  <2> QED
    BY <2>1, <2>3 DEF LexInv
<1> QED
  BY <1>1, <1>2, <1>3, <1>4 DEF LexNext

\* retrieve answers one query consistently however large the index is and
\* however scores tie, STRUCT stays near full-text search, and the metrics the
\* versions are compared by agree on every answer (RetrievalSound).
THEOREM RetrievalIsSound == LexSpec => []RetrievalSound
<1>1. LexInit => LexInv
  BY LexInitInv
<1>2. LexInv /\ [LexNext]_lexVars => LexInv'
  BY LexNextInv
<1>3. LexInv => RetrievalSound
  BY Continues, Bounded, Agree DEF RetrievalSound
<1> QED
  BY <1>1, <1>2, <1>3, PTL DEF LexSpec

(***************************************************************************)
(* Chunking                                                                *)
(*                                                                         *)
(* CkInv follows the text through the loops: what has been joined begins   *)
(* at its line starts; what unitize has passed is in a unit; what has been *)
(* split is in a piece, the rest waits in its unit; what has been packed   *)
(* is in a group; what has been drafted is in a chunk, the rest waits in   *)
(* its group.  Each sequence lies in document order, so no character is in *)
(* two of its members.                                                     *)
(***************************************************************************)

HybridLoops == {"unitizing", "splitting", "packing", "drafting"}
BlockTypes == {"heading", "paragraph", "code_fence", "code", "list", "hard_split"}
DraftTypes == BlockTypes \cup {"mixed", "fixed"}

\* A span of the text with the headings above it, and a chunk.
Spans  == [from : Nat, to : Nat, type : BlockTypes, path : Seq(Nat)]
Groups == [lo : Nat, hi : Nat]
Drafts == [from : Nat, to : Nat, type : DraftTypes, path : Seq(Nat),
           first : Nat, last : Nat]

\* The text is its lines, each begins at its start, and only a newline
\* separates it from the line before.
DocInv ==
    /\ raw \in Seq(LineKinds) /\ text \in Seq({"x", "space", "newline"})
    /\ starts \in Seq(Nat) /\ Len(starts) <= Len(Lines)
    /\ starts = <<>> => text = <<>>
    /\ starts # <<>> => starts[1] = 0
    /\ \A L, M \in DOMAIN starts : L < M => starts[L] < starts[M]
    /\ \A L \in DOMAIN starts :
         Reach(L + 1) = starts[L] + Len(Body(Lines[L])) + 1
    /\ \A q \in 1..Len(text) :
         text[q] = "newline" <=> \E L \in 2..Len(starts) : starts[L] = q
    /\ ckAt = "reading" => starts = <<>>
    /\ ckAt \notin {"reading", "joining"} => Len(starts) = Len(Lines)

\* Nothing is chunked before the text is joined; then the parameters are known.
LoopInv ==
    /\ ckAt \in HybridLoops \cup {"reading", "joining", "fixing", "done"}
    /\ ckAt \in {"reading", "joining"} =>
         /\ cursor = 1 /\ pos = 0
         /\ heading = <<>> /\ units = <<>> /\ pieces = <<>> /\ groups = <<>>
         /\ drafts = <<>>
    /\ ckAt \in HybridLoops => chunked.by = "hybrid"
    /\ ckAt = "fixing" =>
         /\ chunked.by = "fixed" /\ chunked.overlap \in Nat
         /\ chunked.overlap < chunked.max
    /\ ckAt \notin {"reading", "joining"} => chunked.max \in Nat \ {0}
    /\ cursor \in Nat \ {0} /\ pos \in Nat /\ heading \in Seq(Nat)

\* The lines are headings that begin at or before an offset.
AreHeadings(path, o) ==
    \A n \in DOMAIN path : /\ path[n] \in DOMAIN starts
                           /\ Lines[path[n]] \in {"h1", "h2"}
                           /\ starts[path[n]] <= o

\* Spans of the text in document order, below headings of the document.
Laid(s) ==
    /\ s \in Seq(Spans)
    /\ \A i \in DOMAIN s : /\ s[i].from < s[i].to /\ s[i].to <= Len(text)
                           /\ AreHeadings(s[i].path, s[i].from)
    /\ \A i, j \in DOMAIN s : i < j => s[i].to <= s[j].from

Covers(s, o) == \E i \in DOMAIN s : o \in Span(s[i])

UnitInv ==
    /\ Laid(units)
    /\ ckAt = "unitizing" =>
         /\ cursor <= Len(Lines) + 1
         /\ cursor <= Len(Lines) => AreHeadings(heading, starts[cursor])
         /\ \A i \in DOMAIN units : units[i].to < Reach(cursor)
         /\ \A o \in Ink : o < Reach(cursor) => Covers(units, o)
         /\ pieces = <<>> /\ groups = <<>> /\ drafts = <<>>

\* Offset o waits to be split: it is in unit k, behind what has been cut off.
Waits(k, o) ==
    k >= cursor /\ o \in Span(units[k]) /\ (k = cursor => units[k].from + pos <= o)

PieceInv ==
    /\ Laid(pieces)
    /\ \A i \in DOMAIN pieces : pieces[i].to - pieces[i].from <= chunked.max
    /\ ckAt = "splitting" =>
         /\ cursor <= Len(units) + 1
         /\ pos > 0 => /\ cursor <= Len(units) /\ Oversized(units[cursor])
                       /\ units[cursor].from + pos < units[cursor].to
         /\ \A i \in DOMAIN pieces : \A k \in DOMAIN units :
              k >= cursor =>
                 pieces[i].to <= units[k].from + (IF k = cursor THEN pos ELSE 0)
         /\ \A o \in Ink :
              Covers(pieces, o) \/ \E k \in DOMAIN units : Waits(k, o)
         /\ groups = <<>> /\ drafts = <<>>
    /\ ckAt \in {"packing", "drafting"} => \A o \in Ink : Covers(pieces, o)

\* The groups are the pieces before n, in order, in runs within the budget.
GroupsReach(n) ==
    /\ groups \in Seq(Groups)
    /\ \A k \in DOMAIN groups :
         /\ 1 <= groups[k].lo /\ groups[k].lo <= groups[k].hi
         /\ groups[k].hi < n
         /\ GroupTo(groups[k]) - GroupFrom(groups[k]) <= chunked.max
    /\ \A j, k \in DOMAIN groups : j < k => groups[j].hi < groups[k].lo
    /\ \A i \in 1..(n - 1) :
         \E k \in DOMAIN groups : groups[k].lo <= i /\ i <= groups[k].hi
    /\ groups # <<>> => groups[Len(groups)].hi = n - 1

GroupInv ==
    /\ ckAt = "packing" => /\ cursor <= Len(pieces) + 1 /\ GroupsReach(cursor)
                           /\ drafts = <<>>
    /\ ckAt = "drafting" => GroupsReach(Len(pieces) + 1)

DraftOK(d) ==
    /\ d.from < d.to /\ d.to <= Len(text) /\ d.to - d.from <= chunked.max
    /\ Span(d) \cap Ink # {}
    /\ d.first = LineByCounting(d.from) /\ d.last = LineByCounting(d.to - 1)
    /\ \A n \in DOMAIN d.path :
         Lines[d.path[n]] \in {"h1", "h2"} /\ d.path[n] <= d.last

\* Offset o waits to be drafted: it is in a piece of group k.
Pending(k, o) ==
    /\ k >= cursor
    /\ \E i \in groups[k].lo..groups[k].hi : o \in Span(pieces[i])

DraftInv ==
    /\ drafts \in Seq(Drafts)
    /\ \A i \in DOMAIN drafts : DraftOK(drafts[i])
    /\ \A i, j \in DOMAIN drafts :
         i < j => /\ drafts[i].from < drafts[j].from
                  /\ chunked.by = "hybrid" => drafts[i].to <= drafts[j].from
    /\ ckAt = "drafting" =>
         /\ cursor <= Len(groups) + 1
         /\ pos > 0 => /\ cursor <= Len(groups) /\ Inky(groups[cursor])
                       /\ pos <= GroupSize(groups[cursor])
                       /\ AreHeadings(heading, GroupTo(groups[cursor]) - 1)
         /\ \A d \in DOMAIN drafts : \A k \in DOMAIN groups :
              k >= cursor => drafts[d].to <= GroupFrom(groups[k])
         /\ \A o \in Ink :
              Covers(drafts, o) \/ \E k \in DOMAIN groups : Pending(k, o)
    /\ ckAt = "fixing" =>
         /\ pos < Len(text)
         /\ \A d \in DOMAIN drafts : drafts[d].from < pos
         /\ \A o \in Ink : o < pos => Covers(drafts, o)
    /\ ckAt = "done" => \A o \in Ink : Covers(drafts, o)

CkInv == DocInv /\ LoopInv /\ UnitInv /\ PieceInv /\ GroupInv /\ DraftInv

-----------------------------------------------------------------------------
(* The lines and their characters. *)

\* A set of numbers below a bound that has a member has a greatest one.
LEMMA GreatestBelow ==
    ASSUME NEW n \in Nat, NEW T \in SUBSET (0..n), T # {}
    PROVE  \E x \in T : \A y \in T : y <= x
<1> DEFINE D == {n - x : x \in T}
<1>0. \A x \in T : x \in 0..n
  OBVIOUS
<1>1. D \in SUBSET Nat /\ D # {}
  <2>1. \A x \in T : n - x \in Nat
    BY <1>0
  <2> QED
    BY <2>1
<1>2. PICK d \in D : \A e \in D : d <= e
  BY <1>1, LeastExists
<1>3. PICK x \in T : d = n - x
  BY <1>2
<1>4. \A y \in T : d <= n - y
  BY <1>2
<1>5. \A y \in T : y <= x
  BY <1>0, <1>3, <1>4
<1> QED
  BY <1>3, <1>5

\* A line has no newline of its own, and only a blank one has no character.
LEMMA BodyType ==
    ASSUME NEW k \in LineKinds
    PROVE  /\ Body(k) \in Seq({"x", "space", "newline"}) /\ Len(Body(k)) \in Nat
           /\ \A q \in 1..Len(Body(k)) : Body(k)[q] # "newline"
           /\ Len(Body(k)) = 0 <=> k = "blank"
<1>1. CASE k \in {"h1", "list", "def", "words"}
  <2>1. Body(k) = <<"x", "space", "x">>
    BY <1>1 DEF Body
  <2>2. Body(k) \in Seq({"x", "space", "newline"}) /\ Len(Body(k)) = 3
    BY <2>1
  <2>3. \A q \in 1..Len(Body(k)) : Body(k)[q] # "newline"
    BY <2>1
  <2> QED
    BY <1>1, <2>2, <2>3
<1>2. CASE k = "h2"
  <2>1. Body(k) = <<"x", "x", "space", "x">>
    BY <1>2 DEF Body
  <2>2. Body(k) \in Seq({"x", "space", "newline"}) /\ Len(Body(k)) = 4
    BY <2>1
  <2>3. \A q \in 1..Len(Body(k)) : Body(k)[q] # "newline"
    BY <2>1
  <2> QED
    BY <1>2, <2>2, <2>3
<1>3. CASE k = "fence"
  <2>1. Body(k) = <<"x", "x", "x">>
    BY <1>3 DEF Body
  <2>2. Body(k) \in Seq({"x", "space", "newline"}) /\ Len(Body(k)) = 3
    BY <2>1
  <2>3. \A q \in 1..Len(Body(k)) : Body(k)[q] # "newline"
    BY <2>1
  <2> QED
    BY <1>3, <2>2, <2>3
<1>4. CASE k = "hash"
  <2>1. Body(k) = <<"x", "x">>
    BY <1>4 DEF Body
  <2>2. Body(k) \in Seq({"x", "space", "newline"}) /\ Len(Body(k)) = 2
    BY <2>1
  <2>3. \A q \in 1..Len(Body(k)) : Body(k)[q] # "newline"
    BY <2>1
  <2> QED
    BY <1>4, <2>2, <2>3
<1>5. CASE k = "indent"
  <2>1. Body(k) = <<"space", "x">>
    BY <1>5 DEF Body
  <2>2. Body(k) \in Seq({"x", "space", "newline"}) /\ Len(Body(k)) = 2
    BY <2>1
  <2>3. \A q \in 1..Len(Body(k)) : Body(k)[q] # "newline"
    BY <2>1
  <2> QED
    BY <1>5, <2>2, <2>3
<1>6. CASE k = "word"
  <2>1. Body(k) = <<"x">>
    BY <1>6 DEF Body
  <2>2. Body(k) \in Seq({"x", "space", "newline"}) /\ Len(Body(k)) = 1
    BY <2>1
  <2>3. \A q \in 1..Len(Body(k)) : Body(k)[q] # "newline"
    BY <2>1
  <2> QED
    BY <1>6, <2>2, <2>3
<1>7. CASE k = "long"
  <2>1. Body(k) = <<"x", "x", "x", "x", "x">>
    BY <1>7 DEF Body
  <2>2. Body(k) \in Seq({"x", "space", "newline"}) /\ Len(Body(k)) = 5
    BY <2>1
  <2>3. \A q \in 1..Len(Body(k)) : Body(k)[q] # "newline"
    BY <2>1
  <2> QED
    BY <1>7, <2>2, <2>3
<1>8. CASE k = "padded"
  <2>1. Body(k) = <<"x", "space">>
    BY <1>8 DEF Body
  <2>2. Body(k) \in Seq({"x", "space", "newline"}) /\ Len(Body(k)) = 2
    BY <2>1
  <2>3. \A q \in 1..Len(Body(k)) : Body(k)[q] # "newline"
    BY <2>1
  <2> QED
    BY <1>8, <2>2, <2>3
<1>9. CASE k = "spaces"
  <2>1. Body(k) = <<"space">>
    BY <1>9 DEF Body
  <2>2. Body(k) \in Seq({"x", "space", "newline"}) /\ Len(Body(k)) = 1
    BY <2>1
  <2>3. \A q \in 1..Len(Body(k)) : Body(k)[q] # "newline"
    BY <2>1
  <2> QED
    BY <1>9, <2>2, <2>3
<1>10. CASE k = "blank"
  <2>1. Body(k) = <<>>
    BY <1>10 DEF Body
  <2>2. Body(k) \in Seq({"x", "space", "newline"}) /\ Len(Body(k)) = 0
    BY <2>1
  <2>3. \A q \in 1..Len(Body(k)) : Body(k)[q] # "newline"
    BY <2>1
  <2> QED
    BY <1>10, <2>2, <2>3
<1> QED
  BY <1>1, <1>2, <1>3, <1>4, <1>5, <1>6, <1>7, <1>8, <1>9, <1>10 DEF LineKinds

\* The canonical lines are lines.
LEMMA CanonicalType ==
    ASSUME NEW r \in Seq(LineKinds)
    PROVE  Canonical(r) \in Seq(LineKinds) /\ Len(Canonical(r)) \in Nat
<1> DEFINE full == {i \in DOMAIN r : Stripped(r[i]) # "blank"}
           lo == CHOOSE i \in full : \A j \in full : i <= j
           hi == CHOOSE i \in full : \A j \in full : j <= i
<1>0. Len(r) \in Nat /\ DOMAIN r = 1..Len(r)
  BY LenProperties
<1>1. CASE full = {}
  <2>1. Canonical(r) = <<>>
    BY <1>1 DEF Canonical
  <2> QED
    BY <2>1
<1>2. CASE full # {}
  <2>1. full \in SUBSET Nat /\ full \in SUBSET (0..Len(r))
    BY <1>0
  <2>2. lo \in full
    BY <1>2, <2>1, LeastExists
  <2>3. hi \in full /\ \A j \in full : j <= hi
    BY <1>0, <1>2, <2>1, GreatestBelow
  <2>4. lo \in 1..Len(r) /\ hi \in 1..Len(r) /\ lo <= hi
    BY <1>0, <2>2, <2>3
  <2>5. Canonical(r) = [i \in 1..(hi - lo + 1) |-> Stripped(r[lo + i - 1])]
    BY <1>2 DEF Canonical
  <2>6. \A i \in 1..(hi - lo + 1) : Stripped(r[lo + i - 1]) \in LineKinds
    <3> HIDE DEF lo, hi, full
    <3> TAKE i \in 1..(hi - lo + 1)
    <3>1. lo + i - 1 \in 1..Len(r)
      BY <1>0, <2>4
    <3>2. r[lo + i - 1] \in LineKinds
      BY <3>1, ElementOfSeq
    <3> QED
      BY <3>2 DEF Stripped, LineKinds
  <2>7. hi - lo + 1 \in Nat
    BY <1>0, <2>4
  <2> HIDE DEF lo, hi, full
  <2>8. Canonical(r) \in Seq(LineKinds)
    BY <2>5, <2>6, <2>7
  <2> QED
    BY <2>8, LenProperties
<1> QED
  BY <1>1, <1>2

\* The lines while the artifact is one of lines.
LEMMA LinesType ==
    ASSUME raw \in Seq(LineKinds)
    PROVE  /\ Lines \in Seq(LineKinds) /\ Len(Lines) \in Nat
           /\ DOMAIN Lines = 1..Len(Lines)
           /\ \A i \in 1..Len(Lines) : Lines[i] \in LineKinds
<1>1. Lines \in Seq(LineKinds) /\ Len(Lines) \in Nat
  BY CanonicalType DEF Lines
<1> QED
  BY <1>1, LenProperties, ElementOfSeq

\* And after a step.
LEMMA LinesTypePrimed ==
    ASSUME raw' \in Seq(LineKinds)
    PROVE  Lines' \in Seq(LineKinds) /\ Len(Lines') \in Nat
  BY CanonicalType DEF Lines

-----------------------------------------------------------------------------
(* The text and where its lines begin. *)

\* What the types say of the lengths.
LEMMA DocTypes ==
    ASSUME DocInv
    PROVE  /\ Len(text) \in Nat /\ Len(starts) \in Nat
           /\ DOMAIN starts = 1..Len(starts) /\ DOMAIN text = 1..Len(text)
           /\ \A L \in DOMAIN starts : starts[L] \in Nat
           /\ Len(Lines) \in Nat /\ DOMAIN Lines = 1..Len(Lines)
           /\ \A L \in 1..Len(Lines) :
                Lines[L] \in LineKinds /\ Len(Body(Lines[L])) \in Nat
<1>1. raw \in Seq(LineKinds) /\ text \in Seq({"x", "space", "newline"})
      /\ starts \in Seq(Nat)
  BY DEF DocInv
<1>2. /\ Len(Lines) \in Nat /\ DOMAIN Lines = 1..Len(Lines)
      /\ \A L \in 1..Len(Lines) : Lines[L] \in LineKinds
  BY <1>1, LinesType
<1>3. \A L \in 1..Len(Lines) : Len(Body(Lines[L])) \in Nat
  BY <1>2, BodyType
<1>4. Len(text) \in Nat /\ DOMAIN text = 1..Len(text)
  BY <1>1, LenProperties
<1>5. Len(starts) \in Nat /\ DOMAIN starts = 1..Len(starts)
      /\ \A L \in 1..Len(starts) : starts[L] \in Nat
  BY <1>1, LenProperties, ElementOfSeq
<1> QED
  BY <1>2, <1>3, <1>4, <1>5

\* Nothing has been read or joined at the start.
LEMMA DocInit == CkInit => DocInv /\ LoopInv
<1> SUFFICES ASSUME CkInit PROVE DocInv /\ LoopInv
  OBVIOUS
<1>1. raw \in Seq(LineKinds) /\ text \in Seq({"x", "space", "newline"})
      /\ starts \in Seq(Nat) /\ Len(starts) = 0 /\ Len(text) = 0
      /\ DOMAIN starts = {}
  BY DEF CkInit
<1>2. Len(Lines) \in Nat
  BY <1>1, LinesType
<1>3. DocInv
  BY <1>1, <1>2 DEF DocInv, CkInit
<1>4. LoopInv
  BY DEF LoopInv, CkInit, HybridLoops
<1> QED
  BY <1>3, <1>4

\* One more line of the artifact, before any is joined.
LEMMA AddLineDoc ==
    ASSUME DocInv, NEW k \in RawLines, AddLine(k)
    PROVE  DocInv'
<1>1. k \in LineKinds /\ raw' = Append(raw, k) /\ starts = <<>> /\ text = <<>>
      /\ starts' = starts /\ text' = text /\ ckAt' = "reading"
  BY ChunkingAssumption DEF AddLine, DocInv
<1>2. raw' \in Seq(LineKinds)
  BY <1>1 DEF DocInv
<1>3. Len(Lines') \in Nat
  BY <1>2, LinesTypePrimed
<1>4. Len(starts) = 0 /\ DOMAIN starts = {} /\ Len(text) = 0
  BY <1>1
<1> QED
  BY <1>1, <1>2, <1>3, <1>4 DEF DocInv

\* The first line begins the text.
LEMMA JoinFirst ==
    ASSUME DocInv, JoinLine, starts = <<>>
    PROVE  DocInv'
<1> DEFINE body == Body(Lines[1])
<1>1. Len(starts) = 0 /\ 1 <= Len(Lines) /\ Len(Lines) \in Nat
  BY DocTypes DEF JoinLine
<1>2. body \in Seq({"x", "space", "newline"}) /\ Len(body) \in Nat
      /\ \A q \in 1..Len(body) : body[q] # "newline"
  BY <1>1, DocTypes, BodyType
<1>3. text' = body /\ starts' = <<0>> /\ raw' = raw /\ ckAt' = "joining"
      /\ Lines' = Lines
  BY <1>1 DEF JoinLine, Lines
<1> HIDE DEF body
<1>4. starts' \in Seq(Nat) /\ Len(starts') = 1 /\ DOMAIN starts' = {1}
      /\ starts'[1] = 0
  BY <1>3
<1>5. Reach(1 + 1)' = Len(body) + 1
  BY <1>3, <1>4 DEF Reach
<1>6. \A L \in DOMAIN starts' :
        Reach(L + 1)' = starts'[L] + Len(Body(Lines'[L])) + 1
  BY <1>2, <1>3, <1>4, <1>5 DEF body
<1> QED
  BY <1>1, <1>2, <1>3, <1>4, <1>6 DEF DocInv

\* Another line begins behind a newline.
LEMMA JoinNext ==
    ASSUME DocInv, JoinLine, starts # <<>>
    PROVE  DocInv'
<1> DEFINE m == Len(starts)
           body == Body(Lines[m + 1])
           n == Len(text)
<1>1. /\ m \in Nat \ {0} /\ m + 1 <= Len(Lines) /\ Len(Lines) \in Nat
      /\ DOMAIN starts = 1..m /\ n \in Nat
      /\ starts \in Seq(Nat) /\ text \in Seq({"x", "space", "newline"})
      /\ raw \in Seq(LineKinds) /\ starts[1] = 0
  BY DocTypes DEF JoinLine, DocInv
<1>2. body \in Seq({"x", "space", "newline"}) /\ Len(body) \in Nat
      /\ \A q \in 1..Len(body) : body[q] # "newline"
  BY <1>1, DocTypes, BodyType
<1>3. text' = text \o <<"newline">> \o body /\ starts' = Append(starts, n + 1)
      /\ raw' = raw /\ ckAt' = "joining" /\ Lines' = Lines
  BY DEF JoinLine, Lines
<1>4. \A L \in 1..m : Reach(L + 1) = starts[L] + Len(Body(Lines[L])) + 1
  BY <1>1 DEF DocInv
<1>5. \A L \in 1..m : starts[L] \in Nat /\ Len(Body(Lines[L])) \in Nat
                      /\ Lines[L] \in LineKinds
  BY <1>1, DocTypes
<1> HIDE DEF m, body, n
<1>6. \A L \in 1..m : starts[L] <= n
  <2>1. Reach(m + 1) = n + 1
    BY <1>1 DEF Reach, n
  <2>2. starts[m] + Len(Body(Lines[m])) + 1 = n + 1
    BY <1>1, <1>4, <2>1
  <2>3. starts[m] <= n
    <3>1. m \in 1..m
      BY <1>1
    <3>2. starts[m] \in Nat /\ Len(Body(Lines[m])) \in Nat
      BY <1>5, <3>1
    <3> QED
      BY <1>1, <2>2, <3>2
  <2>4. \A L \in 1..m : L < m => starts[L] < starts[m]
    <3>1. m \in 1..m
      BY <1>1
    <3> QED
      BY <1>1, <3>1 DEF DocInv
  <2> QED
    BY <1>1, <1>5, <2>3, <2>4
<1>7. /\ starts' \in Seq(Nat) /\ Len(starts') = m + 1
      /\ DOMAIN starts' = 1..(m + 1)
      /\ \A L \in 1..m : starts'[L] = starts[L]
      /\ starts'[m + 1] = n + 1
  <2>1. n + 1 \in Nat
    BY <1>1
  <2> QED
    BY <1>1, <1>3, <2>1, AppendProperties DEF m
<1>8. /\ text' \in Seq({"x", "space", "newline"}) /\ Len(text') = n + 1 + Len(body)
      /\ \A q \in 1..n : text'[q] = text[q]
      /\ text'[n + 1] = "newline"
      /\ \A q \in (n + 2)..(n + 1 + Len(body)) : text'[q] = body[q - (n + 1)]
  <2> DEFINE C == {"x", "space", "newline"}
             t == text \o <<"newline">>
  <2>1. <<"newline">> \in Seq(C) /\ Len(<<"newline">>) = 1
        /\ <<"newline">>[1] = "newline"
    OBVIOUS
  <2>2. /\ t \in Seq(C) /\ Len(t) = n + 1
        /\ \A q \in 1..(n + 1) : t[q] = IF q <= n THEN text[q]
                                        ELSE <<"newline">>[q - n]
    BY <1>1, <2>1, ConcatProperties DEF n
  <2>3. t[n + 1] = "newline" /\ \A q \in 1..n : t[q] = text[q]
    BY <1>1, <2>1, <2>2
  <2> HIDE DEF t, C
  <2>4. text' = t \o body /\ body \in Seq(C)
    BY <1>2, <1>3 DEF t, C
  <2>5. /\ t \o body \in Seq(C) /\ Len(t \o body) = Len(t) + Len(body)
        /\ \A q \in 1..(Len(t) + Len(body)) :
             (t \o body)[q] = IF q <= Len(t) THEN t[q] ELSE body[q - Len(t)]
    BY <2>2, <2>4, ConcatProperties
  <2> QED
    BY <1>1, <1>2, <2>2, <2>3, <2>4, <2>5 DEF C
<1>9. \A L \in 1..(m + 1) :
        Reach(L + 1)' = starts'[L] + Len(Body(Lines'[L])) + 1
  <2> SUFFICES ASSUME NEW L \in 1..(m + 1)
               PROVE  Reach(L + 1)' = starts'[L] + Len(Body(Lines'[L])) + 1
    OBVIOUS
  <2>1. CASE L = m + 1
    <3>1. L + 1 \notin DOMAIN starts'
      BY <1>1, <1>7, <2>1
    <3>2. Reach(L + 1)' = Len(text') + 1
      BY <3>1 DEF Reach
    <3> QED
      BY <1>1, <1>2, <1>3, <1>7, <1>8, <2>1, <3>2 DEF body
  <2>2. CASE L = m
    <3>1. L + 1 \in DOMAIN starts' /\ L + 1 \notin DOMAIN starts
      BY <1>1, <1>7, <2>2
    <3>2. Reach(L + 1)' = n + 1 /\ Reach(L + 1) = n + 1
      BY <1>7, <2>2, <3>1 DEF Reach, n
    <3> QED
      BY <1>1, <1>3, <1>4, <1>7, <2>2, <3>2
  <2>3. CASE L < m
    <3>1. L \in 1..m /\ L + 1 \in 1..m /\ L + 1 \in DOMAIN starts'
          /\ L + 1 \in DOMAIN starts
      BY <1>1, <1>7, <2>3
    <3>2. Reach(L + 1)' = Reach(L + 1)
      BY <1>7, <3>1 DEF Reach
    <3> QED
      BY <1>3, <1>4, <1>7, <3>1, <3>2
  <2> QED
    BY <1>1, <2>1, <2>2, <2>3
<1>10. \A L, M \in 1..(m + 1) : L < M => starts'[L] < starts'[M]
  <2>1. \A L, M \in 1..m : L < M => starts[L] < starts[M]
    BY <1>1 DEF DocInv
  <2> SUFFICES ASSUME NEW L \in 1..(m + 1), NEW M \in 1..(m + 1), L < M
               PROVE  starts'[L] < starts'[M]
    OBVIOUS
  <2>2. L \in 1..m /\ starts'[L] = starts[L] /\ starts[L] \in Nat
        /\ starts[L] <= n
    BY <1>1, <1>5, <1>6, <1>7
  <2>3. CASE M = m + 1
    BY <1>1, <1>7, <2>2, <2>3
  <2>4. CASE M # m + 1
    <3>1. M \in 1..m
      BY <1>1, <2>4
    <3> QED
      BY <1>7, <2>1, <2>2, <3>1
  <2> QED
    BY <2>3, <2>4
<1>11. \A q \in 1..Len(text') :
         text'[q] = "newline" <=> \E L \in 2..(m + 1) : starts'[L] = q
  <2>1. \A q \in 1..n : text[q] = "newline" <=> \E L \in 2..m : starts[L] = q
    BY DEF DocInv, n, m
  <2> SUFFICES ASSUME NEW q \in 1..Len(text')
               PROVE  text'[q] = "newline"
                         <=> \E L \in 2..(m + 1) : starts'[L] = q
    OBVIOUS
  <2>2. CASE q <= n
    <3>1. q \in 1..n /\ text'[q] = text[q] /\ starts'[m + 1] # q
      BY <1>1, <1>2, <1>7, <1>8, <2>2
    <3>2. (\E L \in 2..(m + 1) : starts'[L] = q) <=> \E L \in 2..m : starts[L] = q
      <4>1. \A L \in 2..m : L \in 2..(m + 1) /\ L \in 1..m
        BY <1>1
      <4>2. \A L \in 2..(m + 1) : L \in 2..m \/ L = m + 1
        BY <1>1
      <4> QED
        BY <1>7, <3>1, <4>1, <4>2
    <3> QED
      BY <2>1, <3>1, <3>2
  <2>3. CASE q = n + 1
    <3>1. m + 1 \in 2..(m + 1)
      BY <1>1
    <3> QED
      BY <1>7, <1>8, <2>3, <3>1
  <2>4. CASE q > n + 1
    <3>1. q - (n + 1) \in 1..Len(body) /\ q \in (n + 2)..(n + 1 + Len(body))
      BY <1>1, <1>2, <1>8, <2>4
    <3>2. text'[q] # "newline"
      BY <1>2, <1>8, <3>1
    <3>3. \A L \in 1..(m + 1) : starts'[L] <= n + 1
      <4>1. \A L \in 1..(m + 1) : L \in 1..m \/ L = m + 1
        BY <1>1
      <4>2. \A L \in 1..m : starts'[L] <= n + 1
        <5> SUFFICES ASSUME NEW L \in 1..m PROVE starts'[L] <= n + 1
          OBVIOUS
        <5>1. starts'[L] = starts[L] /\ starts[L] \in Nat /\ starts[L] <= n
          BY <1>5, <1>6, <1>7
        <5> QED
          BY <1>1, <5>1
      <4>3. starts'[m + 1] = n + 1
        BY <1>7
      <4> QED
        BY <1>1, <4>1, <4>2, <4>3
    <3>4. \A L \in 2..(m + 1) : L \in 1..(m + 1) /\ starts'[L] # q
      BY <1>1, <1>5, <1>7, <2>4, <3>3
    <3> QED
      BY <3>2, <3>4
  <2> QED
    BY <1>1, <1>2, <1>8, <2>2, <2>3, <2>4
<1>12. starts' # <<>> /\ starts'[1] = 0 /\ Len(starts') <= Len(Lines')
  <2>1. 1 \in 1..m
    BY <1>1
  <2>2. starts'[1] = 0 /\ Len(starts') # 0
    BY <1>1, <1>7, <2>1
  <2> QED
    BY <1>1, <1>3, <1>7, <2>2
<1> QED
  BY <1>1, <1>3, <1>7, <1>8, <1>9, <1>10, <1>11, <1>12 DEF DocInv

\* Nothing else touches the text.
LEMMA DocKept ==
    ASSUME DocInv, UNCHANGED docVars, ckAt' # "reading",
           ckAt' = "joining" \/ Len(starts) = Len(Lines)
    PROVE  DocInv'
<1>1. text' = text /\ starts' = starts /\ Lines' = Lines /\ raw' = raw
  BY DEF docVars, Lines
<1>2. \A L : Reach(L)' = Reach(L)
  BY <1>1 DEF Reach
<1> QED
  BY <1>1, <1>2 DEF DocInv

\* A line begins in the text, behind the lines before it.
LEMMA StartsInText ==
    ASSUME DocInv, NEW L \in 1..Len(starts)
    PROVE  starts[L] \in Nat /\ starts[L] <= Len(text)
<1> DEFINE m == Len(starts)
<1>1. m \in Nat \ {0} /\ Len(text) \in Nat /\ DOMAIN starts = 1..m
      /\ \A M \in 1..m : starts[M] \in Nat
  BY DocTypes
<1>2. m \in DOMAIN starts /\ m + 1 \notin DOMAIN starts
  BY <1>1
<1>3. Reach(m + 1) = Len(text) + 1
  BY <1>2 DEF Reach
<1>4. Reach(m + 1) = starts[m] + Len(Body(Lines[m])) + 1
  BY <1>2 DEF DocInv
<1>5. Len(Body(Lines[m])) \in Nat /\ starts[m] \in Nat
  <2>1. m <= Len(Lines)
    BY DEF DocInv
  <2>2. Len(Lines) \in Nat
    BY DocTypes
  <2>3. m \in 1..Len(Lines)
    BY <1>1, <2>1, <2>2
  <2> QED
    BY <1>1, <1>2, <2>3, DocTypes
<1> HIDE DEF m
<1>6. starts[m] <= Len(text)
  BY <1>1, <1>3, <1>4, <1>5
<1>7. L < m => starts[L] < starts[m]
  <2>1. L \in DOMAIN starts
    BY <1>1 DEF m
  <2> QED
    BY <1>2, <2>1 DEF DocInv
<1>8. L \in 1..m /\ starts[L] \in Nat /\ (L < m \/ L = m)
  <2>1. L \in 1..m
    BY DEF m
  <2> QED
    BY <1>1, <2>1
<1> QED
  BY <1>1, <1>5, <1>6, <1>7, <1>8

\* How far the lines before line c reach.
LEMMA ReachIs ==
    ASSUME DocInv, NEW c \in 1..(Len(starts) + 1)
    PROVE  /\ Reach(c) \in Nat /\ Reach(c) <= Len(text) + 1
           /\ c <= Len(starts) => Reach(c) = starts[c] /\ c \in DOMAIN starts
           /\ c > Len(starts) => Reach(c) = Len(text) + 1
<1>1. Len(starts) \in Nat /\ Len(text) \in Nat /\ DOMAIN starts = 1..Len(starts)
  BY DocTypes
<1>2. CASE c <= Len(starts)
  <2>1. c \in DOMAIN starts /\ c \in 1..Len(starts)
    BY <1>1, <1>2
  <2>2. Reach(c) = starts[c]
    BY <2>1 DEF Reach
  <2>3. starts[c] \in Nat /\ starts[c] <= Len(text)
    BY <2>1, StartsInText
  <2> QED
    BY <1>1, <1>2, <2>1, <2>2, <2>3
<1>3. CASE c > Len(starts)
  <2>1. c \notin DOMAIN starts
    BY <1>1, <1>3
  <2>2. Reach(c) = Len(text) + 1
    BY <2>1 DEF Reach
  <2> QED
    BY <1>1, <1>3, <2>2
<1> QED
  BY <1>1, <1>2, <1>3

\* It grows from line to line.
LEMMA ReachGrows ==
    ASSUME DocInv, NEW c \in 1..(Len(starts) + 1), NEW d \in 1..(Len(starts) + 1),
           c < d
    PROVE  Reach(c) < Reach(d)
<1>1. Len(starts) \in Nat /\ Len(text) \in Nat
  BY DocTypes
<1>2. c \in 1..Len(starts) /\ c <= Len(starts)
  BY <1>1
<1>3. Reach(c) = starts[c] /\ c \in DOMAIN starts /\ starts[c] \in Nat
      /\ starts[c] <= Len(text)
  BY <1>2, ReachIs, StartsInText
<1>4. CASE d <= Len(starts)
  <2>1. Reach(d) = starts[d] /\ d \in DOMAIN starts
    BY <1>4, ReachIs
  <2> QED
    BY <1>3, <2>1 DEF DocInv
<1>5. CASE d > Len(starts)
  <2>1. Reach(d) = Len(text) + 1
    BY <1>5, ReachIs
  <2> QED
    BY <1>1, <1>3, <2>1
<1> QED
  BY <1>1, <1>4, <1>5

\* The character before a line is no ink.
LEMMA NoInkBetween ==
    ASSUME DocInv, NEW c \in 2..(Len(starts) + 1), NEW o \in Ink
    PROVE  o # Reach(c) - 1
<1>1. Len(starts) \in Nat /\ Len(text) \in Nat /\ o \in 0..(Len(text) - 1)
      /\ text[o + 1] = "x" /\ c \in 1..(Len(starts) + 1)
  BY DocTypes DEF Ink, CharAt
<1>2. CASE c <= Len(starts)
  <2>1. Reach(c) = starts[c] /\ starts[c] \in Nat
    BY <1>1, <1>2, ReachIs
  <2>2. c \in 2..Len(starts)
    BY <1>1, <1>2
  <2>3. SUFFICES ASSUME o = Reach(c) - 1 PROVE FALSE
    OBVIOUS
  <2>4. o + 1 = starts[c] /\ o + 1 \in 1..Len(text)
    BY <1>1, <2>1, <2>3
  <2>5. text[o + 1] = "newline"
    BY <2>2, <2>4 DEF DocInv
  <2> QED
    BY <1>1, <2>5
<1>3. CASE c > Len(starts)
  <2>1. Reach(c) = Len(text) + 1
    BY <1>1, <1>3, ReachIs
  <2> QED
    BY <1>1, <2>1
<1> QED
  BY <1>1, <1>2, <1>3

\* _line_of finds the line an offset is in: the lines up to it begin at or
\* before the offset, and as many newlines as there are lines before it.
LEMMA LineOfIs ==
    ASSUME DocInv, NEW o \in 0..(Len(text) - 1)
    PROVE  /\ LineOf(o) \in Nat
           /\ LineOf(o) = LineByCounting(o)
           /\ \A M \in DOMAIN starts : starts[M] <= o => M <= LineOf(o)
<1> DEFINE m == Len(starts)
           before == {M \in DOMAIN starts : starts[M] <= o}
           L == LineOf(o)
           newlines == {p \in 0..(o - 1) : CharAt(p) = "newline"}
<1>1. m \in Nat /\ Len(text) \in Nat /\ DOMAIN starts = 1..m /\ o \in Nat
      /\ o < Len(text)
  BY DocTypes
<1>2. starts # <<>> /\ m # 0
  <2>1. starts # <<>>
    <3>1. starts = <<>> => Len(text) = 0
      BY DEF DocInv
    <3> QED
      BY <1>1, <3>1
  <2>2. starts \in Seq(Nat)
    BY DEF DocInv
  <2> QED
    BY <2>1, <2>2, EmptySeq
<1>3. 1 \in before
  <2>1. starts[1] = 0
    BY <1>2 DEF DocInv
  <2> QED
    BY <1>1, <1>2, <2>1
<1>4. before \in SUBSET (0..m)
  BY <1>1
<1>5. \E x \in before : \A y \in before : y <= x
  BY <1>1, <1>3, <1>4, GreatestBelow
<1>6. L \in DOMAIN starts /\ starts[L] <= o
      /\ \A M \in DOMAIN starts : starts[M] <= o => M <= L
  BY <1>5 DEF LineOf
<1> HIDE DEF L, before
<1>7. L \in 1..m
  BY <1>1, <1>6
<1>8. \A M \in 1..m : starts[M] \in Nat /\ starts[M] <= Len(text)
  BY StartsInText
<1>9. \A M \in 1..m : starts[M] <= o <=> M <= L
  <2> SUFFICES ASSUME NEW M \in 1..m, M <= L PROVE starts[M] <= o
    BY <1>1, <1>6
  <2>1. CASE M = L
    BY <1>6, <2>1
  <2>2. CASE M < L
    <3>1. starts[M] < starts[L]
      BY <1>1, <1>6, <2>2 DEF DocInv
    <3> QED
      BY <1>1, <1>6, <1>7, <1>8, <3>1
  <2> QED
    BY <1>1, <1>7, <2>1, <2>2
<1>10. \A M \in 2..L : starts[M] - 1 \in newlines
  <2> SUFFICES ASSUME NEW M \in 2..L PROVE starts[M] - 1 \in newlines
    OBVIOUS
  <2>1. M \in 1..m /\ M \in 2..m /\ 1 \in 1..m /\ 1 < M
    BY <1>1, <1>7
  <2>2. starts[M] <= o /\ starts[M] \in Nat /\ starts[1] \in Nat
    BY <1>7, <1>8, <1>9, <2>1
  <2>3. starts[1] < starts[M]
    BY <1>1, <2>1 DEF DocInv
  <2>4. starts[M] \in 1..Len(text)
    BY <1>1, <2>2, <2>3
  <2>5. text[starts[M]] = "newline"
    BY <2>1, <2>4 DEF DocInv
  <2>6. (starts[M] - 1) + 1 = starts[M] /\ starts[M] - 1 \in 0..(o - 1)
    BY <1>1, <2>2, <2>4
  <2> QED
    BY <2>5, <2>6 DEF CharAt
<1>11. \A p \in newlines : \E M \in 2..L : starts[M] - 1 = p
  <2> SUFFICES ASSUME NEW p \in newlines
               PROVE  \E M \in 2..L : starts[M] - 1 = p
    OBVIOUS
  <2>1. p \in 0..(o - 1) /\ text[p + 1] = "newline"
    BY DEF CharAt
  <2>2. p + 1 \in 1..Len(text)
    BY <1>1, <2>1
  <2>3. PICK M \in 2..m : starts[M] = p + 1
    BY <2>1, <2>2 DEF DocInv
  <2>4. M \in 1..m /\ starts[M] <= o
    BY <1>1, <2>1, <2>3
  <2>5. M \in 2..L /\ starts[M] - 1 = p
    BY <1>1, <1>7, <1>9, <2>1, <2>3, <2>4
  <2> QED
    BY <2>5
<1>12. \A M, N \in 2..L : starts[M] - 1 = starts[N] - 1 => M = N
  <2> SUFFICES ASSUME NEW M \in 2..L, NEW N \in 2..L,
                      starts[M] - 1 = starts[N] - 1
               PROVE  M = N
    OBVIOUS
  <2>1. M \in 1..m /\ N \in 1..m /\ M \in Nat /\ N \in Nat
    BY <1>1, <1>7
  <2>2. starts[M] = starts[N] /\ starts[M] \in Nat
    BY <1>8, <2>1
  <2>3. (M < N => starts[M] < starts[N]) /\ (N < M => starts[N] < starts[M])
    BY <1>1, <2>1 DEF DocInv
  <2> QED
    BY <2>1, <2>2, <2>3
<1> HIDE DEF newlines
<1>13. Cardinality(newlines) = L - 1
  <2> DEFINE f == [M \in 2..L |-> starts[M] - 1]
  <2>1. f \in Bijection(2..L, newlines)
    <3>1. f \in [2..L -> newlines]
      BY <1>10
    <3>2. \A M, N \in 2..L : f[M] = f[N] => M = N
      BY <1>12
    <3>3. \A p \in newlines : \E M \in 2..L : f[M] = p
      BY <1>11
    <3> HIDE DEF f
    <3> QED
      BY <3>1, <3>2, <3>3 DEF Bijection, Injection, Surjection, IsInjective
  <2>2. IsFiniteSet(2..L) /\ Cardinality(2..L) = L - 1
    <3>1. 2 \in Int /\ L \in Int /\ 2 <= L + 1
      BY <1>1, <1>7
    <3>2. Cardinality(2..L) = IF 2 > L THEN 0 ELSE L - 2 + 1
      BY <3>1, FS_Interval
    <3> QED
      BY <1>1, <1>7, <3>1, <3>2, FS_Interval
  <2> HIDE DEF f
  <2>3. Cardinality(newlines) = Cardinality(2..L)
    <3>1. ExistsBijection(2..L, newlines)
      BY <2>1 DEF ExistsBijection
    <3> QED
      BY <2>2, <3>1, FS_Bijection
  <2> QED
    BY <2>2, <2>3
<1>14. LineByCounting(o) = 1 + Cardinality(newlines)
  BY DEF LineByCounting, newlines
<1>15. L \in Nat /\ LineByCounting(o) = L
  BY <1>1, <1>7, <1>13, <1>14
<1> QED
  BY <1>6, <1>15 DEF L

-----------------------------------------------------------------------------
(* What a step leaves alone. *)

\* What is said of the text stays true while the document stays.
LEMMA TextKept ==
    ASSUME UNCHANGED docVars
    PROVE  /\ text' = text /\ starts' = starts /\ Lines' = Lines /\ raw' = raw
           /\ Ink' = Ink /\ \A c : Reach(c)' = Reach(c)
           /\ \A o : LineByCounting(o)' = LineByCounting(o)
  BY DEF docVars, Lines, Ink, CharAt, Reach, LineByCounting

\* Before a chunker starts there is nothing.
LEMMA NothingYet ==
    ASSUME ckAt' \in {"reading", "joining"}, units' = <<>>, pieces' = <<>>,
           groups' = <<>>, drafts' = <<>>
    PROVE  UnitInv' /\ PieceInv' /\ GroupInv' /\ DraftInv'
<1>1. UnitInv'
  BY DEF UnitInv, Laid
<1>2. PieceInv'
  BY DEF PieceInv, Laid
<1>3. GroupInv'
  BY DEF GroupInv
<1>4. DraftInv'
  BY DEF DraftInv
<1> QED
  BY <1>1, <1>2, <1>3, <1>4

\* At the start nothing is chunked.
LEMMA ReadingInv ==
    ASSUME CkInit
    PROVE  UnitInv /\ PieceInv /\ GroupInv /\ DraftInv
<1>0. ckAt = "reading" /\ units = <<>> /\ pieces = <<>> /\ groups = <<>>
      /\ drafts = <<>>
  BY DEF CkInit
<1>1. UnitInv
  BY <1>0 DEF UnitInv, Laid
<1>2. PieceInv
  BY <1>0 DEF PieceInv, Laid
<1>3. GroupInv
  BY <1>0 DEF GroupInv
<1>4. DraftInv
  BY <1>0 DEF DraftInv
<1> QED
  BY <1>1, <1>2, <1>3, <1>4

\* The loops behind unitize leave its units as they are;
LEMMA UnitKept ==
    ASSUME UnitInv, UNCHANGED <<docVars, units>>, ckAt' # "unitizing"
    PROVE  UnitInv'
<1>1. Laid(units)'
  BY TextKept DEF UnitInv, Laid, AreHeadings
<1> QED
  BY <1>1 DEF UnitInv

\* those behind _split_oversized its pieces;
LEMMA PieceKept ==
    ASSUME PieceInv, UNCHANGED <<docVars, pieces, chunked>>,
           ckAt' # "splitting",
           ckAt' \in {"packing", "drafting"} => ckAt \in {"packing", "drafting"}
    PROVE  PieceInv'
<1>1. Laid(pieces)'
  BY TextKept DEF PieceInv, Laid, AreHeadings
<1>2. ckAt' \in {"packing", "drafting"} => \A o \in Ink' : Covers(pieces, o)'
  BY TextKept DEF PieceInv, Covers, Span
<1> QED
  BY <1>1, <1>2 DEF PieceInv

\* those behind _pack its groups;
LEMMA GroupKept ==
    ASSUME GroupInv, UNCHANGED <<groups, pieces, chunked>>,
           ckAt' # "packing", ckAt' = "drafting" => ckAt = "drafting"
    PROVE  GroupInv'
<1>1. ckAt' = "drafting" => GroupsReach(Len(pieces) + 1)'
  BY DEF GroupInv, GroupsReach, GroupTo, GroupFrom
<1> QED
  BY <1>1 DEF GroupInv

\* and those before the drafts have none to disturb.
LEMMA DraftKept ==
    ASSUME DraftInv, UNCHANGED <<docVars, drafts, chunked>>,
           ckAt' \notin {"drafting", "fixing", "done"}
    PROVE  DraftInv'
<1>1. \A i \in DOMAIN drafts' : DraftOK(drafts[i])'
  BY TextKept DEF DraftInv, DraftOK, Span
<1> QED
  BY <1>1 DEF DraftInv

-----------------------------------------------------------------------------
(* Reading and joining, and a chunker that starts. *)

\* A line is read.
LEMMA ReadStep ==
    ASSUME CkInv, NEW k \in RawLines, AddLine(k)
    PROVE  CkInv'
<1>1. DocInv'
  BY AddLineDoc DEF CkInv
<1>2. LoopInv'
  BY DEF CkInv, LoopInv, AddLine, HybridLoops
<1>3. ckAt' \in {"reading", "joining"} /\ units' = <<>> /\ pieces' = <<>>
      /\ groups' = <<>> /\ drafts' = <<>>
  BY DEF CkInv, LoopInv, AddLine
<1> QED
  BY <1>1, <1>2, <1>3, NothingYet DEF CkInv

\* A line is joined.
LEMMA JoinStep ==
    ASSUME CkInv, JoinLine
    PROVE  CkInv'
<1>1. DocInv'
  BY JoinFirst, JoinNext DEF CkInv
<1>2. LoopInv'
  BY DEF CkInv, LoopInv, JoinLine, HybridLoops
<1>3. ckAt' \in {"reading", "joining"} /\ units' = <<>> /\ pieces' = <<>>
      /\ groups' = <<>> /\ drafts' = <<>>
  BY DEF CkInv, LoopInv, JoinLine
<1> QED
  BY <1>1, <1>2, <1>3, NothingYet DEF CkInv

\* The text has been joined: its first line begins at 0, or it is empty.
LEMMA JoinedText ==
    ASSUME DocInv
    PROVE  /\ \A o \in Ink : o \in Nat /\ o < Len(text)
           /\ \A o \in Ink : o >= Reach(1)
<1>1. Len(text) \in Nat /\ Len(starts) \in Nat /\ DOMAIN starts = 1..Len(starts)
  BY DocTypes
<1>2. \A o \in Ink : o \in Nat /\ o < Len(text)
  BY <1>1 DEF Ink
<1>3. CASE starts = <<>>
  <2>1. Len(text) = 0
    BY <1>3 DEF DocInv
  <2> QED
    BY <1>2, <2>1
<1>4. CASE starts # <<>>
  <2>1. Len(starts) # 0
    BY <1>4, EmptySeq DEF DocInv
  <2>2. 1 \in DOMAIN starts /\ starts[1] = 0
    BY <1>1, <1>4, <2>1 DEF DocInv
  <2>3. Reach(1) = 0
    BY <2>2 DEF Reach
  <2> QED
    BY <1>2, <2>3
<1> QED
  BY <1>3, <1>4

\* chunk_hybrid begins with the first line.
LEMMA HybridStarts ==
    ASSUME CkInv, NEW max \in Budgets, ChunkHybrid(max)
    PROVE  CkInv'
<1>0. /\ max \in Nat \ {0} /\ chunked' = [by |-> "hybrid", max |-> max]
      /\ ckAt' = "unitizing" /\ cursor' = 1 /\ pos' = 0 /\ heading' = <<>>
      /\ units' = <<>> /\ pieces' = <<>> /\ groups' = <<>> /\ drafts' = <<>>
      /\ UNCHANGED docVars /\ Len(starts) = Len(Lines)
  BY ChunkingAssumption DEF CkInv, LoopInv, ChunkHybrid, Joined
<1>1. DocInv'
  BY <1>0, DocKept DEF CkInv
<1>2. LoopInv'
  BY <1>0 DEF LoopInv, HybridLoops
<1>3. UnitInv'
  <2>1. Laid(units)'
    BY <1>0 DEF Laid
  <2>2. Len(Lines) \in Nat /\ \A o \in Ink : o \in Nat /\ o >= Reach(1)
    BY DocTypes, JoinedText DEF CkInv
  <2>3. 1 \in 1..(Len(starts) + 1)
    BY <1>0, <2>2
  <2>4. Reach(1) \in Nat
    BY <2>3, ReachIs DEF CkInv
  <2>5. \A o \in Ink' : ~(o < Reach(cursor)')
    BY <1>0, <2>2, <2>4, TextKept DEF Reach
  <2>6. AreHeadings(heading, starts[cursor])'
    BY <1>0 DEF AreHeadings
  <2>7. cursor' <= Len(Lines') + 1 /\ DOMAIN units' = {}
    BY <1>0, <2>2, TextKept
  <2> QED
    BY <1>0, <2>1, <2>5, <2>6, <2>7 DEF UnitInv
<1>4. PieceInv'
  BY <1>0 DEF PieceInv, Laid
<1>5. GroupInv'
  BY <1>0 DEF GroupInv
<1>6. DraftInv'
  BY <1>0 DEF DraftInv
<1> QED
  BY <1>1, <1>2, <1>3, <1>4, <1>5, <1>6 DEF CkInv

\* chunk_fixed_chars begins at the first character, or returns at once.
LEMMA FixedStarts ==
    ASSUME CkInv, NEW max \in Budgets, NEW overlap \in 0..(max - 1),
           ChunkFixed(max, overlap)
    PROVE  CkInv'
<1>0. /\ max \in Nat \ {0} /\ overlap \in Nat /\ overlap < max
      /\ chunked' = [by |-> "fixed", max |-> max, overlap |-> overlap]
      /\ ckAt' = IF HasInk(0, Len(text)) THEN "fixing" ELSE "done"
      /\ cursor' = 1 /\ pos' = 0 /\ heading' = <<>>
      /\ units' = <<>> /\ pieces' = <<>> /\ groups' = <<>> /\ drafts' = <<>>
      /\ UNCHANGED docVars /\ Len(starts) = Len(Lines)
  <2>1. max \in Nat \ {0}
    BY ChunkingAssumption
  <2>2. overlap \in Nat
    BY <2>1
  <2> QED
    BY <2>1, <2>2 DEF CkInv, LoopInv, ChunkFixed, Joined
<1>1. DocInv'
  BY <1>0, DocKept DEF CkInv
<1>2. LoopInv'
  BY <1>0 DEF LoopInv, HybridLoops
<1>3. UnitInv' /\ PieceInv' /\ GroupInv'
  BY <1>0 DEF UnitInv, PieceInv, GroupInv, Laid
<1>4. DraftInv'
  <2>1. drafts' \in Seq(Drafts)' /\ DOMAIN drafts' = {}
    BY <1>0
  <2>2. Len(text) \in Nat /\ \A o \in Ink : o \in Nat
    BY DocTypes, JoinedText DEF CkInv
  <2>3. ckAt' = "done" => Ink' = {}
    BY <1>0, <2>2, TextKept DEF HasInk, Ink
  <2>4. ckAt' = "fixing" => pos' < Len(text') /\ \A o \in Ink' : ~(o < pos')
    <3>1. HasInk(0, Len(text)) => 0 < Len(text)
      BY <2>2 DEF HasInk
    <3> QED
      BY <1>0, <2>2, <3>1, TextKept
  <2> QED
    BY <1>0, <2>1, <2>3, <2>4 DEF DraftInv
<1> QED
  BY <1>1, <1>2, <1>3, <1>4 DEF CkInv

-----------------------------------------------------------------------------
(* Unitizing. *)

\* A sequence of spans, member by member.
LEMMA SpanTypes ==
    ASSUME NEW s \in Seq(Spans)
    PROVE  /\ Len(s) \in Nat /\ DOMAIN s = 1..Len(s)
           /\ \A i \in DOMAIN s : /\ s[i] \in Spans /\ s[i].from \in Nat
                                  /\ s[i].to \in Nat /\ s[i].path \in Seq(Nat)
<1>1. Len(s) \in Nat /\ DOMAIN s = 1..Len(s)
  BY LenProperties
<1>2. \A i \in DOMAIN s : s[i] \in Spans
  BY <1>1, ElementOfSeq
<1> QED
  BY <1>1, <1>2 DEF Spans

\* A span behind the others joins them.
LEMMA LaidAppend ==
    ASSUME NEW s, Laid(s), NEW u \in Spans, u.from < u.to, u.to <= Len(text),
           AreHeadings(u.path, u.from), \A i \in DOMAIN s : s[i].to <= u.from
    PROVE  Laid(Append(s, u))
<1> DEFINE t == Append(s, u)
<1>1. s \in Seq(Spans) /\ Len(s) \in Nat /\ DOMAIN s = 1..Len(s)
  BY LenProperties DEF Laid
<1>2. /\ t \in Seq(Spans) /\ Len(t) = Len(s) + 1 /\ DOMAIN t = 1..(Len(s) + 1)
      /\ \A i \in 1..Len(s) : t[i] = s[i]
      /\ t[Len(s) + 1] = u
  BY <1>1, AppendProperties
<1> HIDE DEF t
<1>3. \A i \in DOMAIN t : \/ i \in DOMAIN s /\ t[i] = s[i]
                          \/ i = Len(s) + 1 /\ t[i] = u
  <2> SUFFICES ASSUME NEW i \in 1..(Len(s) + 1)
               PROVE  \/ i \in DOMAIN s /\ t[i] = s[i]
                      \/ i = Len(s) + 1 /\ t[i] = u
    BY <1>2
  <2>1. i \in 1..Len(s) \/ i = Len(s) + 1
    BY <1>1
  <2> QED
    BY <1>1, <1>2, <2>1
<1>4. \A i \in DOMAIN t : /\ t[i].from < t[i].to /\ t[i].to <= Len(text)
                          /\ AreHeadings(t[i].path, t[i].from)
  BY <1>3 DEF Laid
<1>5. \A i, j \in DOMAIN t : i < j => t[i].to <= t[j].from
  <2> SUFFICES ASSUME NEW i \in DOMAIN t, NEW j \in DOMAIN t, i < j
               PROVE  t[i].to <= t[j].from
    OBVIOUS
  <2>1. i \in DOMAIN s /\ t[i] = s[i]
    BY <1>1, <1>2
  <2>2. CASE j = Len(s) + 1
    BY <1>2, <2>1, <2>2
  <2>3. CASE j # Len(s) + 1
    <3>1. j \in DOMAIN s /\ t[j] = s[j]
      BY <1>3, <2>3
    <3> QED
      BY <2>1, <3>1 DEF Laid
  <2> QED
    BY <2>2, <2>3
<1>6. Laid(t)
  BY <1>2, <1>4, <1>5 DEF Laid
<1> QED
  BY <1>6 DEF t

\* One more span covers its own characters.
LEMMA CoversAppend ==
    ASSUME NEW S, NEW s \in Seq(S), NEW u \in S, NEW o
    PROVE  Covers(Append(s, u), o) <=> Covers(s, o) \/ o \in Span(u)
<1> DEFINE t == Append(s, u)
<1>1. Len(s) \in Nat /\ DOMAIN s = 1..Len(s)
  BY LenProperties
<1>2. /\ DOMAIN t = 1..(Len(s) + 1)
      /\ \A i \in 1..Len(s) : t[i] = s[i]
      /\ t[Len(s) + 1] = u
  BY <1>1, AppendProperties
<1> HIDE DEF t
<1>3. \A i \in DOMAIN t : \/ i \in DOMAIN s /\ t[i] = s[i]
                          \/ i = Len(s) + 1 /\ t[i] = u
  <2> SUFFICES ASSUME NEW i \in 1..(Len(s) + 1)
               PROVE  \/ i \in DOMAIN s /\ t[i] = s[i]
                      \/ i = Len(s) + 1 /\ t[i] = u
    BY <1>2
  <2>1. i \in 1..Len(s) \/ i = Len(s) + 1
    BY <1>1
  <2> QED
    BY <1>1, <1>2, <2>1
<1>4. \A i \in DOMAIN s : i \in DOMAIN t /\ t[i] = s[i]
  BY <1>1, <1>2
<1>5. Len(s) + 1 \in DOMAIN t /\ t[Len(s) + 1] = u
  BY <1>1, <1>2
<1>6. Covers(t, o) <=> Covers(s, o) \/ o \in Span(u)
  BY <1>3, <1>4, <1>5 DEF Covers
<1> QED
  BY <1>6 DEF t

\* The ends of the blocks are behind their first lines.
LEMMA BlockEnds ==
    ASSUME Len(Lines) \in Nat, NEW i \in 1..Len(Lines)
    PROVE  /\ FenceEnd(i) \in (i + 1)..(Len(Lines) + 1)
           /\ BlockEnd(i) \in (i + 1)..(Len(Lines) + 1)
<1> DEFINE closing == {j \in (i + 1)..Len(Lines) : Lines[j] = "fence"}
           halts == {j \in (i + 1)..Len(Lines) : Breaks(i, j)}
           c == CHOOSE j \in closing : \A k \in closing : j <= k
           b == CHOOSE j \in halts : \A k \in halts : j <= k
<1>1. closing \in SUBSET Nat /\ halts \in SUBSET Nat
  OBVIOUS
<1>2. closing # {} => c \in closing
  BY <1>1, LeastExists
<1>3. halts # {} => b \in halts
  BY <1>1, LeastExists
<1>4. FenceEnd(i) = IF closing = {} THEN Len(Lines) + 1 ELSE 1 + c
  BY DEF FenceEnd
<1>5. BlockEnd(i) = IF halts = {} THEN Len(Lines) + 1 ELSE b
  BY DEF BlockEnd
<1>6. closing # {} => c \in (i + 1)..Len(Lines)
  BY <1>2
<1>7. halts # {} => b \in (i + 1)..Len(Lines)
  BY <1>3
<1> HIDE DEF closing, halts, c, b
<1>8. FenceEnd(i) \in (i + 1)..(Len(Lines) + 1)
  BY <1>4, <1>6
<1>9. BlockEnd(i) \in (i + 1)..(Len(Lines) + 1)
  BY <1>5, <1>7
<1> QED
  BY <1>8, <1>9

\* The unit of the lines from the cursor to j.
LEMMA UnitIs ==
    ASSUME DocInv, Len(starts) = Len(Lines), NEW c \in 1..Len(Lines),
           NEW j \in (c + 1)..(Len(Lines) + 1)
    PROVE  /\ starts[c] \in Nat /\ Reach(c) = starts[c] /\ c \in DOMAIN starts
           /\ Reach(j) \in Nat /\ starts[c] < Reach(j) /\ Reach(j) - 1 \in Nat
           /\ Reach(j) - 1 <= Len(text)
           /\ \A o \in Ink : o # Reach(j) - 1
           /\ \A o \in Ink : o \in starts[c]..((Reach(j) - 1) - 1) =>
                               HasInk(starts[c], Reach(j) - 1)
<1>1. Len(Lines) \in Nat /\ Len(text) \in Nat
  BY DocTypes
<1>2. c \in 1..(Len(starts) + 1) /\ c <= Len(starts) /\ c < j
      /\ j \in 1..(Len(starts) + 1) /\ j \in 2..(Len(starts) + 1)
  BY <1>1
<1>3. Reach(c) = starts[c] /\ c \in DOMAIN starts /\ Reach(c) \in Nat
      /\ Reach(j) \in Nat /\ Reach(j) <= Len(text) + 1
  BY <1>2, ReachIs
<1>4. Reach(c) < Reach(j)
  BY <1>2, ReachGrows
<1>5. \A o \in Ink : o # Reach(j) - 1
  BY <1>2, NoInkBetween
<1>6. Reach(j) - 1 \in Nat /\ Reach(j) - 1 <= Len(text)
  BY <1>1, <1>3, <1>4
<1>7. \A o \in Ink : o \in starts[c]..((Reach(j) - 1) - 1) =>
                       HasInk(starts[c], Reach(j) - 1)
  BY DEF HasInk, Ink
<1> QED
  BY <1>3, <1>4, <1>5, <1>6, <1>7

\* The state of the loop while it is at a line.
LEMMA AtLineIs ==
    ASSUME CkInv, AtLine
    PROVE  /\ DocInv /\ Len(starts) = Len(Lines) /\ Len(Lines) \in Nat
           /\ cursor \in 1..Len(Lines) /\ Lines[cursor] \in LineKinds
           /\ heading \in Seq(Nat) /\ AreHeadings(heading, starts[cursor])
           /\ units \in Seq(Spans) /\ Len(units) \in Nat
           /\ DOMAIN units = 1..Len(units)
           /\ ckAt = "unitizing" /\ pos \in Nat
<1>1. DocInv /\ ckAt = "unitizing" /\ Len(starts) = Len(Lines)
      /\ cursor \in Nat \ {0} /\ cursor <= Len(Lines) /\ heading \in Seq(Nat)
      /\ AreHeadings(heading, starts[cursor]) /\ units \in Seq(Spans)
      /\ pos \in Nat
  BY DEF CkInv, AtLine, DocInv, LoopInv, UnitInv, Laid
<1>2. Len(Lines) \in Nat
  BY <1>1, DocTypes
<1>3. cursor \in 1..Len(Lines)
  BY <1>1, <1>2
<1>4. Lines[cursor] \in LineKinds
  BY <1>1, <1>3, DocTypes
<1>5. Len(units) \in Nat /\ DOMAIN units = 1..Len(units)
  BY <1>1, LenProperties
<1> QED
  BY <1>1, <1>2, <1>3, <1>4, <1>5

\* A heading above a line is above the lines behind it.
LEMMA HeadingsStay ==
    ASSUME DocInv, NEW path, NEW o \in Int, NEW p \in Int, o <= p,
           AreHeadings(path, o)
    PROVE  AreHeadings(path, p)
<1> SUFFICES ASSUME NEW n \in DOMAIN path
             PROVE  /\ path[n] \in DOMAIN starts
                    /\ Lines[path[n]] \in {"h1", "h2"}
                    /\ starts[path[n]] <= p
  BY DEF AreHeadings
<1>1. path[n] \in DOMAIN starts /\ Lines[path[n]] \in {"h1", "h2"}
      /\ starts[path[n]] <= o
  BY DEF AreHeadings
<1>2. starts[path[n]] \in Nat
  BY <1>1, DocTypes
<1> QED
  BY <1>1, <1>2

\* What unitizing has to keep when the lines before j have been taken.
LEMMA UnitsGrow ==
    ASSUME CkInv, AtLine, NEW j \in (cursor + 1)..(Len(Lines) + 1),
           UNCHANGED <<docVars, ckAt, chunked, pos, pieces, groups, drafts>>,
           cursor' = j, heading' \in Seq(Nat),
           j <= Len(Lines) => AreHeadings(heading', starts[j]),
           Laid(units'),
           \A i \in DOMAIN units' : units'[i].to < Reach(j),
           \A o \in Ink : o < Reach(j) => Covers(units', o)
    PROVE  CkInv'
<1>0. DocInv /\ Len(starts) = Len(Lines) /\ Len(Lines) \in Nat
      /\ ckAt = "unitizing" /\ cursor \in 1..Len(Lines)
  BY AtLineIs
<1>1. DocInv'
  BY <1>0, DocKept
<1>2. LoopInv'
  <2>1. j \in Nat \ {0}
    BY <1>0
  <2> QED
    BY <1>0, <2>1 DEF CkInv, LoopInv, HybridLoops
<1>3. UnitInv'
  <2>1. Laid(units)'
    BY TextKept DEF Laid, AreHeadings
  <2>2. cursor' <= Len(Lines') + 1 /\ Reach(cursor)' = Reach(j)
    BY <1>0, TextKept DEF Reach
  <2>3. cursor' <= Len(Lines') => AreHeadings(heading, starts[cursor])'
    BY TextKept DEF AreHeadings
  <2>4. \A o \in Ink' : o < Reach(cursor)' => Covers(units, o)'
    BY <2>2, TextKept DEF Covers, Span
  <2>5. pieces' = <<>> /\ groups' = <<>> /\ drafts' = <<>>
    BY <1>0 DEF CkInv, UnitInv
  <2> QED
    BY <2>1, <2>2, <2>3, <2>4, <2>5 DEF UnitInv
<1>4. PieceInv'
  BY <1>0, PieceKept DEF CkInv
<1>5. GroupInv'
  BY <1>0, GroupKept DEF CkInv
<1>6. DraftInv'
  BY <1>0, DraftKept DEF CkInv
<1> QED
  BY <1>1, <1>2, <1>3, <1>4, <1>5, <1>6 DEF CkInv

\* A fenced block, a paragraph, a list or a piece of code.
LEMMA TakeUnitInv ==
    ASSUME CkInv, AtLine, NEW j \in (cursor + 1)..(Len(Lines) + 1),
           NEW type \in BlockTypes, TakeUnit(j, type)
    PROVE  CkInv'
<1> DEFINE from == starts[cursor]
           to == Reach(j) - 1
           u == Unit(cursor, j, type, heading)
<1>0. DocInv /\ Len(starts) = Len(Lines) /\ Len(Lines) \in Nat
      /\ cursor \in 1..Len(Lines) /\ heading \in Seq(Nat)
      /\ AreHeadings(heading, from) /\ units \in Seq(Spans)
      /\ ckAt = "unitizing"
  BY AtLineIs
<1>1. /\ from \in Nat /\ Reach(cursor) = from
      /\ Reach(j) \in Nat /\ from < Reach(j) /\ to \in Nat
      /\ to <= Len(text) /\ \A o \in Ink : o # to
      /\ \A o \in Ink : o \in from..(to - 1) => HasInk(from, to)
  BY <1>0, UnitIs
<1>2. UNCHANGED <<docVars, ckAt, chunked, pos, pieces, groups, drafts>>
      /\ cursor' = j /\ heading' = heading
      /\ units' = IF HasInk(from, to) THEN Append(units, u) ELSE units
  BY DEF TakeUnit, Unit
<1>3. Laid(units) /\ (\A i \in DOMAIN units : units[i].to < from)
      /\ \A o \in Ink : o < from => Covers(units, o)
  BY <1>0, <1>1 DEF CkInv, UnitInv
<1>4. \A i \in DOMAIN units : units[i].to \in Nat
  BY <1>0, SpanTypes
<1>5. \A o \in Ink : o \in Nat
  BY <1>0, JoinedText
<1>6. j <= Len(Lines) => AreHeadings(heading', starts[j])
  <2> SUFFICES ASSUME j <= Len(Lines) PROVE AreHeadings(heading, starts[j])
    BY <1>2
  <2>1. j \in 1..(Len(starts) + 1) /\ j <= Len(starts)
    BY <1>0
  <2>2. starts[j] = Reach(j)
    BY <1>0, <2>1, ReachIs
  <2>3. from \in Int /\ starts[j] \in Int /\ from <= starts[j]
    BY <1>1, <2>2
  <2> QED
    BY <1>0, <2>3, HeadingsStay
<1>7. u = [from |-> from, to |-> to, type |-> type, path |-> heading]
  BY DEF Unit
<1>8. u \in Spans /\ u.from = from /\ u.to = to /\ u.path = heading
  BY <1>0, <1>1, <1>7 DEF Spans
<1> HIDE DEF u, from, to
<1>9. CASE HasInk(from, to)
  <2>1. from < to
    <3>1. PICK o \in from..(to - 1) : TRUE
      BY <1>9 DEF HasInk
    <3> QED
      BY <1>1, <3>1
  <2>2. \A i \in DOMAIN units : units[i].to <= u.from
    BY <1>1, <1>3, <1>4, <1>8
  <2>3. Laid(Append(units, u))
    BY <1>0, <1>1, <1>3, <1>8, <2>1, <2>2, LaidAppend
  <2>4. units' = Append(units, u)
    BY <1>2, <1>9
  <2>5. \A i \in DOMAIN units' : units'[i].to < Reach(j)
    <3>1. /\ DOMAIN units' = 1..(Len(units) + 1) /\ Len(units) \in Nat
          /\ \A i \in 1..Len(units) : units'[i] = units[i]
          /\ units'[Len(units) + 1] = u /\ DOMAIN units = 1..Len(units)
      BY <1>0, <1>8, <2>4, AppendProperties, LenProperties
    <3> SUFFICES ASSUME NEW i \in 1..(Len(units) + 1)
                 PROVE  units'[i].to < Reach(j)
      BY <3>1
    <3>2. CASE i = Len(units) + 1
      <4>1. units'[i].to = to
        BY <1>8, <3>1, <3>2
      <4> QED
        BY <1>1, <4>1 DEF to
    <3>3. CASE i # Len(units) + 1
      <4>1. i \in DOMAIN units /\ units'[i] = units[i]
        BY <3>1, <3>3
      <4> QED
        BY <1>1, <1>3, <1>4, <4>1
    <3> QED
      BY <3>2, <3>3
  <2>6. \A o \in Ink : o < Reach(j) => Covers(units', o)
    <3> SUFFICES ASSUME NEW o \in Ink, o < Reach(j)
                 PROVE  Covers(units, o) \/ o \in Span(u)
      BY <1>0, <1>8, <2>4, CoversAppend
    <3>1. CASE o < from
      BY <1>3, <3>1
    <3>2. CASE o >= from
      <4>1. o # to /\ o \in Nat
        BY <1>1, <1>5
      <4>2. o \in from..(to - 1)
        BY <1>1, <3>2, <4>1 DEF to
      <4> QED
        BY <1>8, <4>2 DEF Span
    <3> QED
      BY <1>1, <1>5, <3>1, <3>2
  <2> QED
    BY <1>0, <1>2, <1>6, <2>3, <2>4, <2>5, <2>6, UnitsGrow
<1>10. CASE ~HasInk(from, to)
  <2>1. units' = units
    BY <1>2, <1>10
  <2>2. \A i \in DOMAIN units' : units'[i].to < Reach(j)
    BY <1>1, <1>3, <1>4, <2>1
  <2>3. \A o \in Ink : o < Reach(j) => Covers(units', o)
    <3> SUFFICES ASSUME NEW o \in Ink, o < Reach(j), ~(o < from)
                 PROVE  FALSE
      BY <1>3, <2>1
    <3>1. o # to /\ o \in Nat
      BY <1>1, <1>5
    <3>2. o \in from..(to - 1)
      BY <1>1, <3>1 DEF to
    <3> QED
      BY <1>1, <1>10, <3>2
  <2> QED
    BY <1>0, <1>2, <1>3, <1>6, <2>1, <2>2, <2>3, UnitsGrow
<1> QED
  BY <1>9, <1>10

\* A fenced block, closed or not.
LEMMA FenceStep ==
    ASSUME CkInv, TakeFence
    PROVE  CkInv'
<1>1. AtLine /\ Len(Lines) \in Nat /\ cursor \in 1..Len(Lines)
  BY AtLineIs DEF TakeFence
<1>2. FenceEnd(cursor) \in (cursor + 1)..(Len(Lines) + 1)
  BY <1>1, BlockEnds
<1>3. "code_fence" \in BlockTypes /\ TakeUnit(FenceEnd(cursor), "code_fence")
  BY DEF TakeFence, BlockTypes
<1> QED
  BY <1>1, <1>2, <1>3, TakeUnitInv

\* A paragraph, a list or a piece of code.
LEMMA BlockStep ==
    ASSUME CkInv, TakeBlock
    PROVE  CkInv'
<1> DEFINE type == IF CodeMode THEN "code"
                   ELSE IF Lines[cursor] = "list" THEN "list" ELSE "paragraph"
<1>1. AtLine /\ Len(Lines) \in Nat /\ cursor \in 1..Len(Lines)
  BY AtLineIs DEF TakeBlock
<1>2. BlockEnd(cursor) \in (cursor + 1)..(Len(Lines) + 1)
  BY <1>1, BlockEnds
<1>3. type \in BlockTypes /\ TakeUnit(BlockEnd(cursor), type)
  BY DEF TakeBlock, BlockTypes
<1> HIDE DEF type
<1> QED
  BY <1>1, <1>2, <1>3, TakeUnitInv

\* A blank line has no character.
LEMMA BlankStep ==
    ASSUME CkInv, SkipBlank
    PROVE  CkInv'
<1> DEFINE j == cursor + 1
<1>0. AtLine /\ DocInv /\ Len(starts) = Len(Lines) /\ Len(Lines) \in Nat
      /\ cursor \in 1..Len(Lines) /\ heading \in Seq(Nat)
      /\ AreHeadings(heading, starts[cursor]) /\ units \in Seq(Spans)
      /\ ckAt = "unitizing" /\ Lines[cursor] = "blank"
  BY AtLineIs DEF SkipBlank
<1>1. j \in (cursor + 1)..(Len(Lines) + 1)
  BY <1>0
<1>2. /\ starts[cursor] \in Nat /\ Reach(cursor) = starts[cursor]
      /\ cursor \in DOMAIN starts
      /\ Reach(j) \in Nat /\ starts[cursor] < Reach(j)
      /\ \A o \in Ink : o # Reach(j) - 1
  BY <1>0, <1>1, UnitIs
<1>3. UNCHANGED <<docVars, ckAt, chunked, pos, pieces, groups, drafts>>
      /\ cursor' = j /\ heading' = heading /\ units' = units
  BY DEF SkipBlank
<1>4. Reach(j) = starts[cursor] + 1
  <2>1. Reach(j) = starts[cursor] + Len(Body("blank")) + 1
    BY <1>0, <1>2 DEF DocInv
  <2>2. Len(Body("blank")) = 0
    BY BodyType DEF LineKinds
  <2> QED
    BY <1>2, <2>1, <2>2
<1>5. Laid(units) /\ (\A i \in DOMAIN units : units[i].to < starts[cursor])
      /\ \A o \in Ink : o < starts[cursor] => Covers(units, o)
  BY <1>0, <1>2 DEF CkInv, UnitInv
<1>6. \A i \in DOMAIN units : units[i].to \in Nat
  BY <1>0, SpanTypes
<1>7. \A o \in Ink : o \in Nat
  BY <1>0, JoinedText
<1>8. \A i \in DOMAIN units' : units'[i].to < Reach(j)
  BY <1>2, <1>3, <1>5, <1>6
<1>9. \A o \in Ink : o < Reach(j) => Covers(units', o)
  BY <1>2, <1>3, <1>4, <1>5, <1>7
<1>10. j <= Len(Lines) => AreHeadings(heading', starts[j])
  <2> SUFFICES ASSUME j <= Len(Lines) PROVE AreHeadings(heading, starts[j])
    BY <1>3
  <2>1. j \in 1..(Len(starts) + 1) /\ j <= Len(starts)
    BY <1>0
  <2>2. starts[j] = Reach(j)
    BY <1>0, <2>1, ReachIs
  <2>3. starts[cursor] \in Int /\ starts[j] \in Int
        /\ starts[cursor] <= starts[j]
    BY <1>2, <2>2
  <2> QED
    BY <1>0, <2>3, HeadingsStay
<1> HIDE DEF j
<1> QED
  BY <1>0, <1>1, <1>3, <1>5, <1>8, <1>9, <1>10, UnitsGrow

\* What remains of the stack are headings that were in it.
LEMMA PoppedIs ==
    ASSUME NEW stack \in Seq(Nat), NEW level \in Nat
    PROVE  /\ Popped(stack, level) \in Seq(Nat)
           /\ \A n \in DOMAIN Popped(stack, level) :
                n \in DOMAIN stack /\ Popped(stack, level)[n] = stack[n]
<1> DEFINE kept == {k \in 0..Len(stack) : k > 0 => Level(stack[k]) < level}
           k == CHOOSE k \in kept : \A m \in kept : m <= k
<1>1. Len(stack) \in Nat /\ DOMAIN stack = 1..Len(stack)
  BY LenProperties
<1>2. kept \in SUBSET (0..Len(stack)) /\ kept # {}
  <2>1. 0 \in kept
    BY <1>1
  <2> QED
    BY <2>1
<1>3. k \in kept
  BY <1>1, <1>2, GreatestBelow
<1>4. Popped(stack, level) = SubSeq(stack, 1, k)
  BY DEF Popped
<1>5. k \in 0..Len(stack)
  BY <1>3
<1> HIDE DEF k, kept
<1>6. \A i \in 1..k : i \in 1..Len(stack) /\ stack[i] \in Nat
  BY <1>1, <1>5, ElementOfSeq
<1>7. /\ SubSeq(stack, 1, k) \in Seq(Nat)
      /\ Len(SubSeq(stack, 1, k)) = (IF 1 <= k THEN k - 1 + 1 ELSE 0)
      /\ \A i \in 1..(k - 1 + 1) : SubSeq(stack, 1, k)[i] = stack[1 + i - 1]
  <2>1. 1 \in Int /\ k \in Int
    BY <1>1, <1>5
  <2> QED
    BY <1>6, <2>1, SubSeqProperties
<1>8. DOMAIN SubSeq(stack, 1, k) = 1..k
  <2>1. Len(SubSeq(stack, 1, k)) = k
    BY <1>1, <1>5, <1>7
  <2> QED
    BY <1>7, <2>1, LenProperties
<1>9. \A i \in 1..k : SubSeq(stack, 1, k)[i] = stack[i]
  <2> TAKE i \in 1..k
  <2>1. i \in 1..(k - 1 + 1) /\ 1 + i - 1 = i
    BY <1>1, <1>5
  <2> QED
    BY <1>7, <2>1
<1> QED
  BY <1>1, <1>4, <1>6, <1>7, <1>8, <1>9

\* A heading is a unit of its own, below itself.
LEMMA HeadingStep ==
    ASSUME CkInv, TakeHeading
    PROVE  CkInv'
<1> DEFINE j == cursor + 1
           from == starts[cursor]
           to == Reach(j) - 1
           kept == Popped(heading, Level(cursor))
           path == Append(kept, cursor)
           u == Unit(cursor, j, "heading", path)
<1>0. AtLine /\ DocInv /\ Len(starts) = Len(Lines) /\ Len(Lines) \in Nat
      /\ cursor \in 1..Len(Lines) /\ heading \in Seq(Nat)
      /\ AreHeadings(heading, from) /\ units \in Seq(Spans)
      /\ ckAt = "unitizing" /\ Lines[cursor] \in {"h1", "h2"}
  BY AtLineIs DEF TakeHeading
<1>1. j \in (cursor + 1)..(Len(Lines) + 1)
  BY <1>0
<1>2. /\ from \in Nat /\ Reach(cursor) = from /\ cursor \in DOMAIN starts
      /\ Reach(j) \in Nat /\ from < Reach(j) /\ to \in Nat
      /\ to <= Len(text) /\ \A o \in Ink : o # to
  BY <1>0, <1>1, UnitIs
<1>3. UNCHANGED <<docVars, ckAt, chunked, pos, pieces, groups, drafts>>
      /\ cursor' = j /\ heading' = path /\ units' = Append(units, u)
  BY DEF TakeHeading
<1>4. from < to
  <2>1. Reach(j) = from + Len(Body(Lines[cursor])) + 1
    BY <1>0, <1>2 DEF DocInv
  <2>2. Len(Body(Lines[cursor])) \in Nat /\ Len(Body(Lines[cursor])) # 0
    <3>1. Lines[cursor] \in LineKinds /\ Lines[cursor] # "blank"
      BY <1>0 DEF LineKinds
    <3> QED
      BY <3>1, BodyType
  <2> QED
    BY <1>2, <2>1, <2>2
<1>5. path \in Seq(Nat) /\ AreHeadings(path, from)
  <2>1. Level(cursor) \in Nat
    BY DEF Level
  <2>2. kept \in Seq(Nat)
        /\ \A n \in DOMAIN kept : n \in DOMAIN heading /\ kept[n] = heading[n]
    BY <1>0, <2>1, PoppedIs
  <2> HIDE DEF kept
  <2>3. cursor \in Nat
    BY <1>0
  <2>4. /\ path \in Seq(Nat) /\ DOMAIN path = 1..(Len(kept) + 1)
        /\ Len(kept) \in Nat /\ DOMAIN kept = 1..Len(kept)
        /\ \A n \in 1..Len(kept) : path[n] = kept[n]
        /\ path[Len(kept) + 1] = cursor
    BY <2>2, <2>3, AppendProperties, LenProperties
  <2> HIDE DEF path
  <2>5. ASSUME NEW n \in 1..(Len(kept) + 1)
        PROVE  /\ path[n] \in DOMAIN starts
               /\ Lines[path[n]] \in {"h1", "h2"} /\ starts[path[n]] <= from
    <3>1. CASE n = Len(kept) + 1
      <4>1. path[n] = cursor
        BY <2>4, <3>1
      <4> QED
        BY <1>0, <1>2, <4>1
    <3>2. CASE n # Len(kept) + 1
      <4>1. n \in DOMAIN kept /\ path[n] = kept[n]
        BY <2>4, <3>2
      <4>2. n \in DOMAIN heading /\ path[n] = heading[n]
        BY <2>2, <4>1
      <4> QED
        BY <1>0, <4>2 DEF AreHeadings
    <3> QED
      BY <3>1, <3>2
  <2> QED
    BY <2>4, <2>5 DEF AreHeadings
<1> HIDE DEF path
<1>6. Laid(units) /\ (\A i \in DOMAIN units : units[i].to < from)
      /\ \A o \in Ink : o < from => Covers(units, o)
  BY <1>0, <1>2 DEF CkInv, UnitInv
<1>7. \A i \in DOMAIN units : units[i].to \in Nat
  BY <1>0, SpanTypes
<1>8. \A o \in Ink : o \in Nat
  BY <1>0, JoinedText
<1>9. u \in Spans /\ u.from = from /\ u.to = to /\ u.path = path
  <2>1. u = [from |-> from, to |-> to, type |-> "heading", path |-> path]
    BY DEF Unit
  <2> QED
    BY <1>2, <1>5, <2>1 DEF Spans, BlockTypes
<1> HIDE DEF u, from, to
<1>10. \A i \in DOMAIN units : units[i].to <= u.from
  BY <1>2, <1>6, <1>7, <1>9
<1>11. Laid(Append(units, u))
  BY <1>0, <1>2, <1>4, <1>5, <1>6, <1>9, <1>10, LaidAppend
<1>12. \A i \in DOMAIN units' : units'[i].to < Reach(j)
  <2>1. /\ DOMAIN units' = 1..(Len(units) + 1) /\ Len(units) \in Nat
        /\ \A i \in 1..Len(units) : units'[i] = units[i]
        /\ units'[Len(units) + 1] = u /\ DOMAIN units = 1..Len(units)
    BY <1>0, <1>3, <1>9, AppendProperties, LenProperties
  <2> SUFFICES ASSUME NEW i \in 1..(Len(units) + 1)
               PROVE  units'[i].to < Reach(j)
    BY <2>1
  <2>2. CASE i = Len(units) + 1
    <3>1. units'[i].to = to
      BY <1>9, <2>1, <2>2
    <3> QED
      BY <1>2, <3>1 DEF to
  <2>3. CASE i # Len(units) + 1
    <3>1. i \in DOMAIN units /\ units'[i] = units[i]
      BY <2>1, <2>3
    <3> QED
      BY <1>2, <1>6, <1>7, <3>1
  <2> QED
    BY <2>2, <2>3
<1>13. \A o \in Ink : o < Reach(j) => Covers(units', o)
  <2> SUFFICES ASSUME NEW o \in Ink, o < Reach(j)
               PROVE  Covers(units, o) \/ o \in Span(u)
    BY <1>0, <1>3, <1>9, CoversAppend
  <2>1. CASE o < from
    BY <1>6, <2>1
  <2>2. CASE o >= from
    <3>1. o # to /\ o \in Nat
      BY <1>2, <1>8
    <3>2. o \in from..(to - 1)
      BY <1>2, <2>2, <3>1 DEF to
    <3> QED
      BY <1>9, <3>2 DEF Span
  <2> QED
    BY <1>2, <1>8, <2>1, <2>2
<1>14. j <= Len(Lines) => AreHeadings(heading', starts[j])
  <2> SUFFICES ASSUME j <= Len(Lines) PROVE AreHeadings(path, starts[j])
    BY <1>3
  <2>1. j \in 1..(Len(starts) + 1) /\ j <= Len(starts)
    BY <1>0
  <2>2. starts[j] = Reach(j)
    BY <1>0, <2>1, ReachIs
  <2>3. from \in Int /\ starts[j] \in Int /\ from <= starts[j]
    BY <1>2, <2>2
  <2> QED
    BY <1>0, <1>5, <2>3, HeadingsStay
<1> HIDE DEF j
<1> QED
  BY <1>0, <1>1, <1>3, <1>5, <1>11, <1>12, <1>13, <1>14, UnitsGrow

\* All lines are in units: every visible character waits to be split.
LEMMA UnitizeEndsStep ==
    ASSUME CkInv, UnitizeEnds
    PROVE  CkInv'
<1>0. /\ ckAt = "unitizing" /\ cursor > Len(Lines)
      /\ ckAt' = "splitting" /\ cursor' = 1 /\ pos' = 0 /\ heading' = <<>>
      /\ UNCHANGED <<docVars, chunked, units, pieces, groups, drafts>>
      /\ DocInv /\ Len(starts) = Len(Lines)
      /\ Laid(units) /\ units \in Seq(Spans)
      /\ pieces' = <<>> /\ groups' = <<>> /\ drafts' = <<>>
  BY DEF UnitizeEnds, NextLoop, CkInv, UnitInv, DocInv, Laid
<1>1. DocInv'
  BY <1>0, DocKept
<1>2. LoopInv'
  BY <1>0 DEF CkInv, LoopInv, HybridLoops
<1>3. UnitInv'
  BY <1>0, UnitKept DEF CkInv
<1>4. \A o \in Ink : Covers(units, o)
  <2>1. Len(Lines) \in Nat /\ Len(text) \in Nat
        /\ \A o \in Ink : o \in Nat /\ o < Len(text)
    BY <1>0, DocTypes, JoinedText
  <2>2. cursor = Len(starts) + 1
    BY <1>0, <2>1 DEF CkInv, LoopInv, UnitInv
  <2>3. cursor \in 1..(Len(starts) + 1) /\ cursor > Len(starts)
    BY <1>0, <2>1, <2>2
  <2>4. Reach(cursor) = Len(text) + 1
    BY <1>0, <2>3, ReachIs
  <2>5. \A o \in Ink : o < Reach(cursor)
    BY <2>1, <2>4
  <2> QED
    BY <1>0, <2>5 DEF CkInv, UnitInv
<1>5. PieceInv'
  <2>1. DOMAIN pieces' = {} /\ Laid(pieces)'
    BY <1>0 DEF Laid
  <2>2. Len(units) \in Nat /\ DOMAIN units = 1..Len(units)
        /\ \A k \in DOMAIN units : units[k].from \in Nat /\ units[k].to \in Nat
    BY <1>0, SpanTypes
  <2>3. \A o \in Ink' : \E k \in DOMAIN units' : Waits(k, o)'
    <3> SUFFICES ASSUME NEW o \in Ink PROVE \E k \in DOMAIN units' : Waits(k, o)'
      BY <1>0, TextKept
    <3>1. PICK k \in DOMAIN units : o \in Span(units[k])
      BY <1>4 DEF Covers
    <3>2. k >= 1 /\ units[k].from + 0 <= o
      BY <2>2, <3>1 DEF Span
    <3>3. Waits(k, o)'
      BY <1>0, <3>1, <3>2 DEF Waits, Span
    <3> QED
      BY <1>0, <3>3
  <2> QED
    BY <1>0, <2>1, <2>2, <2>3 DEF PieceInv
<1>6. GroupInv'
  BY <1>0 DEF GroupInv
<1>7. DraftInv'
  BY <1>0 DEF DraftInv
<1> QED
  BY <1>1, <1>2, <1>3, <1>5, <1>6, <1>7 DEF CkInv

-----------------------------------------------------------------------------
(* Splitting. *)

\* rfind answers with a place in the window, or -1.
LEMMA RFindIs ==
    ASSUME NEW from, NEW size \in Nat \ {0}, NEW c
    PROVE  RFind(from, size, c) \in Int /\ RFind(from, size, c) < size
<1> DEFINE at == {o \in 0..(size - 1) : CharAt(from + o) = c}
           o1 == CHOOSE o \in at : \A q \in at : q <= o
<1>1. at \in SUBSET (0..(size - 1)) /\ size - 1 \in Nat
  OBVIOUS
<1>2. at # {} => o1 \in at
  BY <1>1, GreatestBelow
<1>3. at # {} => o1 \in 0..(size - 1)
  BY <1>2
<1>4. RFind(from, size, c) = IF at = {} THEN -1 ELSE o1
  BY DEF RFind
<1> HIDE DEF at, o1
<1> QED
  BY <1>3, <1>4

\* A cut takes something, stays in the unit and within the budget.
LEMMA CutIs ==
    ASSUME NEW from \in Nat, NEW to \in Nat, NEW max \in Nat \ {0}, from < to
    PROVE  /\ Cut(from, to, max) \in 1..max /\ from + Cut(from, to, max) <= to
<1> DEFINE nl == RFind(from, max, "newline")
           sp == RFind(from, max, "space")
           at == IF nl < max \div 4 THEN sp ELSE nl
           q == max \div 4
<1>1. nl \in Int /\ nl < max /\ sp \in Int /\ sp < max
  BY RFindIs
<1>2. q \in Nat
  OBVIOUS
<1>3. Cut(from, to, max) = IF to - from <= max THEN to - from
                           ELSE IF at < q THEN max ELSE at + 1
  BY DEF Cut
<1>4. at \in Int /\ at < max
  BY <1>1
<1> HIDE DEF nl, sp, at, q
<1> QED
  BY <1>2, <1>3, <1>4

\* What _split_oversized meets at its next unit.
LEMMA AtUnitIs ==
    ASSUME CkInv, AtUnit
    PROVE  /\ ckAt = "splitting" /\ DocInv /\ Len(starts) = Len(Lines)
           /\ units \in Seq(Spans) /\ Laid(units) /\ cursor \in DOMAIN units
           /\ units[cursor] \in Spans
           /\ pieces \in Seq(Spans) /\ Laid(pieces) /\ pos \in Nat
           /\ units[cursor].from \in Nat /\ units[cursor].to \in Nat
           /\ units[cursor].path \in Seq(Nat)
           /\ units[cursor].from + pos < units[cursor].to
           /\ units[cursor].to <= Len(text) /\ Len(text) \in Nat
           /\ AreHeadings(units[cursor].path, units[cursor].from)
           /\ chunked.max \in Nat \ {0}
<1>1. ckAt = "splitting" /\ cursor <= Len(units) /\ DocInv /\ Laid(units)
      /\ Laid(pieces) /\ units \in Seq(Spans) /\ pieces \in Seq(Spans)
      /\ pos \in Nat /\ cursor \in Nat \ {0} /\ chunked.max \in Nat \ {0}
      /\ Len(starts) = Len(Lines)
  BY DEF CkInv, AtUnit, UnitInv, PieceInv, LoopInv, Laid, DocInv
<1>2. cursor \in DOMAIN units
  BY <1>1, SpanTypes
<1>3. units[cursor] \in Spans /\ units[cursor].from \in Nat
      /\ units[cursor].to \in Nat /\ units[cursor].path \in Seq(Nat)
  BY <1>1, <1>2, SpanTypes
<1>4. units[cursor].from < units[cursor].to /\ units[cursor].to <= Len(text)
      /\ AreHeadings(units[cursor].path, units[cursor].from)
  BY <1>1, <1>2 DEF Laid
<1>5. pos > 0 => units[cursor].from + pos < units[cursor].to
  BY <1>1 DEF CkInv, PieceInv
<1>6. units[cursor].from + pos < units[cursor].to
  BY <1>1, <1>3, <1>4, <1>5
<1>7. Len(text) \in Nat
  BY <1>1, DocTypes
<1> QED
  BY <1>1, <1>2, <1>3, <1>4, <1>6, <1>7

\* A piece is cut off a unit, or takes what is left of it.
LEMMA PiecesGrow ==
    ASSUME CkInv, AtUnit, NEW p \in Spans,
           p.from = units[cursor].from + pos, p.from < p.to,
           p.to <= units[cursor].to, p.path = units[cursor].path,
           p.to - p.from <= chunked.max,
           pieces' = Append(pieces, p),
           \/ p.to = units[cursor].to /\ cursor' = cursor + 1 /\ pos' = 0
           \/ /\ p.to < units[cursor].to /\ Oversized(units[cursor])
              /\ cursor' = cursor /\ pos' = p.to - units[cursor].from,
           UNCHANGED <<docVars, ckAt, chunked, heading, units, groups, drafts>>
    PROVE  CkInv'
<1> DEFINE u == units[cursor]
<1>0. /\ ckAt = "splitting" /\ DocInv /\ Len(starts) = Len(Lines)
      /\ units \in Seq(Spans) /\ Laid(units) /\ cursor \in DOMAIN units
      /\ pieces \in Seq(Spans) /\ Laid(pieces) /\ pos \in Nat
      /\ u.from \in Nat /\ u.to \in Nat /\ u.from + pos < u.to
      /\ u.to <= Len(text) /\ AreHeadings(u.path, u.from)
      /\ chunked.max \in Nat \ {0} /\ Len(text) \in Nat
  BY AtUnitIs
<1>1. p.from \in Nat /\ p.to \in Nat
  BY DEF Spans
<1>2. /\ Len(units) \in Nat /\ DOMAIN units = 1..Len(units)
      /\ \A k \in DOMAIN units : units[k].from \in Nat /\ units[k].to \in Nat
      /\ Len(pieces) \in Nat /\ DOMAIN pieces = 1..Len(pieces)
      /\ \A i \in DOMAIN pieces : pieces[i].from \in Nat /\ pieces[i].to \in Nat
  BY <1>0, SpanTypes
<1>3. \A i \in DOMAIN pieces : \A k \in DOMAIN units :
        k >= cursor =>
           pieces[i].to <= units[k].from + (IF k = cursor THEN pos ELSE 0)
  BY <1>0 DEF CkInv, PieceInv
<1>4. \A i \in DOMAIN pieces : pieces[i].to <= p.from
  <2> SUFFICES ASSUME NEW i \in DOMAIN pieces PROVE pieces[i].to <= p.from
    OBVIOUS
  <2>1. cursor >= cursor
    BY <1>0, <1>2
  <2>2. pieces[i].to <= units[cursor].from + (IF cursor = cursor THEN pos ELSE 0)
    BY <1>0, <1>3, <2>1
  <2> QED
    BY <2>2
<1>5. /\ DOMAIN pieces' = 1..(Len(pieces) + 1)
      /\ \A i \in 1..Len(pieces) : pieces'[i] = pieces[i]
      /\ pieces'[Len(pieces) + 1] = p
  BY <1>0, AppendProperties
<1>6. \A i \in DOMAIN pieces' : \/ i \in DOMAIN pieces /\ pieces'[i] = pieces[i]
                                \/ pieces'[i] = p
  <2> SUFFICES ASSUME NEW i \in 1..(Len(pieces) + 1)
               PROVE  \/ i \in DOMAIN pieces /\ pieces'[i] = pieces[i]
                      \/ pieces'[i] = p
    BY <1>5
  <2>1. i \in 1..Len(pieces) \/ i = Len(pieces) + 1
    BY <1>2
  <2> QED
    BY <1>2, <1>5, <2>1
<1>7. DocInv'
  BY <1>0, DocKept
<1>8. cursor' \in Nat \ {0} /\ cursor' <= Len(units) + 1 /\ pos' \in Nat
  <2>1. p.to - u.from \in Nat
    <3>1. p.from = u.from + pos /\ p.from < p.to
      OBVIOUS
    <3>2. u.from \in Nat /\ pos \in Nat /\ p.from \in Nat /\ p.to \in Nat
      BY <1>0, <1>1
    <3> HIDE DEF u
    <3>3. u.from < p.to
      BY <3>1, <3>2
    <3> QED
      BY <3>2, <3>3
  <2>2. cursor \in Nat \ {0} /\ cursor <= Len(units)
    BY <1>0, <1>2
  <2>3. (cursor' = cursor + 1 /\ pos' = 0)
        \/ (cursor' = cursor /\ pos' = p.to - u.from)
    OBVIOUS
  <2> QED
    BY <1>2, <2>1, <2>2, <2>3
<1>9. LoopInv'
  BY <1>0, <1>8 DEF CkInv, LoopInv, HybridLoops
<1>10. UnitInv'
  BY <1>0, UnitKept DEF CkInv
<1>11. Laid(pieces')
  <2>1. AreHeadings(p.path, p.from)
    <3>1. u.from \in Int /\ p.from \in Int /\ u.from <= p.from
      BY <1>0, <1>1
    <3> QED
      BY <1>0, <3>1, HeadingsStay
  <2>2. p.to <= Len(text)
    BY <1>0, <1>1
  <2> QED
    BY <1>0, <1>4, <2>1, <2>2, LaidAppend
<1>12. PieceInv'
  <2>1. Laid(pieces)'
    BY <1>11, TextKept DEF Laid, AreHeadings
  <2>2. \A i \in DOMAIN pieces' : pieces'[i].to - pieces'[i].from <= chunked'.max
    <3>1. \A i \in DOMAIN pieces : pieces[i].to - pieces[i].from <= chunked.max
      BY DEF CkInv, PieceInv
    <3> QED
      BY <1>6, <3>1
  <2>3. pos' > 0 => /\ cursor' <= Len(units') /\ Oversized(units[cursor])'
                    /\ units'[cursor'].from + pos' < units'[cursor'].to
    <3> SUFFICES ASSUME pos' > 0
                 PROVE  /\ cursor' <= Len(units') /\ Oversized(units[cursor])'
                        /\ units'[cursor'].from + pos' < units'[cursor'].to
      OBVIOUS
    <3>1. p.to < u.to /\ Oversized(u) /\ cursor' = cursor /\ pos' = p.to - u.from
          /\ units' = units /\ chunked' = chunked
      OBVIOUS
    <3>2. u.from + pos' = p.to
      BY <1>0, <1>1, <3>1
    <3> QED
      BY <1>0, <1>2, <3>1, <3>2 DEF Oversized
  <2>4. \A i \in DOMAIN pieces' : \A k \in DOMAIN units' :
          k >= cursor' =>
             pieces'[i].to <= units'[k].from + (IF k = cursor' THEN pos' ELSE 0)
    <3> SUFFICES ASSUME NEW i \in DOMAIN pieces', NEW k \in DOMAIN units,
                        k >= cursor'
                 PROVE  pieces'[i].to
                          <= units[k].from + (IF k = cursor' THEN pos' ELSE 0)
      OBVIOUS
    <3>1. pieces'[i].to <= p.to /\ pieces'[i].to \in Nat
      BY <1>1, <1>2, <1>4, <1>6
    <3>2. k > cursor => p.to <= units[k].from
      <4>1. k > cursor => u.to <= units[k].from
        <5>1. cursor \in Nat /\ k \in Nat
          BY <1>0, <1>2
        <5> QED
          BY <1>0, <5>1 DEF Laid
      <4>2. units[k].from \in Nat /\ u.to \in Nat /\ p.to <= u.to
        BY <1>0, <1>2
      <4> QED
        BY <1>1, <4>1, <4>2
    <3>3. CASE p.to = u.to /\ cursor' = cursor + 1 /\ pos' = 0
      <4>1. k > cursor
        BY <1>0, <1>2, <3>3
      <4> QED
        BY <1>1, <1>2, <3>1, <3>2, <3>3, <4>1
    <3>4. CASE cursor' = cursor /\ pos' = p.to - u.from
      <4>1. CASE k = cursor
        <5>1. units[k].from + (IF k = cursor' THEN pos' ELSE 0) = p.to
          BY <1>0, <1>1, <3>4, <4>1
        <5> QED
          BY <3>1, <5>1
      <4>2. CASE k > cursor
        <5>1. units[k].from + (IF k = cursor' THEN pos' ELSE 0) = units[k].from
          BY <1>0, <1>2, <3>4, <4>2
        <5> QED
          BY <1>1, <1>2, <3>1, <3>2, <4>2, <5>1
      <4> QED
        BY <1>0, <1>2, <3>4, <4>1, <4>2
    <3> QED
      BY <3>3, <3>4
  <2>5. \A o \in Ink' :
          Covers(pieces, o)' \/ \E k \in DOMAIN units' : Waits(k, o)'
    <3> SUFFICES ASSUME NEW o \in Ink
                 PROVE  Covers(pieces, o)' \/ \E k \in DOMAIN units' : Waits(k, o)'
      BY TextKept
    <3>0. o \in Nat
      BY <1>0, JoinedText
    <3>1. Covers(pieces', o) <=> Covers(pieces, o) \/ o \in Span(p)
      BY <1>0, CoversAppend
    <3>2. Covers(pieces, o)' <=> Covers(pieces', o)
      BY DEF Covers, Span
    <3>3. Covers(pieces, o) \/ \E k \in DOMAIN units : Waits(k, o)
      BY <1>0 DEF CkInv, PieceInv
    <3>4. CASE \E k \in DOMAIN units : Waits(k, o) /\ o \notin Span(p)
      <4>1. PICK k \in DOMAIN units : /\ k >= cursor /\ o \in Span(units[k])
                                      /\ k = cursor => u.from + pos <= o
        BY <3>4 DEF Waits
      <4>2. o \notin Span(p)
        BY <3>4
      <4>3. CASE k = cursor
        <5>1. o >= p.to /\ o < u.to
          <6>1. o \in u.from..(u.to - 1) /\ u.from + pos <= o
            BY <4>1, <4>3 DEF Span
          <6>2. ~(o \in p.from..(p.to - 1))
            BY <4>2 DEF Span
          <6> QED
            <7>1. p.from <= o
              BY <6>1
            <7>2. o <= u.to - 1
              BY <1>0, <3>0, <6>1
            <7>3. o >= p.to
              BY <1>1, <3>0, <6>2, <7>1
            <7>4. o < u.to
              <8>1. u.to \in Nat
                BY <1>0
              <8> QED
                BY <3>0, <7>2, <8>1
            <7> QED
              BY <7>3, <7>4
        <5>2. p.to < u.to /\ cursor' = cursor /\ pos' = p.to - u.from
          <6>1. o \in Nat /\ p.to \in Nat /\ u.to \in Nat
            BY <1>0, <1>1, <3>0
          <6>2. p.to < u.to /\ p.to # u.to
            BY <5>1, <6>1
          <6> QED
            BY <6>2
        <5>3. u.from + pos' <= o
          BY <1>0, <1>1, <3>0, <5>1, <5>2
        <5>4. Waits(k, o)'
          BY <1>0, <1>2, <4>1, <4>3, <5>2, <5>3 DEF Waits, Span
        <5> QED
          BY <5>4
      <4>4. CASE k > cursor
        <5>1. k >= cursor' /\ (k = cursor' => pos' = 0)
          BY <1>0, <1>2, <4>4
        <5>2. units[k].from + 0 <= o
          BY <1>2, <3>0, <4>1 DEF Span
        <5>3. Waits(k, o)'
          BY <4>1, <5>1, <5>2 DEF Waits, Span
        <5> QED
          BY <5>3
      <4> QED
        BY <1>0, <1>2, <4>1, <4>3, <4>4
    <3> QED
      BY <3>1, <3>2, <3>3, <3>4
  <2>6. groups' = <<>> /\ drafts' = <<>> /\ cursor' <= Len(units') + 1
    BY <1>0, <1>8 DEF CkInv, PieceInv
  <2> QED
    BY <1>0, <2>1, <2>2, <2>3, <2>4, <2>5, <2>6 DEF PieceInv
<1>13. GroupInv'
  BY <1>0 DEF GroupInv
<1>14. DraftInv'
  BY <1>0, DraftKept DEF CkInv
<1> QED
  BY <1>7, <1>9, <1>10, <1>12, <1>13, <1>14 DEF CkInv

\* A unit within the budget is one piece.
LEMMA KeepStep ==
    ASSUME CkInv, KeepUnit
    PROVE  CkInv'
<1>1. AtUnit /\ ~Oversized(units[cursor]) /\ pieces' = Append(pieces, units[cursor])
      /\ cursor' = cursor + 1 /\ pos' = pos
      /\ UNCHANGED <<docVars, ckAt, chunked, heading, units, groups, drafts>>
  BY DEF KeepUnit
<1>2. units[cursor] \in Spans /\ pos \in Nat /\ ckAt = "splitting"
      /\ units[cursor].from \in Nat /\ units[cursor].to \in Nat
      /\ units[cursor].from + pos < units[cursor].to
      /\ chunked.max \in Nat
  BY <1>1, AtUnitIs
<1>3. pos = 0
  BY <1>1, <1>2 DEF CkInv, PieceInv
<1>4. units[cursor].from = units[cursor].from + pos
      /\ units[cursor].from < units[cursor].to
      /\ units[cursor].to - units[cursor].from <= chunked.max
  BY <1>1, <1>2, <1>3 DEF Oversized
<1>5. units[cursor].to <= units[cursor].to
  BY <1>2
<1> QED
  BY <1>1, <1>2, <1>3, <1>4, <1>5, PiecesGrow

\* The next piece of an oversized unit.
LEMMA CutStep ==
    ASSUME CkInv, CutPiece
    PROVE  CkInv'
<1> DEFINE u == units[cursor]
           from == u.from + pos
           cut == Cut(from, u.to, chunked.max)
           to == from + cut
           p == [u EXCEPT !.from = from, !.to = to, !.type = "hard_split"]
<1>1. AtUnit /\ Oversized(u) /\ pieces' = Append(pieces, p)
      /\ (IF to >= u.to THEN cursor' = cursor + 1 /\ pos' = 0
          ELSE pos' = to - u.from /\ cursor' = cursor)
      /\ UNCHANGED <<docVars, ckAt, chunked, heading, units, groups, drafts>>
  BY DEF CutPiece
<1>2. u \in Spans /\ pos \in Nat /\ u.from \in Nat /\ u.to \in Nat
      /\ from < u.to /\ from \in Nat /\ chunked.max \in Nat \ {0}
  BY <1>1, AtUnitIs
<1>3. cut \in 1..chunked.max /\ from + cut <= u.to
  BY <1>2, CutIs
<1> HIDE DEF cut
<1>4. to \in Nat /\ from < to /\ to <= u.to /\ to - from <= chunked.max
  BY <1>2, <1>3
<1>5. p \in Spans /\ p.from = from /\ p.to = to /\ p.path = u.path
  BY <1>2, <1>4 DEF Spans, BlockTypes
<1>6. \/ to = u.to /\ cursor' = cursor + 1 /\ pos' = 0
      \/ /\ to < u.to /\ Oversized(u)
         /\ cursor' = cursor /\ pos' = to - u.from
  BY <1>1, <1>2, <1>4
<1> HIDE DEF p, to
<1> QED
  BY <1>1, <1>4, <1>5, <1>6, PiecesGrow

\* All units are split: the pieces cover what can be seen.
LEMMA SplitEndsStep ==
    ASSUME CkInv, SplitEnds
    PROVE  CkInv'
<1>0. /\ ckAt = "splitting" /\ cursor > Len(units)
      /\ ckAt' = "packing" /\ cursor' = 1 /\ pos' = 0 /\ heading' = <<>>
      /\ UNCHANGED <<docVars, chunked, units, pieces, groups, drafts>>
      /\ DocInv /\ Len(starts) = Len(Lines)
      /\ Laid(pieces) /\ pieces \in Seq(Spans) /\ units \in Seq(Spans)
      /\ groups' = <<>> /\ drafts' = <<>> /\ cursor \in Nat
  BY DEF SplitEnds, NextLoop, CkInv, PieceInv, UnitInv, DocInv, LoopInv, Laid
<1>1. DocInv'
  BY <1>0, DocKept
<1>2. LoopInv'
  BY <1>0 DEF CkInv, LoopInv, HybridLoops
<1>3. UnitInv'
  BY <1>0, UnitKept DEF CkInv
<1>4. \A o \in Ink : Covers(pieces, o)
  <2>1. \A k \in DOMAIN units : ~(k >= cursor)
    <3>1. Len(units) \in Nat /\ DOMAIN units = 1..Len(units)
      BY <1>0, SpanTypes
    <3> QED
      BY <1>0, <3>1
  <2> QED
    BY <1>0, <2>1 DEF CkInv, PieceInv, Waits
<1>5. PieceInv'
  <2>1. Laid(pieces)'
    BY <1>0, TextKept DEF Laid, AreHeadings
  <2>2. \A o \in Ink' : Covers(pieces, o)'
    BY <1>0, <1>4, TextKept DEF Covers, Span
  <2> QED
    BY <1>0, <2>1, <2>2 DEF CkInv, PieceInv
<1>6. GroupInv'
  <2>1. Len(pieces) \in Nat
    BY <1>0, SpanTypes
  <2>2. groups' \in Seq(Groups) /\ DOMAIN groups' = {} /\ 1..(1 - 1) = {}
    BY <1>0
  <2>3. GroupsReach(cursor)'
    BY <1>0, <2>2 DEF GroupsReach
  <2>4. cursor' <= Len(pieces') + 1
    BY <1>0, <2>1
  <2> QED
    BY <1>0, <2>3, <2>4 DEF GroupInv
<1>7. DraftInv'
  BY <1>0 DEF DraftInv
<1> QED
  BY <1>1, <1>2, <1>3, <1>5, <1>6, <1>7 DEF CkInv

-----------------------------------------------------------------------------
(* Packing. *)

\* The groups, one by one.
LEMMA GroupTypes ==
    ASSUME groups \in Seq(Groups)
    PROVE  /\ Len(groups) \in Nat /\ DOMAIN groups = 1..Len(groups)
           /\ \A k \in DOMAIN groups : /\ groups[k] \in Groups
                                       /\ groups[k].lo \in Nat
                                       /\ groups[k].hi \in Nat
<1>1. Len(groups) \in Nat /\ DOMAIN groups = 1..Len(groups)
  BY LenProperties
<1>2. \A k \in DOMAIN groups : groups[k] \in Groups
  BY <1>1, ElementOfSeq
<1> QED
  BY <1>1, <1>2 DEF Groups

\* What _pack meets at its next piece.
LEMMA PackStarts ==
    ASSUME CkInv, PackPiece
    PROVE  /\ ckAt = "packing" /\ DocInv /\ Len(starts) = Len(Lines)
           /\ pieces \in Seq(Spans) /\ Len(pieces) \in Nat
           /\ DOMAIN pieces = 1..Len(pieces) /\ cursor \in 1..Len(pieces)
           /\ GroupsReach(cursor) /\ groups \in Seq(Groups)
           /\ chunked.max \in Nat
           /\ pieces[cursor].to - pieces[cursor].from <= chunked.max
<1>1. ckAt = "packing" /\ DocInv /\ Len(starts) = Len(Lines)
      /\ pieces \in Seq(Spans) /\ cursor \in Nat \ {0}
      /\ cursor <= Len(pieces) /\ GroupsReach(cursor) /\ groups \in Seq(Groups)
      /\ chunked.max \in Nat
      /\ \A i \in DOMAIN pieces : pieces[i].to - pieces[i].from <= chunked.max
  BY DEF PackPiece, CkInv, DocInv, PieceInv, Laid, LoopInv, GroupInv, GroupsReach
<1>2. Len(pieces) \in Nat /\ DOMAIN pieces = 1..Len(pieces)
  BY <1>1, SpanTypes
<1>3. cursor \in 1..Len(pieces)
  BY <1>1, <1>2
<1> QED
  BY <1>1, <1>2, <1>3

\* The groups reach the next piece, whichever of the two happens.
LEMMA GroupsGrow ==
    ASSUME CkInv, PackPiece
    PROVE  GroupsReach(cursor)'
<1> DEFINE n == Len(groups)
           g == [lo |-> cursor, hi |-> cursor]
<1>0. /\ pieces \in Seq(Spans) /\ Len(pieces) \in Nat
      /\ DOMAIN pieces = 1..Len(pieces) /\ cursor \in 1..Len(pieces)
      /\ GroupsReach(cursor) /\ groups \in Seq(Groups) /\ chunked.max \in Nat
      /\ pieces[cursor].to - pieces[cursor].from <= chunked.max
      /\ cursor' = cursor + 1 /\ pieces' = pieces /\ chunked' = chunked
      /\ cursor \in Nat
  BY PackStarts DEF PackPiece
<1>1. n \in Nat /\ DOMAIN groups = 1..n
      /\ \A k \in DOMAIN groups : groups[k].lo \in Nat /\ groups[k].hi \in Nat
                                  /\ groups[k] \in Groups
  BY <1>0, GroupTypes
<1>2. /\ \A k \in DOMAIN groups :
           /\ 1 <= groups[k].lo /\ groups[k].lo <= groups[k].hi
           /\ groups[k].hi < cursor
           /\ GroupTo(groups[k]) - GroupFrom(groups[k]) <= chunked.max
      /\ \A j, k \in DOMAIN groups : j < k => groups[j].hi < groups[k].lo
      /\ \A i \in 1..(cursor - 1) :
           \E k \in DOMAIN groups : groups[k].lo <= i /\ i <= groups[k].hi
      /\ groups # <<>> => groups[n].hi = cursor - 1
  BY <1>0 DEF GroupsReach
<1>3. CASE groups # <<>> /\ Fits(groups[n], cursor)
  <2> DEFINE h == [groups[n] EXCEPT !.hi = cursor]
  <2>1. n \in DOMAIN groups /\ n # 0
    BY <1>0, <1>1, <1>3, EmptySeq
  <2>2. groups' = [groups EXCEPT ![n] = h]
    BY <1>3 DEF PackPiece
  <2>3. h \in Groups /\ h.lo = groups[n].lo /\ h.hi = cursor
    BY <1>0, <1>1, <2>1 DEF Groups
  <2> HIDE DEF h, n
  <2>4. groups' \in Seq(Groups) /\ DOMAIN groups' = 1..n /\ Len(groups') = n
        /\ \A k \in 1..n : groups'[k] = IF k = n THEN h ELSE groups[k]
    <3>1. n \in 1..Len(groups)
      BY <1>1, <2>1 DEF n
    <3> QED
      BY <1>0, <1>1, <2>2, <2>3, <3>1, ExceptSeq, LenProperties DEF n
  <2>5. \A k \in 1..n : /\ groups'[k].lo = groups[k].lo
                        /\ groups'[k].hi = IF k = n THEN cursor ELSE groups[k].hi
    BY <2>3, <2>4
  <2>6. ASSUME NEW k \in 1..n
        PROVE  /\ 1 <= groups'[k].lo /\ groups'[k].lo <= groups'[k].hi
               /\ groups'[k].hi < cursor + 1
               /\ pieces[groups'[k].hi].to - pieces[groups'[k].lo].from
                    <= chunked.max
    <3>1. 1 <= groups[k].lo /\ groups[k].lo <= groups[k].hi
          /\ groups[k].hi < cursor
          /\ pieces[groups[k].hi].to - pieces[groups[k].lo].from <= chunked.max
          /\ groups[k].lo \in Nat /\ groups[k].hi \in Nat
      BY <1>1, <1>2 DEF GroupTo, GroupFrom
    <3>2. k = n => pieces[cursor].to - pieces[groups[k].lo].from <= chunked.max
      BY <1>3 DEF Fits, n
    <3>3. CASE k = n
      BY <1>0, <2>5, <3>1, <3>2, <3>3
    <3>4. CASE k # n
      BY <1>0, <2>5, <3>1, <3>4
    <3> QED
      BY <3>3, <3>4
  <2>7. \A j, k \in 1..n : j < k => groups'[j].hi < groups'[k].lo
    <3> SUFFICES ASSUME NEW j \in 1..n, NEW k \in 1..n, j < k
                 PROVE  groups'[j].hi < groups'[k].lo
      OBVIOUS
    <3>1. j # n
      BY <1>1
    <3> QED
      BY <1>1, <1>2, <2>5, <3>1
  <2>8. ASSUME NEW i \in 1..cursor
        PROVE  \E k \in 1..n : groups'[k].lo <= i /\ i <= groups'[k].hi
    <3>1. CASE i = cursor
      <4>1. groups'[n].lo <= i /\ i <= groups'[n].hi
        <5>1. groups[n].lo <= groups[n].hi /\ groups[n].hi < cursor
              /\ groups[n].lo \in Nat /\ groups[n].hi \in Nat
          BY <1>1, <1>2, <2>1
        <5>2. groups'[n].lo = groups[n].lo /\ groups'[n].hi = cursor
          BY <1>1, <2>1, <2>5
        <5> QED
          BY <1>0, <3>1, <5>1, <5>2
      <4> QED
        BY <1>1, <2>1, <4>1
    <3>2. CASE i # cursor
      <4>1. i \in 1..(cursor - 1)
        BY <1>0, <3>2
      <4>2. PICK k \in 1..n : groups[k].lo <= i /\ i <= groups[k].hi
        BY <1>1, <1>2, <4>1
      <4>3. groups'[k].lo <= i /\ i <= groups'[k].hi
        <5>1. groups'[k].lo = groups[k].lo
              /\ groups'[k].hi = IF k = n THEN cursor ELSE groups[k].hi
          BY <2>5
        <5>2. cursor \in Nat /\ i <= cursor
          BY <1>0
        <5> QED
          BY <4>2, <5>1, <5>2
      <4> QED
        BY <4>3
    <3> QED
      BY <3>1, <3>2
  <2>9. groups'[Len(groups')].hi = (cursor + 1) - 1 /\ (cursor + 1) - 1 = cursor
    BY <1>0, <1>1, <2>1, <2>4, <2>5
  <2> QED
    BY <1>0, <2>4, <2>6, <2>7, <2>8, <2>9 DEF GroupsReach, GroupTo, GroupFrom
<1>4. CASE ~(groups # <<>> /\ Fits(groups[n], cursor))
  <2>1. groups' = Append(groups, g) /\ g \in Groups /\ g.lo = cursor
        /\ g.hi = cursor
    BY <1>0, <1>4 DEF PackPiece, Groups
  <2> HIDE DEF g, n
  <2>2. /\ groups' \in Seq(Groups) /\ DOMAIN groups' = 1..(n + 1)
        /\ Len(groups') = n + 1
        /\ \A k \in 1..n : groups'[k] = groups[k]
        /\ groups'[n + 1] = g
    BY <1>0, <1>1, <2>1, AppendProperties, LenProperties DEF n
  <2>3. ASSUME NEW k \in 1..(n + 1)
        PROVE  /\ 1 <= groups'[k].lo /\ groups'[k].lo <= groups'[k].hi
               /\ groups'[k].hi < cursor + 1
               /\ pieces[groups'[k].hi].to - pieces[groups'[k].lo].from
                    <= chunked.max
    <3>1. CASE k = n + 1
      BY <1>0, <2>1, <2>2, <3>1
    <3>2. CASE k # n + 1
      <4>1. k \in DOMAIN groups /\ groups'[k] = groups[k]
        BY <1>1, <2>2, <3>2
      <4>2. 1 <= groups[k].lo /\ groups[k].lo <= groups[k].hi
            /\ groups[k].hi < cursor
            /\ pieces[groups[k].hi].to - pieces[groups[k].lo].from <= chunked.max
            /\ groups[k].lo \in Nat /\ groups[k].hi \in Nat
        BY <1>1, <1>2, <4>1 DEF GroupTo, GroupFrom
      <4> QED
        BY <1>0, <4>1, <4>2
    <3> QED
      BY <3>1, <3>2
  <2>4. \A j, k \in 1..(n + 1) : j < k => groups'[j].hi < groups'[k].lo
    <3> SUFFICES ASSUME NEW j \in 1..(n + 1), NEW k \in 1..(n + 1), j < k
                 PROVE  groups'[j].hi < groups'[k].lo
      OBVIOUS
    <3>1. j \in DOMAIN groups /\ groups'[j] = groups[j]
      BY <1>1, <2>2
    <3>2. CASE k = n + 1
      BY <1>2, <2>1, <2>2, <3>1, <3>2
    <3>3. CASE k # n + 1
      <4>1. k \in DOMAIN groups /\ groups'[k] = groups[k]
        BY <1>1, <2>2, <3>3
      <4> QED
        BY <1>2, <3>1, <4>1
    <3> QED
      BY <3>2, <3>3
  <2>5. ASSUME NEW i \in 1..cursor
        PROVE  \E k \in 1..(n + 1) : groups'[k].lo <= i /\ i <= groups'[k].hi
    <3>1. CASE i = cursor
      <4>1. groups'[n + 1].lo <= i /\ i <= groups'[n + 1].hi
        BY <1>0, <2>1, <2>2, <3>1
      <4> QED
        BY <1>1, <4>1
    <3>2. CASE i # cursor
      <4>1. i \in 1..(cursor - 1)
        BY <1>0, <3>2
      <4>2. PICK k \in 1..n : groups[k].lo <= i /\ i <= groups[k].hi
        BY <1>1, <1>2, <4>1
      <4>3. k \in 1..(n + 1) /\ groups'[k].lo <= i /\ i <= groups'[k].hi
        BY <1>1, <2>2, <4>2
      <4> QED
        BY <4>3
    <3> QED
      BY <3>1, <3>2
  <2>6. groups'[Len(groups')].hi = (cursor + 1) - 1 /\ (cursor + 1) - 1 = cursor
    BY <1>0, <2>1, <2>2
  <2> QED
    BY <1>0, <2>2, <2>3, <2>4, <2>5, <2>6 DEF GroupsReach, GroupTo, GroupFrom
<1> QED
  BY <1>3, <1>4

\* A piece joins the last group or begins another one.
LEMMA PackPieceStep ==
    ASSUME CkInv, PackPiece
    PROVE  CkInv'
<1>0. /\ ckAt = "packing" /\ DocInv /\ Len(starts) = Len(Lines)
      /\ Len(pieces) \in Nat /\ cursor \in 1..Len(pieces)
      /\ UNCHANGED <<docVars, ckAt, chunked, pos, heading, units, pieces, drafts>>
      /\ cursor' = cursor + 1
  BY PackStarts DEF PackPiece
<1>1. DocInv'
  BY <1>0, DocKept
<1>2. LoopInv'
  BY <1>0 DEF CkInv, LoopInv, HybridLoops
<1>3. UnitInv'
  BY <1>0, UnitKept DEF CkInv
<1>4. PieceInv'
  BY <1>0, PieceKept DEF CkInv
<1>5. GroupInv'
  <2>1. GroupsReach(cursor)'
    BY GroupsGrow
  <2>2. cursor' <= Len(pieces') + 1 /\ drafts' = <<>>
    BY <1>0 DEF CkInv, GroupInv
  <2> QED
    BY <1>0, <2>1, <2>2 DEF GroupInv
<1>6. DraftInv'
  BY <1>0, DraftKept DEF CkInv
<1> QED
  BY <1>1, <1>2, <1>3, <1>4, <1>5, <1>6 DEF CkInv

\* All pieces are packed: every visible character waits to be drafted.
LEMMA PackEndsStep ==
    ASSUME CkInv, PackEnds
    PROVE  CkInv'
<1>0. /\ ckAt = "packing" /\ cursor > Len(pieces)
      /\ ckAt' = "drafting" /\ cursor' = 1 /\ pos' = 0 /\ heading' = <<>>
      /\ UNCHANGED <<docVars, chunked, units, pieces, groups, drafts>>
      /\ DocInv /\ Len(starts) = Len(Lines) /\ pieces \in Seq(Spans)
      /\ drafts' = <<>> /\ cursor \in Nat /\ cursor <= Len(pieces) + 1
      /\ GroupsReach(cursor) /\ groups \in Seq(Groups)
      /\ \A o \in Ink : Covers(pieces, o)
  BY DEF PackEnds, NextLoop, CkInv, PieceInv, DocInv, LoopInv, GroupInv, Laid,
         GroupsReach
<1>1. DocInv'
  BY <1>0, DocKept
<1>2. LoopInv'
  BY <1>0 DEF CkInv, LoopInv, HybridLoops
<1>3. UnitInv'
  BY <1>0, UnitKept DEF CkInv
<1>4. PieceInv'
  BY <1>0, PieceKept DEF CkInv
<1>5. Len(pieces) \in Nat /\ DOMAIN pieces = 1..Len(pieces)
  BY <1>0, SpanTypes
<1>6. GroupInv'
  <2>1. cursor = Len(pieces) + 1
    BY <1>0, <1>5
  <2>2. GroupsReach(Len(pieces) + 1)
    BY <1>0, <2>1
  <2>3. GroupsReach(Len(pieces) + 1)'
    BY <1>0, <2>2 DEF GroupsReach, GroupTo, GroupFrom
  <2> QED
    BY <1>0, <2>3 DEF GroupInv
<1>7. DraftInv'
  <2>1. drafts' \in Seq(Drafts) /\ DOMAIN drafts' = {}
    BY <1>0
  <2>2. Len(groups) \in Nat /\ DOMAIN groups = 1..Len(groups)
        /\ \A k \in DOMAIN groups : groups[k].lo \in Nat /\ groups[k].hi \in Nat
    BY <1>0, GroupTypes
  <2>3. \A o \in Ink' : \E k \in DOMAIN groups' : Pending(k, o)'
    <3> SUFFICES ASSUME NEW o \in Ink
                 PROVE  \E k \in DOMAIN groups' : Pending(k, o)'
      BY <1>0, TextKept
    <3>1. PICK i \in DOMAIN pieces : o \in Span(pieces[i])
      BY <1>0 DEF Covers
    <3>2. i \in 1..(cursor - 1)
      BY <1>0, <1>5
    <3>3. PICK k \in DOMAIN groups : groups[k].lo <= i /\ i <= groups[k].hi
      BY <1>0, <3>2 DEF GroupsReach
    <3>4. i \in groups[k].lo..groups[k].hi /\ k >= 1
      BY <1>5, <2>2, <3>3
    <3>5. Pending(k, o)'
      BY <1>0, <3>1, <3>4 DEF Pending, Span
    <3> QED
      BY <1>0, <3>5
  <2>4. cursor' <= Len(groups') + 1
    BY <1>0, <2>2
  <2> QED
    BY <1>0, <2>1, <2>3, <2>4 DEF DraftInv
<1> QED
  BY <1>1, <1>2, <1>3, <1>4, <1>6, <1>7 DEF CkInv

-----------------------------------------------------------------------------
(* Drafting. *)

\* A draft of a span with ink tells the truth about its lines and headings.
LEMMA DraftIs ==
    ASSUME DocInv, NEW from \in Nat, NEW to \in Nat, from < to, to <= Len(text),
           to - from <= chunked.max, HasInk(from, to),
           NEW type \in DraftTypes, NEW path \in Seq(Nat),
           AreHeadings(path, to - 1)
    PROVE  /\ Draft(from, to, type, path) \in Drafts
           /\ Draft(from, to, type, path).from = from
           /\ Draft(from, to, type, path).to = to
           /\ DraftOK(Draft(from, to, type, path))
<1> DEFINE d == Draft(from, to, type, path)
           q == IF to - 1 > from THEN to - 1 ELSE from
<1>0. Len(text) \in Nat
  BY DocTypes
<1>1. q = to - 1
  OBVIOUS
<1>2. d = [from |-> from, to |-> to, type |-> type, path |-> path,
           first |-> LineOf(from), last |-> LineOf(to - 1)]
  BY <1>1 DEF Draft
<1>3. from \in 0..(Len(text) - 1) /\ to - 1 \in 0..(Len(text) - 1)
  BY <1>0
<1>4. /\ LineOf(from) \in Nat /\ LineOf(from) = LineByCounting(from)
      /\ LineOf(to - 1) \in Nat /\ LineOf(to - 1) = LineByCounting(to - 1)
      /\ \A M \in DOMAIN starts : starts[M] <= to - 1 => M <= LineOf(to - 1)
  BY <1>3, LineOfIs
<1> HIDE DEF d
<1>5. d \in Drafts /\ d.from = from /\ d.to = to /\ d.path = path
      /\ d.first = LineOf(from) /\ d.last = LineOf(to - 1)
  BY <1>2, <1>4 DEF Drafts
<1>6. Span(d) \cap Ink # {}
  <2>1. PICK o \in from..(to - 1) : CharAt(o) = "x"
    BY DEF HasInk
  <2>2. o \in Ink /\ o \in Span(d)
    BY <1>0, <1>5, <2>1 DEF Ink, Span
  <2> QED
    BY <2>2
<1>7. \A n \in DOMAIN path : Lines[path[n]] \in {"h1", "h2"}
                             /\ path[n] <= LineOf(to - 1)
  BY <1>4 DEF AreHeadings
<1>8. DraftOK(d)
  BY <1>4, <1>5, <1>6, <1>7 DEF DraftOK
<1> QED
  BY <1>5, <1>8 DEF d

\* Another draft behind the others.
LEMMA DraftsGrow ==
    ASSUME DraftInv, NEW d \in Drafts, DraftOK(d),
           \A i \in DOMAIN drafts :
             /\ drafts[i].from < d.from
             /\ chunked.by = "hybrid" => drafts[i].to <= d.from,
           drafts' = Append(drafts, d), UNCHANGED <<docVars, chunked>>
    PROVE  /\ drafts' \in Seq(Drafts)
           /\ \A i \in DOMAIN drafts' : DraftOK(drafts[i])'
           /\ \A i, j \in DOMAIN drafts' :
                i < j => /\ drafts'[i].from < drafts'[j].from
                         /\ chunked'.by = "hybrid" =>
                              drafts'[i].to <= drafts'[j].from
           /\ \A i \in DOMAIN drafts' :
                \/ i \in DOMAIN drafts /\ drafts'[i] = drafts[i]
                \/ drafts'[i] = d
           /\ \A o : Covers(drafts, o)' <=> Covers(drafts, o) \/ o \in Span(d)
<1> DEFINE n == Len(drafts)
<1>1. drafts \in Seq(Drafts) /\ n \in Nat /\ DOMAIN drafts = 1..n
  BY LenProperties DEF DraftInv
<1>2. /\ drafts' \in Seq(Drafts) /\ DOMAIN drafts' = 1..(n + 1)
      /\ \A i \in 1..n : drafts'[i] = drafts[i]
      /\ drafts'[n + 1] = d
  BY <1>1, AppendProperties, LenProperties
<1>3. \A o : Covers(drafts, o)' <=> Covers(drafts, o) \/ o \in Span(d)
  <2> TAKE o
  <2>1. Covers(drafts', o) <=> Covers(drafts, o) \/ o \in Span(d)
    BY <1>1, CoversAppend
  <2>2. Covers(drafts, o)' <=> Covers(drafts', o)
    BY DEF Covers, Span
  <2> QED
    BY <2>1, <2>2
<1> HIDE DEF n
<1>4. \A i \in DOMAIN drafts' : \/ i \in DOMAIN drafts /\ drafts'[i] = drafts[i]
                                \/ i = n + 1 /\ drafts'[i] = d
  <2> SUFFICES ASSUME NEW i \in 1..(n + 1)
               PROVE  \/ i \in DOMAIN drafts /\ drafts'[i] = drafts[i]
                      \/ i = n + 1 /\ drafts'[i] = d
    BY <1>2
  <2>1. i \in 1..n \/ i = n + 1
    BY <1>1
  <2> QED
    BY <1>1, <1>2, <2>1
<1>5. \A i \in DOMAIN drafts' : DraftOK(drafts'[i])
  BY <1>4 DEF DraftInv
<1>6. \A i \in DOMAIN drafts' : DraftOK(drafts[i])'
  BY <1>5, TextKept DEF DraftOK, Span
<1>7. \A i, j \in DOMAIN drafts' :
        i < j => /\ drafts'[i].from < drafts'[j].from
                 /\ chunked'.by = "hybrid" => drafts'[i].to <= drafts'[j].from
  <2> SUFFICES ASSUME NEW i \in DOMAIN drafts', NEW j \in DOMAIN drafts', i < j
               PROVE  /\ drafts'[i].from < drafts'[j].from
                      /\ chunked.by = "hybrid" =>
                           drafts'[i].to <= drafts'[j].from
    OBVIOUS
  <2>1. i \in DOMAIN drafts /\ drafts'[i] = drafts[i]
    BY <1>1, <1>2
  <2>2. CASE j = n + 1
    BY <1>2, <2>1, <2>2
  <2>3. CASE j # n + 1
    <3>1. j \in DOMAIN drafts /\ drafts'[j] = drafts[j]
      BY <1>4, <2>3
    <3> QED
      BY <2>1, <3>1 DEF DraftInv
  <2> QED
    BY <2>2, <2>3
<1> QED
  BY <1>2, <1>3, <1>4, <1>6, <1>7

\* The group a draft is made of: its pieces lie in its span, and the groups
\* behind it begin behind its end.
LEMMA AtGroupIs ==
    ASSUME CkInv, AtGroup
    PROVE  LET g == groups[cursor] IN
           /\ ckAt = "drafting" /\ DocInv /\ Len(starts) = Len(Lines)
           /\ Len(text) \in Nat /\ pos \in Nat /\ heading \in Seq(Nat)
           /\ pieces \in Seq(Spans) /\ groups \in Seq(Groups)
           /\ cursor \in DOMAIN groups /\ cursor \in Nat
           /\ g.lo \in DOMAIN pieces /\ g.hi \in DOMAIN pieces
           /\ g.lo \in Nat /\ g.hi \in Nat /\ g.lo <= g.hi
           /\ GroupFrom(g) \in Nat /\ GroupTo(g) \in Nat
           /\ GroupFrom(g) < GroupTo(g) /\ GroupTo(g) <= Len(text)
           /\ chunked.max \in Nat \ {0}
           /\ GroupTo(g) - GroupFrom(g) <= chunked.max
           /\ \A i \in g.lo..g.hi : /\ i \in DOMAIN pieces
                                    /\ GroupFrom(g) <= pieces[i].from
                                    /\ pieces[i].to <= GroupTo(g)
           /\ \A k \in DOMAIN groups :
                k > cursor => GroupTo(g) <= GroupFrom(groups[k])
<1> DEFINE g == groups[cursor]
<1>1. /\ ckAt = "drafting" /\ DocInv /\ Len(starts) = Len(Lines)
      /\ pos \in Nat /\ heading \in Seq(Nat) /\ Laid(pieces)
      /\ pieces \in Seq(Spans) /\ groups \in Seq(Groups)
      /\ cursor <= Len(groups) /\ cursor \in Nat \ {0}
      /\ GroupsReach(Len(pieces) + 1) /\ chunked.max \in Nat \ {0}
  BY DEF CkInv, AtGroup, DocInv, LoopInv, PieceInv, GroupInv, GroupsReach, Laid
<1>2. Len(text) \in Nat
  BY <1>1, DocTypes
<1>3. Len(groups) \in Nat /\ DOMAIN groups = 1..Len(groups)
      /\ \A k \in DOMAIN groups : groups[k].lo \in Nat /\ groups[k].hi \in Nat
  BY <1>1, GroupTypes
<1>4. cursor \in DOMAIN groups
  BY <1>1, <1>3
<1>5. /\ Len(pieces) \in Nat /\ DOMAIN pieces = 1..Len(pieces)
      /\ \A i \in DOMAIN pieces : pieces[i].from \in Nat /\ pieces[i].to \in Nat
  BY <1>1, SpanTypes
<1>6. /\ \A i \in DOMAIN pieces : /\ pieces[i].from < pieces[i].to
                                  /\ pieces[i].to <= Len(text)
      /\ \A i, j \in DOMAIN pieces : i < j => pieces[i].to <= pieces[j].from
  BY <1>1 DEF Laid
<1>7. \A k \in DOMAIN groups : /\ 1 <= groups[k].lo /\ groups[k].lo <= groups[k].hi
                               /\ groups[k].hi < Len(pieces) + 1
                               /\ GroupTo(groups[k]) - GroupFrom(groups[k])
                                    <= chunked.max
  BY <1>1 DEF GroupsReach
<1>8. \A k \in DOMAIN groups : /\ groups[k].lo \in DOMAIN pieces
                               /\ groups[k].hi \in DOMAIN pieces
  BY <1>3, <1>5, <1>7
<1>9. /\ g.lo \in DOMAIN pieces /\ g.hi \in DOMAIN pieces /\ g.lo <= g.hi
      /\ g.lo \in Nat /\ g.hi \in Nat
      /\ GroupTo(g) - GroupFrom(g) <= chunked.max
  BY <1>3, <1>4, <1>7, <1>8
<1>10. GroupFrom(g) = pieces[g.lo].from /\ GroupTo(g) = pieces[g.hi].to
  BY DEF GroupFrom, GroupTo
<1>11. ASSUME NEW i \in g.lo..g.hi
       PROVE  i \in DOMAIN pieces /\ GroupFrom(g) <= pieces[i].from
              /\ pieces[i].to <= GroupTo(g)
  <2>1. i \in DOMAIN pieces
    BY <1>5, <1>9
  <2>2. i \in Nat /\ (g.lo = i \/ g.lo < i) /\ (g.hi = i \/ i < g.hi)
    BY <1>9
  <2>3. pieces[g.lo].from \in Nat /\ pieces[g.lo].to \in Nat
        /\ pieces[g.hi].from \in Nat /\ pieces[g.hi].to \in Nat
        /\ pieces[i].from \in Nat /\ pieces[i].to \in Nat
        /\ pieces[g.lo].from < pieces[g.lo].to
        /\ pieces[g.hi].from < pieces[g.hi].to
        /\ pieces[i].from < pieces[i].to
    BY <1>5, <1>6, <1>9, <2>1
  <2>4. g.lo < i => pieces[g.lo].to <= pieces[i].from
    BY <1>6, <1>9, <2>1
  <2>5. i < g.hi => pieces[i].to <= pieces[g.hi].from
    BY <1>6, <1>9, <2>1
  <2>6. pieces[g.lo].from <= pieces[i].from
    BY <2>2, <2>3, <2>4
  <2>7. pieces[i].to <= pieces[g.hi].to
    BY <2>2, <2>3, <2>5
  <2> QED
    BY <1>10, <2>1, <2>6, <2>7
<1>12. GroupFrom(g) \in Nat /\ GroupTo(g) \in Nat /\ GroupFrom(g) < GroupTo(g)
       /\ GroupTo(g) <= Len(text)
  <2>1. g.lo \in g.lo..g.hi
    BY <1>9
  <2>2. pieces[g.lo].to <= GroupTo(g)
    BY <1>11, <2>1
  <2>3. pieces[g.lo].from < pieces[g.lo].to /\ pieces[g.hi].to <= Len(text)
        /\ pieces[g.lo].from \in Nat /\ pieces[g.lo].to \in Nat
        /\ pieces[g.hi].to \in Nat
    BY <1>5, <1>6, <1>9
  <2> QED
    BY <1>10, <2>2, <2>3
<1>13. ASSUME NEW k \in DOMAIN groups, k > cursor
       PROVE  GroupTo(g) <= GroupFrom(groups[k])
  <2>1. cursor < k
    BY <1>1, <1>3, <1>13
  <2>2. g.hi < groups[k].lo
    BY <1>1, <1>4, <2>1 DEF GroupsReach
  <2>3. pieces[g.hi].to <= pieces[groups[k].lo].from
    BY <1>6, <1>8, <1>9, <2>2
  <2> QED
    BY <1>10, <2>3 DEF GroupFrom
<1> QED
  BY <1>1, <1>2, <1>4, <1>9, <1>11, <1>12, <1>13

\* What a step of the drafting loop keeps anyway.
LEMMA DraftingKept ==
    ASSUME CkInv, ckAt = "drafting", ckAt' \in {"drafting", "done"},
           UNCHANGED <<docVars, chunked, units, pieces, groups>>,
           cursor' \in Nat \ {0}, pos' \in Nat, heading' \in Seq(Nat)
    PROVE  DocInv' /\ LoopInv' /\ UnitInv' /\ PieceInv' /\ GroupInv'
<1>0. Len(starts) = Len(Lines) /\ DocInv
  BY DEF CkInv, DocInv
<1>1. DocInv'
  BY <1>0, DocKept
<1>2. LoopInv'
  BY DEF CkInv, LoopInv, HybridLoops
<1>3. UnitInv'
  BY UnitKept DEF CkInv
<1>4. PieceInv'
  BY PieceKept DEF CkInv
<1>5. GroupInv'
  BY GroupKept DEF CkInv
<1> QED
  BY <1>1, <1>2, <1>3, <1>4, <1>5

\* A blank group holds nothing that can be seen.
LEMMA SkipStep ==
    ASSUME CkInv, SkipGroup
    PROVE  CkInv'
<1> DEFINE g == groups[cursor]
<1>0. /\ AtGroup /\ ~Inky(g) /\ cursor' = cursor + 1
      /\ UNCHANGED <<docVars, ckAt, chunked, pos, heading, units, pieces, groups,
                     drafts>>
  BY DEF SkipGroup
<1>1. /\ ckAt = "drafting" /\ DocInv /\ pos \in Nat /\ heading \in Seq(Nat)
      /\ pieces \in Seq(Spans) /\ groups \in Seq(Groups)
      /\ cursor \in DOMAIN groups /\ cursor \in Nat
      /\ GroupFrom(g) \in Nat /\ GroupTo(g) \in Nat
      /\ \A i \in g.lo..g.hi : /\ i \in DOMAIN pieces
                               /\ GroupFrom(g) <= pieces[i].from
                               /\ pieces[i].to <= GroupTo(g)
  BY <1>0, AtGroupIs
<1>2. Len(groups) \in Nat /\ DOMAIN groups = 1..Len(groups)
  BY <1>1, GroupTypes
<1>3. DocInv' /\ LoopInv' /\ UnitInv' /\ PieceInv' /\ GroupInv'
  BY <1>0, <1>1, DraftingKept
<1>4. DraftInv'
  <2>1. \A i \in DOMAIN drafts' : DraftOK(drafts[i])'
    BY <1>0, TextKept DEF CkInv, DraftInv, DraftOK, Span
  <2>2. pos' = 0
    BY <1>0, <1>1 DEF CkInv, DraftInv
  <2>3. \A d \in DOMAIN drafts' : \A k \in DOMAIN groups' :
          k >= cursor' => drafts'[d].to <= GroupFrom(groups[k])'
    <3>1. \A k \in DOMAIN groups : k >= cursor + 1 => k >= cursor
      BY <1>1, <1>2
    <3> QED
      BY <1>0, <1>1, <3>1 DEF CkInv, DraftInv, GroupFrom
  <2>4. \A o \in Ink' :
          Covers(drafts, o)' \/ \E k \in DOMAIN groups' : Pending(k, o)'
    <3> SUFFICES ASSUME NEW o \in Ink
                 PROVE  Covers(drafts, o)'
                        \/ \E k \in DOMAIN groups' : Pending(k, o)'
      BY <1>0, TextKept
    <3>1. Covers(drafts, o)' <=> Covers(drafts, o)
      BY <1>0 DEF Covers, Span
    <3>2. Covers(drafts, o) \/ \E k \in DOMAIN groups : Pending(k, o)
      BY <1>1 DEF CkInv, DraftInv
    <3>3. ASSUME NEW k \in DOMAIN groups, Pending(k, o)
          PROVE  Pending(k, o)'
      <4>1. PICK i \in groups[k].lo..groups[k].hi : o \in Span(pieces[i])
        BY <3>3 DEF Pending
      <4>2. k # cursor
        <5> SUFFICES ASSUME k = cursor PROVE FALSE
          OBVIOUS
        <5>1. i \in g.lo..g.hi /\ o \in pieces[i].from..(pieces[i].to - 1)
          BY <4>1 DEF Span
        <5>2. i \in DOMAIN pieces /\ GroupFrom(g) <= pieces[i].from
              /\ pieces[i].to <= GroupTo(g)
          BY <1>1, <5>1
        <5>3. pieces[i].from \in Nat /\ pieces[i].to \in Nat
          BY <1>1, <5>2, SpanTypes
        <5>4. o \in GroupFrom(g)..(GroupTo(g) - 1)
          BY <1>1, <5>1, <5>2, <5>3
        <5>5. CharAt(o) = "x"
          BY DEF Ink
        <5> QED
          BY <1>0, <5>4, <5>5 DEF Inky, HasInk
      <4>3. k >= cursor + 1
        BY <1>1, <1>2, <3>3, <4>2 DEF Pending
      <4> QED
        BY <1>0, <4>1, <4>3 DEF Pending, Span
    <3> QED
      BY <1>0, <3>1, <3>2, <3>3
  <2>5. cursor' <= Len(groups') + 1
    BY <1>0, <1>1, <1>2
  <2> QED
    BY <1>0, <1>1, <2>1, <2>2, <2>3, <2>4, <2>5 DEF CkInv, DraftInv
<1> QED
  BY <1>3, <1>4 DEF CkInv

\* The heading of a group stays one of its pieces' headings.
LEMMA DeepenStep ==
    ASSUME CkInv, DeepenHeading
    PROVE  CkInv'
<1> DEFINE g == groups[cursor]
           i == g.lo + pos
           path == pieces[i].path
<1>0. /\ AtGroup /\ Inky(g) /\ pos < GroupSize(g) /\ pos' = pos + 1
      /\ heading' = path \/ (pos # 0 /\ heading' = heading)
      /\ UNCHANGED <<docVars, ckAt, chunked, cursor, units, pieces, groups, drafts>>
  BY DEF DeepenHeading
<1>1. /\ ckAt = "drafting" /\ DocInv /\ pos \in Nat /\ heading \in Seq(Nat)
      /\ pieces \in Seq(Spans) /\ groups \in Seq(Groups)
      /\ cursor \in DOMAIN groups /\ cursor \in Nat
      /\ g.lo \in Nat /\ g.hi \in Nat /\ g.lo <= g.hi
      /\ GroupTo(g) \in Nat
      /\ \A j \in g.lo..g.hi : /\ j \in DOMAIN pieces
                               /\ pieces[j].to <= GroupTo(g)
  BY <1>0, AtGroupIs
<1>2. Len(groups) \in Nat /\ DOMAIN groups = 1..Len(groups)
  BY <1>1, GroupTypes
<1>3. i \in g.lo..g.hi /\ pos + 1 <= GroupSize(g)
  BY <1>0, <1>1 DEF GroupSize
<1>4. i \in DOMAIN pieces /\ pieces[i].to <= GroupTo(g)
  BY <1>1, <1>3
<1>5. path \in Seq(Nat) /\ pieces[i].from \in Nat /\ pieces[i].to \in Nat
  BY <1>1, <1>4, SpanTypes
<1>6. AreHeadings(path, pieces[i].from) /\ pieces[i].from < pieces[i].to
  BY <1>4 DEF CkInv, PieceInv, Laid
<1>7. AreHeadings(path, GroupTo(g) - 1)
  <2>1. pieces[i].from \in Int /\ GroupTo(g) - 1 \in Int
        /\ pieces[i].from <= GroupTo(g) - 1
    <3>1. GroupTo(g) \in Nat /\ pieces[i].from \in Nat /\ pieces[i].to \in Nat
          /\ pieces[i].from < pieces[i].to /\ pieces[i].to <= GroupTo(g)
      BY <1>1, <1>4, <1>5, <1>6
    <3> HIDE DEF i, g
    <3> QED
      BY <3>1
  <2> QED
    BY <1>1, <1>6, <2>1, HeadingsStay
<1>8. pos # 0 => AreHeadings(heading, GroupTo(g) - 1)
  BY <1>1 DEF CkInv, DraftInv
<1>9. heading' \in Seq(Nat) /\ AreHeadings(heading', GroupTo(g) - 1)
  BY <1>0, <1>1, <1>5, <1>7, <1>8
<1> HIDE DEF i, path
<1>10. DocInv' /\ LoopInv' /\ UnitInv' /\ PieceInv' /\ GroupInv'
  <2>1. cursor' \in Nat \ {0} /\ pos' \in Nat
    BY <1>0, <1>1, <1>2
  <2> QED
    BY <1>0, <1>1, <1>9, <2>1, DraftingKept
<1>11. DraftInv'
  <2>1. \A d \in DOMAIN drafts' : DraftOK(drafts[d])'
    BY <1>0, TextKept DEF CkInv, DraftInv, DraftOK, Span
  <2>2. AreHeadings(heading, GroupTo(groups[cursor]) - 1)'
    BY <1>0, <1>9, TextKept DEF AreHeadings, GroupTo
  <2>3. Inky(groups[cursor])' /\ pos' <= GroupSize(groups[cursor])'
        /\ cursor' <= Len(groups') /\ cursor' <= Len(groups') + 1
    <3>1. Inky(groups[cursor])'
      BY <1>0, TextKept DEF Inky, HasInk, CharAt, GroupFrom, GroupTo
    <3>2. pos' <= GroupSize(groups[cursor])'
      BY <1>0, <1>3 DEF GroupSize
    <3>3. cursor' <= Len(groups') /\ cursor' <= Len(groups') + 1
      BY <1>0, <1>1, <1>2
    <3> QED
      BY <3>1, <3>2, <3>3
  <2>4. \A d \in DOMAIN drafts' : \A k \in DOMAIN groups' :
          k >= cursor' => drafts'[d].to <= GroupFrom(groups[k])'
    BY <1>0, <1>1 DEF CkInv, DraftInv, GroupFrom
  <2>5. \A o \in Ink' :
          Covers(drafts, o)' \/ \E k \in DOMAIN groups' : Pending(k, o)'
    <3>1. \A o \in Ink : Covers(drafts, o) \/ \E k \in DOMAIN groups : Pending(k, o)
      BY <1>1 DEF CkInv, DraftInv
    <3>2. \A o : Covers(drafts, o)' <=> Covers(drafts, o)
      BY <1>0 DEF Covers, Span
    <3>3. \A k, o : Pending(k, o)' <=> Pending(k, o)
      BY <1>0 DEF Pending, Span
    <3> QED
      BY <1>0, <3>1, <3>2, <3>3, TextKept
  <2> QED
    BY <1>0, <1>1, <2>1, <2>2, <2>3, <2>4, <2>5 DEF CkInv, DraftInv
<1> QED
  BY <1>10, <1>11 DEF CkInv

\* A group becomes a chunk, with its lines and its headings.
LEMMA DraftGroupStep ==
    ASSUME CkInv, DraftGroup
    PROVE  CkInv'
<1> DEFINE g == groups[cursor]
           from == GroupFrom(g)
           to == GroupTo(g)
           types == {pieces[i].type : i \in g.lo..g.hi}
           type == IF Cardinality(types) = 1 THEN pieces[g.lo].type
                   ELSE IF "hard_split" \in types THEN "hard_split" ELSE "mixed"
           d == Draft(from, to, type, heading)
<1>0. /\ AtGroup /\ Inky(g) /\ pos = GroupSize(g) /\ pos' = 0
      /\ cursor' = cursor + 1
      /\ drafts' = Append(drafts,
           Draft(from, IF to - from > chunked.max THEN from + chunked.max ELSE to,
                 type, heading))
      /\ UNCHANGED <<docVars, ckAt, chunked, heading, units, pieces, groups>>
  BY DEF DraftGroup
<1>1. /\ ckAt = "drafting" /\ DocInv /\ pos \in Nat /\ heading \in Seq(Nat)
      /\ pieces \in Seq(Spans) /\ groups \in Seq(Groups)
      /\ cursor \in DOMAIN groups /\ cursor \in Nat
      /\ g.lo \in DOMAIN pieces
      /\ g.lo \in Nat /\ g.hi \in Nat /\ g.lo <= g.hi
      /\ from \in Nat /\ to \in Nat /\ from < to /\ to <= Len(text)
      /\ chunked.max \in Nat \ {0} /\ to - from <= chunked.max
      /\ \A i \in g.lo..g.hi : /\ i \in DOMAIN pieces
                               /\ from <= pieces[i].from
                               /\ pieces[i].to <= to
      /\ \A k \in DOMAIN groups : k > cursor => to <= GroupFrom(groups[k])
  BY <1>0, AtGroupIs
<1>2. Len(groups) \in Nat /\ DOMAIN groups = 1..Len(groups)
  BY <1>1, GroupTypes
<1>3. type \in DraftTypes
  <2>1. pieces[g.lo].type \in BlockTypes
    BY <1>1, SpanTypes DEF Spans
  <2>2. pieces[g.lo].type \in DraftTypes /\ "hard_split" \in DraftTypes
        /\ "mixed" \in DraftTypes
    BY <2>1 DEF DraftTypes, BlockTypes
  <2> HIDE DEF types
  <2> QED
    BY <2>2
<1> HIDE DEF type, types
<1>4. drafts' = Append(drafts, d)
  <2>1. ~(to - from > chunked.max)
    BY <1>1
  <2> QED
    BY <1>0, <2>1
<1>5. HasInk(from, to) /\ AreHeadings(heading, to - 1)
  <2>1. pos > 0
    <3>1. pos = g.hi - g.lo + 1 /\ g.lo \in Nat /\ g.hi \in Nat /\ g.lo <= g.hi
      BY <1>0, <1>1 DEF GroupSize
    <3> HIDE DEF g
    <3> QED
      BY <3>1
  <2> QED
    BY <1>0, <1>1, <2>1 DEF Inky, CkInv, DraftInv
<1>6. d \in Drafts /\ d.from = from /\ d.to = to /\ DraftOK(d)
  BY <1>1, <1>3, <1>5, DraftIs
<1> HIDE DEF d
<1>7. \A i \in DOMAIN drafts : /\ drafts[i].to <= from
                               /\ drafts[i].from < drafts[i].to
                               /\ drafts[i].from \in Nat /\ drafts[i].to \in Nat
  <2>1. drafts \in Seq(Drafts)
    BY DEF CkInv, DraftInv
  <2>2. \A i \in DOMAIN drafts : drafts[i] \in Drafts
    BY <2>1, ElementOfSeq, LenProperties
  <2>3. \A i \in DOMAIN drafts : drafts[i].from \in Nat /\ drafts[i].to \in Nat
    BY <2>2 DEF Drafts
  <2>4. \A i \in DOMAIN drafts : drafts[i].to <= GroupFrom(g)
    <3>1. cursor >= cursor
      BY <1>1
    <3> QED
      BY <1>1, <3>1 DEF CkInv, DraftInv
  <2>5. \A i \in DOMAIN drafts : drafts[i].from < drafts[i].to
    BY DEF CkInv, DraftInv, DraftOK
  <2> QED
    BY <2>3, <2>4, <2>5
<1> HIDE DEF from, to
<1>8. \A i \in DOMAIN drafts :
        /\ drafts[i].from < d.from
        /\ chunked.by = "hybrid" => drafts[i].to <= d.from
  BY <1>1, <1>6, <1>7
<1>9. /\ drafts' \in Seq(Drafts)
      /\ \A i \in DOMAIN drafts' : DraftOK(drafts[i])'
      /\ \A i, j \in DOMAIN drafts' :
           i < j => /\ drafts'[i].from < drafts'[j].from
                    /\ chunked'.by = "hybrid" => drafts'[i].to <= drafts'[j].from
      /\ \A i \in DOMAIN drafts' :
           \/ i \in DOMAIN drafts /\ drafts'[i] = drafts[i]
           \/ drafts'[i] = d
      /\ \A o : Covers(drafts, o)' <=> Covers(drafts, o) \/ o \in Span(d)
  BY <1>0, <1>4, <1>6, <1>8, DraftsGrow DEF CkInv
<1>10. DocInv' /\ LoopInv' /\ UnitInv' /\ PieceInv' /\ GroupInv'
  BY <1>0, <1>1, DraftingKept
<1>11. DraftInv'
  <2>1. \A i \in DOMAIN drafts' : \A k \in DOMAIN groups' :
          k >= cursor' => drafts'[i].to <= GroupFrom(groups[k])'
    <3> SUFFICES ASSUME NEW i \in DOMAIN drafts', NEW k \in DOMAIN groups,
                        k >= cursor + 1
                 PROVE  drafts'[i].to <= GroupFrom(groups[k])
      BY <1>0 DEF GroupFrom
    <3>1. k > cursor /\ k >= cursor
      BY <1>1, <1>2
    <3>2. to <= GroupFrom(groups[k])
      BY <1>1, <3>1
    <3>3. i \in DOMAIN drafts => drafts[i].to <= GroupFrom(groups[k])
      BY <1>1, <3>1 DEF CkInv, DraftInv
    <3> QED
      BY <1>6, <1>9, <3>2, <3>3
  <2>2. \A o \in Ink' :
          Covers(drafts, o)' \/ \E k \in DOMAIN groups' : Pending(k, o)'
    <3> SUFFICES ASSUME NEW o \in Ink, ~Covers(drafts, o)'
                 PROVE  \E k \in DOMAIN groups' : Pending(k, o)'
      BY <1>0, TextKept
    <3>1. PICK k \in DOMAIN groups : Pending(k, o)
      BY <1>1, <1>9 DEF CkInv, DraftInv
    <3>2. PICK i \in groups[k].lo..groups[k].hi : o \in Span(pieces[i])
      BY <3>1 DEF Pending
    <3>3. k # cursor
      <4> SUFFICES ASSUME k = cursor PROVE o \in Span(d)
        BY <1>9
      <4>1. i \in DOMAIN pieces /\ from <= pieces[i].from /\ pieces[i].to <= to
        BY <1>1, <3>2
      <4>2. pieces[i].from \in Nat /\ pieces[i].to \in Nat
        BY <1>1, <4>1, SpanTypes
      <4>3. o \in pieces[i].from..(pieces[i].to - 1)
        BY <3>2 DEF Span
      <4>4. o \in from..(to - 1)
        <5>1. from \in Nat /\ to \in Nat
          BY <1>1
        <5> QED
          BY <4>1, <4>2, <4>3, <5>1
      <4> QED
        BY <1>6, <4>4 DEF Span
    <3>4. k >= cursor + 1
      BY <1>1, <1>2, <3>1, <3>3 DEF Pending
    <3>5. Pending(k, o)'
      BY <1>0, <3>2, <3>4 DEF Pending, Span
    <3> QED
      BY <1>0, <3>5
  <2>3. cursor' <= Len(groups') + 1
    BY <1>0, <1>1, <1>2
  <2> QED
    <3>1. ckAt' = "drafting" /\ ~(pos' > 0)
      BY <1>0, <1>1
    <3> QED
      BY <1>9, <2>1, <2>2, <2>3, <3>1 DEF DraftInv
<1> QED
  BY <1>10, <1>11 DEF CkInv

\* All groups are drafted.
LEMMA DraftEndsStep ==
    ASSUME CkInv, DraftEnds
    PROVE  CkInv'
<1>0. /\ ckAt = "drafting" /\ cursor > Len(groups)
      /\ ckAt' = "done" /\ cursor' = 1 /\ pos' = 0 /\ heading' = <<>>
      /\ UNCHANGED <<docVars, chunked, units, pieces, groups, drafts>>
      /\ groups \in Seq(Groups) /\ cursor \in Nat
  BY DEF DraftEnds, NextLoop, CkInv, LoopInv, GroupInv, GroupsReach
<1>1. DocInv' /\ LoopInv' /\ UnitInv' /\ PieceInv' /\ GroupInv'
  BY <1>0, DraftingKept
<1>2. \A k \in DOMAIN groups : ~(k >= cursor)
  <2>1. Len(groups) \in Nat /\ DOMAIN groups = 1..Len(groups)
    BY <1>0, GroupTypes
  <2> QED
    BY <1>0, <2>1
<1>3. \A o \in Ink : Covers(drafts, o)
  BY <1>0, <1>2 DEF CkInv, DraftInv, Pending
<1>4. \A o \in Ink' : Covers(drafts, o)'
  BY <1>0, <1>3, TextKept DEF Covers, Span
<1>5. \A i \in DOMAIN drafts' : DraftOK(drafts[i])'
  BY <1>0, TextKept DEF CkInv, DraftInv, DraftOK, Span
<1>6. DraftInv'
  BY <1>0, <1>4, <1>5 DEF CkInv, DraftInv
<1> QED
  BY <1>1, <1>6 DEF CkInv

-----------------------------------------------------------------------------
(* The fixed windows. *)

\* The next window of chunk_fixed_chars.
LEMMA FixStep ==
    ASSUME CkInv, FixWindow
    PROVE  CkInv'
<1> DEFINE max == chunked.max
           end == IF Len(text) < pos + max THEN Len(text) ELSE pos + max
           gap == max - chunked.overlap
           go == IF gap > 1 THEN gap ELSE 1
           d == Draft(pos, end, "fixed", <<>>)
<1>0. /\ ckAt = "fixing"
      /\ drafts' = IF HasInk(pos, end) THEN Append(drafts, d) ELSE drafts
      /\ IF end >= Len(text) THEN ckAt' = "done" /\ pos' = pos
         ELSE pos' = pos + go /\ ckAt' = ckAt
      /\ UNCHANGED <<docVars, chunked, cursor, heading, units, pieces, groups>>
  BY DEF FixWindow
<1>1. /\ DocInv /\ Len(starts) = Len(Lines) /\ pos \in Nat /\ pos < Len(text)
      /\ max \in Nat \ {0} /\ chunked.by = "fixed"
      /\ chunked.overlap \in Nat /\ chunked.overlap < max
      /\ drafts \in Seq(Drafts)
      /\ \A i \in DOMAIN drafts : drafts[i].from < pos
      /\ \A o \in Ink : o < pos => Covers(drafts, o)
  BY <1>0 DEF CkInv, DocInv, LoopInv, DraftInv
<1>2. Len(text) \in Nat /\ \A o \in Ink : o \in Nat /\ o < Len(text)
  BY <1>1, DocTypes, JoinedText
<1>3. end \in Nat /\ pos < end /\ end <= Len(text) /\ end - pos <= max
  BY <1>1, <1>2
<1>4. go \in Nat /\ go >= 1 /\ go <= max
  BY <1>1
<1>5. end < Len(text) => pos + go <= end
  BY <1>1, <1>2, <1>4
<1> HIDE DEF go, end, gap
<1>6. HasInk(pos, end) => d \in Drafts /\ d.from = pos /\ d.to = end /\ DraftOK(d)
  <2>1. "fixed" \in DraftTypes /\ <<>> \in Seq(Nat)
        /\ AreHeadings(<<>>, end - 1)
    BY DEF DraftTypes, AreHeadings
  <2> SUFFICES ASSUME HasInk(pos, end)
               PROVE  d \in Drafts /\ d.from = pos /\ d.to = end /\ DraftOK(d)
    OBVIOUS
  <2>2. end - pos <= chunked.max /\ pos \in Nat /\ end \in Nat /\ pos < end
        /\ end <= Len(text) /\ DocInv
    BY <1>1, <1>3
  <2> DEFINE path == <<>>
  <2>3. path \in Seq(Nat) /\ AreHeadings(path, end - 1)
        /\ d = Draft(pos, end, "fixed", path)
    BY <2>1
  <2> HIDE DEF path, d
  <2>4. /\ Draft(pos, end, "fixed", path) \in Drafts
        /\ Draft(pos, end, "fixed", path).from = pos
        /\ Draft(pos, end, "fixed", path).to = end
        /\ DraftOK(Draft(pos, end, "fixed", path))
    BY <2>1, <2>2, <2>3, DraftIs
  <2> QED
    BY <2>3, <2>4
<1> HIDE DEF d
<1>7. DocInv'
  BY <1>0, <1>1, DocKept
<1>8. pos' \in Nat
  BY <1>0, <1>1, <1>4
<1>9. LoopInv'
  BY <1>0, <1>8 DEF CkInv, LoopInv, HybridLoops
<1>10. UnitInv' /\ PieceInv' /\ GroupInv'
  <2>1. ckAt' \in {"fixing", "done"}
    BY <1>0
  <2> QED
    BY <1>0, <2>1, UnitKept, PieceKept, GroupKept DEF CkInv
<1>11. \A o \in Ink : ~HasInk(pos, end) => ~(o \in pos..(end - 1))
  BY DEF HasInk, Ink
<1>12. /\ drafts' \in Seq(Drafts)
       /\ \A i \in DOMAIN drafts' : DraftOK(drafts[i])'
       /\ \A i, j \in DOMAIN drafts' :
            i < j => /\ drafts'[i].from < drafts'[j].from
                     /\ chunked'.by = "hybrid" => drafts'[i].to <= drafts'[j].from
       /\ \A i \in DOMAIN drafts' : drafts'[i].from <= pos
       /\ \A o \in Ink : o < end => Covers(drafts, o)'
  <2>1. CASE HasInk(pos, end)
    <3>1. drafts' = Append(drafts, d) /\ d \in Drafts /\ d.from = pos
          /\ d.to = end /\ DraftOK(d)
      BY <1>0, <1>6, <2>1
    <3>2. \A i \in DOMAIN drafts :
            /\ drafts[i].from < d.from
            /\ chunked.by = "hybrid" => drafts[i].to <= d.from
      BY <1>1, <3>1
    <3>3. /\ drafts' \in Seq(Drafts)
          /\ \A i \in DOMAIN drafts' : DraftOK(drafts[i])'
          /\ \A i, j \in DOMAIN drafts' :
               i < j => /\ drafts'[i].from < drafts'[j].from
                        /\ chunked'.by = "hybrid" =>
                             drafts'[i].to <= drafts'[j].from
          /\ \A i \in DOMAIN drafts' :
               \/ i \in DOMAIN drafts /\ drafts'[i] = drafts[i]
               \/ drafts'[i] = d
          /\ \A o : Covers(drafts, o)' <=> Covers(drafts, o) \/ o \in Span(d)
      BY <1>0, <3>1, <3>2, DraftsGrow DEF CkInv
    <3>4. \A i \in DOMAIN drafts : drafts[i].from \in Nat
      <4>1. \A i \in DOMAIN drafts : drafts[i] \in Drafts
        BY <1>1, ElementOfSeq, LenProperties
      <4> QED
        BY <4>1 DEF Drafts
    <3>5. \A i \in DOMAIN drafts' : drafts'[i].from <= pos
      BY <1>1, <3>1, <3>3, <3>4
    <3>6. \A o \in Ink : o < end => Covers(drafts, o)'
      <4> SUFFICES ASSUME NEW o \in Ink, o < end, ~(o < pos)
                   PROVE  o \in Span(d)
        BY <1>1, <3>3
      <4>1. o \in pos..(end - 1)
        BY <1>1, <1>2, <1>3
      <4> QED
        BY <3>1, <4>1 DEF Span
    <3> QED
      BY <3>3, <3>5, <3>6
  <2>2. CASE ~HasInk(pos, end)
    <3>1. drafts' = drafts
      BY <1>0, <2>2
    <3>2. \A i \in DOMAIN drafts' : DraftOK(drafts[i])'
      BY <1>0, <3>1, TextKept DEF CkInv, DraftInv, DraftOK, Span
    <3>3. \A i \in DOMAIN drafts : drafts[i].from \in Nat
      <4>1. \A i \in DOMAIN drafts : drafts[i] \in Drafts
        BY <1>1, ElementOfSeq, LenProperties
      <4> QED
        BY <4>1 DEF Drafts
    <3>4. \A i \in DOMAIN drafts' : drafts'[i].from <= pos
      BY <1>1, <3>1, <3>3
    <3>5. \A o \in Ink : o < end => Covers(drafts, o)'
      <4> SUFFICES ASSUME NEW o \in Ink, o < end PROVE Covers(drafts, o)
        BY <3>1 DEF Covers, Span
      <4>1. o < pos
        BY <1>1, <1>2, <1>3, <1>11, <2>2
      <4> QED
        BY <1>1, <4>1
    <3>6. \A i, j \in DOMAIN drafts' :
            i < j => /\ drafts'[i].from < drafts'[j].from
                     /\ chunked'.by = "hybrid" => drafts'[i].to <= drafts'[j].from
      BY <1>0, <3>1 DEF CkInv, DraftInv
    <3> QED
      BY <1>1, <3>1, <3>2, <3>4, <3>5, <3>6
  <2> QED
    BY <2>1, <2>2
<1>13. CASE end >= Len(text)
  <2>1. ckAt' = "done" /\ \A o \in Ink : o < end
    BY <1>0, <1>2, <1>3, <1>13
  <2>2. \A o \in Ink' : Covers(drafts, o)'
    BY <1>0, <1>12, <2>1, TextKept
  <2>3. DraftInv'
    BY <1>12, <2>1, <2>2 DEF DraftInv
  <2> QED
    BY <1>7, <1>9, <1>10, <2>3 DEF CkInv
<1>14. CASE ~(end >= Len(text))
  <2>1. ckAt' = "fixing" /\ pos' = pos + go /\ pos + go <= end
        /\ end < Len(text)
    BY <1>0, <1>2, <1>3, <1>5, <1>14
  <2>2. pos' < Len(text')
    BY <1>0, <1>1, <1>2, <1>3, <1>4, <2>1, TextKept
  <2>3. \A i \in DOMAIN drafts' : drafts'[i].from < pos'
    <3>1. \A i \in DOMAIN drafts' : drafts'[i].from \in Nat
      <4>1. \A i \in DOMAIN drafts' : drafts'[i] \in Drafts
        BY <1>12, ElementOfSeq, LenProperties
      <4> QED
        BY <4>1 DEF Drafts
    <3> QED
      BY <1>1, <1>4, <1>12, <2>1, <3>1
  <2>4. \A o \in Ink' : o < pos' => Covers(drafts, o)'
    <3> SUFFICES ASSUME NEW o \in Ink, o < pos + go PROVE Covers(drafts, o)'
      BY <1>0, <2>1, TextKept
    <3>1. o < end
      BY <1>1, <1>2, <1>3, <1>4, <2>1
    <3> QED
      BY <1>12, <3>1
  <2>5. DraftInv'
    BY <1>12, <2>1, <2>2, <2>3, <2>4 DEF DraftInv
  <2> QED
    BY <1>7, <1>9, <1>10, <2>5 DEF CkInv
<1> QED
  BY <1>13, <1>14

-----------------------------------------------------------------------------
(* The chunker keeps the text and its provenance. *)

\* A step of another component leaves all of it as it is.
LEMMA CkStutters ==
    ASSUME CkInv, UNCHANGED ckVars
    PROVE  CkInv'
<1>0. UNCHANGED docVars /\ ckAt' = ckAt /\ chunked' = chunked
      /\ cursor' = cursor /\ pos' = pos /\ heading' = heading
      /\ units' = units /\ pieces' = pieces /\ groups' = groups
      /\ drafts' = drafts
  BY DEF ckVars
<1>1. raw' = raw /\ text' = text /\ starts' = starts
  BY <1>0 DEF docVars
<1>2. DocInv'
  BY <1>0, <1>1 DEF CkInv, DocInv, Lines, Reach
<1>3. LoopInv'
  BY <1>0 DEF CkInv, LoopInv
<1>5. UnitInv'
  BY <1>0, <1>1, TextKept
     DEF CkInv, UnitInv, Laid, AreHeadings, Covers, Span, Reach
<1>6. PieceInv'
  BY <1>0, <1>1, TextKept
     DEF CkInv, PieceInv, Laid, AreHeadings, Covers, Span, Waits, Oversized
<1>7. GroupInv'
  BY <1>0 DEF CkInv, GroupInv, GroupsReach, GroupTo, GroupFrom
<1>8. DraftInv'
  <2>1. \A i \in DOMAIN drafts' : DraftOK(drafts[i])'
    BY <1>0, TextKept DEF CkInv, DraftInv, DraftOK, Span
  <2>2. \A o : (Covers(drafts, o)' <=> Covers(drafts, o))
    BY <1>0 DEF Covers, Span
  <2>3. \A k, o : (Pending(k, o)' <=> Pending(k, o))
    BY <1>0 DEF Pending, Span
  <2> QED
    BY <1>0, <1>1, <2>1, <2>2, <2>3, TextKept
       DEF CkInv, DraftInv, Inky, HasInk, CharAt, GroupSize, GroupTo, GroupFrom,
           AreHeadings
<1> QED
  BY <1>2, <1>3, <1>5, <1>6, <1>7, <1>8 DEF CkInv

\* Every step keeps the invariant.
LEMMA CkNextInv == CkInv /\ [CkNext]_ckVars => CkInv'
<1> SUFFICES ASSUME CkInv, [CkNext]_ckVars PROVE CkInv'
  OBVIOUS
<1>1. CASE \E k \in RawLines : AddLine(k)
  BY <1>1, ReadStep
<1>2. CASE JoinLine
  BY <1>2, JoinStep
<1>3. CASE \E max \in Budgets : ChunkHybrid(max)
  BY <1>3, HybridStarts
<1>4. CASE \E max \in Budgets : \E overlap \in 0..(max - 1) :
             ChunkFixed(max, overlap)
  BY <1>4, FixedStarts
<1>5. CASE UnitizeStep
  BY <1>5, FenceStep, HeadingStep, BlankStep, BlockStep, UnitizeEndsStep
     DEF UnitizeStep
<1>6. CASE PackStep
  BY <1>6, KeepStep, CutStep, SplitEndsStep, PackPieceStep, PackEndsStep
     DEF PackStep
<1>7. CASE DraftStep
  BY <1>7, SkipStep, DeepenStep, DraftGroupStep, DraftEndsStep DEF DraftStep
<1>8. CASE FixWindow
  BY <1>8, FixStep
<1>9. CASE UNCHANGED ckVars
  BY <1>9, CkStutters
<1> QED
  BY <1>1, <1>2, <1>3, <1>4, <1>5, <1>6, <1>7, <1>8, <1>9 DEF CkNext

\* The invariant gives what the runs check.
LEMMA CkInvFaithful == CkInv => ChunkingFaithful
<1> SUFFICES ASSUME CkInv PROVE ChunkingFaithful
  OBVIOUS
<1>1. \A i \in DOMAIN drafts : DraftOK(drafts[i])
  BY DEF CkInv, DraftInv
<1>2. ProvenanceIsTrue
  BY <1>1 DEF ProvenanceIsTrue, DraftOK
<1>3. ChunksPartitionText
  <2> SUFFICES ASSUME ckAt = "done"
               PROVE  /\ Ink \subseteq UNION {Span(drafts[i]) : i \in DOMAIN drafts}
                      /\ \A i \in DOMAIN drafts :
                           /\ drafts[i].to - drafts[i].from <= chunked.max
                           /\ Span(drafts[i]) \cap Ink # {}
                           /\ i > 1 => drafts[i - 1].from < drafts[i].from
                           /\ i > 1 /\ chunked.by = "hybrid" =>
                                drafts[i - 1].to <= drafts[i].from
    BY DEF ChunksPartitionText
  <2>1. Ink \subseteq UNION {Span(drafts[i]) : i \in DOMAIN drafts}
    BY DEF CkInv, DraftInv, Covers
  <2>2. ASSUME NEW i \in DOMAIN drafts, i > 1
        PROVE  /\ drafts[i - 1].from < drafts[i].from
               /\ chunked.by = "hybrid" => drafts[i - 1].to <= drafts[i].from
    <3>1. Len(drafts) \in Nat /\ DOMAIN drafts = 1..Len(drafts)
      BY LenProperties DEF CkInv, DraftInv
    <3>2. i - 1 \in DOMAIN drafts /\ i - 1 < i
      BY <2>2, <3>1
    <3> QED
      BY <3>2 DEF CkInv, DraftInv
  <2> QED
    BY <1>1, <2>1, <2>2 DEF DraftOK
<1> QED
  BY <1>2, <1>3 DEF ChunkingFaithful

\* And it holds at the start.
LEMMA CkInitInv == CkInit => CkInv
  BY DocInit, ReadingInv DEF CkInv

\* Whatever the artifact, however long it is, and whatever the budget: both
\* chunkers keep every visible character, in order, in chunks within the
\* budget, and _line_of and the heading stack give each its true provenance.
THEOREM ChunkingIsFaithful == CkSpec => []ChunkingFaithful
<1>1. CkSpec => []CkInv
  BY CkInitInv, CkNextInv, PTL DEF CkSpec
<1> QED
  BY <1>1, CkInvFaithful, PTL

(***************************************************************************)
(* ProcessExecutor                                                         *)
(*                                                                         *)
(* For every set of workloads and children, every limit and hosts with and *)
(* without Job Objects.                                                    *)
(***************************************************************************)

Names == {"LIGHT", "CPU_HEAVY", "MEMORY_HEAVY", "MEMORY_GROW", "SLEEP",
          "LARGE_OUTPUT", "CHILD_PROCESS", "PROCESS_HEAVY", "TIMEOUT",
          "MANY_FILES", "DISK_HEAVY", "FAILURE", "BOUNDARY_PROBE"}

\* The corpus: a program reports at most a memory limit when it exits, and
\* writes at most one unit beyond the cap.
LEMMA Corpus ==
    /\ DOMAIN Handlers = Names
    /\ \A n \in Names :
         /\ Handlers[n].writes \in 0..(OutputCap + 1)
         /\ \A e \in Handlers[n].ends :
              /\ e.rc \in {"zero", "nonzero"}
              /\ e.mark \in {"none", "memory_limit"}
<1>1. DOMAIN Handlers = Names
  BY DEF Handlers, Names
<1>2. \A e \in Fine \cup Fails \cup {Exits("nonzero", "memory_limit")} :
         e.rc \in {"zero", "nonzero"} /\ e.mark \in {"none", "memory_limit"}
  BY DEF Fine, Fails, Exits
<1> DEFINE Programs == {Light, CpuHeavy, MemoryHeavy, MemoryGrow, Sleep,
                        LargeOutput, ChildProcess, ProcessHeavy, TimeoutLoop,
                        ManyFiles, DiskHeavy, Failure, BoundaryProbe}
<1>3. \A n \in Names : Handlers[n] \in Programs
  BY DEF Handlers, Names
<1>4. \A k \in Programs :
         /\ k.writes \in {0, 1, OutputCap + 1}
         /\ k.ends \subseteq Fine \cup Fails \cup {Exits("nonzero", "memory_limit")}
  BY DEF Light, CpuHeavy, MemoryHeavy, MemoryGrow, Sleep, LargeOutput,
     ChildProcess, ProcessHeavy, TimeoutLoop, ManyFiles, DiskHeavy, Failure,
     BoundaryProbe, Program
<1>5. {0, 1, OutputCap + 1} \subseteq 0..(OutputCap + 1)
  BY ExecutorAssumption
<1> HIDE DEF Programs
<1> QED
  BY <1>1, <1>2, <1>3, <1>4, <1>5

\* resolve_workload returns the name of a program, or refuses.
LEMMA Resolved ==
    ASSUME NEW given, NEW class \in DOMAIN ByClass
    PROVE  ResolveWorkload(given, class) \in Names \cup {"unknown"}
<1>1. given \in DOMAIN Handlers => given \in Names
  BY Corpus
<1>2. given \in DOMAIN CorpusAliases => CorpusAliases[given] \in Names
  BY DEF CorpusAliases, Names
<1>3. ByClass[class] \in Names
  BY DEF ByClass, Names
<1> DEFINE folded == IF given \in DOMAIN Spellings THEN Spellings[given]
                     ELSE Spelling(given, given)
<1>4. folded.lower \in DOMAIN CorpusAliases
        => CorpusAliases[folded.lower] \in Names
  BY DEF CorpusAliases, Names
<1>5. folded.upper \in DOMAIN Handlers => folded.upper \in Names
  BY Corpus
<1> HIDE DEF folded
<1>6. ResolveWorkload(given, class)
        \in {given, CorpusAliases[given], CorpusAliases[folded.lower],
             folded.upper, ByClass[class], "unknown"}
  BY DEF ResolveWorkload, folded
<1> QED
  BY <1>1, <1>2, <1>3, <1>4, <1>5 DEF ResolveWorkload, folded

-----------------------------------------------------------------------------
(* Types. *)

\* What the program and the reader thread write.
LEMMA ProgramTypes ==
    ASSUME ExecutorInv, ProgramStep
    PROVE  XTypeOK'
<1> USE ExecutorAssumption
<1>1. XTypeOK
  BY DEF ExecutorInv
<1>2. /\ Behaviour.writes \in 0..(OutputCap + 1)
      /\ \A e \in Behaviour.ends : /\ e.rc \in {"zero", "nonzero"}
                                   /\ e.mark \in {"none", "memory_limit"}
  BY <1>1, Corpus DEF XTypeOK, Behaviour
<1>3. ASSUME NEW c \in Children, Fork(c) \/ ChildExits(c) PROVE XTypeOK'
  <2>1. alive \subseteq Procs /\ inJob \subseteq Procs /\ forked \subseteq Children
        /\ c \in Procs
    BY <1>1 DEF XTypeOK, Procs
  <2>2. alive' \subseteq Procs /\ inJob' \subseteq Procs /\ forked' \subseteq Children
    BY <1>3, <2>1 DEF Fork, ChildExits
  <2>3. UNCHANGED <<xpc, program, attempt, jobHandle, wrote, read, said,
                    exitCode, targets, leaked, workspace, status, drained>>
    BY <1>3 DEF Fork, ChildExits
  <2> QED
    BY <1>1, <2>2, <2>3 DEF XTypeOK
<1>4. CASE ForkRefused \/ JobTimeUp
  BY <1>1, <1>4 DEF ForkRefused, JobTimeUp, XTypeOK
<1>5. CASE WriteOutput \/ ReaderReads
  BY <1>1, <1>2, <1>5 DEF WriteOutput, ReaderReads, XTypeOK, procVars
<1>6. CASE RootExits
  BY <1>1, <1>2, <1>6 DEF RootExits, XTypeOK
<1> QED
  BY <1>3, <1>4, <1>5, <1>6 DEF ProgramStep

\* What the executor writes.
LEMMA ExecutorTypes ==
    ASSUME ExecutorInv, ExecutorStep
    PROVE  XTypeOK'
<1> USE ExecutorAssumption
<1>1. XTypeOK
  BY DEF ExecutorInv
<1>2. ASSUME NEW name \in Names \cup {"unknown"}, Prepare(name) PROVE XTypeOK'
  BY <1>1, <1>2, Corpus DEF Prepare, XTypeOK, procVars
<1>3. CASE RefuseWorkload \/ PopenFails \/ Popen
  <2>1. CASE RefuseWorkload
    BY <1>1, <2>1 DEF RefuseWorkload, XTypeOK, procVars
  <2>2. CASE PopenFails
    BY <1>1, <2>2 DEF PopenFails, XTypeOK, procVars
  <2>3. CASE Popen
    <3>1. alive' \subseteq Procs
      BY <2>3 DEF Popen, Procs
    <3> QED
      BY <1>1, <2>3, <3>1 DEF Popen, XTypeOK
  <2> QED
    BY <1>3, <2>1, <2>2, <2>3
<1>9. CASE Assign
  <2>1. inJob' \subseteq Procs /\ jobHandle' \in {"none", "open", "closed"}
    BY <1>1, <1>9 DEF Assign, XTypeOK, Procs
  <2> QED
    BY <1>1, <1>9, <2>1 DEF Assign, XTypeOK
<1>4. ASSUME NEW v \in {"timeout", "output_limit", "process_limit",
                        "memory_limit", "workspace_limit"}, Verdict(v)
      PROVE  XTypeOK'
  BY <1>1, <1>4 DEF Verdict, XTypeOK, procVars
<1>5. CASE PollExit
  <2>1. drained' \in BOOLEAN
    BY <1>5 DEF PollExit
  <2> QED
    BY <1>1, <1>5, <2>1 DEF PollExit, ClassifyResourceExit, XTypeOK, procVars
<1>6. CASE ListTree
  <2>1. leaked = {} /\ targets' \subseteq Procs
    BY <1>1, <1>6 DEF ListTree, Tree, XTypeOK, Procs, ExecutorInv, TreeInv,
       JobClosed
  <2> QED
    BY <1>1, <1>6, <2>1 DEF ListTree, XTypeOK, procVars
<1>7. ASSUME NEW S \in SUBSET Procs, KillTargets(S) PROVE XTypeOK'
  BY <1>1, <1>7 DEF KillTargets, XTypeOK
<1>8. CASE CloseJob
  BY <1>1, <1>8 DEF CloseJob, XTypeOK
<1>10. CASE CleanWorkspace
  <2>1. workspace' \in BOOLEAN
    BY <1>10 DEF CleanWorkspace
  <2> QED
    BY <1>1, <1>10, <2>1 DEF CleanWorkspace, XTypeOK, procVars
<1>11. CASE Report \/ Retry
  BY <1>1, <1>11 DEF Report, Retry, XTypeOK, procVars
<1> QED
  BY <1>2, <1>3, <1>4, <1>5, <1>6, <1>7, <1>8, <1>9, <1>10, <1>11, Resolved
  DEF ExecutorStep, PollDeadline, PollOutput, PollProcesses, PollUsage
-----------------------------------------------------------------------------
(* Processes, verdicts and workspaces. *)

\* While the program runs it forks, exits and is cut off by its job; none of
\* this touches the verdict, and nothing that was listed comes back.
LEMMA ProgramInv ==
    ASSUME ExecutorInv, ProgramStep
    PROVE  FreshInv' /\ TreeInv' /\ VerdictInv' /\ WorkspaceInv'
<1> USE DEF Contained
<1>1. XTypeOK /\ FreshInv /\ TreeInv /\ VerdictInv /\ WorkspaceInv
  BY DEF ExecutorInv
<1>2. CASE ReaderReads
  <2>1. FreshInv' /\ TreeInv' /\ WorkspaceInv'
    BY <1>1, <1>2 DEF ReaderReads, procVars, FreshInv, TreeInv, WorkspaceInv
  <2>2. VerdictInv'
    BY <1>1, <1>2 DEF ReaderReads, procVars, VerdictInv, Truncated, XTypeOK
  <2> QED
    BY <2>1, <2>2
<1>3. CASE ~ReaderReads
  <2>1. /\ UNCHANGED <<xpc, jobHandle, read, targets, leaked, workspace, status,
                       drained>>
        /\ alive # {}
    BY <1>3 DEF ProgramStep, Fork, ChildExits, ForkRefused, WriteOutput,
       RootExits, JobTimeUp
  <2>2. ~drained /\ FreshInv'
    BY <1>1, <2>1 DEF VerdictInv, FreshInv
  <2>3. CASE "root" \in alive /\ status # "succeeded"
             /\ exitCode = "none" /\ said = "none"
    <3>1. CASE \E c \in Children : Fork(c)
      <4>1. PICK c \in Children : Fork(c)
        BY <3>1
      <4>2. /\ c \notin forked /\ c # "root"
            /\ forked' = forked \cup {c} /\ alive' = alive \cup {c}
            /\ inJob' = IF "root" \in inJob THEN inJob \cup {c} ELSE inJob
            /\ exitCode' = exitCode /\ said' = said
        BY <4>1, ExecutorAssumption DEF Fork
      <4>3. c \notin targets /\ c \notin inJob
        BY <1>1, <4>2 DEF TreeInv
      <4>4. TreeInv'
        <5>1. alive' \cup inJob' \cup targets' \subseteq {"root"} \cup forked'
          BY <1>1, <2>1, <4>2 DEF TreeInv
        <5>2. inJob' # {} <=> inJob # {}
          BY <4>2
        <5>3. targets' \cap alive' = targets \cap alive
          BY <2>1, <4>2, <4>3
        <5>4. xpc \in JobClosed => "root" \notin inJob /\ alive' \cap inJob' = {}
          BY <1>1, <2>3, <4>2, <4>3 DEF TreeInv
        <5> QED
          BY <1>1, <2>1, <5>1, <5>2, <5>3, <5>4 DEF TreeInv
      <4> QED
        BY <1>1, <2>1, <2>2, <2>3, <4>2, <4>4
        DEF VerdictInv, WorkspaceInv, LoopLeft, JobClosed
    <3>2. CASE ~\E c \in Children : Fork(c)
      <4>1. alive' \subseteq alive /\ UNCHANGED <<forked, inJob>>
        BY <2>3, <3>2, <1>3 DEF ProgramStep, ChildExits, ForkRefused,
           WriteOutput, RootExits, JobTimeUp
      <4>2. "root" \notin alive' \/ (exitCode' = "none" /\ said' = "none")
        BY <2>3, <3>2, <1>3 DEF ProgramStep, ChildExits, ForkRefused,
           WriteOutput, RootExits, JobTimeUp
      <4>3. TreeInv'
        BY <1>1, <2>1, <4>1 DEF TreeInv, JobClosed
      <4> QED
        BY <1>1, <2>1, <2>2, <2>3, <4>2, <4>3
        DEF VerdictInv, WorkspaceInv, LoopLeft, JobClosed
    <3> QED
      BY <3>1, <3>2
  <2>4. CASE "root" \notin alive
    <3>1. /\ alive' \subseteq alive
          /\ UNCHANGED <<forked, inJob, exitCode, said>>
      BY <1>3, <2>4 DEF ProgramStep, Fork, ChildExits, ForkRefused, WriteOutput,
         RootExits, JobTimeUp
    <3>2. TreeInv'
      BY <1>1, <2>1, <3>1 DEF TreeInv, JobClosed
    <3> QED
      BY <1>1, <2>1, <2>2, <2>4, <3>1, <3>2
      DEF VerdictInv, WorkspaceInv, LoopLeft, JobClosed
  <2> QED
    BY <1>1, <2>3, <2>4 DEF VerdictInv
<1> QED
  BY <1>2, <1>3

\* Up to the polling loop.
LEMMA StartInv ==
    ASSUME ExecutorInv,
           \/ \E name : Prepare(name)
           \/ RefuseWorkload \/ PopenFails \/ Popen \/ Assign
    PROVE  FreshInv' /\ TreeInv' /\ VerdictInv' /\ WorkspaceInv'
<1> USE DEF Contained
<1>1. XTypeOK /\ FreshInv /\ TreeInv /\ VerdictInv /\ WorkspaceInv
  BY DEF ExecutorInv
<1>2. /\ xpc \in {"idle", "prepared", "started"} /\ inJob = {} /\ status = "none"
      /\ ~drained /\ leaked = {}
  BY <1>1 DEF Prepare, RefuseWorkload, PopenFails, Popen, Assign, FreshInv,
     TreeInv, VerdictInv, LoopLeft, JobClosed
<1>3. ASSUME NEW name, Prepare(name)
      PROVE  FreshInv' /\ TreeInv' /\ VerdictInv' /\ WorkspaceInv'
  BY <1>1, <1>2, <1>3 DEF Prepare, procVars, FreshInv, TreeInv, VerdictInv,
     WorkspaceInv, LoopLeft, JobClosed
<1>4. CASE RefuseWorkload \/ PopenFails
  BY <1>1, <1>2, <1>4 DEF RefuseWorkload, PopenFails, procVars, FreshInv,
     TreeInv, VerdictInv, WorkspaceInv, LoopLeft, JobClosed
<1>5. CASE Popen
  BY <1>1, <1>2, <1>5 DEF Popen, FreshInv, TreeInv, VerdictInv, WorkspaceInv,
     LoopLeft, JobClosed
<1>6. CASE Assign
  BY <1>1, <1>2, <1>6 DEF Assign, FreshInv, TreeInv, VerdictInv, WorkspaceInv,
     LoopLeft, JobClosed
<1> QED
  BY <1>3, <1>4, <1>5, <1>6

\* The loop is left with a verdict.
LEMMA PollInv ==
    ASSUME ExecutorInv, xpc = "polling",
           \/ \E v \in {"timeout", "output_limit", "process_limit",
                        "memory_limit", "workspace_limit"} : Verdict(v)
           \/ PollExit
    PROVE  FreshInv' /\ TreeInv' /\ VerdictInv' /\ WorkspaceInv'
<1> USE DEF Contained
<1>1. XTypeOK /\ FreshInv /\ TreeInv /\ VerdictInv /\ WorkspaceInv
  BY DEF ExecutorInv
<1>2. ~drained /\ status = "none" /\ leaked = {}
  BY <1>1 DEF VerdictInv, TreeInv, LoopLeft, JobClosed
<1>3. /\ xpc' = "deciding" /\ UNCHANGED <<procVars, jobHandle, read, targets,
                                          leaked, workspace>>
      /\ status' \in {"timeout", "output_limit", "process_limit", "memory_limit",
                      "workspace_limit", "cpu_limit", "succeeded", "failed"}
  BY DEF Verdict, PollExit, ClassifyResourceExit
<1>4. FreshInv' /\ TreeInv' /\ WorkspaceInv'
  BY <1>1, <1>2, <1>3 DEF procVars, FreshInv, TreeInv, WorkspaceInv, JobClosed
<1>5. /\ status' = "succeeded" => exitCode = "zero"
      /\ drained' => alive = {} /\ read = wrote /\ ~Truncated
  <2>1. CASE \E v \in {"timeout", "output_limit", "process_limit",
                       "memory_limit", "workspace_limit"} : Verdict(v)
    BY <1>2, <2>1 DEF Verdict
  <2>2. CASE PollExit
    <3>1. drained' <=> alive = {}
      BY <2>2 DEF PollExit
    <3>2. ~Truncated /\ (read = wrote \/ alive # {})
      BY <2>2 DEF PollExit
    <3>3. status' = "succeeded" => exitCode = "zero"
      BY <2>2 DEF PollExit, ClassifyResourceExit
    <3> QED
      BY <3>1, <3>2, <3>3
  <2> QED
    BY <2>1, <2>2
<1>6. VerdictInv'
  BY <1>1, <1>3, <1>5 DEF procVars, VerdictInv, LoopLeft, JobClosed, Truncated
<1> QED
  BY <1>4, <1>6
\* The finally clause, the report and a retry.
LEMMA FinallyInv ==
    ASSUME ExecutorInv,
           \/ ListTree \/ \E S \in SUBSET Procs : KillTargets(S)
           \/ CloseJob \/ CleanWorkspace \/ Report \/ Retry
    PROVE  FreshInv' /\ TreeInv' /\ VerdictInv' /\ WorkspaceInv'
<1> USE DEF Contained
<1>1. XTypeOK /\ FreshInv /\ TreeInv /\ VerdictInv /\ WorkspaceInv
  BY DEF ExecutorInv
<1>2. CASE ListTree
  <2>1. leaked = {} /\ status \notin {"none", "error", "refused"}
    BY <1>1, <1>2 DEF ListTree, TreeInv, VerdictInv, LoopLeft, JobClosed
  <2>2. TreeInv'
    BY <1>1, <1>2, <2>1 DEF ListTree, Tree, procVars, TreeInv, JobClosed
  <2> QED
    BY <1>1, <1>2, <2>1, <2>2 DEF ListTree, procVars, FreshInv, VerdictInv,
       WorkspaceInv, LoopLeft, JobClosed, Truncated
<1>3. ASSUME NEW S \in SUBSET Procs, KillTargets(S)
      PROVE  FreshInv' /\ TreeInv' /\ VerdictInv' /\ WorkspaceInv'
  <2>1. status \notin {"none", "error", "refused"} /\ xpc = "listed"
    BY <1>1, <1>3 DEF KillTargets, VerdictInv, LoopLeft, JobClosed
  <2>2. /\ alive' \subseteq alive /\ targets' \cap alive' \subseteq leaked'
        /\ UNCHANGED <<forked, inJob, jobHandle, targets>>
    BY <1>3 DEF KillTargets
  <2>3. TreeInv'
    BY <1>1, <1>3, <2>1, <2>2 DEF KillTargets, TreeInv, JobClosed
  <2>4. /\ exitCode' # "none" \/ said' # "none" => "root" \notin alive'
        /\ exitCode # "none" => exitCode' = exitCode
    <3>1. CASE "root" \in S
      BY <1>1, <1>3, <2>2, <3>1 DEF KillTargets, VerdictInv
    <3>2. CASE "root" \notin S /\ "root" \in targets
      BY <1>3, <3>2 DEF KillTargets
    <3>3. "root" \in targets
      BY <1>1, <2>1 DEF TreeInv
    <3> QED
      BY <3>1, <3>2, <3>3
  <2>5. VerdictInv'
    BY <1>1, <1>3, <2>1, <2>2, <2>4 DEF KillTargets, VerdictInv, LoopLeft,
       JobClosed, Truncated
  <2> QED
    BY <1>1, <1>3, <2>1, <2>3, <2>5 DEF KillTargets, FreshInv, WorkspaceInv
<1>4. CASE CloseJob
  <2>1. status \notin {"none", "error", "refused"} /\ xpc = "killed"
    BY <1>1, <1>4 DEF CloseJob, VerdictInv, LoopLeft, JobClosed
  <2>2. alive' \subseteq alive /\ alive' \cap inJob = {}
    BY <1>1, <1>4, <2>1 DEF CloseJob, TreeInv, JobClosed
  <2>3. TreeInv'
    BY <1>1, <1>4, <2>1, <2>2 DEF CloseJob, TreeInv, JobClosed
  <2>4. VerdictInv'
    BY <1>1, <1>4, <2>1, <2>2 DEF CloseJob, VerdictInv, LoopLeft, JobClosed,
       Truncated
  <2> QED
    BY <1>1, <1>4, <2>1, <2>3, <2>4 DEF CloseJob, FreshInv, WorkspaceInv
<1>5. CASE CleanWorkspace
  <2>1. status \notin {"none", "error", "refused"} /\ xpc = "closed"
    BY <1>1, <1>5 DEF CleanWorkspace, VerdictInv, LoopLeft, JobClosed
  <2>2. FreshInv' /\ TreeInv' /\ VerdictInv'
    BY <1>1, <1>5, <2>1 DEF CleanWorkspace, procVars, FreshInv, TreeInv,
       VerdictInv, LoopLeft, JobClosed, Truncated
  <2>3. status = "succeeded" /\ Contained => ~workspace'
    <3>1. Contained => alive = {}
      BY <1>1, <2>1 DEF TreeInv, JobClosed
    <3> QED
      BY <1>5, <3>1 DEF CleanWorkspace
  <2> QED
    BY <1>5, <2>2, <2>3 DEF CleanWorkspace, procVars, WorkspaceInv
<1>6. CASE Report
  <2>1. status \notin {"none", "error", "refused"} /\ xpc = "cleaned"
    BY <1>1, <1>6 DEF Report, VerdictInv, LoopLeft, JobClosed
  <2>2. /\ status' \notin {"none", "error", "refused"}
        /\ status' = "succeeded" => status = "succeeded" /\ said = "none"
        /\ said = "none" => status' = status
    BY <1>1, <1>6, <2>1 DEF Report, XTypeOK
  <2>3. FreshInv' /\ TreeInv'
    BY <1>1, <1>6, <2>1, <2>2 DEF Report, procVars, FreshInv, TreeInv, JobClosed
  <2>4. VerdictInv'
    BY <1>1, <1>6, <2>1, <2>2 DEF Report, procVars, VerdictInv, LoopLeft,
       JobClosed, Truncated
  <2>5. WorkspaceInv'
    BY <1>1, <1>6, <2>1, <2>2 DEF Report, procVars, WorkspaceInv
  <2> QED
    BY <2>3, <2>4, <2>5
<1>7. CASE Retry
  <2>1. status = "error"
    <3>1. status # "error" /\ status # "refused" => Outcome # "START_FAILURE"
      BY <1>1, <1>7 DEF Outcome, StatusToOutcome, XTypeOK, Retry, VerdictInv,
         LoopLeft, JobClosed
    <3> QED
      BY <1>7, <3>1 DEF Retry, Disposition
  <2> QED
    BY <1>1, <1>7, <2>1 DEF Retry, procVars, FreshInv, TreeInv, VerdictInv,
       WorkspaceInv, LoopLeft, JobClosed
<1> QED
  BY <1>2, <1>3, <1>4, <1>5, <1>6, <1>7

-----------------------------------------------------------------------------
\* ExecutorInv is inductive: no interleaving of the program's forks, output and
\* exits with the executor's polling, clean-up and retries leaves it.
THEOREM ExecutorInductive == XSpec => []ExecutorInv
<1> USE DEF Contained
<1>1. XInit => ExecutorInv
  <2> SUFFICES ASSUME XInit PROVE ExecutorInv
    OBVIOUS
  <2>1. XTypeOK
    <3>1. "LIGHT" \in DOMAIN Handlers
      BY Corpus DEF Names
    <3>2. 0 \in 0..MaxExecutions /\ 0 \in 0..(OutputCap + 1)
      BY ExecutorAssumption
    <3>3. workspace \in BOOLEAN /\ drained \in BOOLEAN
      BY DEF XInit
    <3>4. /\ alive \subseteq Procs /\ forked \subseteq Children
          /\ inJob \subseteq Procs /\ targets \subseteq Procs
          /\ leaked \subseteq targets
      BY DEF XInit
    <3>5. /\ program \in DOMAIN Handlers /\ attempt \in 0..MaxExecutions
          /\ wrote \in 0..(OutputCap + 1) /\ read \in 0..wrote
      BY <3>1, <3>2 DEF XInit
    <3>6. /\ xpc = "idle" /\ jobHandle = "none" /\ said = "none"
          /\ exitCode = "none" /\ status = "none"
      BY DEF XInit
    <3> QED
      BY <3>3, <3>4, <3>5, <3>6 DEF XTypeOK
  <2>2. FreshInv /\ TreeInv /\ VerdictInv /\ WorkspaceInv
    BY DEF XInit, FreshInv, TreeInv, VerdictInv, WorkspaceInv, LoopLeft, JobClosed
  <2> QED
    BY <2>1, <2>2 DEF ExecutorInv
<1>2. ExecutorInv /\ [XNext]_xVars => ExecutorInv'
  <2> SUFFICES ASSUME ExecutorInv, [XNext]_xVars PROVE ExecutorInv'
    OBVIOUS
  <2>1. CASE UNCHANGED xVars
    BY <2>1 DEF xVars, procVars, ExecutorInv, XTypeOK, FreshInv, TreeInv,
       VerdictInv, WorkspaceInv, Truncated
  <2>2. CASE ProgramStep
    BY <2>2, ProgramTypes, ProgramInv DEF ExecutorInv
  <2>3. CASE ExecutorStep
    <3>1. FreshInv' /\ TreeInv' /\ VerdictInv' /\ WorkspaceInv'
      BY <2>3, StartInv, PollInv, FinallyInv
      DEF ExecutorStep, PollDeadline, PollOutput, PollProcesses, PollUsage,
          PollExit
    <3> QED
      BY <2>3, <3>1, ExecutorTypes DEF ExecutorInv
  <2> QED
    BY <2>1, <2>2, <2>3 DEF XNext
<1> QED
  BY <1>1, <1>2, PTL DEF XSpec

\* Where every process is in the job nothing survives the clean-up, and a
\* success leaves no workspace; what was listed ends or is reported; and a
\* score is given only to a program that exited with 0, reported no limit and
\* has no reported survivor: for every program of the corpus, limit and host.
THEOREM ExecutionsAccounted == XSpec => []ExecutionAccounted
<1>1. ExecutorInv => ExecutionAccounted
  <2> SUFFICES ASSUME ExecutorInv PROVE ExecutionAccounted
    OBVIOUS
  <2>1. ListedAreReported
    BY DEF ExecutorInv, TreeInv, ListedAreReported, JobClosed
  <2>2. xpc = "returned" /\ Disposition = "succeeded"
          => status = "succeeded" /\ leaked = {}
    <3> SUFFICES ASSUME xpc = "returned", Disposition = "succeeded"
                 PROVE  status = "succeeded" /\ leaked = {}
      OBVIOUS
    <3>1. Outcome = "SUCCESS" /\ status # "refused"
      BY DEF Disposition
    <3> QED
      BY <3>1 DEF Outcome, StatusToOutcome, ExecutorInv, XTypeOK, VerdictInv,
         LoopLeft, JobClosed
  <2>3. ContainedIsClean
    BY <2>2 DEF ExecutorInv, TreeInv, WorkspaceInv, ContainedIsClean, Contained,
       JobClosed
  <2>4. ScoreIsEarned
    BY <2>2 DEF ExecutorInv, VerdictInv, WorkspaceInv, ScoreIsEarned
  <2> QED
    BY <2>1, <2>3, <2>4 DEF ExecutionAccounted
<1> QED
  BY <1>1, ExecutorInductive, PTL
=============================================================================
