---------------------------- MODULE MCEvaluation ----------------------------
(***************************************************************************)
(* The safety of the evaluation queue and of its runtime on three small    *)
(* instances; `focus` names the one a behaviour belongs to:                *)
(*   scheduling  three rows, HEAVY and LIGHT, polls that pass any limits;  *)
(*   execution   two rows run in processes of their own or in stages;      *)
(*   runtime     two rows, workers whose limits come from their ticks.     *)
(* Where the runtime is not in focus its controllers stay wide open.       *)
(***************************************************************************)
EXTENDS MCResourceRuntime, BypassHistory

VARIABLE focus

evaluationVars == <<allVars, streak, focus>>

Legacy(c) == [cls |-> c, mode |-> "legacy"]
SyntheticRow == [cls |-> "light", mode |-> "synthetic_execution"]
Adaptive  == [cls |-> "light", mode |-> "resource_aware_adaptive"]

EvaluationKinds == {Legacy("light"), Legacy("heavy"), SyntheticRow, Adaptive}

\* What each row may ask for: the classes of the first two rows are free, a
\* LIGHT row is behind them; one row is executed in a process, another in any
\* way; under the runtime a LIGHT row may pass a HEAVY one.
Asks ==
    [scheduling |-> <<{Legacy("light"), Legacy("heavy")},
                      {Legacy("light"), Legacy("heavy")}, {Legacy("light")}>>,
     execution  |-> <<{SyntheticRow}, {SyntheticRow, Adaptive}, {}>>,
     runtime    |-> <<{Legacy("heavy")}, {Legacy("light")}, {}>>]

RuntimeOpen ==
    /\ host = [w \in Workers |-> Quiet]
    /\ eff = [w \in Workers |-> MaxWorkers]
    /\ cooling = [w \in Workers |-> FALSE]
    /\ pressure = [w \in Workers |-> "normal"]
    /\ tick = [w \in Workers |-> NoTick]

EvaluationInit ==
    /\ HistInit
    /\ \/ focus = "runtime" /\ RuntimeInit
       \/ focus \in {"scheduling", "execution"} /\ RuntimeOpen

RowsInFocus ==
    \A e \in Evals : row[e].status = "none" /\ row'[e].status # "none" =>
        [cls |-> row'[e].cls, mode |-> row'[e].mode] \in Asks[focus][e]

\* Two slots, with or without HEAVY starts; with them for executions.
LimitsInFocus ==
    \A w \in Workers : pc'[w] = "claim" =>
        /\ lim'[w].mw = MaxWorkers
        /\ focus = "execution" => lim'[w].mh = MaxHeavy

\* Under the runtime an idle worker may restart, none crashes over a claim, and
\* no RUNNING row is given up.
WorkersStayUp ==
    /\ crashes' = crashes
    /\ \A e \in Evals : row[e].status = "running" => row'[e].status # "queued"

EvaluationNext ==
    /\ UNCHANGED focus
    /\ \/ /\ focus # "runtime"
          /\ HistNext
          /\ RowsInFocus /\ LimitsInFocus
          /\ UNCHANGED runtimeVars
       \/ /\ focus = "runtime"
          /\ RuntimeNext
          /\ RowsInFocus /\ WorkersStayUp
          /\ UNCHANGED streak

EvaluationSpec == EvaluationInit /\ [][EvaluationNext]_evaluationVars

WorkerSymmetry == Permutations(Workers)
=============================================================================
