----------------------------- MODULE MCLiveness -----------------------------
(***************************************************************************)
(* Progress of the evaluation queue and of its runtime; `focus` names the  *)
(* instance a behaviour belongs to:                                        *)
(*   queue    two HEAVY rows and a LIGHT one behind them, two workers that *)
(*            always get the full budget;                                  *)
(*   runtime  two HEAVY rows that are executed, once, by one worker whose  *)
(*            host changes in every way.                                   *)
(* Each promise is checked under its own fairness.                         *)
(***************************************************************************)
EXTENDS MCResourceRuntime

CONSTANT Alone  \* the worker of the runtime instance

VARIABLE focus

livenessVars == <<allVars, focus>>

LivenessKinds == [cls : {"heavy", "light"}, mode : {"legacy"}]
                 \cup [cls : {"heavy"}, mode : {"synthetic_execution"}]

Once == INSTANCE ResourceRuntime WITH Workers <- {Alone}, MaxAttempts <- 1

\* Row e is submitted in this step.
Arrives(e) == row[e].status = "none" /\ row'[e].status # "none"

\* Two HEAVY rows and a LIGHT one.
Mixed ==
    \A e \in Evals : Arrives(e) =>
        /\ row'[e].mode = "legacy"
        /\ row'[e].cls = IF e = 3 THEN "light" ELSE "heavy"

\* Two HEAVY rows that are executed in processes.
Executed ==
    \A e \in Evals : Arrives(e) =>
        e # 3 /\ row'[e].mode = "synthetic_execution"

FullBudget ==
    \A w \in Workers : pc'[w] = "claim" =>
        lim'[w] = [mw |-> MaxWorkers, mh |-> MaxHeavy]

LivenessInit ==
    /\ RuntimeInit
    /\ focus \in {"queue", "runtime"}
    /\ \A w \in Workers : ~(focus = "runtime" /\ w = Alone) => host[w] = Quiet

LivenessNext ==
    /\ UNCHANGED focus
    /\ \/ /\ focus = "queue"
          /\ Next
          /\ Mixed /\ FullBudget
          /\ UNCHANGED runtimeVars
       \/ /\ focus = "runtime"
          /\ Once!RuntimeNext
          /\ Executed

LivenessSpec == LivenessInit /\ [][LivenessNext]_livenessVars

-----------------------------------------------------------------------------
\* EventuallyDecided for workers that go on, whatever the order in which HEAVY
\* and LIGHT rows arrive and pass each other, and wherever a worker crashes.
QueueDecides == focus = "queue" /\ Fairness => EventuallyDecided

\* DecidedOnceCalm for a worker and a runtime that go on.
RuntimeDecides ==
    focus = "runtime" /\ Once!RuntimeFairness => Once!DecidedOnceCalm
=============================================================================
