------------------------- MODULE EvaluationLifecycle -------------------------
(***************************************************************************)
(* What the evaluation plane promises about each accepted evaluation,      *)
(* without workers, claims, locks or processes: the state machine of       *)
(* ALLOWED_TRANSITIONS, at most MaxRunning evaluations RUNNING at once and *)
(* at most MaxTries starts of each.                                        *)
(***************************************************************************)
EXTENDS Naturals, FiniteSets

CONSTANTS Evals, MaxRunning, MaxTries

VARIABLES
    status,  \* EvaluationStatus, "none" before the submission is accepted
    tries    \* how often it has been started

lifecycleVars == <<status, tries>>

InProgress == {e \in Evals : status[e] = "running"}

LInit == /\ status = [e \in Evals |-> "none"]
         /\ tries = [e \in Evals |-> 0]

Accept(e) == /\ status[e] = "none"
             /\ status' = [status EXCEPT ![e] = "queued"]
             /\ UNCHANGED tries

\* QUEUED -> RUNNING
Start(e) == /\ status[e] = "queued"
            /\ Cardinality(InProgress) < MaxRunning
            /\ tries[e] < MaxTries
            /\ status' = [status EXCEPT ![e] = "running"]
            /\ tries' = [tries EXCEPT ![e] = tries[e] + 1]

\* RUNNING -> SUCCEEDED, FAILED or back to QUEUED, for the evaluations S
Settle(S) == /\ S # {} /\ S \subseteq InProgress
             /\ \E to \in [S -> {"succeeded", "failed", "queued"}] :
                  status' = [e \in Evals |-> IF e \in S THEN to[e]
                                            ELSE status[e]]
             /\ UNCHANGED tries

LNext == \/ \E e \in Evals : Accept(e) \/ Start(e)
         \/ \E S \in SUBSET Evals : Settle(S)

LSpec == LInit /\ [][LNext]_lifecycleVars
=============================================================================
