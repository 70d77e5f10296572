-------------------------- MODULE MCEvaluationQueue --------------------------
(* A small instance of EvaluationQueue for TLC: rows that are executed. *)
EXTENDS EvaluationQueue

SyntheticKinds == {[cls |-> "light", mode |-> "synthetic_execution"]}

FixedLimits == {[mw |-> 2, mh |-> 1]}
=============================================================================
