----------------------------- MODULE MCProgress -----------------------------
(***************************************************************************)
(* Small instances of the components whose work must come to an end.  As   *)
(* in MCComponents, `focus` names the component that moves.  Each          *)
(* component's promise is checked under its own fairness: a component that *)
(* is not in focus takes no step, so its fairness, and with it the         *)
(* promise's premise, fails there.                                         *)
(***************************************************************************)
EXTENDS IngestionPipeline, RequestCoalescer, InteractiveFeedback

VARIABLE focus

progressVars == <<vars, coVars, fbVars, focus>>

ProgressInit ==
    /\ focus \in {"ingestion", "coalescer", "feedback"}
    /\ Init /\ CoInit /\ FbInit

ProgressNext ==
    /\ UNCHANGED focus
    /\ \/ focus = "ingestion" /\ Next /\ UNCHANGED <<coVars, fbVars>>
       \/ focus = "coalescer" /\ CoNext /\ UNCHANGED <<vars, fbVars>>
       \/ focus = "feedback" /\ FbNext /\ UNCHANGED <<vars, coVars>>

ProgressSpec == ProgressInit /\ [][ProgressNext]_progressVars

-----------------------------------------------------------------------------
\* Every component's variables stay in their types, bounds included.
ProgressTypes == CoTypeOK /\ FbTypeOK

\* EventuallyDecided for workers that go on: every ingestion job is decided.
JobsDecided == WorkersGoOn => EventuallyDecided

\* JoinersReleased for computations that end.
JoinersGoOn == CoFairness => JoinersReleased

\* CalmTrafficRecovers for a publisher and a worker that go on.
CalmRecovers == FbFairness => CalmTrafficRecovers
=============================================================================
