-------------------------- MODULE CompositionProofs --------------------------
(***************************************************************************)
(* The components that MCComponents puts side by side behave there as they *)
(* do on their own, so what is proved of each holds of the composition.    *)
(***************************************************************************)
EXTENDS MCComponents, ComponentProofs, IngestionProofs

\* A step of the composition is a step of one component, which the others do
\* not see.
LEMMA ComponentSteps ==
    ASSUME [ComponentsNext]_componentVars
    PROVE  /\ [Next]_vars /\ [CkNext]_ckVars /\ [LexNext]_lexVars
           /\ [PNext]_pVars /\ [ApiNext]_apiVars /\ [XNext]_xVars
           /\ [HNext]_hVars
<1>1. CASE ComponentsNext
  BY <1>1 DEF ComponentsNext
<1>2. CASE UNCHANGED componentVars
  BY <1>2 DEF componentVars
<1> QED
  BY <1>1, <1>2

\* The composition implements the specification of every component the
\* theorems are about.
THEOREM CompositionImplements ==
    ComponentsSpec =>
        Spec /\ CkSpec /\ LexSpec /\ PSpec /\ ApiSpec /\ XSpec /\ HSpec
<1>1. ComponentsInit => /\ Init /\ CkInit /\ LexInit /\ PInit /\ ApiInit
                        /\ XInit /\ HInit
  BY DEF ComponentsInit
<1> QED
  BY <1>1, ComponentSteps, PTL
     DEF ComponentsSpec, Spec, CkSpec, LexSpec, PSpec, ApiSpec, XSpec, HSpec

\* Every handler writes only the statuses, stages and replies its callers
\* know: the queues, runners, requests and executions keep their types.
THEOREM ComponentsTypeCorrect == ComponentsSpec => []ComponentTypes
<1>1. PInv => PTypeOK
  BY DEF PInv
<1>2. ApiInv => ApiTypeOK
  BY DEF ApiInv
<1>3. ExecutorInv => XTypeOK
  BY DEF ExecutorInv
<1>4. TypeOK /\ PTypeOK /\ ApiTypeOK /\ XTypeOK => ComponentTypes
  BY DEF ComponentTypes
<1> QED
  BY <1>1, <1>2, <1>3, <1>4, CompositionImplements, IngestionTypeCorrect,
     ProgressiveInvariant, ApiInvariant, ExecutorInductive, PTL

\* What is proved of the components one by one holds of the instance that is
\* model-checked, whatever its constants: all of its safety properties but
\* that of the migrations, which have no parameter.
THEOREM ComponentsSafe ==
    ComponentsSpec =>
        /\ [](FencedByWorkerId /\ ExecutionAccounted /\ HarnessIsolates)
        /\ [](DecidedAsTruth /\ StagesAccounted)
        /\ [](ChunkingFaithful /\ RetrievalSound)
        /\ [](AnswersAreAuthorized /\ ViewsAreOfTheQueue)
        /\ ImplementsLifecycle
  BY CompositionImplements, IngestionFenced, ExecutionsAccounted,
     HarnessIsolation, ProgressiveDecidesTruth, ProgressiveAccountsStages,
     ChunkingIsFaithful, RetrievalIsSound, AnswersAuthorized, ViewsFaithful,
     PipelineImplementsLifecycle, PTL
=============================================================================
