---------------------------- MODULE MCComponents ----------------------------
(***************************************************************************)
(* One small instance of every component that does not share state with    *)
(* the others in the model.  `focus` names the component that moves in a   *)
(* behaviour; the others stay in their initial states, so the reachable    *)
(* states are those of each component on its own.                          *)
(***************************************************************************)
EXTENDS IngestionPipeline, Chunking, LexicalRetrieval, SchemaMigrations,
        ProgressiveEvaluation, ParticipantApi, ProcessExecutor,
        ExperimentHarness, TLC

VARIABLE focus

componentVars == <<vars, ckVars, lexVars, schemaVars, pVars, apiVars, xVars,
                   hVars, focus>>

Components == {"ingestion", "chunking", "retrieval", "schema", "progressive",
               "api", "executor", "harness"}

\* evaluation profiles of chunks: exact, boosted and plain matches
RetrievalProfiles == {Profile(TRUE, 5, TRUE, TRUE, TRUE, TRUE),
                      Profile(TRUE, 12, FALSE, FALSE, FALSE, FALSE),
                      Profile(TRUE, 4, FALSE, TRUE, FALSE, FALSE)}

ComponentsInit ==
    /\ focus \in Components
    /\ Init /\ CkInit /\ LexInit /\ SchemaInit /\ PInit /\ ApiInit
    /\ XInit /\ HInit
    /\ focus = "harness" \/ script = CHOOSE s \in Scripts : TRUE

ComponentsNext ==
    /\ UNCHANGED focus
    /\ \/ /\ focus = "ingestion" /\ Next
          /\ UNCHANGED <<ckVars, lexVars, schemaVars, pVars, apiVars, xVars, hVars>>
       \/ /\ focus = "chunking" /\ CkNext
          /\ UNCHANGED <<vars, lexVars, schemaVars, pVars, apiVars, xVars, hVars>>
       \/ /\ focus = "retrieval" /\ LexNext
          /\ UNCHANGED <<vars, ckVars, schemaVars, pVars, apiVars, xVars, hVars>>
       \/ /\ focus = "schema" /\ SchemaNext
          /\ UNCHANGED <<vars, ckVars, lexVars, pVars, apiVars, xVars, hVars>>
       \/ /\ focus = "progressive" /\ PNext
          /\ UNCHANGED <<vars, ckVars, lexVars, schemaVars, apiVars, xVars, hVars>>
       \/ /\ focus = "api" /\ ApiNext
          /\ UNCHANGED <<vars, ckVars, lexVars, schemaVars, pVars, xVars, hVars>>
       \/ /\ focus = "executor" /\ XNext
          /\ UNCHANGED <<vars, ckVars, lexVars, schemaVars, pVars, apiVars, hVars>>
       \/ /\ focus = "harness" /\ HNext
          /\ UNCHANGED <<vars, ckVars, lexVars, schemaVars, pVars, apiVars, xVars>>

ComponentsSpec == ComponentsInit /\ [][ComponentsNext]_componentVars

-----------------------------------------------------------------------------
\* Every component's variables stay in their types: each handler writes only
\* the statuses, stages and replies its callers know.
ComponentTypes == TypeOK /\ PTypeOK /\ ApiTypeOK /\ XTypeOK

Symmetry == Permutations(Workers) \cup Permutations(Jobs)
=============================================================================
