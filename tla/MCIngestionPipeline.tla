------------------------- MODULE MCIngestionPipeline -------------------------
(* Small instances of IngestionPipeline for TLC. *)
EXTENDS IngestionPipeline, TLC

WorkerSymmetry == Permutations(Workers)
JobSymmetry    == Permutations(Jobs)
Symmetry       == WorkerSymmetry \cup JobSymmetry
=============================================================================
