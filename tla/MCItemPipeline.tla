--------------------------- MODULE MCItemPipeline ---------------------------
(***************************************************************************)
(* Instances of the item pipeline.                                         *)
(***************************************************************************)
EXTENDS ItemPipeline, TLC

\* Items are interchangeable, and so are the workers of a pool.
Symmetry == Permutations(Items) \cup Permutations(SubWorkers)
              \cup Permutations(BackupWorkers)
=============================================================================
