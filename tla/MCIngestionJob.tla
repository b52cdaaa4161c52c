--------------------------- MODULE MCIngestionJob ---------------------------
(* Model values and symmetry for the runs of IngestionJob.                 *)
EXTENDS IngestionJob, TLC

Symmetry == Permutations(Workers)
=============================================================================
