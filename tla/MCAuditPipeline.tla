--------------------------- MODULE MCAuditPipeline ---------------------------
(* Symmetry for the runs of AuditPipeline.                                 *)
EXTENDS AuditPipeline, TLC

Symmetry == Permutations(Events)
=============================================================================
