-------------------------- MODULE MCAdminLifecycle --------------------------
(* Symmetry for the run of AdminLifecycle.                                 *)
EXTENDS AdminLifecycle, TLC

Symmetry == Permutations(Requests) \cup Permutations(Users \ {Bootstrap})
=============================================================================
