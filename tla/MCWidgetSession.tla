-------------------------- MODULE MCWidgetSession --------------------------
(* Symmetry for the run of WidgetSession.                                  *)
EXTENDS WidgetSession, TLC

Symmetry == Permutations(Requests)
=============================================================================
