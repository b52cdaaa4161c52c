----------------------------- MODULE MCChatTurn -----------------------------
(* Symmetry for the runs of ChatTurn.                                      *)
EXTENDS ChatTurn, TLC

Symmetry == Permutations(Gens) \cup Permutations(Processes) \cup Permutations(Requests)
=============================================================================
