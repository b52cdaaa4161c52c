----------------------- MODULE MCGenerationPublication -----------------------
(* Instances of GenerationPublication for TLC. *)
EXTENDS GenerationPublication, TLC

\* Generations uploaded the same way are interchangeable, and so are the slots.
Symmetry == Permutations(Reviewed) \cup Permutations(Gens \ Reviewed)
            \cup Permutations(Requests)
=============================================================================
