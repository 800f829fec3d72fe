---------------------------- MODULE MCGraphBuild ----------------------------
(* Symmetry of the model-checked instance of GraphBuild.                   *)
EXTENDS GraphBuild, TLC

FileAndLabelSymmetry == Permutations(Files) \cup Permutations(Labels)
=============================================================================
