------------------------- MODULE MCRequirementQueue -------------------------
(* Instances of RequirementQueue for TLC. *)
EXTENDS RequirementQueue, TLC

\* Ids are opaque: any permutation of them maps behaviours to behaviours.
QueueSymmetry == Permutations(Requirements) \cup Permutations(Sessions) \cup Permutations(Tags)
=============================================================================
